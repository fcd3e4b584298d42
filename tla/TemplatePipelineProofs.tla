----------------------- MODULE TemplatePipelineProofs -----------------------
(***************************************************************************)
(* Theorems about TemplatePipeline, for any values, blobs, templates and   *)
(* connections.                                                            *)
(***************************************************************************)
EXTENDS TemplatePipeline, WellFoundedInduction, TLAPS

-----------------------------------------------------------------------------
(* The inductive invariant. *)

\* The coinbase splits that are held anywhere.
Splits == {coinbaser, driver.blob, published.blob}

\* The tag and the split of the connection that is up.
TagCurrent ==
  /\ connected => epoch > 0
  /\ connected /\ configured => pool_tag = epoch
  /\ connected /\ requested => configured
  /\ \A b \in Splits : b.epoch <= epoch
  /\ \A b \in Splits : connected /\ b.asked /\ b.epoch = epoch => configured

\* A split pays no more than the value the pool's answer was about.
Pays == \A b \in Splits : SumOf(b.outputs) \in 0 .. b.value

IInv == TagWithBlob /\ TagCurrent /\ Pays

-----------------------------------------------------------------------------
(* What parse_v2_blob returns. *)

\* Nothing sums to nothing.
LEMMA EmptySum == SumOf(<<>>) = 0
<1> DEFINE D == DOMAIN <<>>
           Step(iter, s) == IF s = {} THEN 0
                            ELSE LET x == CHOOSE y \in s : TRUE IN <<>>[x] + iter[s \ {x}]
           Iter == CHOOSE iter : iter = [s \in SUBSET D |-> Step(iter, s)]
<1>1. D = {}
  OBVIOUS
<1>2. \E iter : iter = [s \in SUBSET D |-> Step(iter, s)]
  <2> DEFINE zero == [s \in SUBSET D |-> 0]
  <2>1. \A s \in SUBSET D : s = {}
    BY <1>1
  <2>2. zero = [s \in SUBSET D |-> Step(zero, s)]
    BY <2>1
  <2> QED
    BY <2>2
<1>3. Iter = [s \in SUBSET D |-> Step(Iter, s)]
  BY <1>2
<1>4. Iter[D] = 0
  BY <1>1, <1>3
<1>5. SumOf(<<>>) = Iter[D]
  BY DEF SumOf, FoldSeq, FoldFunction, FoldFunctionOnSet, MapThenFoldSet
<1> QED
  BY <1>4, <1>5

\* Every set of natural numbers that is not empty has a least element.
LEMMA Least ==
  ASSUME NEW T \in SUBSET Nat, T # {}
  PROVE  \E x \in T : \A y \in T : x <= y
<1> DEFINE R == {ss \in Nat \X Nat : ss[1] < ss[2]}
<1>1. IsWellFoundedOn(R, Nat)
  BY NatLessThanWellFounded DEF OpToRel
<1> HIDE DEF R
<1>2. PICK x \in T : \A y \in T : ~ (<<y, x>> \in R)
  BY <1>1, WFMin
<1>3. ASSUME NEW y \in T PROVE x <= y
  <2>1. y < x => <<y, x>> \in R
    BY DEF R
  <2> QED
    BY <1>2, <2>1
<1> QED
  BY <1>3

\* The split is a prefix of what the pool offered, within the cap and the value.
LEMMA ParseFits ==
  ASSUME NEW outs \in Seq(Values), NEW value \in Nat
  PROVE  /\ Parse(outs, value) \in Seq(Values) /\ Len(Parse(outs, value)) <= MaxOutputs
         /\ SumOf(Parse(outs, value)) \in 0 .. value
<1> DEFINE Fits(k) == k <= Len(outs) /\ k <= MaxOutputs /\ SumOf(SubSeq(outs, 1, k)) \in 0 .. value
           T == {k \in Nat : ~ Fits(k)}
           chosen == CHOOSE k \in 0 .. Len(outs) : Fits(k) /\ ~ Fits(k + 1)
<1>0. Len(outs) \in Nat /\ MaxOutputs \in Nat
  BY PipelineAssumption
<1>1. Fits(0)
  <2>1. SubSeq(outs, 1, 0) = <<>>
    OBVIOUS
  <2>2. SumOf(SubSeq(outs, 1, 0)) = 0
    BY <2>1, EmptySum
  <2> QED
    BY <1>0, <2>2
<1>2. Len(outs) + 1 \in T
  BY <1>0
<1>3. PICK x \in T : \A y \in T : x <= y
  <2>1. T \in SUBSET Nat /\ T # {}
    BY <1>2
  <2> HIDE DEF T
  <2> QED
    BY <2>1, Least
<1>4. x \in Nat /\ x # 0 /\ ~ Fits(x)
  BY <1>1, <1>3
<1>5. x - 1 \in Nat /\ Fits(x - 1) /\ ~ Fits((x - 1) + 1)
  <2>1. x - 1 \in Nat /\ (x - 1) + 1 = x /\ ~ (x <= x - 1)
    BY <1>4
  <2>2. x - 1 \notin T
    BY <1>3, <2>1
  <2> QED
    BY <1>4, <2>1, <2>2
<1>6. x - 1 \in 0 .. Len(outs)
  BY <1>0, <1>5
<1>7. \E k \in 0 .. Len(outs) : Fits(k) /\ ~ Fits(k + 1)
  <2> HIDE DEF Fits
  <2> QED
    BY <1>5, <1>6
<1>8. chosen \in 0 .. Len(outs) /\ Fits(chosen)
  <2> HIDE DEF Fits
  <2> QED
    BY <1>7
<1>9. Parse(outs, value) = SubSeq(outs, 1, chosen)
  BY DEF Parse
<1> HIDE DEF chosen
<1>10. SubSeq(outs, 1, chosen) \in Seq(Values) /\ Len(SubSeq(outs, 1, chosen)) = chosen
  BY <1>0, <1>8
<1> QED
  BY <1>8, <1>9, <1>10

-----------------------------------------------------------------------------
(* Steps. *)

\* Before anything is there.
LEMMA NothingType == NoTemplate \in Template /\ NoBlob \in Blob
<1>1. <<>> \in Seq(Values)
  OBVIOUS
<1> QED
  BY <1>1, PipelineAssumption DEF NoTemplate, Template, NoBlob, Blob

\* The fields of a split.
LEMMA SplitType ==
  ASSUME TypeOK
  PROVE  /\ Splits \subseteq Blob
         /\ \A b \in Splits : b.epoch \in Nat /\ b.asked \in BOOLEAN
<1>1. coinbaser \in Blob /\ driver.blob \in Blob /\ published.blob \in Blob
  BY DEF TypeOK
<1>2. \A b \in Blob : b.epoch \in Nat /\ b.asked \in BOOLEAN
  BY PipelineAssumption DEF Blob
<1> QED
  BY <1>1, <1>2 DEF Splits

LEMMA NextType == TypeOK /\ [Next]_vars => TypeOK'
<1> SUFFICES ASSUME TypeOK, [Next]_vars PROVE TypeOK'
  OBVIOUS
<1>0. /\ Values \subseteq Nat /\ MaxTemplates \in Nat /\ MaxEpoch \in Nat
      /\ node \in Template /\ template \in Template /\ requested \in BOOLEAN
      /\ coinbaser \in Blob /\ epoch \in 0 .. MaxEpoch /\ pool_tag \in 0 .. MaxEpoch
      /\ Waiting \in [phase : {"wait", "template", "coinbaser", "publish"},
                      template : Template, blob : Blob]
  BY PipelineAssumption, NothingType DEF TypeOK, Waiting
<1> USE DEF nodeVars, connVars
<1>1. CASE UNCHANGED vars
  BY <1>1 DEF TypeOK, vars
<1>2. ASSUME NEW value \in Values, NodeTemplate(value) PROVE TypeOK'
  <2>1. [n |-> node.n + 1, value |-> value] \in Template
    BY <1>0, <1>2 DEF Template, NodeTemplate
  <2> QED
    BY <1>2, <2>1 DEF TypeOK, NodeTemplate
<1>3. CASE FetchOk \/ FetchErr \/ BackoffEnd
  BY <1>3 DEF TypeOK, FetchOk, FetchErr, BackoffEnd
<1>4. CASE Connect
  <2>1. epoch + 1 \in 0 .. MaxEpoch
    BY <1>0, <1>4 DEF Connect
  <2> QED
    BY <1>0, <1>4, <2>1 DEF TypeOK, Connect
<1>5. CASE Config
  BY <1>0, <1>5 DEF TypeOK, Config
<1>6. CASE Request
  BY <1>0, <1>6 DEF TypeOK, Request
<1>7. CASE Disconnect
  <2>1. 0 \in 0 .. MaxEpoch
    BY <1>0
  <2> QED
    BY <1>7, <2>1 DEF TypeOK, Disconnect
<1>8. ASSUME NEW outs \in Offers, NEW value \in Values, Respond(outs, value) PROVE TypeOK'
  <2>1. outs \in Seq(Values) /\ value \in Nat
    BY PipelineAssumption
  <2>2. /\ Parse(outs, value) \in Seq(Values)
        /\ Len(Parse(outs, value)) <= MaxOutputs
    BY <2>1, ParseFits
  <2>3. coinbaser' \in Blob /\ Len(coinbaser'.outputs) <= MaxOutputs
    BY <1>0, <1>8, <2>2 DEF Respond, Blob
  <2> QED
    BY <1>8, <2>3 DEF TypeOK, Respond
<1>9. CASE DriverStep
  <2>1. driver' \in [phase : {"wait", "template", "coinbaser", "publish"},
                     template : Template, blob : Blob]
    BY <1>0, <1>9 DEF TypeOK, DriverStep, WakeTemplate, WakeCoinbaser, ReadTemplate,
                      ReadCoinbaser, Publish
  <2>2. published' \in [template : Template, blob : Blob, tag : 0 .. MaxEpoch]
    BY <1>0, <1>9 DEF TypeOK, DriverStep, WakeTemplate, WakeCoinbaser, ReadTemplate,
                      ReadCoinbaser, Publish
  <2> QED
    BY <1>9, <2>1, <2>2 DEF TypeOK, DriverStep, WakeTemplate, WakeCoinbaser, ReadTemplate,
                            ReadCoinbaser, Publish
<1> QED
  BY <1>1, <1>2, <1>3, <1>4, <1>5, <1>6, <1>7, <1>8, <1>9 DEF Next

\* What the pool sends, asked or not.
LEMMA RespondStep ==
  ASSUME IInv, NEW outs \in Offers, NEW value \in Values, Respond(outs, value)
  PROVE  IInv'
<1> DEFINE split == Parse(outs, value)
<1>0. TypeOK' /\ TypeOK /\ TagWithBlob /\ TagCurrent /\ Pays
  BY NextType DEF IInv, TagWithBlob, Next
<1>1. /\ connected
      /\ coinbaser' = [epoch |-> epoch, asked |-> requested, value |-> value, outputs |-> split]
      /\ UNCHANGED <<nodeVars, connVars, pool_tag, driver, published>>
  BY DEF Respond
<1>2. SumOf(split) \in 0 .. value
  <2>1. outs \in Seq(Values) /\ value \in Nat
    BY PipelineAssumption
  <2> QED
    BY <2>1, ParseFits
<1> HIDE DEF split
<1>3. coinbaser'.epoch = epoch /\ coinbaser'.asked = requested /\ coinbaser'.value = value
      /\ coinbaser'.outputs = split
  BY <1>1
<1>4. Splits' \subseteq Splits \cup {coinbaser'}
  BY <1>1 DEF Splits
<1>5. Pays'
  BY <1>0, <1>2, <1>3, <1>4 DEF Pays
<1>6. TagCurrent'
  <2>1. epoch \in Nat
    BY <1>0, PipelineAssumption DEF TypeOK
  <2> QED
    BY <1>0, <1>1, <1>3, <1>4, <2>1 DEF TagCurrent, connVars
<1>7. TagWithBlob'
  BY <1>0, <1>1 DEF TagWithBlob, connVars
<1> QED
  BY <1>5, <1>6, <1>7 DEF IInv

\* The other steps hand on what there is.
LEMMA NextIInv == IInv /\ [Next]_vars => IInv'
<1> SUFFICES ASSUME IInv, [Next]_vars PROVE IInv'
  OBVIOUS
<1>0. TypeOK' /\ TypeOK /\ TagWithBlob /\ TagCurrent /\ Pays
  BY NextType DEF IInv, TagWithBlob
<1>1. epoch \in Nat /\ \A b \in Splits : b.epoch \in Nat /\ b.epoch <= epoch
  BY <1>0, SplitType, PipelineAssumption DEF TagCurrent, TypeOK
<1>2. published.blob \in Splits /\ driver.blob \in Splits
  BY DEF Splits
<1> USE DEF nodeVars, connVars
<1>3. CASE \/ FetchOk \/ FetchErr \/ BackoffEnd \/ UNCHANGED vars
           \/ \E value \in Values : NodeTemplate(value)
  <2>1. Splits' = Splits /\ UNCHANGED <<connVars, pool_tag, published>>
    BY <1>3 DEF FetchOk, FetchErr, BackoffEnd, NodeTemplate, vars, Splits
  <2>2. Pays' /\ TagCurrent'
    BY <1>0, <2>1 DEF Pays, TagCurrent
  <2> QED
    BY <1>0, <2>1, <2>2 DEF IInv, TagWithBlob
<1>4. CASE Connect
  <2>1. /\ Splits' = Splits /\ UNCHANGED published
        /\ epoch' = epoch + 1 /\ configured' = FALSE /\ requested' = FALSE
    BY <1>4 DEF Connect, Splits
  <2>2. \A b \in Splits : b.epoch < epoch'
    BY <1>1, <2>1
  <2>3. TagCurrent' /\ Pays'
    BY <1>0, <1>1, <2>1, <2>2 DEF TagCurrent, Pays
  <2>4. published'.blob.epoch # epoch'
    BY <1>1, <1>2, <2>1, <2>2
  <2> QED
    BY <1>0, <2>3, <2>4 DEF IInv, TagWithBlob
<1>5. CASE Config
  <2>1. /\ Splits' = Splits
        /\ UNCHANGED <<epoch, connected, requested, published>>
        /\ connected /\ configured' /\ pool_tag' = epoch
    BY <1>5 DEF Config, Splits
  <2>2. TagCurrent' /\ Pays'
    BY <1>0, <2>1 DEF TagCurrent, Pays
  <2> QED
    BY <1>0, <2>1, <2>2 DEF IInv, TagWithBlob
<1>6. CASE Request
  <2>1. /\ Splits' = Splits /\ configured
        /\ UNCHANGED <<epoch, connected, configured, pool_tag, published>>
    BY <1>6 DEF Request, Splits
  <2>2. TagCurrent' /\ Pays'
    BY <1>0, <2>1 DEF TagCurrent, Pays
  <2> QED
    BY <1>0, <2>1, <2>2 DEF IInv, TagWithBlob
<1>7. CASE Disconnect
  <2>1. Splits' = Splits /\ connected' = FALSE /\ UNCHANGED <<epoch, published>>
    BY <1>7 DEF Disconnect, Splits
  <2>2. TagCurrent' /\ Pays'
    BY <1>0, <2>1 DEF TagCurrent, Pays
  <2> QED
    BY <1>0, <2>1, <2>2 DEF IInv, TagWithBlob
<1>8. CASE DriverStep
  <2>1. UNCHANGED <<nodeVars, connVars, pool_tag, coinbaser>>
    BY <1>8 DEF DriverStep, WakeTemplate, WakeCoinbaser, ReadTemplate, ReadCoinbaser, Publish
  <2>2. driver'.blob \in {driver.blob, coinbaser, NoBlob}
    <3>1. /\ driver \in [phase : {"wait", "template", "coinbaser", "publish"},
                         template : Template, blob : Blob]
          /\ Waiting.blob = NoBlob
      BY <1>0 DEF TypeOK, Waiting
    <3>2. CASE WakeTemplate \/ WakeCoinbaser
      BY <3>1, <3>2 DEF WakeTemplate, WakeCoinbaser
    <3>3. CASE ReadTemplate
      BY <3>1, <3>3 DEF ReadTemplate
    <3>4. CASE ReadCoinbaser
      BY <3>1, <3>4 DEF ReadCoinbaser
    <3>5. CASE Publish
      BY <3>1, <3>5 DEF Publish
    <3> QED
      BY <1>8, <3>2, <3>3, <3>4, <3>5 DEF DriverStep
  <2>3. \/ published' = published
        \/ published' = [template |-> driver.template, blob |-> driver.blob, tag |-> pool_tag]
    BY <1>8 DEF DriverStep, WakeTemplate, WakeCoinbaser, ReadTemplate, ReadCoinbaser, Publish
  <2>4. Splits' \subseteq Splits \cup {NoBlob}
    BY <2>1, <2>2, <2>3 DEF Splits
  <2>5. SumOf(NoBlob.outputs) \in 0 .. NoBlob.value /\ NoBlob.epoch = 0 /\ NoBlob.asked = FALSE
    BY EmptySum DEF NoBlob
  <2>6. Pays'
    BY <1>0, <2>4, <2>5 DEF Pays
  <2>7. TagCurrent'
    BY <1>0, <1>1, <2>1, <2>4, <2>5 DEF TagCurrent
  <2>8. TagWithBlob'
    BY <1>0, <1>2, <2>1, <2>3 DEF TagCurrent, TagWithBlob
  <2> QED
    BY <2>6, <2>7, <2>8 DEF IInv
<1> QED
  BY <1>3, <1>4, <1>5, <1>6, <1>7, <1>8, RespondStep DEF Next

LEMMA InitIInv == Init => IInv
<1> SUFFICES ASSUME Init PROVE IInv
  OBVIOUS
<1>1. TypeOK
  <2>1. Len(coinbaser.outputs) <= MaxOutputs
    BY PipelineAssumption DEF Init, NoBlob
  <2>2. /\ driver \in [phase : {"wait", "template", "coinbaser", "publish"},
                       template : Template, blob : Blob]
        /\ published \in [template : Template, blob : Blob, tag : 0 .. MaxEpoch]
    BY NothingType, PipelineAssumption DEF Init, Waiting
  <2> QED
    BY NothingType, <2>1, <2>2, PipelineAssumption DEF Init, TypeOK
<1>2. Splits = {NoBlob}
  BY DEF Init, Splits, Waiting
<1>3. NoBlob.epoch = 0 /\ NoBlob.value = 0 /\ SumOf(NoBlob.outputs) = 0
  BY EmptySum DEF NoBlob
<1>4. Pays /\ TagCurrent
  BY <1>2, <1>3 DEF Init, Pays, TagCurrent
<1> QED
  BY <1>1, <1>4 DEF Init, IInv, TagWithBlob

LEMMA SpecIInv == Spec => []IInv
<1> QED
  BY InitIInv, NextIInv, PTL DEF Spec

-----------------------------------------------------------------------------
(* The theorems. *)

\* A split that the connection that is up asked for is published with that
\* connection's tag, however connections, configurations, answers and the
\* driver's three reads interleave (run_template_state_driver,
\* run_datum_upstream).
THEOREM TagAlwaysWithBlob == Spec => []TagWithBlob
<1>1. IInv => TagWithBlob
  BY DEF IInv
<1> QED
  BY <1>1, SpecIInv, PTL

\* Whatever the pool offers, and whichever template a split is combined with in
\* the end, the state pays no more than the template's value unless the pool's
\* answer was about a higher one (parse_v2_blob).
THEOREM CoveredAlwaysPays == Spec => []CoveredStatePays
<1>1. IInv => CoveredStatePays
  <2> SUFFICES ASSUME IInv, published.blob.value <= published.template.value
               PROVE  SumOf(published.blob.outputs) <= published.template.value
    BY DEF CoveredStatePays
  <2>1. SumOf(published.blob.outputs) \in 0 .. published.blob.value
    BY DEF IInv, Pays, Splits
  <2>2. published.blob.value \in Int /\ published.template.value \in Int
    <3>1. published.blob \in Blob /\ published.template \in Template
      BY DEF IInv, TagWithBlob, TypeOK
    <3>2. Values \cup {0} \subseteq Int
      BY PipelineAssumption
    <3>3. \A b \in Blob : b.value \in Int
      BY <3>2 DEF Blob
    <3>4. \A t \in Template : t.value \in Int
      BY <3>2 DEF Template
    <3> QED
      BY <3>1, <3>3, <3>4
  <2> QED
    BY <2>1, <2>2
<1> QED
  BY <1>1, SpecIInv, PTL
=============================================================================
