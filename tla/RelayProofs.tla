---------------------------- MODULE RelayProofs -----------------------------
(***************************************************************************)
(* Theorems about the share path, for every capacity, every number of pool *)
(* slots and every bound on templates, shares and connections: first SV1   *)
(* alone (Sv1Relay), then both protocols on one tracker and one command    *)
(* queue (DualRelay).                                                      *)
(***************************************************************************)
EXTENDS DualRelay, FiniteSetTheorems, SequenceTheorems, TLAPS

-----------------------------------------------------------------------------
(* Type correctness. *)

\* The assembler numbers each published state at most once: what TypeOK needs
\* beyond itself to keep the ticks within the published templates.
AsmInv ==
  /\ asm_seen <= published
  /\ tick <= asm_seen
  /\ asm.busy => tick < asm_seen

TypeInv == TypeOK /\ AsmInv

\* The 8-bit slot counter wraps within its range.
LEMMA WrapRange ==
  ASSUME NEW i \in 0 .. IdxMod - 1
  PROVE  /\ WrappingIdx(i) = IF i + 1 = IdxMod THEN 0 ELSE i + 1
         /\ WrappingIdx(i) \in 0 .. IdxMod - 1
<1>1. IdxMod \in Nat \ {0}
  BY TrackerAssumption
<1>2. CASE i + 1 = IdxMod
  BY <1>1, <1>2 DEF WrappingIdx
<1>3. CASE i + 1 # IdxMod
  BY <1>1, <1>3 DEF WrappingIdx
<1> QED
  BY <1>2, <1>3

\* An encoded share has the type of a share.
LEMMA EncodedShareType ==
  ASSUME TypeOK, NEW src \in Sources, NEW key \in DOMAIN by_key, NEW seed \in Seeds,
         NEW block \in BOOLEAN
  PROVE  EncodedShare(src, key, seed, block) \in Share
BY DEF TypeOK, TrackerTypeOK, EncodedShare, Share, JobEntry, Emits01, Emits02

\* Queues start empty.
LEMMA EmptyQueue == <<>> \in Seq(Share)
BY EmptySeq

\* The type invariant holds initially.
LEMMA InitType == Init => TypeInv
<1> SUFFICES ASSUME Init PROVE TypeInv
  OBVIOUS
<1> USE TrackerAssumption, RelayAssumption
<1>1. TrackerTypeOK
  BY DEF Init, TrackerInit, TrackerTypeOK
<1>2. AsmInv
  BY DEF Init, AsmInv
<1>3. pool_slot \in [0 .. IdxMod - 1 -> [key : Keys \cup {NoJob.key}, epoch : Nat]]
  BY DEF Init, NoJob
<1>4. TypeOK
  BY <1>1, <1>3 DEF Init, TypeOK
<1> QED
  BY <1>2, <1>4 DEF TypeInv

\* A share the relay encodes on job t is on a tracked key with a known seed.
LEMMA EncodeType ==
  ASSUME TypeOK, NEW key \in DOMAIN by_key, NEW seed \in Seeds, Encode(key, seed)
  PROVE  TrackerTypeOK'
<1>1. DOMAIN by_key' = DOMAIN by_key
  BY DEF Encode
<1>2. ASSUME NEW k \in DOMAIN by_key' PROVE by_key'[k] \in JobEntry
  <2>1. MarkedEntry(key, seed) \in JobEntry
    BY DEF TypeOK, TrackerTypeOK, JobEntry, MarkedEntry, Emits02
  <2> QED
    BY <1>2, <2>1 DEF Encode, TypeOK, TrackerTypeOK
<1>3. seen_template_coinbase' \subseteq Seeds
  BY DEF Encode, TypeOK, TrackerTypeOK
<1> QED
  BY <1>1, <1>2, <1>3 DEF Encode, TypeOK, TrackerTypeOK

\* insert stores a well-formed entry.
LEMMA InsertType ==
  ASSUME TypeOK, NEW key \in Keys, NEW seed \in Seeds, NEW idx \in 0 .. IdxMod - 1,
         Insert(key, seed, idx)
  PROVE  TrackerTypeOK'
<1>1. NewEntry(seed, idx) \in JobEntry
  BY DEF NewEntry, JobEntry
<1>2. DOMAIN by_key' \subseteq Keys
  BY DEF Insert, TypeOK, TrackerTypeOK
<1>3. ASSUME NEW k \in DOMAIN by_key' PROVE by_key'[k] \in JobEntry
  BY <1>1, <1>3 DEF Insert, TypeOK, TrackerTypeOK
<1>4. order' \in Seq(Keys)
  BY DEF Insert, TypeOK, TrackerTypeOK, MustEvict
<1> QED
  BY <1>2, <1>3, <1>4 DEF Insert, TypeOK, TrackerTypeOK

\* The reset keeps the entries well-formed.
LEMMA ResetType ==
  ASSUME TypeOK, ResetSendOnceFlags
  PROVE  TrackerTypeOK'
<1>1. ASSUME NEW k \in DOMAIN by_key' PROVE by_key'[k] \in JobEntry
  BY <1>1 DEF ResetSendOnceFlags, TypeOK, TrackerTypeOK, JobEntry, NewEntry
<1> QED
  BY <1>1 DEF ResetSendOnceFlags, TypeOK, TrackerTypeOK

\* Every step preserves the type invariant.
LEMMA NextType == TypeInv /\ [Sv1Next]_vars => TypeInv'
<1> SUFFICES ASSUME TypeOK, AsmInv, [Sv1Next]_vars PROVE TypeInv'
  BY DEF TypeInv
<1> USE TrackerAssumption, RelayAssumption
<1> USE DEF TypeInv, AsmInv
<1>1. CASE PublishTemplate
  <2>1. published' \in 0 .. MaxTemplates /\ AsmInv'
    BY <1>1, SMTT(30) DEF PublishTemplate, TypeOK, asmVars
  <2> QED
    BY <1>1, <2>1 DEF PublishTemplate, TypeOK, TrackerTypeOK, trackerVars, asmVars, relayVars,
                      linkVars, poolVars
<1>2. CASE AsmAllocate
  <2>1. TrackerTypeOK'
    BY <1>2, WrapRange DEF AsmAllocate, NextIdx, TypeOK, TrackerTypeOK
  <2>2. asm' \in [busy : BOOLEAN, seed : Seeds, idx : 0 .. IdxMod - 1]
    BY <1>2, SMTT(30) DEF AsmAllocate, TypeOK, TrackerTypeOK
  <2>3. asm_seen' \in 0 .. MaxTemplates /\ AsmInv'
    BY <1>2 DEF AsmAllocate, TypeOK
  <2>4. UNCHANGED <<published, tick, relayVars, ext_queue, linkVars, poolVars>>
    BY <1>2 DEF AsmAllocate
  <2> QED
    BY <2>1, <2>2, <2>3, <2>4 DEF TypeOK, relayVars, linkVars, poolVars
<1>3. CASE AsmInsert
  <2>1. Sv1Key(tick) \in Keys
    BY <1>3 DEF AsmInsert, Sv1Key, TypeOK
  <2>2. TrackerTypeOK'
    BY <1>3, <2>1, InsertType DEF AsmInsert, TypeOK
  <2> QED
    BY <1>3, <2>2 DEF AsmInsert, TypeOK, relayVars, linkVars, poolVars
<1>4. ASSUME NEW t \in 0 .. tick - 1, NEW block \in BOOLEAN, RelayEncode(t, block)
      PROVE  TypeInv'
  <2>1. Sv1Key(t) \in DOMAIN by_key
    BY <1>4 DEF RelayEncode, Encode, Contains
  <2>2. by_key[Sv1Key(t)].seed \in Seeds
    BY <2>1 DEF TypeOK, TrackerTypeOK, JobEntry
  <2>3. TrackerTypeOK'
    BY <1>4, <2>1, <2>2, EncodeType DEF RelayEncode
  <2>4. relay_out' \in Seq(Share)
    BY <1>4, <2>1, <2>2, EncodedShareType DEF RelayEncode
  <2>5. spawned' \subseteq Nat /\ nshares' \in 0 .. MaxShares
    BY <1>4 DEF RelayEncode, TypeOK
  <2>6. UNCHANGED <<published, asmVars, ext_queue, linkVars, poolVars>>
    BY <1>4 DEF RelayEncode
  <2> QED
    BY <2>3, <2>4, <2>5, <2>6 DEF TypeOK, asmVars, linkVars, poolVars
<1>5. ASSUME NEW t \in 0 .. tick - 1, NEW parses \in BOOLEAN, RelayDrop(t, parses)
      PROVE  TypeInv'
  BY <1>5, SMTT(30) DEF RelayDrop, TypeOK, TrackerTypeOK, trackerVars, asmVars, linkVars, poolVars
<1>6. CASE RelaySend
  <2>1. ext_queue' \in Seq(Share) /\ relay_out' \in Seq(Share)
    BY <1>6 DEF RelaySend, TypeOK
  <2> QED
    BY <1>6, <2>1 DEF RelaySend, TypeOK, TrackerTypeOK, trackerVars, asmVars, linkVars,
                      poolVars
<1>7. CASE Connect
  <2>1. TrackerTypeOK'
    BY <1>7, ResetType DEF Connect
  <2>2. pool_slot' \in [0 .. IdxMod - 1 -> [key : Keys \cup {NoJob.key}, epoch : Nat]]
    BY <1>7 DEF Connect, NoJob
  <2>3. epoch' \in 0 .. MaxEpoch
    BY <1>7 DEF Connect, TypeOK
  <2>4. bridge_out' \in Seq(Share) /\ conn_queue' \in Seq(Share) /\ bridge_alive' \in BOOLEAN
    BY <1>7, EmptyQueue DEF Connect
  <2>5. /\ pool_coinbase' \subseteq [seed : Seeds, epoch : Nat]
        /\ link' \in {"down", "up", "stale", "broken"}
    BY <1>7 DEF Connect
  <2> QED
    BY <1>7, <2>1, <2>2, <2>3, <2>4, <2>5 DEF Connect, TypeOK, asmVars, relayVars
<1>8. CASE BridgeTake
  <2>1. ext_queue' \in Seq(Share) /\ bridge_out' \in Seq(Share)
    BY <1>8 DEF BridgeTake, TypeOK
  <2> QED
    BY <1>8, <2>1 DEF BridgeTake, TypeOK, TrackerTypeOK, trackerVars, asmVars, relayVars,
                      poolVars
<1>9. CASE BridgePut
  <2>1. conn_queue' \in Seq(Share) /\ bridge_out' \in Seq(Share)
    BY <1>9 DEF BridgePut, TypeOK
  <2> QED
    BY <1>9, <2>1 DEF BridgePut, TypeOK, TrackerTypeOK, trackerVars, asmVars, relayVars,
                      poolVars
<1>10. CASE BridgeFail
  <2>1. bridge_out' \in Seq(Share) /\ bridge_alive' \in BOOLEAN
    BY <1>10, EmptyQueue DEF BridgeFail
  <2> QED
    BY <1>10, <2>1 DEF BridgeFail, TypeOK, TrackerTypeOK, trackerVars, asmVars, relayVars,
                       poolVars
<1>11. CASE Write
  <2> DEFINE s == Head(conn_queue)
  <2>1. s \in Share /\ conn_queue' \in Seq(Share)
    BY <1>11 DEF Write, TypeOK
  <2>2. pool_slot' \in [0 .. IdxMod - 1 -> [key : Keys \cup {NoJob.key}, epoch : Nat]]
    <3>1. /\ [key |-> s.key, epoch |-> s.epoch] \in [key : Keys \cup {NoJob.key}, epoch : Nat]
          /\ s.idx \in 0 .. IdxMod - 1
      BY <2>1 DEF Share
    <3> HIDE DEF s
    <3>2. PoolSlotAfter(s) \in [0 .. IdxMod - 1 -> [key : Keys \cup {NoJob.key}, epoch : Nat]]
      BY <3>1 DEF PoolSlotAfter, TypeOK
    <3> QED
      BY <1>11, <3>2 DEF Write, s
  <2>3. pool_coinbase' \subseteq [seed : Seeds, epoch : Nat]
    <3>1. [seed |-> s.seed, epoch |-> s.epoch] \in [seed : Seeds, epoch : Nat]
      BY <2>1 DEF Share
    <3> HIDE DEF s
    <3>2. PoolCoinbaseAfter(s) \subseteq [seed : Seeds, epoch : Nat]
      BY <3>1 DEF PoolCoinbaseAfter, TypeOK
    <3> QED
      BY <1>11, <3>2 DEF Write, s
  <2>4. Verdict(s) \in [fresh : BOOLEAN, job : BOOLEAN, coinbase : BOOLEAN,
                        repeated : BOOLEAN]
    BY <2>1 DEF Verdict, Share
  <2>5. verdicts' \subseteq [fresh : BOOLEAN, job : BOOLEAN, coinbase : BOOLEAN,
                             repeated : BOOLEAN]
    BY <1>11, <2>4 DEF Write, TypeOK
  <2> QED
    BY <1>11, <2>1, <2>2, <2>3, <2>5 DEF Write, TypeOK, TrackerTypeOK, trackerVars, asmVars,
                                         relayVars
<1>12. CASE WriteLost
  <2>1. conn_queue' \in Seq(Share)
    BY <1>12 DEF WriteLost, TypeOK
  <2> QED
    BY <1>12, <2>1 DEF WriteLost, TypeOK, TrackerTypeOK, trackerVars, asmVars, relayVars,
                       poolVars
<1>13. CASE WriteFail
  <2>1. conn_queue' \in Seq(Share) /\ link' \in {"down", "up", "stale", "broken"}
    BY <1>13, EmptyQueue DEF WriteFail
  <2> QED
    BY <1>13, <2>1 DEF WriteFail, TypeOK, TrackerTypeOK, trackerVars, asmVars, relayVars,
                       poolVars
<1>14. CASE PeerClose
  BY <1>14 DEF PeerClose, TypeOK, TrackerTypeOK, trackerVars, asmVars, relayVars, poolVars
<1>15. CASE Teardown
  <2>1. /\ bridge_out' \in Seq(Share) /\ bridge_alive' \in BOOLEAN
        /\ link' \in {"down", "up", "stale", "broken"}
    BY <1>15, EmptyQueue DEF Teardown
  <2> QED
    BY <1>15, <2>1 DEF Teardown, TypeOK, TrackerTypeOK, trackerVars, asmVars, relayVars,
                       poolVars
<1>16. CASE UNCHANGED vars
  BY <1>16 DEF vars, TypeOK, TrackerTypeOK, trackerVars, asmVars, relayVars, linkVars,
               poolVars
<1> QED
  BY <1>1, <1>2, <1>3, <1>4, <1>5, <1>6, <1>7, <1>8, <1>9, <1>10, <1>11, <1>12, <1>13,
     <1>14, <1>15, <1>16 DEF Sv1Next, RelayStep

\* Every variable keeps its type in every behaviour (TypeOK of the runs), and
\* the assembler never numbers more jobs than templates were published.
THEOREM TypeCorrect == Spec => []TypeOK
<1>1. Spec => []TypeInv
  BY InitType, NextType, PTL DEF Spec
<1>2. TypeInv => TypeOK
  BY DEF TypeInv
<1> QED
  BY <1>1, <1>2, PTL

-----------------------------------------------------------------------------
(* The tracker holds the newest jobs, in distinct slots. *)

\* The slot taken d allocations before slot i.
Back(i, d) == IF i >= d THEN i - d ELSE i - d + IdxMod

\* The slot of the job the assembler inserts next.
NextSlot == IF asm.busy THEN asm.idx ELSE next_datum_idx

\* The slots of the live jobs are the last ones allocated, counted backwards.
SlotInv ==
  /\ asm.busy => next_datum_idx = WrappingIdx(asm.idx)
  /\ \A t \in OldestLive(tick) .. tick - 1 :
       by_key[Sv1Key(t)].idx = Back(NextSlot, tick - t)

WindowInv == TypeInv /\ TracksNewestJobs /\ SlotInv

\* A key determines its tick.
LEMMA KeyInjective ==
  ASSUME NEW t, NEW u, Sv1Key(t) = Sv1Key(u)
  PROVE  t = u
BY DEF Sv1Key

\* n consecutive ticks make n keys.
LEMMA TicksCardinality ==
  ASSUME NEW a \in Nat, NEW b \in Nat, a <= b
  PROVE  Cardinality({Sv1Key(t) : t \in a .. b - 1}) = b - a
<1> DEFINE S == a .. b - 1
           T == {Sv1Key(t) : t \in S}
           f == [t \in S |-> Sv1Key(t)]
<1>1. IsFiniteSet(S) /\ Cardinality(S) = b - a
  <2>1. b - 1 \in Int
    OBVIOUS
  <2>2. IsFiniteSet(S) /\ Cardinality(S) = IF a > b - 1 THEN 0 ELSE (b - 1) - a + 1
    BY <2>1, FS_Interval
  <2> QED
    BY <2>2
<1>2. f \in Bijection(S, T)
  <2>1. f \in [S -> T]
    OBVIOUS
  <2>2. \A t, u \in S : f[t] = f[u] => t = u
    BY KeyInjective
  <2>3. \A k \in T : \E t \in S : f[t] = k
    OBVIOUS
  <2> QED
    BY <2>1, <2>2, <2>3 DEF Bijection, Injection, Surjection, IsInjective
<1>3. ExistsBijection(S, T)
  BY <1>2 DEF ExistsBijection
<1> QED
  BY <1>1, <1>3, FS_Bijection

\* The window is empty initially.
LEMMA WindowInit == Init => WindowInv
<1> SUFFICES ASSUME Init PROVE TracksNewestJobs /\ SlotInv
  BY InitType DEF WindowInv
<1> USE TrackerAssumption
<1>1. OldestLive(tick) = 0 /\ tick = 0
  BY DEF Init, OldestLive
<1>2. OldestLive(tick) .. tick - 1 = {} /\ 1 .. tick - OldestLive(tick) = {}
  BY <1>1
<1>3. DOMAIN by_key = {}
  BY Zenon DEF Init, TrackerInit
<1>4. order = [i \in 1 .. tick - OldestLive(tick) |-> Sv1Key(OldestLive(tick) + i - 1)]
  <2>1. order = <<>>
    BY DEF Init, TrackerInit
  <2> QED
    BY <1>2, <2>1
<1>5. DOMAIN by_key = {Sv1Key(t) : t \in OldestLive(tick) .. tick - 1}
  BY <1>2, <1>3
<1>6. SlotInv
  BY <1>2 DEF SlotInv, Init
<1> QED
  BY <1>4, <1>5, <1>6 DEF TracksNewestJobs

\* Inserting job `tick` moves the window by one.
LEMMA InsertWindow ==
  ASSUME WindowInv, AsmInsert
  PROVE  TracksNewestJobs' /\ SlotInv'
<1> USE TrackerAssumption
<1> DEFINE lo == OldestLive(tick)
           key == Sv1Key(tick)
<1>0. /\ MAX \in Nat \ {0} /\ IdxMod \in Nat \ {0} /\ MAX <= IdxMod
      /\ tick \in Nat /\ tick' = tick + 1
      /\ lo \in Nat /\ lo <= tick /\ tick - lo <= MAX
  BY DEF WindowInv, TypeInv, TypeOK, OldestLive, AsmInsert
<1>1. DOMAIN by_key = {Sv1Key(t) : t \in lo .. tick - 1}
  BY DEF WindowInv, TracksNewestJobs
<1>2. Cardinality(DOMAIN by_key) = tick - lo
  BY <1>0, <1>1, TicksCardinality
<1>3. /\ order \in Seq(Keys)
      /\ Len(order) = tick - lo
      /\ \A i \in 1 .. tick - lo : order[i] = Sv1Key(lo + i - 1)
  <2>1. order \in Seq(Keys)
    BY DEF WindowInv, TypeInv, TypeOK, TrackerTypeOK
  <2>2. order = [i \in 1 .. tick - lo |-> Sv1Key(lo + i - 1)]
    BY DEF WindowInv, TracksNewestJobs
  <2> QED
    BY <1>0, <2>1, <2>2
<1>4. MustEvict <=> tick - lo = MAX
  BY <1>0, <1>2, <1>3 DEF MustEvict
<1>5. OldestLive(tick') = IF MustEvict THEN lo + 1 ELSE lo
  BY <1>0, <1>4 DEF OldestLive
<1>6. MustEvict => Head(order) = Sv1Key(lo)
  BY <1>0, <1>3, <1>4
<1>7. DOMAIN by_key' = {Sv1Key(t) : t \in OldestLive(tick') .. tick' - 1}
  <2>1. DOMAIN by_key' = (IF MustEvict THEN DOMAIN by_key \ {Head(order)}
                                       ELSE DOMAIN by_key) \cup {key}
    BY DEF AsmInsert, Insert
  <2>2. CASE MustEvict
    BY <2>1, <2>2, <1>0, <1>1, <1>4, <1>5, <1>6, KeyInjective
  <2>3. CASE ~ MustEvict
    BY <2>1, <2>3, <1>0, <1>1, <1>5
  <2> QED
    BY <2>2, <2>3
<1>8. order' = [i \in 1 .. tick' - OldestLive(tick') |-> Sv1Key(OldestLive(tick') + i - 1)]
  <2>0. key \in Keys
    BY RelayAssumption DEF WindowInv, TypeInv, TypeOK, AsmInv, AsmInsert, Sv1Key
  <2>1. CASE MustEvict
    <3>1. order' = Append(Tail(order), key)
      BY <2>1 DEF AsmInsert, Insert
    <3>2. order # <<>>
      BY <2>1 DEF MustEvict
    <3>3. /\ Tail(order) \in Seq(Keys) /\ Len(Tail(order)) = Len(order) - 1
          /\ \A i \in 1 .. Len(Tail(order)) : Tail(order)[i] = order[i + 1]
      BY <3>2, <1>3, HeadTailProperties
    <3>4. /\ order' \in Seq(Keys) /\ Len(order') = Len(order)
          /\ \A i \in 1 .. Len(order) - 1 : order'[i] = order[i + 1]
          /\ order'[Len(order)] = key
      BY <3>1, <3>3, <2>0, <1>3, AppendProperties, LenProperties
    <3>5. DOMAIN order' = 1 .. Len(order') /\ order' = [i \in 1 .. Len(order') |-> order'[i]]
      BY <3>4, LenProperties
    <3>6. Len(order') = tick' - OldestLive(tick')
      BY <3>4, <2>1, <1>0, <1>3, <1>5
    <3>7. \A i \in 1 .. Len(order') : order'[i] = Sv1Key(OldestLive(tick') + i - 1)
      <4> SUFFICES ASSUME NEW i \in 1 .. Len(order')
                   PROVE  order'[i] = Sv1Key(lo + 1 + i - 1)
        BY <2>1, <1>5
      <4>1. CASE i = Len(order)
        BY <4>1, <3>4, <2>1, <1>0, <1>3, <1>4
      <4>2. CASE i # Len(order)
        <5>1. i \in 1 .. Len(order) - 1 /\ i + 1 \in 1 .. tick - lo
          <6>1. Len(order) = tick - lo /\ Len(order') = Len(order)
            BY <3>4, <1>3
          <6> QED
            BY <4>2, <6>1, <1>0
        <5>2. order'[i] = order[i + 1] /\ order[i + 1] = Sv1Key(lo + (i + 1) - 1)
          BY <5>1, <3>4, <1>3
        <5> QED
          BY <5>1, <5>2, <1>0
      <4> QED
        BY <4>1, <4>2
    <3> QED
      BY <3>5, <3>6, <3>7
  <2>2. CASE ~ MustEvict
    <3>1. order' = Append(order, key)
      BY <2>2 DEF AsmInsert, Insert
    <3>2. /\ order' \in Seq(Keys) /\ Len(order') = Len(order) + 1
          /\ \A i \in 1 .. Len(order) : order'[i] = order[i]
          /\ order'[Len(order) + 1] = key
      BY <3>1, <2>0, <1>3, AppendProperties
    <3>3. DOMAIN order' = 1 .. Len(order') /\ order' = [i \in 1 .. Len(order') |-> order'[i]]
      BY <3>2, LenProperties
    <3>4. Len(order') = tick' - OldestLive(tick')
      BY <3>2, <2>2, <1>0, <1>3, <1>5
    <3>5. \A i \in 1 .. Len(order') : order'[i] = Sv1Key(OldestLive(tick') + i - 1)
      <4> SUFFICES ASSUME NEW i \in 1 .. Len(order')
                   PROVE  order'[i] = Sv1Key(lo + i - 1)
        BY <2>2, <1>5
      <4>1. CASE i = Len(order) + 1
        BY <4>1, <3>2, <1>0, <1>3
      <4>2. CASE i # Len(order) + 1
        BY <4>2, <3>2, <1>0, <1>3
      <4> QED
        BY <4>1, <4>2
    <3> QED
      BY <3>3, <3>4, <3>5
  <2> QED
    BY <2>1, <2>2
<1>9. SlotInv'
  <2>1. asm.busy /\ ~ asm'.busy /\ asm.idx \in 0 .. IdxMod - 1
    BY DEF AsmInsert, WindowInv, TypeInv, TypeOK
  <2>2. NextSlot = asm.idx /\ NextSlot' = WrappingIdx(asm.idx)
    BY <2>1 DEF NextSlot, SlotInv, WindowInv, AsmInsert, Insert
  <2>3. WrappingIdx(asm.idx) = IF asm.idx + 1 = IdxMod THEN 0 ELSE asm.idx + 1
    BY <2>1, WrapRange
  <2>4. ASSUME NEW t \in OldestLive(tick') .. tick' - 1
        PROVE  by_key'[Sv1Key(t)].idx = Back(NextSlot', tick' - t)
    <3>1. Sv1Key(t) \in DOMAIN by_key'
      BY <1>7
    <3>2. CASE t = tick
      <4>1. by_key'[Sv1Key(t)] = NewEntry(asm.seed, asm.idx)
        BY <3>1, <3>2 DEF AsmInsert, Insert
      <4>2. by_key'[Sv1Key(t)].idx = asm.idx
        BY <4>1 DEF NewEntry
      <4> QED
        BY <4>2, <3>2, <2>1, <2>2, <2>3, <1>0 DEF Back
    <3>3. CASE t # tick
      <4>1. t \in lo .. tick - 1 /\ tick - t + 1 <= IdxMod
        BY <3>3, <1>0, <1>4, <1>5
      <4>2. by_key'[Sv1Key(t)] = by_key[Sv1Key(t)]
        BY <3>1, <3>3, KeyInjective DEF AsmInsert, Insert
      <4>3. by_key[Sv1Key(t)].idx = Back(asm.idx, tick - t)
        BY <4>1, <2>2 DEF WindowInv, SlotInv
      <4> QED
        BY <4>1, <4>2, <4>3, <2>1, <2>2, <2>3, <1>0 DEF Back
    <3> QED
      BY <3>2, <3>3
  <2> QED
    BY <2>1, <2>4 DEF SlotInv
<1> QED
  BY <1>7, <1>8, <1>9 DEF TracksNewestJobs

\* A step that keeps the keys, their slots and the assembler keeps the window.
LEMMA StableWindow ==
  ASSUME WindowInv, UNCHANGED <<order, tick, asm, next_datum_idx>>,
         DOMAIN by_key' = DOMAIN by_key,
         \A k \in DOMAIN by_key : by_key'[k].idx = by_key[k].idx
  PROVE  TracksNewestJobs' /\ SlotInv'
<1>1. OldestLive(tick') = OldestLive(tick)
  BY DEF OldestLive
<1>2. TracksNewestJobs'
  BY <1>1 DEF WindowInv, TracksNewestJobs
<1>3. NextSlot' = NextSlot
  BY DEF NextSlot
<1>4. \A t \in OldestLive(tick) .. tick - 1 : Sv1Key(t) \in DOMAIN by_key
  BY DEF WindowInv, TracksNewestJobs
<1> QED
  BY <1>1, <1>2, <1>3, <1>4 DEF WindowInv, SlotInv

\* Encoding and the reset touch only the send-once flags.
LEMMA EncodeKeepsSlots ==
  ASSUME NEW key, NEW seed, Encode(key, seed)
  PROVE  /\ DOMAIN by_key' = DOMAIN by_key
         /\ \A k \in DOMAIN by_key : by_key'[k].idx = by_key[k].idx
<1>1. DOMAIN by_key' = DOMAIN by_key
  BY DEF Encode
<1>2. MarkedEntry(key, seed).idx = by_key[key].idx
  BY DEF MarkedEntry
<1>3. \A k \in DOMAIN by_key :
        by_key'[k] = IF k = key THEN MarkedEntry(key, seed) ELSE by_key[k]
  BY DEF Encode
<1> QED
  BY <1>1, <1>2, <1>3

\* The reset clears flags only.
LEMMA ResetKeepsSlots ==
  ASSUME ResetSendOnceFlags
  PROVE  /\ DOMAIN by_key' = DOMAIN by_key
         /\ \A k \in DOMAIN by_key : by_key'[k].idx = by_key[k].idx
BY DEF ResetSendOnceFlags, NewEntry

\* Every step preserves the window invariant.
LEMMA WindowNext == WindowInv /\ [Sv1Next]_vars => WindowInv'
<1> SUFFICES ASSUME WindowInv, [Sv1Next]_vars PROVE TracksNewestJobs' /\ SlotInv'
  BY NextType DEF WindowInv
<1>1. CASE AsmInsert
  BY <1>1, InsertWindow
<1>2. CASE AsmAllocate
  <2>1. /\ ~ asm.busy /\ asm'.busy /\ asm'.idx = next_datum_idx
        /\ next_datum_idx' = WrappingIdx(next_datum_idx)
        /\ UNCHANGED <<by_key, order, tick>>
    BY <1>2 DEF AsmAllocate, NextIdx
  <2>2. NextSlot' = NextSlot /\ OldestLive(tick') = OldestLive(tick)
    BY <2>1 DEF NextSlot, OldestLive
  <2> QED
    BY <2>1, <2>2 DEF WindowInv, TracksNewestJobs, SlotInv
<1>3. ASSUME NEW t \in 0 .. tick - 1, NEW block \in BOOLEAN, RelayEncode(t, block)
      PROVE  TracksNewestJobs' /\ SlotInv'
  <2>1. Encode(Sv1Key(t), by_key[Sv1Key(t)].seed)
    BY <1>3 DEF RelayEncode
  <2>2. UNCHANGED <<order, tick, asm, next_datum_idx>>
    BY <1>3, <2>1 DEF RelayEncode, Encode, asmVars
  <2> QED
    BY <2>1, <2>2, EncodeKeepsSlots, StableWindow
<1>4. CASE Connect
  <2>1. ResetSendOnceFlags /\ UNCHANGED <<order, tick, asm, next_datum_idx>>
    BY <1>4 DEF Connect, ResetSendOnceFlags, asmVars
  <2> QED
    BY <2>1, ResetKeepsSlots, StableWindow
<1>5. CASE UNCHANGED <<trackerVars, asmVars>>
  BY <1>5, StableWindow DEF trackerVars, asmVars
<1>6. ASSUME NEW t \in 0 .. tick - 1, NEW parses \in BOOLEAN, RelayDrop(t, parses)
      PROVE  UNCHANGED <<trackerVars, asmVars>>
  BY <1>6 DEF RelayDrop
<1>7. \/ PublishTemplate \/ RelaySend \/ BridgeTake \/ BridgePut \/ BridgeFail
      \/ Write \/ WriteLost \/ WriteFail \/ PeerClose \/ Teardown \/ UNCHANGED vars
      => UNCHANGED <<trackerVars, asmVars>>
  BY DEF PublishTemplate, RelaySend, BridgeTake, BridgePut, BridgeFail, Write, WriteLost,
         WriteFail, PeerClose, Teardown, vars
<1> QED
  BY <1>1, <1>2, <1>3, <1>4, <1>5, <1>6, <1>7 DEF Sv1Next, RelayStep

\* The window invariant holds in every behaviour.
LEMMA WindowAlways == Spec => []WindowInv
BY WindowInit, WindowNext, PTL DEF Spec

\* The tracker holds exactly the MAX newest SV1 jobs in every behaviour, for
\* every capacity: eviction (insert) is FIFO and never early.
THEOREM NewestJobsTracked == Spec => []TracksNewestJobs
<1>1. WindowInv => TracksNewestJobs
  BY DEF WindowInv
<1> QED
  BY <1>1, WindowAlways, PTL

\* In the window, the slots counted backwards from one slot are distinct.
LEMMA WindowSlotsDistinct == WindowInv => DistinctSlots
<1> SUFFICES ASSUME WindowInv,
                    NEW k1 \in DOMAIN by_key, NEW k2 \in DOMAIN by_key,
                    by_key[k1].idx = by_key[k2].idx
             PROVE  k1 = k2
  BY DEF DistinctSlots
<1> USE TrackerAssumption
<1>1. PICK t \in OldestLive(tick) .. tick - 1, u \in OldestLive(tick) .. tick - 1 :
        k1 = Sv1Key(t) /\ k2 = Sv1Key(u)
  BY DEF WindowInv, TracksNewestJobs
<1>2. /\ tick \in Nat /\ OldestLive(tick) \in Nat /\ tick - OldestLive(tick) <= MAX
      /\ NextSlot \in 0 .. IdxMod - 1
  <2>1. tick \in Nat /\ next_datum_idx \in 0 .. IdxMod - 1 /\ asm.idx \in 0 .. IdxMod - 1
    BY DEF WindowInv, TypeInv, TypeOK, TrackerTypeOK
  <2>2. OldestLive(tick) \in Nat /\ tick - OldestLive(tick) <= MAX
    BY <2>1 DEF OldestLive
  <2> QED
    BY <2>1, <2>2 DEF NextSlot
<1>3. Back(NextSlot, tick - t) = Back(NextSlot, tick - u)
  BY <1>1 DEF WindowInv, SlotInv
<1>4. t = u
  BY <1>2, <1>3 DEF Back
<1> QED
  BY <1>1, <1>4

\* Two live jobs never share a pool slot, whatever the 8-bit counter did:
\* next_idx wraps only after the job that held the slot was evicted.
THEOREM SlotsDistinct == Spec => []DistinctSlots
BY WindowAlways, WindowSlotsDistinct, PTL

-----------------------------------------------------------------------------
(* Every share reaches a pool that knows its job. *)

\* The command path as one queue, oldest share first.
Pipe == ((conn_queue \o bridge_out) \o ext_queue) \o relay_out

TickOf(key) == key[3]

\* A share in the pipe is on a numbered job, in the slot of that job.
Shaped ==
  \A i \in 1 .. Len(Pipe) :
    /\ TickOf(Pipe[i].key) \in 0 .. tick - 1
    /\ Pipe[i].key = Sv1Key(TickOf(Pipe[i].key))
    /\ Pipe[i].epoch <= epoch
    /\ Pipe[i].key \in DOMAIN by_key => Pipe[i].idx = by_key[Pipe[i].key].idx

\* Shares in the same slot are in the order of their jobs.
Ordered ==
  \A i, j \in 1 .. Len(Pipe) :
    /\ i < j /\ Pipe[i].idx = Pipe[j].idx => TickOf(Pipe[i].key) <= TickOf(Pipe[j].key)
    /\ Pipe[i].key = Pipe[j].key => Pipe[i].idx = Pipe[j].idx

\* The pool's slot table is never ahead of a share in the pipe.
PoolBehind ==
  \A x \in 0 .. IdxMod - 1 :
    /\ TickOf(pool_slot[x].key) \in Nat
    /\ pool_slot[x].key # NoJob.key =>
         /\ TickOf(pool_slot[x].key) \in 0 .. tick - 1
         /\ pool_slot[x].key = Sv1Key(TickOf(pool_slot[x].key))
    /\ pool_slot[x].key \in DOMAIN by_key => by_key[pool_slot[x].key].idx = x
    /\ \A i \in 1 .. Len(Pipe) :
         Pipe[i].idx = x => TickOf(pool_slot[x].key) <= TickOf(Pipe[i].key)

\* Job `key` is in the pool's slot x, or one of the first i - 1 shares in the
\* pipe announces it.
JobAnnounced(i, key, x) ==
  \/ pool_slot[x].key = key
  \/ \E j \in 1 .. i - 1 : Pipe[j].has01 /\ Pipe[j].key = key

CoinbaseAnnounced(i, seed) ==
  \/ \E c \in pool_coinbase : c.seed = seed
  \/ \E j \in 1 .. i - 1 : Pipe[j].has02 /\ Pipe[j].seed = seed

\* While the connection is up, what a fresh share leaves out was announced
\* ahead of it, and what the flags call sent was announced.
Announced ==
  link = "up" =>
    /\ \A i \in 1 .. Len(Pipe) : Pipe[i].epoch = epoch =>
         /\ Pipe[i].has01 \/ JobAnnounced(i, Pipe[i].key, Pipe[i].idx)
         /\ Pipe[i].has02 \/ CoinbaseAnnounced(i, Pipe[i].seed)
    /\ \A k \in DOMAIN by_key :
         /\ by_key[k].server_has_merkle_branches =>
              JobAnnounced(Len(Pipe) + 1, k, by_key[k].idx)
         /\ by_key[k].server_has_coinbase =>
              CoinbaseAnnounced(Len(Pipe) + 1, by_key[k].seed)
    /\ \A seed \in seen_template_coinbase : CoinbaseAnnounced(Len(Pipe) + 1, seed)

\* What is queued on a connection that ended is gone.
LinkInv ==
  /\ link \in {"down", "broken"} => conn_queue = <<>>
  /\ link = "down" => bridge_out = <<>> /\ ~ bridge_alive

PipeInv == LinkInv /\ Shaped /\ Ordered /\ PoolBehind /\ Announced /\ FreshSharesResolve

-----------------------------------------------------------------------------
(* What the steps do to the pipe. *)

\* The pipe is a sequence of shares.
LEMMA PipeType == TypeOK => Pipe \in Seq(Share)
BY DEF Pipe, TypeOK

\* Handing a share from one queue to the next leaves the pipe as it is.
LEMMA SendKeepsPipe == TypeOK /\ RelaySend => Pipe' = Pipe
<1> SUFFICES ASSUME TypeOK, RelaySend PROVE Pipe' = Pipe
  OBVIOUS
<1> DEFINE front == conn_queue \o bridge_out
<1>1. /\ front \in Seq(Share) /\ ext_queue \in Seq(Share) /\ relay_out \in Seq(Share)
      /\ ext_queue \o relay_out \in Seq(Share)
  BY DEF TypeOK
<1>2. Pipe' = (front \o (ext_queue \o relay_out)) \o <<>>
  BY DEF RelaySend, Pipe, linkVars
<1>3. Pipe' = front \o (ext_queue \o relay_out)
  BY <1>1, <1>2, ConcatProperties, ConcatEmptySeq
<1> HIDE DEF front
<1>4. front \o (ext_queue \o relay_out) = (front \o ext_queue) \o relay_out
  BY <1>1, ConcatAssociative
<1> QED
  BY <1>3, <1>4 DEF Pipe, front

\* Taking a command from the persistent queue leaves the pipe as it is.
LEMMA TakeKeepsPipe == TypeOK /\ BridgeTake => Pipe' = Pipe
<1> SUFFICES ASSUME TypeOK, BridgeTake PROVE Pipe' = Pipe
  OBVIOUS
<1> DEFINE h == <<Head(ext_queue)>>
<1>1. /\ conn_queue \in Seq(Share) /\ ext_queue \in Seq(Share)
      /\ h \in Seq(Share) /\ Tail(ext_queue) \in Seq(Share) /\ ext_queue # <<>>
  BY DEF TypeOK, BridgeTake
<1>2. h \o Tail(ext_queue) = ext_queue
  BY <1>1
<1>3. (conn_queue \o h) \o Tail(ext_queue) = conn_queue \o ext_queue
  BY <1>1, <1>2, ConcatAssociative
<1>4. conn_queue \o bridge_out = conn_queue
  BY <1>1, ConcatEmptySeq DEF BridgeTake
<1> QED
  BY <1>3, <1>4 DEF BridgeTake, Pipe, relayVars

\* So does handing it to the writer.
LEMMA PutKeepsPipe == TypeOK /\ BridgePut => Pipe' = Pipe
<1> SUFFICES ASSUME TypeOK, BridgePut PROVE Pipe' = Pipe
  OBVIOUS
<1>1. (conn_queue \o bridge_out) \o <<>> = conn_queue \o bridge_out
  BY ConcatProperties, ConcatEmptySeq DEF TypeOK
<1> QED
  BY <1>1 DEF BridgePut, Pipe, relayVars

\* The relay appends to the pipe.
LEMMA EncodeAppends ==
  ASSUME TypeOK, NEW t, NEW block, RelayEncode(t, block),
         EncodedShare("sv1", Sv1Key(t), by_key[Sv1Key(t)].seed, block) \in Share
  PROVE  Pipe' = Append(Pipe, EncodedShare("sv1", Sv1Key(t), by_key[Sv1Key(t)].seed, block))
<1> DEFINE front == (conn_queue \o bridge_out) \o ext_queue
           s == EncodedShare("sv1", Sv1Key(t), by_key[Sv1Key(t)].seed, block)
<1>1. front \in Seq(Share)
  BY DEF TypeOK
<1>2. Pipe = front
  BY <1>1, ConcatEmptySeq DEF Pipe, RelayEncode
<1>3. Pipe' = front \o <<s>>
  BY DEF Pipe, RelayEncode, linkVars
<1> HIDE DEF front, s
<1> QED
  BY <1>1, <1>2, <1>3, AppendIsConcat DEF s

\* The writer pops the oldest share of the pipe.
LEMMA PopPipe ==
  ASSUME TypeOK, conn_queue # <<>>, conn_queue' = Tail(conn_queue),
         UNCHANGED <<bridge_out, ext_queue, relay_out>>
  PROVE  Pipe # <<>> /\ Head(conn_queue) = Head(Pipe) /\ Pipe' = Tail(Pipe)
<1>1. /\ conn_queue \in Seq(Share) /\ bridge_out \in Seq(Share)
      /\ ext_queue \in Seq(Share) /\ relay_out \in Seq(Share)
  BY DEF TypeOK
<1>2. ASSUME NEW a \in Seq(Share), NEW b \in Seq(Share), a # <<>>
      PROVE  /\ a \o b \in Seq(Share) /\ a \o b # <<>> /\ Head(a \o b) = Head(a)
             /\ Tail(a \o b) = Tail(a) \o b
  <2>1. a \o b \in Seq(Share) /\ a \o b # <<>> /\ Head(a \o b) = Head(a)
    BY <1>2
  <2>2. Tail(a) \in Seq(Share) /\ Tail(a \o b) \in Seq(Share) /\ Tail(a) \o b \in Seq(Share)
    BY <1>2, <2>1
  <2>3. Len(Tail(a \o b)) = Len(Tail(a) \o b)
    BY <1>2, <2>1, <2>2
  <2>4. ASSUME NEW i \in 1 .. Len(Tail(a \o b))
        PROVE  Tail(a \o b)[i] = (Tail(a) \o b)[i]
    BY <1>2, <2>1, <2>2, <2>3, <2>4
  <2> QED
    BY <2>1, <2>2, <2>3, <2>4, SeqEqual
<1> DEFINE c == conn_queue \o bridge_out
           d == c \o ext_queue
<1>3. c \in Seq(Share) /\ c # <<>> /\ Head(c) = Head(conn_queue)
      /\ Tail(c) = Tail(conn_queue) \o bridge_out
  BY <1>1, <1>2
<1>4. d \in Seq(Share) /\ d # <<>> /\ Head(d) = Head(c) /\ Tail(d) = Tail(c) \o ext_queue
  <2> HIDE DEF c
  <2> QED
    BY <1>1, <1>2, <1>3
<1>5. d \o relay_out # <<>> /\ Head(d \o relay_out) = Head(d)
      /\ Tail(d \o relay_out) = Tail(d) \o relay_out
  <2> HIDE DEF d
  <2> QED
    BY <1>1, <1>2, <1>4
<1> QED
  BY <1>3, <1>4, <1>5 DEF Pipe

-----------------------------------------------------------------------------
(* Preservation. *)

\* The invariant holds initially: the pipe is empty.
LEMMA PipeInit == Init => PipeInv
<1> SUFFICES ASSUME Init PROVE PipeInv
  OBVIOUS
<1>1. Pipe = <<>>
  BY ConcatEmptySeq DEF Init, Pipe
<1>2. Len(Pipe) = 0 /\ 1 .. Len(Pipe) = {}
  BY <1>1
<1>3. PoolBehind
  <2> SUFFICES ASSUME NEW x \in 0 .. IdxMod - 1
               PROVE  /\ TickOf(pool_slot[x].key) \in Nat
                      /\ pool_slot[x].key = NoJob.key
                      /\ pool_slot[x].key \notin DOMAIN by_key
    BY <1>2 DEF PoolBehind
  <2>1. pool_slot[x] = NoJob
    BY DEF Init
  <2>2. DOMAIN by_key = {}
    BY Zenon DEF Init, TrackerInit
  <2> QED
    BY <2>1, <2>2 DEF NoJob, TickOf
<1>4. Shaped /\ Ordered
  BY <1>2 DEF Shaped, Ordered
<1>5. LinkInv /\ Announced /\ FreshSharesResolve
  BY DEF Init, LinkInv, Announced, FreshSharesResolve
<1> QED
  BY <1>3, <1>4, <1>5 DEF PipeInv

\* A step that keeps the pipe, the tracker and the pool keeps the invariant.
LEMMA QuietStep ==
  ASSUME PipeInv, Pipe' = Pipe, link' = "up" => link = "up",
         UNCHANGED <<by_key, seen_template_coinbase, tick, epoch, poolVars>>
  PROVE  Shaped' /\ Ordered' /\ PoolBehind' /\ Announced' /\ FreshSharesResolve'
<1> USE DEF poolVars
<1>1. Shaped' /\ Ordered'
  BY DEF PipeInv, Shaped, Ordered
<1>2. PoolBehind'
  BY DEF PipeInv, PoolBehind
<1>3. Announced'
  BY DEF PipeInv, Announced, JobAnnounced, CoinbaseAnnounced
<1>4. FreshSharesResolve'
  BY DEF PipeInv, FreshSharesResolve
<1> QED
  BY <1>1, <1>2, <1>3, <1>4

\* The m oldest shares of the pipe are lost, and nothing else.
LosesOldest(m) ==
  /\ m <= Len(Pipe) /\ Pipe' \in Seq(Share) /\ Len(Pipe') = Len(Pipe) - m
  /\ \A i \in 1 .. Len(Pipe') : Pipe'[i] = Pipe[i + m]

\* A step that loses the oldest shares of a connection that is not up.
LEMMA LossStep ==
  ASSUME PipeInv, TypeOK, NEW m \in Nat, LosesOldest(m),
         link' # "up",
         UNCHANGED <<by_key, seen_template_coinbase, tick, epoch, poolVars>>
  PROVE  Shaped' /\ Ordered' /\ PoolBehind' /\ Announced' /\ FreshSharesResolve'
<1> USE DEF poolVars, LosesOldest
<1>0. Len(Pipe) \in Nat
  BY PipeType, LenProperties
<1>1. \A i \in 1 .. Len(Pipe') : i + m \in 1 .. Len(Pipe)
  BY <1>0
<1>2. Shaped'
  BY <1>1 DEF PipeInv, Shaped
<1>3. Ordered'
  <2> SUFFICES ASSUME NEW i \in 1 .. Len(Pipe'), NEW j \in 1 .. Len(Pipe')
               PROVE  /\ i < j /\ Pipe'[i].idx = Pipe'[j].idx
                           => TickOf(Pipe'[i].key) <= TickOf(Pipe'[j].key)
                      /\ Pipe'[i].key = Pipe'[j].key => Pipe'[i].idx = Pipe'[j].idx
    BY DEF Ordered
  <2>1. /\ i + m \in 1 .. Len(Pipe) /\ j + m \in 1 .. Len(Pipe)
        /\ i < j => i + m < j + m
        /\ Pipe'[i] = Pipe[i + m] /\ Pipe'[j] = Pipe[j + m]
    BY <1>1
  <2> QED
    BY <2>1 DEF PipeInv, Ordered
<1>4. PoolBehind'
  BY <1>1 DEF PipeInv, PoolBehind
<1>5. Announced' /\ FreshSharesResolve'
  BY DEF PipeInv, Announced, FreshSharesResolve
<1> QED
  BY <1>2, <1>3, <1>4, <1>5

\* A write into a connection the pool has left loses the oldest share.
LEMMA WriteLostLoses ==
  ASSUME TypeOK, WriteLost
  PROVE  LosesOldest(1)
<1>1. Pipe # <<>> /\ Pipe' = Tail(Pipe)
  BY PopPipe DEF WriteLost, relayVars
<1> QED
  BY <1>1, PipeType, HeadTailProperties, EmptySeq DEF LosesOldest

LEMMA WriteLostStep ==
  ASSUME PipeInv, TypeOK, WriteLost
  PROVE  PipeInv'
<1>1. link' # "up" /\ UNCHANGED <<by_key, seen_template_coinbase, tick, epoch, poolVars>>
  BY DEF WriteLost, trackerVars, asmVars
<1>2. Shaped' /\ Ordered' /\ PoolBehind' /\ Announced' /\ FreshSharesResolve'
  BY <1>1, WriteLostLoses, LossStep
<1>3. LinkInv'
  BY DEF WriteLost, LinkInv
<1> QED
  BY <1>2, <1>3 DEF PipeInv

\* Dropping the front of a concatenation shifts its indices.
LEMMA DropFront ==
  ASSUME NEW a \in Seq(Share), NEW b \in Seq(Share)
  PROVE  /\ Len(a) \in Nat /\ Len(a) <= Len(a \o b) /\ Len(b) = Len(a \o b) - Len(a)
         /\ \A i \in 1 .. Len(b) : b[i] = (a \o b)[i + Len(a)]
BY ConcatProperties, LenProperties

\* A failed write loses what the writer had queued.
LEMMA WriteFailLoses ==
  ASSUME TypeOK, WriteFail
  PROVE  \E m \in Nat : LosesOldest(m)
<1> DEFINE rest == (bridge_out \o ext_queue) \o relay_out
<1>1. /\ conn_queue \in Seq(Share) /\ bridge_out \in Seq(Share) /\ ext_queue \in Seq(Share)
      /\ relay_out \in Seq(Share) /\ bridge_out \o ext_queue \in Seq(Share)
      /\ rest \in Seq(Share)
  BY DEF TypeOK
<1>2. Pipe = conn_queue \o rest
  <2>1. (conn_queue \o bridge_out) \o ext_queue = conn_queue \o (bridge_out \o ext_queue)
    BY <1>1, ConcatAssociative
  <2> DEFINE middle == bridge_out \o ext_queue
  <2>2. middle \in Seq(Share)
    BY <1>1
  <2> HIDE DEF middle
  <2>3. (conn_queue \o middle) \o relay_out = conn_queue \o (middle \o relay_out)
    BY <1>1, <2>2, ConcatAssociative, SMTT(30)
  <2> QED
    BY <2>1, <2>3 DEF Pipe, middle
<1>3. Pipe' = rest
  BY <1>1, ConcatEmptySeq DEF Pipe, WriteFail, relayVars
<1>4. /\ Len(conn_queue) \in Nat /\ Len(conn_queue) <= Len(Pipe)
      /\ Pipe' \in Seq(Share) /\ Len(Pipe') = Len(Pipe) - Len(conn_queue)
      /\ \A i \in 1 .. Len(Pipe') : Pipe'[i] = Pipe[i + Len(conn_queue)]
  <2> HIDE DEF rest
  <2> QED
    BY <1>1, <1>2, <1>3, DropFront
<1> QED
  BY <1>4 DEF LosesOldest

LEMMA WriteFailStep ==
  ASSUME PipeInv, TypeOK, WriteFail
  PROVE  PipeInv'
<1>1. link' # "up" /\ UNCHANGED <<by_key, seen_template_coinbase, tick, epoch, poolVars>>
  BY DEF WriteFail, trackerVars, asmVars
<1>2. Shaped' /\ Ordered' /\ PoolBehind' /\ Announced' /\ FreshSharesResolve'
  BY <1>1, WriteFailLoses, LossStep
<1>3. LinkInv'
  BY DEF WriteFail, LinkInv
<1> QED
  BY <1>2, <1>3 DEF PipeInv

\* The bridge of a broken connection drops the share it holds.
LEMMA BridgeDropLoses ==
  ASSUME PipeInv, TypeOK, BridgeFail \/ Teardown
  PROVE  conn_queue = <<>> /\ \E m \in Nat : LosesOldest(m)
<1> DEFINE rest == ext_queue \o relay_out
<1>1. /\ conn_queue = <<>> /\ bridge_out \in Seq(Share) /\ ext_queue \in Seq(Share)
      /\ relay_out \in Seq(Share) /\ rest \in Seq(Share)
  BY DEF TypeOK, PipeInv, LinkInv, BridgeFail, Teardown
<1>2. Pipe = bridge_out \o rest
  BY <1>1, ConcatAssociative, ConcatEmptySeq DEF Pipe
<1>3. Pipe' = rest
  <2>1. conn_queue' = <<>> /\ bridge_out' = <<>> /\ ext_queue' = ext_queue
        /\ relay_out' = relay_out
    BY <1>1 DEF BridgeFail, Teardown, relayVars
  <2> QED
    BY <1>1, <2>1, ConcatEmptySeq DEF Pipe
<1>4. /\ Len(bridge_out) \in Nat /\ Len(bridge_out) <= Len(Pipe)
      /\ Pipe' \in Seq(Share) /\ Len(Pipe') = Len(Pipe) - Len(bridge_out)
      /\ \A i \in 1 .. Len(Pipe') : Pipe'[i] = Pipe[i + Len(bridge_out)]
  <2> HIDE DEF rest
  <2> QED
    BY <1>1, <1>2, <1>3, DropFront
<1> QED
  BY <1>1, <1>4 DEF LosesOldest

LEMMA BridgeDropStep ==
  ASSUME PipeInv, TypeOK, BridgeFail \/ Teardown
  PROVE  PipeInv'
<1>1. link' # "up" /\ UNCHANGED <<by_key, seen_template_coinbase, tick, epoch, poolVars>>
  BY DEF BridgeFail, Teardown, trackerVars, asmVars
<1>2. Shaped' /\ Ordered' /\ PoolBehind' /\ Announced' /\ FreshSharesResolve'
  BY <1>1, BridgeDropLoses, LossStep
<1>3. LinkInv'
  BY BridgeDropLoses DEF BridgeFail, Teardown, LinkInv
<1> QED
  BY <1>2, <1>3 DEF PipeInv

\* A live job is the newest one of its slot.
LEMMA NewestInSlot ==
  ASSUME WindowInv, NEW k \in DOMAIN by_key, NEW u \in 0 .. tick - 1,
         Sv1Key(u) \in DOMAIN by_key => by_key[Sv1Key(u)].idx = by_key[k].idx
  PROVE  /\ TickOf(k) \in OldestLive(tick) .. tick - 1 /\ k = Sv1Key(TickOf(k))
         /\ u <= TickOf(k)
<1>1. tick \in Nat /\ OldestLive(tick) \in Nat
  BY TrackerAssumption, RelayAssumption DEF WindowInv, TypeInv, TypeOK, OldestLive
<1>2. PICK t \in OldestLive(tick) .. tick - 1 : k = Sv1Key(t)
  BY DEF WindowInv, TracksNewestJobs
<1>3. TickOf(k) = t
  BY <1>2 DEF TickOf, Sv1Key
<1>4. u > t => Sv1Key(u) \in DOMAIN by_key
  BY <1>1, <1>2 DEF WindowInv, TracksNewestJobs
<1>5. u > t => Sv1Key(u) = k
  BY <1>4, WindowSlotsDistinct DEF DistinctSlots
<1>6. u > t => u = t
  BY <1>2, <1>5, KeyInjective
<1> QED
  BY <1>1, <1>2, <1>3, <1>6

\* The pool learns what the oldest share of the pipe announces.
LEMMA WriteStep ==
  ASSUME PipeInv, WindowInv, Write
  PROVE  PipeInv'
<1> DEFINE h == Pipe[1]
<1>0. TypeOK
  BY DEF WindowInv, TypeInv
<1>1. Pipe # <<>> /\ Head(conn_queue) = Head(Pipe) /\ Pipe' = Tail(Pipe)
  BY <1>0, PopPipe DEF Write, relayVars
<1>2. /\ Pipe \in Seq(Share) /\ Pipe' \in Seq(Share) /\ 1 <= Len(Pipe) /\ Len(Pipe) \in Nat
      /\ Len(Pipe') = Len(Pipe) - 1 /\ \A i \in 1 .. Len(Pipe') : Pipe'[i] = Pipe[i + 1]
      /\ Head(conn_queue) = h
  BY <1>0, <1>1, PipeType, HeadTailProperties, EmptySeq, LenProperties
<1>3. 1 \in 1 .. Len(Pipe) /\ h \in Share
  BY <1>2
<1>4. /\ link = "up" /\ link' = "up"
      /\ UNCHANGED <<by_key, seen_template_coinbase, tick, epoch>>
      /\ pool_slot' = PoolSlotAfter(h) /\ pool_coinbase' = PoolCoinbaseAfter(h)
      /\ verdicts' = verdicts \cup {Verdict(h)}
  BY <1>2 DEF Write, trackerVars, asmVars
<1>5. \A i \in 1 .. Len(Pipe') : i + 1 \in 1 .. Len(Pipe)
  BY <1>2
<1>6. \A x \in 0 .. IdxMod - 1 :
        pool_slot'[x] = IF h.has01 /\ h.idx = x THEN [key |-> h.key, epoch |-> h.epoch]
                                                ELSE pool_slot[x]
  BY <1>0, <1>3, <1>4 DEF PoolSlotAfter, TypeOK, Share
<1>7. h.idx \in 0 .. IdxMod - 1
  BY <1>3 DEF Share
<1> HIDE DEF h
<1>8. h = Pipe[1]
  BY DEF h
<1>9. Shaped' /\ LinkInv'
  BY <1>2, <1>4, <1>5 DEF PipeInv, Shaped, LinkInv, Write
<1>10. Ordered'
  <2> SUFFICES ASSUME NEW i \in 1 .. Len(Pipe'), NEW j \in 1 .. Len(Pipe')
               PROVE  /\ i < j /\ Pipe'[i].idx = Pipe'[j].idx
                           => TickOf(Pipe'[i].key) <= TickOf(Pipe'[j].key)
                      /\ Pipe'[i].key = Pipe'[j].key => Pipe'[i].idx = Pipe'[j].idx
    BY DEF Ordered
  <2>1. /\ i + 1 \in 1 .. Len(Pipe) /\ j + 1 \in 1 .. Len(Pipe)
        /\ i < j => i + 1 < j + 1
        /\ Pipe'[i] = Pipe[i + 1] /\ Pipe'[j] = Pipe[j + 1]
    BY <1>2, <1>5
  <2> QED
    BY <2>1 DEF PipeInv, Ordered
<1>11. PoolBehind'
  <2> SUFFICES ASSUME NEW x \in 0 .. IdxMod - 1
               PROVE  /\ TickOf(pool_slot'[x].key) \in Nat
                      /\ pool_slot'[x].key # NoJob.key =>
                           /\ TickOf(pool_slot'[x].key) \in 0 .. tick - 1
                           /\ pool_slot'[x].key = Sv1Key(TickOf(pool_slot'[x].key))
                      /\ pool_slot'[x].key \in DOMAIN by_key => by_key[pool_slot'[x].key].idx = x
                      /\ \A i \in 1 .. Len(Pipe') : Pipe'[i].idx = x =>
                           TickOf(pool_slot'[x].key) <= TickOf(Pipe'[i].key)
    BY <1>4 DEF PoolBehind
  <2>1. CASE h.has01 /\ h.idx = x
    <3>1. pool_slot'[x].key = h.key
      BY <1>6, <2>1
    <3>2. /\ TickOf(h.key) \in 0 .. tick - 1 /\ h.key = Sv1Key(TickOf(h.key))
          /\ h.key \in DOMAIN by_key => by_key[h.key].idx = x
      BY <1>3, <1>8, <2>1 DEF PipeInv, Shaped
    <3>3. ASSUME NEW i \in 1 .. Len(Pipe'), Pipe'[i].idx = x
          PROVE  TickOf(h.key) <= TickOf(Pipe'[i].key)
      <4>1. i + 1 \in 1 .. Len(Pipe) /\ 1 < i + 1 /\ Pipe'[i] = Pipe[i + 1]
        BY <1>2, <1>5
      <4> QED
        BY <1>3, <1>8, <2>1, <3>3, <4>1 DEF PipeInv, Ordered
    <3> QED
      BY <3>1, <3>2, <3>3
  <2>2. CASE ~ (h.has01 /\ h.idx = x)
    <3>1. pool_slot'[x] = pool_slot[x]
      BY <1>6, <2>2
    <3> QED
      BY <1>2, <1>5, <3>1 DEF PipeInv, PoolBehind
  <2> QED
    BY <2>1, <2>2
<1>12. ASSUME NEW i \in 1 .. Len(Pipe), NEW key, NEW x \in 0 .. IdxMod - 1,
              JobAnnounced(i + 1, key, x),
              h.has01 /\ h.key = key => h.idx = x,
              h.has01 /\ h.idx = x /\ pool_slot[x].key = key => h.key = key
       PROVE  pool_slot'[x].key = key \/ \E j \in 1 .. i - 1 : Pipe'[j].has01 /\ Pipe'[j].key = key
  <2>1. CASE pool_slot[x].key = key
    BY <1>6, <1>12, <2>1
  <2>2. ASSUME NEW j \in 1 .. i, Pipe[j].has01, Pipe[j].key = key
        PROVE  pool_slot'[x].key = key
                 \/ \E m \in 1 .. i - 1 : Pipe'[m].has01 /\ Pipe'[m].key = key
    <3>1. CASE j = 1
      BY <1>6, <1>8, <1>12, <2>2, <3>1
    <3>2. CASE j # 1
      <4>1. j - 1 \in 1 .. i - 1 /\ j - 1 \in 1 .. Len(Pipe') /\ Pipe'[j - 1] = Pipe[j]
        BY <1>2, <3>2
      <4> QED
        BY <2>2, <4>1
    <3> QED
      BY <3>1, <3>2
  <2>3. 1 .. (i + 1) - 1 = 1 .. i
    BY <1>2
  <2> QED
    BY <1>12, <2>1, <2>2, <2>3 DEF JobAnnounced
<1>13. ASSUME NEW i \in 1 .. Len(Pipe), NEW seed, CoinbaseAnnounced(i + 1, seed)
       PROVE  (\E c \in pool_coinbase' : c.seed = seed)
                \/ \E j \in 1 .. i - 1 : Pipe'[j].has02 /\ Pipe'[j].seed = seed
  <2>1. CASE \E c \in pool_coinbase : c.seed = seed
    BY <1>4, <2>1 DEF PoolCoinbaseAfter
  <2>2. ASSUME NEW j \in 1 .. i, Pipe[j].has02, Pipe[j].seed = seed
        PROVE  (\E c \in pool_coinbase' : c.seed = seed)
                 \/ \E m \in 1 .. i - 1 : Pipe'[m].has02 /\ Pipe'[m].seed = seed
    <3>1. CASE j = 1
      <4>1. [seed |-> h.seed, epoch |-> h.epoch] \in pool_coinbase'
        BY <1>4, <1>8, <2>2, <3>1 DEF PoolCoinbaseAfter
      <4>2. [seed |-> h.seed, epoch |-> h.epoch].seed = seed
        BY <1>8, <2>2, <3>1
      <4> QED
        BY <4>1, <4>2
    <3>2. CASE j # 1
      <4>1. j - 1 \in 1 .. i - 1 /\ j - 1 \in 1 .. Len(Pipe') /\ Pipe'[j - 1] = Pipe[j]
        BY <1>2, <3>2
      <4> QED
        BY <2>2, <4>1
    <3> QED
      BY <3>1, <3>2
  <2>3. 1 .. (i + 1) - 1 = 1 .. i
    BY <1>2
  <2> QED
    BY <1>13, <2>1, <2>2, <2>3 DEF CoinbaseAnnounced
<1>14. ASSUME NEW i \in 1 .. Len(Pipe'), Pipe'[i].epoch = epoch
       PROVE  /\ \/ Pipe'[i].has01
                 \/ pool_slot'[Pipe'[i].idx].key = Pipe'[i].key
                 \/ \E j \in 1 .. i - 1 : Pipe'[j].has01 /\ Pipe'[j].key = Pipe'[i].key
              /\ \/ Pipe'[i].has02
                 \/ \E c \in pool_coinbase' : c.seed = Pipe'[i].seed
                 \/ \E j \in 1 .. i - 1 : Pipe'[j].has02 /\ Pipe'[j].seed = Pipe'[i].seed
  <2> DEFINE s == Pipe[i + 1]
  <2>1. /\ Pipe'[i] = s /\ i + 1 \in 1 .. Len(Pipe) /\ i \in 1 .. Len(Pipe)
        /\ s \in Share /\ s.idx \in 0 .. IdxMod - 1 /\ 1 < i + 1
    <3>1. /\ Pipe'[i] = s /\ i + 1 \in 1 .. Len(Pipe) /\ i \in 1 .. Len(Pipe)
          /\ s \in Share /\ 1 < i + 1
      BY <1>2, <1>5
    <3> QED
      BY <3>1 DEF Share
  <2>2. /\ s.has01 \/ JobAnnounced(i + 1, s.key, s.idx)
        /\ s.has02 \/ CoinbaseAnnounced(i + 1, s.seed)
    BY <1>4, <1>14, <2>1 DEF PipeInv, Announced
  <2>3. h.key = s.key => h.idx = s.idx
    BY <1>3, <1>8, <2>1 DEF PipeInv, Ordered
  <2>4. ASSUME h.idx = s.idx, pool_slot[s.idx].key = s.key PROVE h.key = s.key
    <3>1. TickOf(h.key) <= TickOf(s.key)
      BY <1>3, <1>8, <2>1, <2>4 DEF PipeInv, Ordered
    <3>2. TickOf(s.key) <= TickOf(h.key)
      BY <1>3, <1>8, <2>1, <2>4 DEF PipeInv, PoolBehind
    <3>3. /\ TickOf(h.key) \in 0 .. tick - 1 /\ TickOf(s.key) \in 0 .. tick - 1
          /\ h.key = Sv1Key(TickOf(h.key)) /\ s.key = Sv1Key(TickOf(s.key))
      BY <1>3, <1>8, <2>1 DEF PipeInv, Shaped
    <3>4. TickOf(h.key) = TickOf(s.key)
      BY <3>1, <3>2, <3>3
    <3> QED
      BY <3>3, <3>4
  <2> HIDE DEF s
  <2> QED
    BY <1>12, <1>13, <2>1, <2>2, <2>3, <2>4
<1>15. ASSUME NEW k \in DOMAIN by_key
       PROVE  /\ by_key[k].server_has_merkle_branches =>
                   \/ pool_slot'[by_key[k].idx].key = k
                   \/ \E j \in 1 .. Len(Pipe') : Pipe'[j].has01 /\ Pipe'[j].key = k
              /\ by_key[k].server_has_coinbase =>
                   \/ \E c \in pool_coinbase' : c.seed = by_key[k].seed
                   \/ \E j \in 1 .. Len(Pipe') : Pipe'[j].has02 /\ Pipe'[j].seed = by_key[k].seed
  <2>1. /\ by_key[k].idx \in 0 .. IdxMod - 1 /\ Len(Pipe) \in 1 .. Len(Pipe)
        /\ Len(Pipe') = Len(Pipe) - 1
    <3>1. by_key[k].idx \in 0 .. IdxMod - 1
      BY <1>0 DEF TypeOK, TrackerTypeOK, JobEntry
    <3> QED
      BY <1>2, <3>1
  <2>2. h.key = k => h.idx = by_key[k].idx
    BY <1>3, <1>8 DEF PipeInv, Shaped
  <2>3. ASSUME h.idx = by_key[k].idx, pool_slot[by_key[k].idx].key = k PROVE h.key = k
    <3>1. /\ TickOf(h.key) \in 0 .. tick - 1 /\ h.key = Sv1Key(TickOf(h.key))
          /\ h.key \in DOMAIN by_key => by_key[h.key].idx = by_key[k].idx
      BY <1>3, <1>8, <2>3 DEF PipeInv, Shaped
    <3>2. TickOf(h.key) <= TickOf(k) /\ k = Sv1Key(TickOf(k)) /\ TickOf(k) \in OldestLive(tick) .. tick - 1
      BY <3>1, NewestInSlot
    <3>3. TickOf(k) <= TickOf(h.key)
      BY <1>3, <1>8, <2>1, <2>3 DEF PipeInv, PoolBehind
    <3>4. tick \in Nat /\ OldestLive(tick) \in Nat
      BY <1>0, TrackerAssumption, RelayAssumption DEF TypeOK, OldestLive
    <3>5. TickOf(h.key) = TickOf(k)
      BY <3>1, <3>2, <3>3, <3>4
    <3> QED
      BY <3>1, <3>2, <3>5
  <2>4. /\ by_key[k].server_has_merkle_branches => JobAnnounced(Len(Pipe) + 1, k, by_key[k].idx)
        /\ by_key[k].server_has_coinbase => CoinbaseAnnounced(Len(Pipe) + 1, by_key[k].seed)
    BY <1>4 DEF PipeInv, Announced
  <2>5. /\ by_key[k].server_has_merkle_branches =>
             \/ pool_slot'[by_key[k].idx].key = k
             \/ \E j \in 1 .. Len(Pipe) - 1 : Pipe'[j].has01 /\ Pipe'[j].key = k
        /\ by_key[k].server_has_coinbase =>
             \/ \E c \in pool_coinbase' : c.seed = by_key[k].seed
             \/ \E j \in 1 .. Len(Pipe) - 1 : Pipe'[j].has02 /\ Pipe'[j].seed = by_key[k].seed
    BY <1>12, <1>13, <2>1, <2>2, <2>3, <2>4
  <2> QED
    BY <2>1, <2>5
<1>16. ASSUME NEW seed \in seen_template_coinbase
       PROVE  \/ \E c \in pool_coinbase' : c.seed = seed
              \/ \E j \in 1 .. Len(Pipe') : Pipe'[j].has02 /\ Pipe'[j].seed = seed
  <2>1. Len(Pipe) \in 1 .. Len(Pipe) /\ Len(Pipe') = Len(Pipe) - 1
    BY <1>2
  <2>2. CoinbaseAnnounced(Len(Pipe) + 1, seed)
    BY <1>4 DEF PipeInv, Announced
  <2>3. \/ \E c \in pool_coinbase' : c.seed = seed
        \/ \E j \in 1 .. Len(Pipe) - 1 : Pipe'[j].has02 /\ Pipe'[j].seed = seed
    BY <1>13, <2>1, <2>2
  <2> QED
    BY <2>1, <2>3
<1>17. Announced'
  <2>1. 1 .. (Len(Pipe') + 1) - 1 = 1 .. Len(Pipe')
    BY <1>2
  <2> QED
    BY <1>4, <1>14, <1>15, <1>16, <2>1 DEF Announced, JobAnnounced, CoinbaseAnnounced
<1>18. FreshSharesResolve'
  <2> SUFFICES ASSUME Verdict(h).fresh PROVE Verdict(h).job /\ Verdict(h).coinbase
    BY <1>4 DEF PipeInv, FreshSharesResolve
  <2>1. 1 .. 1 - 1 = {}
    OBVIOUS
  <2>2. h.epoch = epoch
    BY DEF Verdict
  <2>3. /\ h.has01 \/ pool_slot[h.idx].key = h.key
        /\ h.has02 \/ \E c \in pool_coinbase : c.seed = h.seed
    BY <1>3, <1>4, <1>8, <2>1, <2>2 DEF PipeInv, Announced, JobAnnounced, CoinbaseAnnounced
  <2>4. PoolSlotAfter(h)[h.idx].key = h.key
    BY <1>4, <1>6, <1>7, <2>3
  <2>5. \E c \in PoolCoinbaseAfter(h) : c.seed = h.seed
    <3>1. CASE h.has02
      <4>1. [seed |-> h.seed, epoch |-> h.epoch] \in PoolCoinbaseAfter(h)
        BY <3>1 DEF PoolCoinbaseAfter
      <4> QED
        BY <4>1
    <3>2. CASE ~ h.has02
      BY <2>3, <3>2 DEF PoolCoinbaseAfter
    <3> QED
      BY <3>1, <3>2
  <2> QED
    BY <2>4, <2>5 DEF Verdict
<1> QED
  BY <1>9, <1>10, <1>11, <1>17, <1>18 DEF PipeInv

\* The relay appends a share on a live job; what it leaves out the flags call
\* sent.
LEMMA EncodeStep ==
  ASSUME PipeInv, WindowInv, NEW t \in 0 .. tick - 1, NEW block \in BOOLEAN,
         RelayEncode(t, block)
  PROVE  PipeInv'
<1> DEFINE key == Sv1Key(t)
           seed == by_key[key].seed
           s == EncodedShare("sv1", key, seed, block)
           n == Len(Pipe)
<1>0. TypeOK
  BY DEF WindowInv, TypeInv
<1>1. /\ key \in DOMAIN by_key /\ Encode(key, seed)
      /\ UNCHANGED <<tick, epoch, link, pool_slot, pool_coinbase, verdicts>>
      /\ UNCHANGED <<conn_queue, bridge_out, bridge_alive>>
  BY DEF RelayEncode, Encode, Contains, asmVars, linkVars, poolVars
<1>2. seed \in Seeds /\ by_key[key].idx \in 0 .. IdxMod - 1
  BY <1>0, <1>1 DEF TypeOK, TrackerTypeOK, JobEntry
<1>3. s \in Share
  BY <1>0, <1>1, <1>2, EncodedShareType, RelayAssumption
<1>4. Pipe \in Seq(Share) /\ n \in Nat /\ Pipe' = Append(Pipe, s)
  BY <1>0, <1>3, EncodeAppends, PipeType, LenProperties
<1>5. /\ Len(Pipe') = n + 1 /\ Pipe'[n + 1] = s
      /\ \A i \in 1 .. n : Pipe'[i] = Pipe[i]
      /\ 1 .. Len(Pipe') = (1 .. n) \cup {n + 1}
  BY <1>3, <1>4, AppendProperties
<1>6. /\ s.key = key /\ s.idx = by_key[key].idx /\ s.seed = seed /\ s.epoch = epoch
      /\ s.has01 = ~ by_key[key].server_has_merkle_branches
      /\ s.has02 = (~ by_key[key].server_has_coinbase /\ seed \notin seen_template_coinbase)
  BY DEF EncodedShare, Emits01, Emits02
<1>7. /\ DOMAIN by_key' = DOMAIN by_key
      /\ \A k \in DOMAIN by_key : by_key'[k].idx = by_key[k].idx
  BY <1>1, EncodeKeepsSlots
<1>8. /\ \A k \in DOMAIN by_key : k # key => by_key'[k] = by_key[k]
      /\ by_key'[key].seed = seed
      /\ by_key'[key].server_has_coinbase = (by_key[key].server_has_coinbase \/ s.has02)
  BY <1>1, <1>6 DEF Encode, MarkedEntry, Emits02
<1>9. \A sd \in seen_template_coinbase' : sd \in seen_template_coinbase \/ sd = seed
  BY <1>1 DEF Encode
<1>10. TickOf(key) = t /\ key = Sv1Key(t) /\ t \in 0 .. tick - 1
  BY DEF TickOf, Sv1Key
<1>11. tick \in Nat
  BY <1>0, RelayAssumption DEF TypeOK
<1> HIDE DEF s, n, seed, key
<1>12. ASSUME NEW i \in 1 .. n, Pipe[i].idx = s.idx PROVE TickOf(Pipe[i].key) <= t
  <2>1. i \in 1 .. Len(Pipe)
    BY DEF n
  <2>2. /\ TickOf(Pipe[i].key) \in 0 .. tick - 1 /\ Pipe[i].key = Sv1Key(TickOf(Pipe[i].key))
        /\ Pipe[i].key \in DOMAIN by_key => by_key[Pipe[i].key].idx = by_key[key].idx
    BY <1>6, <1>12, <2>1 DEF PipeInv, Shaped
  <2> QED
    BY <1>1, <1>10, <2>2, NewestInSlot
<1>13. TickOf(pool_slot[s.idx].key) <= t
  <2>1. s.idx \in 0 .. IdxMod - 1
    BY <1>2, <1>6
  <2>2. CASE pool_slot[s.idx].key = NoJob.key
    BY <1>10, <1>11, <2>2 DEF NoJob, TickOf
  <2>3. CASE pool_slot[s.idx].key # NoJob.key
    <3> DEFINE k == pool_slot[s.idx].key
    <3>1. /\ TickOf(k) \in 0 .. tick - 1 /\ k = Sv1Key(TickOf(k))
          /\ k \in DOMAIN by_key => by_key[k].idx = by_key[key].idx
      BY <1>6, <2>1, <2>3 DEF PipeInv, PoolBehind
    <3> HIDE DEF k
    <3>2. TickOf(k) <= TickOf(key)
      BY <1>1, <3>1, NewestInSlot
    <3> QED
      BY <1>10, <3>2 DEF k
  <2> QED
    BY <2>2, <2>3
<1>14. Shaped'
  <2>1. ASSUME NEW i \in 1 .. n
        PROVE  /\ TickOf(Pipe[i].key) \in 0 .. tick - 1
               /\ Pipe[i].key = Sv1Key(TickOf(Pipe[i].key))
               /\ Pipe[i].epoch <= epoch
               /\ Pipe[i].key \in DOMAIN by_key => Pipe[i].idx = by_key[Pipe[i].key].idx
    BY DEF PipeInv, Shaped, n
  <2>2. epoch <= epoch
    BY <1>0, RelayAssumption DEF TypeOK
  <2> QED
    BY <1>1, <1>5, <1>6, <1>7, <1>10, <2>1, <2>2 DEF Shaped
<1>15. Ordered'
  <2> SUFFICES ASSUME NEW i \in 1 .. Len(Pipe'), NEW j \in 1 .. Len(Pipe')
               PROVE  /\ i < j /\ Pipe'[i].idx = Pipe'[j].idx
                           => TickOf(Pipe'[i].key) <= TickOf(Pipe'[j].key)
                      /\ Pipe'[i].key = Pipe'[j].key => Pipe'[i].idx = Pipe'[j].idx
    BY DEF Ordered
  <2>1. CASE i \in 1 .. n /\ j \in 1 .. n
    BY <1>5, <2>1 DEF PipeInv, Ordered, n
  <2>2. ASSUME NEW m \in 1 .. n PROVE Pipe[m].key = s.key => Pipe[m].idx = s.idx
    BY <1>1, <1>6, <2>2 DEF PipeInv, Shaped, n
  <2>3. CASE i \in 1 .. n /\ j = n + 1
    BY <1>5, <1>6, <1>10, <1>12, <2>2, <2>3
  <2>4. CASE i = n + 1 /\ j \in 1 .. n
    <3>1. ~ (i < j)
      BY <1>4, <2>4
    <3> QED
      BY <1>5, <2>2, <2>4, <3>1
  <2>5. CASE i = n + 1 /\ j = n + 1
    BY <1>4, <2>5
  <2> QED
    BY <1>5, <2>1, <2>3, <2>4, <2>5
<1>16. PoolBehind'
  <2> SUFFICES ASSUME NEW x \in 0 .. IdxMod - 1
               PROVE  /\ TickOf(pool_slot[x].key) \in Nat
                      /\ pool_slot[x].key # NoJob.key =>
                           /\ TickOf(pool_slot[x].key) \in 0 .. tick - 1
                           /\ pool_slot[x].key = Sv1Key(TickOf(pool_slot[x].key))
                      /\ pool_slot[x].key \in DOMAIN by_key => by_key[pool_slot[x].key].idx = x
                      /\ \A i \in 1 .. Len(Pipe') : Pipe'[i].idx = x =>
                           TickOf(pool_slot[x].key) <= TickOf(Pipe'[i].key)
    BY <1>1, <1>7 DEF PoolBehind
  <2>1. \A i \in 1 .. n : Pipe[i].idx = x => TickOf(pool_slot[x].key) <= TickOf(Pipe[i].key)
    BY DEF PipeInv, PoolBehind, n
  <2>2. s.idx = x => TickOf(pool_slot[x].key) <= TickOf(s.key)
    BY <1>6, <1>10, <1>13
  <2> QED
    BY <1>5, <2>1, <2>2 DEF PipeInv, PoolBehind
<1>17. ASSUME NEW k, NEW x, JobAnnounced(n + 1, k, x) \/ (s.has01 /\ k = key)
       PROVE  pool_slot[x].key = k \/ \E j \in 1 .. n + 1 : Pipe'[j].has01 /\ Pipe'[j].key = k
  <2>1. 1 .. (n + 1) - 1 = 1 .. n /\ n + 1 \in 1 .. n + 1 /\ \A j \in 1 .. n : j \in 1 .. n + 1
    BY <1>4
  <2> QED
    BY <1>5, <1>6, <1>17, <2>1 DEF JobAnnounced
<1>18. ASSUME NEW sd, CoinbaseAnnounced(n + 1, sd) \/ (s.has02 /\ sd = seed)
       PROVE  \/ \E c \in pool_coinbase : c.seed = sd
              \/ \E j \in 1 .. n + 1 : Pipe'[j].has02 /\ Pipe'[j].seed = sd
  <2>1. 1 .. (n + 1) - 1 = 1 .. n /\ n + 1 \in 1 .. n + 1 /\ \A j \in 1 .. n : j \in 1 .. n + 1
    BY <1>4
  <2> QED
    BY <1>5, <1>6, <1>18, <2>1 DEF CoinbaseAnnounced
<1>19. Announced'
  <2> SUFFICES ASSUME link = "up" PROVE Announced'
    BY <1>1 DEF Announced
  <2>1. /\ \A i \in 1 .. n : Pipe[i].epoch = epoch =>
             /\ Pipe[i].has01 \/ JobAnnounced(i, Pipe[i].key, Pipe[i].idx)
             /\ Pipe[i].has02 \/ CoinbaseAnnounced(i, Pipe[i].seed)
        /\ \A k \in DOMAIN by_key :
             /\ by_key[k].server_has_merkle_branches => JobAnnounced(n + 1, k, by_key[k].idx)
             /\ by_key[k].server_has_coinbase => CoinbaseAnnounced(n + 1, by_key[k].seed)
        /\ \A sd \in seen_template_coinbase : CoinbaseAnnounced(n + 1, sd)
    BY DEF PipeInv, Announced, n
  <2>2. ASSUME NEW i \in 1 .. n, Pipe[i].epoch = epoch
        PROVE  /\ \/ Pipe'[i].has01 \/ pool_slot[Pipe'[i].idx].key = Pipe'[i].key
                  \/ \E j \in 1 .. i - 1 : Pipe'[j].has01 /\ Pipe'[j].key = Pipe'[i].key
               /\ \/ Pipe'[i].has02 \/ \E c \in pool_coinbase : c.seed = Pipe'[i].seed
                  \/ \E j \in 1 .. i - 1 : Pipe'[j].has02 /\ Pipe'[j].seed = Pipe'[i].seed
    <3>1. \A j \in 1 .. i - 1 : j \in 1 .. n
      BY <1>4
    <3> QED
      BY <1>5, <2>1, <2>2, <3>1 DEF JobAnnounced, CoinbaseAnnounced
  <2>3. /\ s.has01 \/ JobAnnounced(n + 1, key, by_key[key].idx)
        /\ s.has02 \/ CoinbaseAnnounced(n + 1, seed)
    BY <1>1, <1>6, <2>1 DEF seed
  <2>4. /\ \/ s.has01 \/ pool_slot[s.idx].key = s.key
           \/ \E j \in 1 .. (n + 1) - 1 : Pipe'[j].has01 /\ Pipe'[j].key = s.key
        /\ \/ s.has02 \/ \E c \in pool_coinbase : c.seed = s.seed
           \/ \E j \in 1 .. (n + 1) - 1 : Pipe'[j].has02 /\ Pipe'[j].seed = s.seed
    <3>1. 1 .. (n + 1) - 1 = 1 .. n
      BY <1>4
    <3> QED
      BY <1>5, <1>6, <2>3, <3>1 DEF JobAnnounced, CoinbaseAnnounced
  <2>5. ASSUME NEW k \in DOMAIN by_key
        PROVE  /\ by_key'[k].server_has_merkle_branches =>
                    \/ pool_slot[by_key[k].idx].key = k
                    \/ \E j \in 1 .. n + 1 : Pipe'[j].has01 /\ Pipe'[j].key = k
               /\ by_key'[k].server_has_coinbase =>
                    \/ \E c \in pool_coinbase : c.seed = by_key'[k].seed
                    \/ \E j \in 1 .. n + 1 : Pipe'[j].has02 /\ Pipe'[j].seed = by_key'[k].seed
    <3>1. CASE k = key
      <4>1. s.has01 \/ JobAnnounced(n + 1, k, by_key[k].idx)
        BY <2>3, <3>1
      <4>2. by_key'[k].server_has_coinbase => s.has02 \/ CoinbaseAnnounced(n + 1, seed)
        BY <2>3
      <4>3. by_key'[k].seed = seed
        BY <1>8, <3>1
      <4> QED
        BY <1>17, <1>18, <3>1, <4>1, <4>2, <4>3
    <3>2. CASE k # key
      <4>1. by_key'[k] = by_key[k]
        BY <1>8, <3>2
      <4>2. by_key[k].server_has_merkle_branches => JobAnnounced(n + 1, k, by_key[k].idx)
        BY <2>1
      <4>3. by_key[k].server_has_coinbase => CoinbaseAnnounced(n + 1, by_key[k].seed)
        BY <2>1
      <4> QED
        BY <1>17, <1>18, <4>1, <4>2, <4>3
    <3> QED
      BY <3>1, <3>2
  <2>6. ASSUME NEW sd \in seen_template_coinbase'
        PROVE  \/ \E c \in pool_coinbase : c.seed = sd
               \/ \E j \in 1 .. n + 1 : Pipe'[j].has02 /\ Pipe'[j].seed = sd
    <3>1. CoinbaseAnnounced(n + 1, sd) \/ (s.has02 /\ sd = seed)
      <4>1. CASE sd \in seen_template_coinbase
        BY <2>1, <4>1, Zenon
      <4>2. CASE sd = seed
        BY <2>3, <4>2
      <4> QED
        BY <1>9, <4>1, <4>2
    <3> QED
      BY <1>18, <3>1
  <2>7. /\ \A i \in 1 .. n + 1 : Pipe'[i].epoch = epoch =>
             /\ \/ Pipe'[i].has01 \/ pool_slot[Pipe'[i].idx].key = Pipe'[i].key
                \/ \E j \in 1 .. i - 1 : Pipe'[j].has01 /\ Pipe'[j].key = Pipe'[i].key
             /\ \/ Pipe'[i].has02 \/ \E c \in pool_coinbase : c.seed = Pipe'[i].seed
                \/ \E j \in 1 .. i - 1 : Pipe'[j].has02 /\ Pipe'[j].seed = Pipe'[i].seed
    <3>1. \A i \in 1 .. n + 1 : i \in 1 .. n \/ i = n + 1
      BY <1>4
    <3> QED
      BY <1>5, <2>2, <2>4, <3>1
  <2>8. 1 .. (Len(Pipe') + 1) - 1 = 1 .. n + 1 /\ 1 .. Len(Pipe') = 1 .. n + 1
    BY <1>4, <1>5
  <2>9. \A k \in DOMAIN by_key' :
           /\ by_key'[k].server_has_merkle_branches =>
                \/ pool_slot[by_key'[k].idx].key = k
                \/ \E j \in 1 .. n + 1 : Pipe'[j].has01 /\ Pipe'[j].key = k
           /\ by_key'[k].server_has_coinbase =>
                \/ \E c \in pool_coinbase : c.seed = by_key'[k].seed
                \/ \E j \in 1 .. n + 1 : Pipe'[j].has02 /\ Pipe'[j].seed = by_key'[k].seed
    BY <1>7, <2>5, Zenon
  <2> QED
    BY <1>1, <2>6, <2>7, <2>8, <2>9, ZenonT(60) DEF Announced, JobAnnounced, CoinbaseAnnounced
<1>20. LinkInv' /\ FreshSharesResolve'
  BY <1>1 DEF PipeInv, LinkInv, FreshSharesResolve
<1> QED
  BY <1>14, <1>15, <1>16, <1>19, <1>20 DEF PipeInv

\* Insertion leaves the entries it does not evict alone.
LEMMA InsertKeepsOthers ==
  ASSUME NEW key, NEW seed, NEW idx, Insert(key, seed, idx)
  PROVE  /\ \A k \in DOMAIN by_key' : k = key \/ (k \in DOMAIN by_key /\ by_key'[k] = by_key[k])
         /\ by_key'[key] = NewEntry(seed, idx)
<1> DEFINE kept == IF MustEvict THEN DOMAIN by_key \ {Head(order)} ELSE DOMAIN by_key
<1>1. by_key' = [k \in kept \cup {key} |-> IF k = key THEN NewEntry(seed, idx) ELSE by_key[k]]
  BY DEF Insert
<1>2. kept \subseteq DOMAIN by_key
  OBVIOUS
<1> HIDE DEF kept
<1>3. DOMAIN by_key' = kept \cup {key} /\ by_key'[key] = NewEntry(seed, idx)
  BY <1>1
<1>4. \A k \in DOMAIN by_key' : k # key => k \in kept /\ by_key'[k] = by_key[k]
  BY <1>1, <1>3
<1> QED
  BY <1>2, <1>3, <1>4

\* Insertion adds a job no share is on yet, with both flags clear.
LEMMA InsertStep ==
  ASSUME PipeInv, WindowInv, AsmInsert
  PROVE  PipeInv'
<1> DEFINE key == Sv1Key(tick)
<1>0. tick \in Nat /\ TypeOK
  BY RelayAssumption DEF WindowInv, TypeInv, TypeOK
<1>1. /\ Insert(key, asm.seed, asm.idx) /\ tick' = tick + 1
      /\ UNCHANGED <<seen_template_coinbase, epoch, link, pool_slot, pool_coinbase, verdicts>>
      /\ UNCHANGED <<conn_queue, bridge_out, bridge_alive, ext_queue, relay_out>>
  BY DEF AsmInsert, Insert, relayVars, linkVars, poolVars
<1>2. Pipe' = Pipe
  BY <1>1 DEF Pipe
<1>3. /\ \A k \in DOMAIN by_key' : k = key \/ (k \in DOMAIN by_key /\ by_key'[k] = by_key[k])
      /\ by_key'[key] = NewEntry(asm.seed, asm.idx)
  BY <1>1, InsertKeepsOthers
<1>4. /\ ~ by_key'[key].server_has_merkle_branches /\ ~ by_key'[key].server_has_coinbase
  BY <1>3 DEF NewEntry
<1>5. TickOf(key) = tick
  BY DEF key, TickOf, Sv1Key
<1> HIDE DEF key
<1>6. \A u \in 0 .. tick - 1 : u \in 0 .. tick' - 1 /\ u # tick
  BY <1>0, <1>1
<1>7. \A i \in 1 .. Len(Pipe) : Pipe[i].key # key
  BY <1>5, <1>6 DEF PipeInv, Shaped
<1>8. \A x \in 0 .. IdxMod - 1 : pool_slot[x].key # key
  <2> SUFFICES ASSUME NEW x \in 0 .. IdxMod - 1, pool_slot[x].key = key PROVE FALSE
    OBVIOUS
  <2>1. key # NoJob.key
    BY DEF key, Sv1Key, NoJob
  <2>2. TickOf(pool_slot[x].key) \in 0 .. tick - 1
    BY <2>1 DEF PipeInv, PoolBehind
  <2> QED
    BY <1>5, <1>6, <2>2
<1>9. Shaped'
  BY <1>1, <1>2, <1>3, <1>6, <1>7 DEF PipeInv, Shaped
<1>10. Ordered'
  BY <1>2 DEF PipeInv, Ordered
<1>11. PoolBehind'
  <2> SUFFICES ASSUME NEW x \in 0 .. IdxMod - 1
               PROVE  /\ TickOf(pool_slot[x].key) \in Nat
                      /\ pool_slot[x].key # NoJob.key =>
                           /\ TickOf(pool_slot[x].key) \in 0 .. tick' - 1
                           /\ pool_slot[x].key = Sv1Key(TickOf(pool_slot[x].key))
                      /\ pool_slot[x].key \in DOMAIN by_key' => by_key'[pool_slot[x].key].idx = x
                      /\ \A i \in 1 .. Len(Pipe) : Pipe[i].idx = x =>
                           TickOf(pool_slot[x].key) <= TickOf(Pipe[i].key)
    BY <1>1, <1>2 DEF PoolBehind
  <2> QED
    BY <1>3, <1>6, <1>8 DEF PipeInv, PoolBehind
<1>12. Announced'
  <2> SUFFICES ASSUME link = "up" PROVE Announced'
    BY <1>1 DEF Announced
  <2>1. ASSUME NEW k \in DOMAIN by_key'
        PROVE  /\ by_key'[k].server_has_merkle_branches =>
                    JobAnnounced(Len(Pipe) + 1, k, by_key'[k].idx)
               /\ by_key'[k].server_has_coinbase =>
                    CoinbaseAnnounced(Len(Pipe) + 1, by_key'[k].seed)
    <3>1. CASE k = key
      BY <1>4, <3>1
    <3>2. CASE k \in DOMAIN by_key /\ by_key'[k] = by_key[k]
      BY <3>2 DEF PipeInv, Announced
    <3> QED
      BY <1>3, <3>1, <3>2
  <2> QED
    BY <1>1, <1>2, <2>1 DEF PipeInv, Announced, JobAnnounced, CoinbaseAnnounced
<1>13. LinkInv' /\ FreshSharesResolve'
  BY <1>1 DEF PipeInv, LinkInv, FreshSharesResolve
<1> QED
  BY <1>9, <1>10, <1>11, <1>12, <1>13 DEF PipeInv

\* A reconnect starts with no flag set, an empty pool and no fresh share.
LEMMA ConnectStep ==
  ASSUME PipeInv, WindowInv, Connect
  PROVE  PipeInv'
<1>0. TypeOK /\ epoch \in Nat /\ tick \in Nat
  BY RelayAssumption DEF WindowInv, TypeInv, TypeOK
<1>1. /\ ResetSendOnceFlags /\ epoch' = epoch + 1
      /\ UNCHANGED <<tick, verdicts>>
      /\ pool_slot' = [i \in 0 .. IdxMod - 1 |-> NoJob]
      /\ UNCHANGED <<conn_queue, bridge_out, ext_queue, relay_out>>
  BY DEF Connect, asmVars, relayVars, PipeInv, LinkInv
<1>2. Pipe' = Pipe
  BY <1>1 DEF Pipe
<1>3. /\ DOMAIN by_key' = DOMAIN by_key
      /\ \A k \in DOMAIN by_key : by_key'[k].idx = by_key[k].idx
  BY <1>1, ResetKeepsSlots
<1>4. /\ seen_template_coinbase' = {}
      /\ \A k \in DOMAIN by_key' : /\ ~ by_key'[k].server_has_merkle_branches
                                  /\ ~ by_key'[k].server_has_coinbase
  BY <1>1 DEF ResetSendOnceFlags, NewEntry
<1>5. \A i \in 1 .. Len(Pipe) : Pipe[i] \in Share
  BY <1>0, PipeType
<1>6. \A i \in 1 .. Len(Pipe) : Pipe[i].epoch <= epoch' /\ Pipe[i].epoch # epoch'
  <2> SUFFICES ASSUME NEW i \in 1 .. Len(Pipe)
               PROVE  Pipe[i].epoch <= epoch' /\ Pipe[i].epoch # epoch'
    OBVIOUS
  <2>1. Pipe[i].epoch \in Nat
    BY <1>5 DEF Share
  <2>2. Pipe[i].epoch <= epoch
    BY DEF PipeInv, Shaped
  <2> QED
    BY <1>0, <1>1, <2>1, <2>2
<1>7. Shaped'
  BY <1>1, <1>2, <1>3, <1>6 DEF PipeInv, Shaped
<1>8. Ordered'
  BY <1>2 DEF PipeInv, Ordered
<1>9. PoolBehind'
  <2>1. TickOf(NoJob.key) = 0
    BY DEF NoJob, TickOf
  <2>2. NoJob.key \notin DOMAIN by_key
    BY DEF WindowInv, TracksNewestJobs, NoJob, Sv1Key
  <2>3. \A i \in 1 .. Len(Pipe) : 0 <= TickOf(Pipe[i].key)
    BY <1>0 DEF PipeInv, Shaped
  <2> SUFFICES ASSUME NEW x \in 0 .. IdxMod - 1
               PROVE  /\ TickOf(pool_slot'[x].key) \in Nat
                      /\ pool_slot'[x].key # NoJob.key =>
                           /\ TickOf(pool_slot'[x].key) \in 0 .. tick - 1
                           /\ pool_slot'[x].key = Sv1Key(TickOf(pool_slot'[x].key))
                      /\ pool_slot'[x].key \in DOMAIN by_key' => by_key'[pool_slot'[x].key].idx = x
                      /\ \A i \in 1 .. Len(Pipe) : Pipe[i].idx = x =>
                           TickOf(pool_slot'[x].key) <= TickOf(Pipe[i].key)
    BY <1>1, <1>2 DEF PoolBehind
  <2>4. pool_slot'[x] = NoJob
    BY <1>1
  <2> QED
    BY <1>3, <2>1, <2>2, <2>3, <2>4
<1>10. Announced'
  BY <1>2, <1>4, <1>6 DEF Announced
<1>11. LinkInv' /\ FreshSharesResolve'
  BY <1>1 DEF PipeInv, LinkInv, FreshSharesResolve, Connect
<1> QED
  BY <1>7, <1>8, <1>9, <1>10, <1>11 DEF PipeInv

\* Every step preserves the invariant.
LEMMA PipeNext == WindowInv /\ PipeInv /\ [Sv1Next]_vars => PipeInv'
<1> SUFFICES ASSUME WindowInv, PipeInv, [Sv1Next]_vars PROVE PipeInv'
  OBVIOUS
<1>0. TypeOK
  BY DEF WindowInv, TypeInv
<1> USE DEF trackerVars, asmVars, relayVars, linkVars
<1>1. CASE PublishTemplate
  BY <1>1, QuietStep DEF PublishTemplate, Pipe, PipeInv, LinkInv
<1>2. CASE AsmAllocate
  BY <1>2, QuietStep DEF AsmAllocate, NextIdx, Pipe, PipeInv, LinkInv
<1>3. CASE AsmInsert
  BY <1>3, InsertStep
<1>4. ASSUME NEW t \in 0 .. tick - 1, NEW block \in BOOLEAN, RelayEncode(t, block)
      PROVE  PipeInv'
  BY <1>4, EncodeStep
<1>5. ASSUME NEW t, NEW parses, RelayDrop(t, parses) PROVE PipeInv'
  BY <1>5, QuietStep DEF RelayDrop, Pipe, PipeInv, LinkInv
<1>6. CASE RelaySend
  BY <1>0, <1>6, SendKeepsPipe, QuietStep DEF RelaySend, PipeInv, LinkInv
<1>7. CASE Connect
  BY <1>7, ConnectStep
<1>8. CASE BridgeTake
  <2>1. LinkInv'
    BY <1>8 DEF BridgeTake, PipeInv, LinkInv
  <2> QED
    BY <1>0, <1>8, <2>1, TakeKeepsPipe, QuietStep DEF BridgeTake, PipeInv
<1>9. CASE BridgePut
  BY <1>0, <1>9, PutKeepsPipe, QuietStep DEF BridgePut, PipeInv, LinkInv
<1>10. CASE BridgeFail \/ Teardown
  BY <1>0, <1>10, BridgeDropStep
<1>11. CASE Write
  BY <1>11, WriteStep
<1>12. CASE WriteLost
  BY <1>0, <1>12, WriteLostStep
<1>13. CASE WriteFail
  BY <1>0, <1>13, WriteFailStep
<1>14. CASE PeerClose
  BY <1>14, QuietStep DEF PeerClose, Pipe, PipeInv, LinkInv
<1>15. CASE UNCHANGED vars
  BY <1>15, QuietStep DEF vars, Pipe, PipeInv, LinkInv, poolVars
<1> QED
  BY <1>1, <1>2, <1>3, <1>4, <1>5, <1>6, <1>7, <1>8, <1>9, <1>10, <1>11, <1>12, <1>13,
     <1>14, <1>15 DEF Sv1Next, RelayStep

\* Every share encoded since the reset of a connection reaches a pool that
\* knows its job and its coinbase, for every queue capacity and tracker size:
\* the share that carries 0x01 or 0x02 is ahead of the shares that rely on it.
THEOREM FreshResolve == Spec => []FreshSharesResolve
<1>1. WindowInv /\ PipeInv /\ [Sv1Next]_vars => (WindowInv /\ PipeInv)'
  BY WindowNext, PipeNext
<1>2. Init => WindowInv /\ PipeInv
  BY WindowInit, PipeInit
<1>3. WindowInv /\ PipeInv => FreshSharesResolve
  BY DEF PipeInv
<1> QED
  BY <1>1, <1>2, <1>3, PTL DEF Spec

-----------------------------------------------------------------------------
(* No sub-block is repeated between two resets. *)

\* A share that announces its job: the flag of the job is set since the last
\* reset, no other share of that encoding epoch in the pipe announces it, and
\* the pool does not have it.
JobOnce ==
  \A i \in 1 .. Len(Pipe) : Pipe[i].has01 =>
    /\ Pipe[i].epoch = epoch /\ Pipe[i].key \in DOMAIN by_key =>
         by_key[Pipe[i].key].server_has_merkle_branches
    /\ pool_slot[Pipe[i].idx] # [key |-> Pipe[i].key, epoch |-> Pipe[i].epoch]
    /\ \A j \in 1 .. Len(Pipe) :
         Pipe[j].has01 /\ Pipe[j].key = Pipe[i].key /\ Pipe[j].epoch = Pipe[i].epoch => j = i

\* The same for the coinbase, whose flag is the sentinel for the seed.
CoinbaseOnce ==
  \A i \in 1 .. Len(Pipe) : Pipe[i].has02 =>
    /\ Pipe[i].epoch = epoch => Pipe[i].seed \in seen_template_coinbase
    /\ [seed |-> Pipe[i].seed, epoch |-> Pipe[i].epoch] \notin pool_coinbase
    /\ \A j \in 1 .. Len(Pipe) :
         Pipe[j].has02 /\ Pipe[j].seed = Pipe[i].seed /\ Pipe[j].epoch = Pipe[i].epoch => j = i

\* What the pool was told since the last reset has its flag set.
PoolMarked ==
  /\ \A x \in 0 .. IdxMod - 1 :
       /\ pool_slot[x].epoch <= epoch
       /\ pool_slot[x].epoch = epoch /\ pool_slot[x].key \in DOMAIN by_key =>
            by_key[pool_slot[x].key].server_has_merkle_branches
  /\ \A c \in pool_coinbase :
       c.epoch <= epoch /\ (c.epoch = epoch => c.seed \in seen_template_coinbase)

OnceInv == JobOnce /\ CoinbaseOnce /\ PoolMarked /\ AnnouncedOnce

LEMMA OnceInit == Init => OnceInv
<1> SUFFICES ASSUME Init PROVE OnceInv
  OBVIOUS
<1>1. Len(Pipe) = 0 /\ 1 .. Len(Pipe) = {}
  BY ConcatEmptySeq DEF Init, Pipe
<1>2. DOMAIN by_key = {}
  BY Zenon DEF Init, TrackerInit
<1>3. \A x \in 0 .. IdxMod - 1 : pool_slot[x].epoch = 0
  BY DEF Init, NoJob
<1>4. PoolMarked
  BY <1>2, <1>3 DEF PoolMarked, Init
<1> QED
  BY <1>1, <1>4 DEF OnceInv, JobOnce, CoinbaseOnce, AnnouncedOnce, Init

\* A step that at most loses the oldest shares keeps the invariant.
LEMMA LossOnce ==
  ASSUME OnceInv, TypeOK, NEW m \in Nat, LosesOldest(m),
         UNCHANGED <<by_key, seen_template_coinbase, epoch, poolVars>>
  PROVE  OnceInv'
<1> USE DEF poolVars
<1>0. Len(Pipe) \in Nat
  BY PipeType, LenProperties
<1>1. \A i \in 1 .. Len(Pipe') : i + m \in 1 .. Len(Pipe) /\ Pipe'[i] = Pipe[i + m]
  BY <1>0 DEF LosesOldest
<1>2. JobOnce'
  <2> SUFFICES ASSUME NEW i \in 1 .. Len(Pipe'), Pipe'[i].has01
               PROVE  /\ Pipe'[i].epoch = epoch /\ Pipe'[i].key \in DOMAIN by_key =>
                           by_key[Pipe'[i].key].server_has_merkle_branches
                      /\ pool_slot[Pipe'[i].idx] # [key |-> Pipe'[i].key, epoch |-> Pipe'[i].epoch]
                      /\ \A j \in 1 .. Len(Pipe') :
                           Pipe'[j].has01 /\ Pipe'[j].key = Pipe'[i].key
                             /\ Pipe'[j].epoch = Pipe'[i].epoch => j = i
    BY DEF JobOnce
  <2>1. \A j \in 1 .. Len(Pipe') : j + m = i + m => j = i
    BY <1>0
  <2> DEFINE s == Pipe[i + m]
  <2>2. i + m \in 1 .. Len(Pipe) /\ Pipe'[i] = s
    BY <1>1
  <2>3. /\ s.epoch = epoch /\ s.key \in DOMAIN by_key => by_key[s.key].server_has_merkle_branches
        /\ pool_slot[s.idx] # [key |-> s.key, epoch |-> s.epoch]
        /\ \A j \in 1 .. Len(Pipe) :
             Pipe[j].has01 /\ Pipe[j].key = s.key /\ Pipe[j].epoch = s.epoch => j = i + m
    BY <2>2 DEF OnceInv, JobOnce
  <2> HIDE DEF s
  <2> QED
    BY <1>1, <2>1, <2>2, <2>3
<1>3. CoinbaseOnce'
  <2> SUFFICES ASSUME NEW i \in 1 .. Len(Pipe'), Pipe'[i].has02
               PROVE  /\ Pipe'[i].epoch = epoch => Pipe'[i].seed \in seen_template_coinbase
                      /\ [seed |-> Pipe'[i].seed, epoch |-> Pipe'[i].epoch] \notin pool_coinbase
                      /\ \A j \in 1 .. Len(Pipe') :
                           Pipe'[j].has02 /\ Pipe'[j].seed = Pipe'[i].seed
                             /\ Pipe'[j].epoch = Pipe'[i].epoch => j = i
    BY DEF CoinbaseOnce
  <2>1. \A j \in 1 .. Len(Pipe') : j + m = i + m => j = i
    BY <1>0
  <2> DEFINE s == Pipe[i + m]
  <2>2. i + m \in 1 .. Len(Pipe) /\ Pipe'[i] = s
    BY <1>1
  <2>3. /\ s.epoch = epoch => s.seed \in seen_template_coinbase
        /\ [seed |-> s.seed, epoch |-> s.epoch] \notin pool_coinbase
        /\ \A j \in 1 .. Len(Pipe) :
             Pipe[j].has02 /\ Pipe[j].seed = s.seed /\ Pipe[j].epoch = s.epoch => j = i + m
    BY <2>2 DEF OnceInv, CoinbaseOnce
  <2> HIDE DEF s
  <2> QED
    BY <1>1, <2>1, <2>2, <2>3
<1>4. PoolMarked' /\ AnnouncedOnce'
  BY DEF OnceInv, PoolMarked, AnnouncedOnce
<1> QED
  BY <1>2, <1>3, <1>4 DEF OnceInv

\* Nothing is lost when the pipe stays as it is.
LEMMA QuietOnce ==
  ASSUME OnceInv, TypeOK, Pipe' = Pipe,
         UNCHANGED <<by_key, seen_template_coinbase, epoch, poolVars>>
  PROVE  OnceInv'
<1>1. Pipe \in Seq(Share) /\ Len(Pipe) \in Nat
  BY PipeType, LenProperties
<1>2. LosesOldest(0)
  BY <1>1 DEF LosesOldest
<1> QED
  BY <1>2, LossOnce

\* What the delivered share announces the pool did not have, and no share
\* behind it announces again.
LEMMA WriteOnce ==
  ASSUME OnceInv, PipeInv, TypeOK, Write
  PROVE  OnceInv'
<1> DEFINE h == Pipe[1]
<1>1. Pipe # <<>> /\ Head(conn_queue) = Head(Pipe) /\ Pipe' = Tail(Pipe)
  BY PopPipe DEF Write, relayVars
<1>2. /\ Pipe \in Seq(Share) /\ 1 <= Len(Pipe) /\ Len(Pipe) \in Nat
      /\ Len(Pipe') = Len(Pipe) - 1 /\ \A i \in 1 .. Len(Pipe') : Pipe'[i] = Pipe[i + 1]
      /\ Head(conn_queue) = h
  BY <1>1, PipeType, HeadTailProperties, EmptySeq, LenProperties
<1>3. 1 \in 1 .. Len(Pipe) /\ h \in Share /\ h.idx \in 0 .. IdxMod - 1 /\ h.epoch <= epoch
  <2>1. 1 \in 1 .. Len(Pipe) /\ h \in Share
    BY <1>2
  <2>2. h.epoch <= epoch
    BY <2>1 DEF PipeInv, Shaped
  <2> QED
    BY <2>1, <2>2 DEF Share
<1>4. /\ UNCHANGED <<by_key, seen_template_coinbase, epoch>>
      /\ pool_slot' = PoolSlotAfter(h) /\ pool_coinbase' = PoolCoinbaseAfter(h)
      /\ verdicts' = verdicts \cup {Verdict(h)}
  BY <1>2 DEF Write, trackerVars, asmVars
<1>5. \A i \in 1 .. Len(Pipe') : i + 1 \in 1 .. Len(Pipe) /\ i + 1 # 1 /\ Pipe'[i] = Pipe[i + 1]
  BY <1>2
<1>6. \A x \in 0 .. IdxMod - 1 :
        pool_slot'[x] = IF h.has01 /\ h.idx = x THEN [key |-> h.key, epoch |-> h.epoch]
                                                ELSE pool_slot[x]
  BY <1>3, <1>4 DEF PoolSlotAfter, TypeOK, Share
<1>7. \A c \in pool_coinbase' :
        c \in pool_coinbase \/ (h.has02 /\ c = [seed |-> h.seed, epoch |-> h.epoch])
  BY <1>4 DEF PoolCoinbaseAfter
<1>8. \A i \in 1 .. Len(Pipe) : Pipe[i].idx \in 0 .. IdxMod - 1
  <2>1. \A i \in 1 .. Len(Pipe) : Pipe[i] \in Share
    BY <1>2
  <2> QED
    BY <2>1 DEF Share
<1> HIDE DEF h
<1>9. h = Pipe[1]
  BY DEF h
<1>10. JobOnce'
  <2> SUFFICES ASSUME NEW i \in 1 .. Len(Pipe'), Pipe'[i].has01
               PROVE  /\ Pipe'[i].epoch = epoch /\ Pipe'[i].key \in DOMAIN by_key =>
                           by_key[Pipe'[i].key].server_has_merkle_branches
                      /\ pool_slot'[Pipe'[i].idx] # [key |-> Pipe'[i].key, epoch |-> Pipe'[i].epoch]
                      /\ \A j \in 1 .. Len(Pipe') :
                           Pipe'[j].has01 /\ Pipe'[j].key = Pipe'[i].key
                             /\ Pipe'[j].epoch = Pipe'[i].epoch => j = i
    BY <1>4 DEF JobOnce
  <2> DEFINE s == Pipe[i + 1]
  <2>1. i + 1 \in 1 .. Len(Pipe) /\ i + 1 # 1 /\ Pipe'[i] = s /\ s.idx \in 0 .. IdxMod - 1
    BY <1>5, <1>8
  <2>2. /\ s.epoch = epoch /\ s.key \in DOMAIN by_key => by_key[s.key].server_has_merkle_branches
        /\ pool_slot[s.idx] # [key |-> s.key, epoch |-> s.epoch]
        /\ \A j \in 1 .. Len(Pipe) :
             Pipe[j].has01 /\ Pipe[j].key = s.key /\ Pipe[j].epoch = s.epoch => j = i + 1
    BY <2>1 DEF OnceInv, JobOnce
  <2> HIDE DEF s
  <2>3. ~ (h.has01 /\ h.key = s.key /\ h.epoch = s.epoch)
    BY <1>3, <1>9, <2>1, <2>2
  <2>4. pool_slot'[s.idx] # [key |-> s.key, epoch |-> s.epoch]
    BY <1>6, <2>1, <2>2, <2>3
  <2>5. \A j \in 1 .. Len(Pipe') : j + 1 = i + 1 => j = i
    BY <1>2
  <2> QED
    BY <1>5, <2>1, <2>2, <2>4, <2>5
<1>11. CoinbaseOnce'
  <2> SUFFICES ASSUME NEW i \in 1 .. Len(Pipe'), Pipe'[i].has02
               PROVE  /\ Pipe'[i].epoch = epoch => Pipe'[i].seed \in seen_template_coinbase
                      /\ [seed |-> Pipe'[i].seed, epoch |-> Pipe'[i].epoch] \notin pool_coinbase'
                      /\ \A j \in 1 .. Len(Pipe') :
                           Pipe'[j].has02 /\ Pipe'[j].seed = Pipe'[i].seed
                             /\ Pipe'[j].epoch = Pipe'[i].epoch => j = i
    BY <1>4 DEF CoinbaseOnce
  <2> DEFINE s == Pipe[i + 1]
  <2>1. i + 1 \in 1 .. Len(Pipe) /\ i + 1 # 1 /\ Pipe'[i] = s
    BY <1>5
  <2>2. /\ s.epoch = epoch => s.seed \in seen_template_coinbase
        /\ [seed |-> s.seed, epoch |-> s.epoch] \notin pool_coinbase
        /\ \A j \in 1 .. Len(Pipe) :
             Pipe[j].has02 /\ Pipe[j].seed = s.seed /\ Pipe[j].epoch = s.epoch => j = i + 1
    BY <2>1 DEF OnceInv, CoinbaseOnce
  <2> HIDE DEF s
  <2>3. ~ (h.has02 /\ h.seed = s.seed /\ h.epoch = s.epoch)
    BY <1>3, <1>9, <2>1, <2>2
  <2>4. [seed |-> s.seed, epoch |-> s.epoch] \notin pool_coinbase'
    BY <1>7, <2>2, <2>3
  <2>5. \A j \in 1 .. Len(Pipe') : j + 1 = i + 1 => j = i
    BY <1>2
  <2> QED
    BY <1>5, <2>1, <2>2, <2>4, <2>5
<1>12. /\ h.has01 => /\ h.epoch = epoch /\ h.key \in DOMAIN by_key =>
                          by_key[h.key].server_has_merkle_branches
                     /\ pool_slot[h.idx] # [key |-> h.key, epoch |-> h.epoch]
       /\ h.has02 => /\ h.epoch = epoch => h.seed \in seen_template_coinbase
                     /\ [seed |-> h.seed, epoch |-> h.epoch] \notin pool_coinbase
  BY <1>3, <1>9 DEF OnceInv, JobOnce, CoinbaseOnce
<1>13. PoolMarked'
  <2>1. ASSUME NEW x \in 0 .. IdxMod - 1
        PROVE  /\ pool_slot'[x].epoch <= epoch
               /\ pool_slot'[x].epoch = epoch /\ pool_slot'[x].key \in DOMAIN by_key =>
                    by_key[pool_slot'[x].key].server_has_merkle_branches
    BY <1>3, <1>6, <1>12 DEF OnceInv, PoolMarked
  <2>2. ASSUME NEW c \in pool_coinbase'
        PROVE  c.epoch <= epoch /\ (c.epoch = epoch => c.seed \in seen_template_coinbase)
    BY <1>3, <1>7, <1>12 DEF OnceInv, PoolMarked
  <2> QED
    BY <1>4, <2>1, <2>2 DEF PoolMarked
<1>14. AnnouncedOnce'
  <2>1. ~ Verdict(h).repeated
    BY <1>12 DEF Verdict
  <2> QED
    BY <1>4, <2>1 DEF OnceInv, AnnouncedOnce
<1> QED
  BY <1>10, <1>11, <1>13, <1>14 DEF OnceInv

\* A share announces only what has no flag yet, and sets the flag.
LEMMA EncodeOnce ==
  ASSUME OnceInv, PipeInv, WindowInv, NEW t \in 0 .. tick - 1, NEW block \in BOOLEAN,
         RelayEncode(t, block)
  PROVE  OnceInv'
<1> DEFINE key == Sv1Key(t)
           seed == by_key[key].seed
           s == EncodedShare("sv1", key, seed, block)
           n == Len(Pipe)
<1>0. TypeOK
  BY DEF WindowInv, TypeInv
<1>1. /\ key \in DOMAIN by_key /\ Encode(key, seed)
      /\ UNCHANGED <<epoch, pool_slot, pool_coinbase, verdicts>>
  BY DEF RelayEncode, Encode, Contains, linkVars, poolVars
<1>2. seed \in Seeds /\ by_key[key].idx \in 0 .. IdxMod - 1
  BY <1>0, <1>1 DEF TypeOK, TrackerTypeOK, JobEntry
<1>3. s \in Share
  BY <1>0, <1>1, <1>2, EncodedShareType, RelayAssumption
<1>4. Pipe \in Seq(Share) /\ n \in Nat /\ Pipe' = Append(Pipe, s)
  BY <1>0, <1>3, EncodeAppends, PipeType, LenProperties
<1>5. /\ Len(Pipe') = n + 1 /\ Pipe'[n + 1] = s
      /\ \A i \in 1 .. n : Pipe'[i] = Pipe[i] /\ i # n + 1
      /\ 1 .. Len(Pipe') = (1 .. n) \cup {n + 1}
  BY <1>3, <1>4, AppendProperties
<1>6. /\ s.key = key /\ s.idx = by_key[key].idx /\ s.seed = seed /\ s.epoch = epoch
      /\ s.has01 = ~ by_key[key].server_has_merkle_branches
      /\ s.has02 = (~ by_key[key].server_has_coinbase /\ seed \notin seen_template_coinbase)
  BY DEF EncodedShare, Emits01, Emits02
<1>7. /\ DOMAIN by_key' = DOMAIN by_key
      /\ \A k \in DOMAIN by_key : by_key[k].server_has_merkle_branches =>
                                    by_key'[k].server_has_merkle_branches
      /\ by_key'[key].server_has_merkle_branches
  <2>1. DOMAIN by_key' = DOMAIN by_key
    BY <1>1 DEF Encode
  <2>2. \A k \in DOMAIN by_key :
          by_key'[k] = IF k = key THEN MarkedEntry(key, seed) ELSE by_key[k]
    BY <1>1 DEF Encode
  <2>3. MarkedEntry(key, seed).server_has_merkle_branches
    BY DEF MarkedEntry
  <2> HIDE DEF key, seed
  <2> QED
    BY <1>1, <2>1, <2>2, <2>3
<1>8. /\ seen_template_coinbase \subseteq seen_template_coinbase'
      /\ s.has02 => seed \in seen_template_coinbase'
  <2>1. s.has02 => MarkedEntry(key, seed).server_has_coinbase
    BY <1>6 DEF MarkedEntry, Emits02
  <2> HIDE DEF s, key, seed
  <2> QED
    BY <1>1, <2>1 DEF Encode
<1>9. \A i \in 1 .. n : i \in 1 .. Len(Pipe)
  OBVIOUS
<1> HIDE DEF s, n, seed, key
<1>10. s.has01 => /\ pool_slot[s.idx] # [key |-> key, epoch |-> epoch]
                  /\ \A i \in 1 .. n : ~ (Pipe[i].has01 /\ Pipe[i].key = key /\ Pipe[i].epoch = epoch)
  <2> SUFFICES ASSUME s.has01
               PROVE  /\ pool_slot[s.idx] # [key |-> key, epoch |-> epoch]
                      /\ \A i \in 1 .. n :
                           ~ (Pipe[i].has01 /\ Pipe[i].key = key /\ Pipe[i].epoch = epoch)
    OBVIOUS
  <2>1. ~ by_key[key].server_has_merkle_branches /\ key \in DOMAIN by_key
    BY <1>1, <1>6
  <2>2. s.idx \in 0 .. IdxMod - 1
    BY <1>2, <1>6
  <2>3. pool_slot[s.idx] # [key |-> key, epoch |-> epoch]
    BY <2>1, <2>2 DEF OnceInv, PoolMarked
  <2> QED
    BY <1>9, <2>1, <2>3 DEF OnceInv, JobOnce
<1>11. s.has02 => /\ [seed |-> seed, epoch |-> epoch] \notin pool_coinbase
                  /\ \A i \in 1 .. n : ~ (Pipe[i].has02 /\ Pipe[i].seed = seed /\ Pipe[i].epoch = epoch)
  <2> SUFFICES ASSUME s.has02
               PROVE  /\ [seed |-> seed, epoch |-> epoch] \notin pool_coinbase
                      /\ \A i \in 1 .. n :
                           ~ (Pipe[i].has02 /\ Pipe[i].seed = seed /\ Pipe[i].epoch = epoch)
    OBVIOUS
  <2>1. seed \notin seen_template_coinbase
    BY <1>6
  <2>2. [seed |-> seed, epoch |-> epoch] \notin pool_coinbase
    BY <2>1 DEF OnceInv, PoolMarked
  <2> QED
    BY <1>9, <2>1, <2>2 DEF OnceInv, CoinbaseOnce
<1>12. JobOnce'
  <2>1. ASSUME NEW i \in 1 .. n, Pipe[i].has01
        PROVE  /\ Pipe[i].epoch = epoch /\ Pipe[i].key \in DOMAIN by_key =>
                    by_key'[Pipe[i].key].server_has_merkle_branches
               /\ pool_slot[Pipe[i].idx] # [key |-> Pipe[i].key, epoch |-> Pipe[i].epoch]
               /\ \A j \in 1 .. n :
                    Pipe[j].has01 /\ Pipe[j].key = Pipe[i].key /\ Pipe[j].epoch = Pipe[i].epoch => j = i
    BY <1>7, <1>9, <2>1 DEF OnceInv, JobOnce, n
  <2>2. ASSUME NEW i \in 1 .. Len(Pipe'), Pipe'[i].has01
        PROVE  /\ Pipe'[i].epoch = epoch /\ Pipe'[i].key \in DOMAIN by_key' =>
                    by_key'[Pipe'[i].key].server_has_merkle_branches
               /\ pool_slot[Pipe'[i].idx] # [key |-> Pipe'[i].key, epoch |-> Pipe'[i].epoch]
               /\ \A j \in 1 .. Len(Pipe') :
                    Pipe'[j].has01 /\ Pipe'[j].key = Pipe'[i].key
                      /\ Pipe'[j].epoch = Pipe'[i].epoch => j = i
    <3>1. CASE i \in 1 .. n
      BY <1>5, <1>6, <1>7, <1>10, <2>1, <2>2, <3>1
    <3>2. CASE i = n + 1
      BY <1>5, <1>6, <1>7, <1>10, <2>2, <3>2
    <3> QED
      BY <1>5, <3>1, <3>2
  <2> QED
    BY <1>1, <2>2 DEF JobOnce
<1>13. CoinbaseOnce'
  <2>1. ASSUME NEW i \in 1 .. n, Pipe[i].has02
        PROVE  /\ Pipe[i].epoch = epoch => Pipe[i].seed \in seen_template_coinbase'
               /\ [seed |-> Pipe[i].seed, epoch |-> Pipe[i].epoch] \notin pool_coinbase
               /\ \A j \in 1 .. n :
                    Pipe[j].has02 /\ Pipe[j].seed = Pipe[i].seed /\ Pipe[j].epoch = Pipe[i].epoch => j = i
    BY <1>8, <1>9, <2>1 DEF OnceInv, CoinbaseOnce, n
  <2>2. ASSUME NEW i \in 1 .. Len(Pipe'), Pipe'[i].has02
        PROVE  /\ Pipe'[i].epoch = epoch => Pipe'[i].seed \in seen_template_coinbase'
               /\ [seed |-> Pipe'[i].seed, epoch |-> Pipe'[i].epoch] \notin pool_coinbase
               /\ \A j \in 1 .. Len(Pipe') :
                    Pipe'[j].has02 /\ Pipe'[j].seed = Pipe'[i].seed
                      /\ Pipe'[j].epoch = Pipe'[i].epoch => j = i
    <3>1. CASE i \in 1 .. n
      BY <1>5, <1>6, <1>11, <2>1, <2>2, <3>1
    <3>2. CASE i = n + 1
      BY <1>5, <1>6, <1>8, <1>11, <2>2, <3>2
    <3> QED
      BY <1>5, <3>1, <3>2
  <2> QED
    BY <1>1, <2>2 DEF CoinbaseOnce
<1>14. PoolMarked' /\ AnnouncedOnce'
  BY <1>1, <1>7, <1>8 DEF OnceInv, PoolMarked, AnnouncedOnce
<1> QED
  BY <1>12, <1>13, <1>14 DEF OnceInv

\* A new job has a key of its own; the flags of the others stay.
LEMMA InsertOnce ==
  ASSUME OnceInv, PipeInv, WindowInv, AsmInsert
  PROVE  OnceInv'
<1> DEFINE key == Sv1Key(tick)
<1>0. tick \in Nat /\ TypeOK
  BY RelayAssumption DEF WindowInv, TypeInv, TypeOK
<1>1. /\ Insert(key, asm.seed, asm.idx)
      /\ UNCHANGED <<seen_template_coinbase, epoch, pool_slot, pool_coinbase, verdicts>>
      /\ UNCHANGED <<conn_queue, bridge_out, ext_queue, relay_out>>
  BY DEF AsmInsert, Insert, relayVars, linkVars, poolVars
<1>2. Pipe' = Pipe
  BY <1>1 DEF Pipe
<1>3. \A k \in DOMAIN by_key' : k = key \/ (k \in DOMAIN by_key /\ by_key'[k] = by_key[k])
  BY <1>1, InsertKeepsOthers
<1>4. TickOf(key) = tick /\ key # NoJob.key
  BY DEF key, TickOf, Sv1Key, NoJob
<1> HIDE DEF key
<1>5. \A i \in 1 .. Len(Pipe) : Pipe[i].key # key
  BY <1>0, <1>4 DEF PipeInv, Shaped
<1>6. \A x \in 0 .. IdxMod - 1 : pool_slot[x].key # key
  BY <1>0, <1>4 DEF PipeInv, PoolBehind
<1>7. JobOnce'
  BY <1>1, <1>2, <1>3, <1>5 DEF OnceInv, JobOnce
<1>8. CoinbaseOnce' /\ AnnouncedOnce'
  BY <1>1, <1>2 DEF OnceInv, CoinbaseOnce, AnnouncedOnce
<1>9. PoolMarked'
  BY <1>1, <1>3, <1>6 DEF OnceInv, PoolMarked
<1> QED
  BY <1>7, <1>8, <1>9 DEF OnceInv

\* No share in the pipe is of the epoch that a reconnect begins.
LEMMA ConnectOnce ==
  ASSUME OnceInv, PipeInv, WindowInv, Connect
  PROVE  OnceInv'
<1>0. TypeOK /\ epoch \in Nat
  BY RelayAssumption DEF WindowInv, TypeInv, TypeOK
<1>1. /\ epoch' = epoch + 1 /\ DOMAIN by_key' = DOMAIN by_key /\ UNCHANGED verdicts
      /\ pool_slot' = [i \in 0 .. IdxMod - 1 |-> NoJob] /\ pool_coinbase' = {}
      /\ UNCHANGED <<conn_queue, bridge_out, ext_queue, relay_out>>
  BY ResetKeepsSlots DEF Connect, asmVars, relayVars, PipeInv, LinkInv
<1>2. Pipe' = Pipe
  BY <1>1 DEF Pipe
<1>3. \A i \in 1 .. Len(Pipe) : Pipe[i] \in Share
  BY <1>0, PipeType
<1>4. \A i \in 1 .. Len(Pipe) :
        /\ Pipe[i].epoch # epoch' /\ Pipe[i].idx \in 0 .. IdxMod - 1
        /\ Pipe[i].key # NoJob.key
  <2> SUFFICES ASSUME NEW i \in 1 .. Len(Pipe)
               PROVE  /\ Pipe[i].epoch # epoch' /\ Pipe[i].idx \in 0 .. IdxMod - 1
                      /\ Pipe[i].key # NoJob.key
    OBVIOUS
  <2>1. Pipe[i].epoch \in Nat /\ Pipe[i].idx \in 0 .. IdxMod - 1
    BY <1>3 DEF Share
  <2>2. Pipe[i].epoch <= epoch /\ Pipe[i].key = Sv1Key(TickOf(Pipe[i].key))
    BY DEF PipeInv, Shaped
  <2>3. Pipe[i].key # NoJob.key
    BY <2>2 DEF Sv1Key, NoJob
  <2> QED
    BY <1>0, <1>1, <2>1, <2>2, <2>3
<1>5. \A x \in 0 .. IdxMod - 1 : pool_slot'[x].key = NoJob.key /\ pool_slot'[x].epoch = 0
  BY <1>1 DEF NoJob
<1>6. JobOnce'
  BY <1>1, <1>2, <1>4, <1>5 DEF OnceInv, JobOnce
<1>7. CoinbaseOnce'
  BY <1>1, <1>2, <1>4 DEF OnceInv, CoinbaseOnce
<1>8. PoolMarked'
  BY <1>0, <1>1, <1>5 DEF PoolMarked
<1>9. AnnouncedOnce'
  BY <1>1 DEF OnceInv, AnnouncedOnce
<1> QED
  BY <1>6, <1>7, <1>8, <1>9 DEF OnceInv

\* Every step preserves the invariant.
LEMMA OnceNext == WindowInv /\ PipeInv /\ OnceInv /\ [Sv1Next]_vars => OnceInv'
<1> SUFFICES ASSUME WindowInv, PipeInv, OnceInv, [Sv1Next]_vars PROVE OnceInv'
  OBVIOUS
<1>0. TypeOK
  BY DEF WindowInv, TypeInv
<1> USE DEF trackerVars, asmVars, relayVars, linkVars
<1>1. CASE PublishTemplate
  BY <1>0, <1>1, QuietOnce DEF PublishTemplate, Pipe
<1>2. CASE AsmAllocate
  BY <1>0, <1>2, QuietOnce DEF AsmAllocate, NextIdx, Pipe
<1>3. CASE AsmInsert
  BY <1>3, InsertOnce
<1>4. ASSUME NEW t \in 0 .. tick - 1, NEW block \in BOOLEAN, RelayEncode(t, block)
      PROVE  OnceInv'
  BY <1>4, EncodeOnce
<1>5. ASSUME NEW t, NEW parses, RelayDrop(t, parses) PROVE OnceInv'
  BY <1>0, <1>5, QuietOnce DEF RelayDrop, Pipe
<1>6. CASE RelaySend
  BY <1>0, <1>6, SendKeepsPipe, QuietOnce DEF RelaySend
<1>7. CASE Connect
  BY <1>7, ConnectOnce
<1>8. CASE BridgeTake
  BY <1>0, <1>8, TakeKeepsPipe, QuietOnce DEF BridgeTake
<1>9. CASE BridgePut
  BY <1>0, <1>9, PutKeepsPipe, QuietOnce DEF BridgePut
<1>10. CASE BridgeFail \/ Teardown
  <2>1. PICK m \in Nat : LosesOldest(m)
    BY <1>0, <1>10, BridgeDropLoses
  <2> QED
    BY <1>0, <1>10, <2>1, LossOnce DEF BridgeFail, Teardown
<1>11. CASE Write
  BY <1>0, <1>11, WriteOnce
<1>12. CASE WriteLost
  BY <1>0, <1>12, WriteLostLoses, LossOnce DEF WriteLost
<1>13. CASE WriteFail
  <2>1. PICK m \in Nat : LosesOldest(m)
    BY <1>0, <1>13, WriteFailLoses
  <2> QED
    BY <1>0, <1>13, <2>1, LossOnce DEF WriteFail
<1>14. CASE PeerClose
  BY <1>0, <1>14, QuietOnce DEF PeerClose, Pipe
<1>15. CASE UNCHANGED vars
  BY <1>0, <1>15, QuietOnce DEF vars, Pipe, poolVars
<1> QED
  BY <1>1, <1>2, <1>3, <1>4, <1>5, <1>6, <1>7, <1>8, <1>9, <1>10, <1>11, <1>12, <1>13,
     <1>14, <1>15 DEF Sv1Next, RelayStep

\* Between two resets the pool is sent the branches of a job once and the
\* coinbase of a template once, whatever is queued, lost or replayed from the
\* persistent queue over reconnects: the flags are set under the lock that
\* encodes the share, and a share that repeats what the pool has is never
\* delivered.
THEOREM SubBlocksOnce == Spec => []AnnouncedOnce
<1>1. Init => WindowInv /\ PipeInv /\ OnceInv
  BY WindowInit, PipeInit, OnceInit
<1>2. WindowInv /\ PipeInv /\ OnceInv /\ [Sv1Next]_vars => (WindowInv /\ PipeInv /\ OnceInv)'
  BY WindowNext, PipeNext, OnceNext
<1>3. OnceInv => AnnouncedOnce
  BY DEF OnceInv
<1> QED
  BY <1>1, <1>2, <1>3, PTL DEF Spec

-----------------------------------------------------------------------------
(* Both protocols: no entry of the tracker escapes eviction, and the shares of *)
(* one source reach the pool in the order they were encoded.               *)

(* Types, and the eviction queue of the tracker. *)

Triple == (1 .. MaxJobId) \X (1 .. MaxJobId) \X Seeds

Manager == [up : BOOLEAN, next_channel_id : 1 .. MaxJobId + 1, next_job_id : 1 .. MaxJobId + 1,
            channels : SUBSET (1 .. MaxJobId), jobs : SUBSET ((1 .. MaxJobId) \X (1 .. MaxJobId)),
            seen : 0 .. MaxTemplates, opening : {<<>>} \cup Triple, pending : {<<>>} \cup Triple]

\* The SV2 part of DualTypeOK.
Sv2TypeOK ==
  /\ accepts \in 0 .. MaxAccepts /\ mgr \in [Conns -> Manager]
  /\ parked \in [Conns -> Seq(Share)] /\ sv2_queue \in Seq(Share) /\ sv2_out \in Seq(Share)
  /\ last \in [Sources -> Int]

\* A manager numbers at least as many jobs as channels, hands out jobs only
\* once there is a template, and handles one share at a time.
ManagerInv ==
  \A c \in Conns :
    /\ mgr[c].next_channel_id <= mgr[c].next_job_id
    /\ mgr[c].jobs # {} => published > 0
    /\ mgr[c].pending # <<>> => parked[c] = <<>>

Queued == \A k \in DOMAIN by_key : \E i \in 1 .. Len(order) : order[i] = k

\* Insertion evicts the oldest key or none, and queues the new one.
LEMMA InsertQueued ==
  ASSUME TrackerTypeOK, Queued, NEW key \in Keys, NEW seed, NEW idx, Insert(key, seed, idx)
  PROVE  Queued'
<1> DEFINE rest == IF MustEvict THEN Tail(order) ELSE order
           kept == IF MustEvict THEN DOMAIN by_key \ {Head(order)} ELSE DOMAIN by_key
<1>1. order \in Seq(Keys)
  BY DEF TrackerTypeOK
<1>2. rest \in Seq(Keys) /\ \A k \in kept : \E i \in 1 .. Len(rest) : rest[i] = k
  <2>1. CASE ~ MustEvict
    BY <1>1, <2>1 DEF Queued
  <2>2. CASE MustEvict
    <3>1. /\ order # <<>> /\ Tail(order) \in Seq(Keys) /\ Len(Tail(order)) = Len(order) - 1
          /\ Head(order) = order[1] /\ \A i \in 1 .. Len(order) - 1 : Tail(order)[i] = order[i + 1]
      BY <1>1, <2>2, HeadTailProperties DEF MustEvict
    <3>2. ASSUME NEW k \in kept PROVE \E i \in 1 .. Len(Tail(order)) : Tail(order)[i] = k
      <4>1. PICK i \in 1 .. Len(order) : order[i] = k
        BY <2>2 DEF Queued
      <4>2. i # 1
        BY <2>2, <3>1, <4>1
      <4>3. i - 1 \in 1 .. Len(order) - 1 /\ (i - 1) + 1 = i
        BY <1>1, <4>2
      <4> QED BY <3>1, <4>1, <4>3
    <3> QED BY <2>2, <3>1, <3>2
  <2> QED BY <2>1, <2>2
<1>3. order' = Append(rest, key) /\ DOMAIN by_key' = kept \cup {key}
  BY DEF Insert
<1> HIDE DEF rest, kept
<1>4. /\ Len(order') = Len(rest) + 1 /\ order'[Len(rest) + 1] = key /\ Len(rest) \in Nat
      /\ \A i \in 1 .. Len(rest) : order'[i] = rest[i]
  BY <1>2, <1>3, AppendProperties
<1>5. ASSUME NEW k \in DOMAIN by_key' PROVE \E i \in 1 .. Len(order') : order'[i] = k
  <2>1. CASE k = key
    <3>1. Len(rest) + 1 \in 1 .. Len(order')
      BY <1>4
    <3> QED BY <1>4, <2>1, <3>1
  <2>2. CASE k \in kept
    <3>1. PICK i \in 1 .. Len(rest) : rest[i] = k
      BY <1>2, <2>2
    <3>2. i \in 1 .. Len(order')
      BY <1>4
    <3> QED BY <1>4, <3>1, <3>2
  <2> QED BY <1>3, <2>1, <2>2
<1> QED BY <1>5 DEF Queued

LEMMA SameQueued ==
  ASSUME Queued, DOMAIN by_key' = DOMAIN by_key, order' = order
  PROVE  Queued'
BY DEF Queued

LEMMA Sv1Queued ==
  ASSUME TypeInv, Queued, [Sv1Next]_vars
  PROVE  Queued'
<1>1. CASE AsmInsert
  <2>1. Sv1Key(tick) \in Keys
    <3>1. tick \in 0 .. MaxTemplates
      BY DEF TypeInv, TypeOK
    <3> QED BY <3>1, RelayAssumption DEF Sv1Key
  <2> QED BY <1>1, <2>1, InsertQueued DEF AsmInsert, TypeInv, TypeOK
<1>2. ASSUME NEW t, NEW block, RelayEncode(t, block) PROVE Queued'
  BY <1>2, SameQueued, EncodeKeepsSlots DEF RelayEncode, Encode
<1>3. CASE Connect
  BY <1>3, SameQueued, ResetKeepsSlots DEF Connect, ResetSendOnceFlags
<1>4. CASE UNCHANGED <<by_key, order>>
  BY <1>4, SameQueued
<1>5. \/ AsmInsert \/ Connect \/ UNCHANGED <<by_key, order>>
      \/ \E t \in 0 .. tick - 1, block \in BOOLEAN : RelayEncode(t, block)
  BY DEF Sv1Next, RelayStep, PublishTemplate, AsmAllocate, NextIdx, RelayDrop, RelaySend,
         BridgeTake, BridgePut, BridgeFail, Write, WriteLost, WriteFail, PeerClose, Teardown,
         vars, trackerVars
<1> QED BY <1>1, <1>2, <1>3, <1>4, <1>5

LEMMA LinkNext ==
  ASSUME LinkInv, [Sv1Next]_vars
  PROVE  LinkInv'
BY DEF LinkInv, Sv1Next, RelayStep, PublishTemplate, AsmAllocate, AsmInsert, RelayEncode, RelayDrop,
       RelaySend, Connect, BridgeTake, BridgePut, BridgeFail, Write, WriteLost, WriteFail, PeerClose,
       Teardown, vars, linkVars

-----------------------------------------------------------------------------
(* What the SV2 connections keep right. *)

DualTyped == TypeInv /\ Sv2TypeOK /\ ManagerInv /\ Queued

\* What connection c's manager must be for the rest to hold.
ManagerOk(c, m) ==
  /\ m \in Manager /\ m.next_channel_id <= m.next_job_id
  /\ m.jobs # {} => published > 0
  /\ m.pending # <<>> => parked[c] = <<>>

LEMMA ManagerIs ==
  ASSUME Sv2TypeOK, ManagerInv, NEW c \in Conns
  PROVE  ManagerOk(c, mgr[c])
BY DEF Sv2TypeOK, ManagerInv, ManagerOk

\* A connection replaces its manager.
LEMMA ManagerSet ==
  ASSUME Sv2TypeOK, ManagerInv, NEW c \in Conns, NEW m, ManagerOk(c, m),
         mgr' = [mgr EXCEPT ![c] = m], published' = published,
         \A d \in Conns : parked'[d] # parked[d] => m.pending = <<>> /\ d = c
  PROVE  mgr' \in [Conns -> Manager] /\ ManagerInv'
<1>1. m \in Manager /\ mgr \in [Conns -> Manager]
  BY DEF ManagerOk, Sv2TypeOK
<1>2. mgr' \in [Conns -> Manager] /\ mgr'[c] = m /\ \A d \in Conns : d # c => mgr'[d] = mgr[d]
  BY <1>1
<1>3. ASSUME NEW d \in Conns
      PROVE  /\ mgr'[d].next_channel_id <= mgr'[d].next_job_id
             /\ mgr'[d].jobs # {} => published' > 0
             /\ mgr'[d].pending # <<>> => parked'[d] = <<>>
  <2>1. CASE d = c
    BY <1>2, <2>1 DEF ManagerOk
  <2>2. CASE d # c
    <3>1. mgr'[d] = mgr[d] /\ parked'[d] = parked[d]
      BY <1>2, <2>2
    <3> QED BY <3>1 DEF ManagerInv
  <2> QED BY <2>1, <2>2
<1> QED BY <1>2, <1>3 DEF ManagerInv

\* A step that touches nothing but a manager.
LEMMA ManagerStep ==
  ASSUME DualTyped, NEW c \in Conns, NEW m, ManagerOk(c, m), mgr' = [mgr EXCEPT ![c] = m],
         accepts' \in 0 .. MaxAccepts, UNCHANGED <<vars, parked, sv2_queue, sv2_out, last>>
  PROVE  DualTyped'
<1>1. published' = published /\ \A d \in Conns : parked'[d] = parked[d]
  BY DEF vars
<1>2. mgr' \in [Conns -> Manager] /\ ManagerInv'
  BY <1>1, ManagerSet DEF DualTyped
<1>3. Sv2TypeOK'
  BY <1>2 DEF DualTyped, Sv2TypeOK
<1>4. TypeInv'
  BY NextType DEF DualTyped
<1>5. Queued'
  BY SameQueued DEF DualTyped, vars, trackerVars
<1> QED BY <1>2, <1>3, <1>4, <1>5 DEF DualTyped

LEMMA PublishedRange ==
  ASSUME TypeInv
  PROVE  /\ published \in 0 .. MaxTemplates /\ MaxTemplates \in Nat
         /\ published > 0 => published - 1 \in Seeds
         /\ \A s \in 0 .. published - 1 : s \in Seeds
<1>1. published \in 0 .. MaxTemplates /\ MaxTemplates \in Nat
  BY RelayAssumption DEF TypeInv, TypeOK
<1>2. \A s \in 0 .. published - 1 : s \in 0 .. MaxTemplates
  BY <1>1
<1>3. published > 0 => published - 1 \in 0 .. MaxTemplates
  BY <1>1
<1> QED BY <1>1, <1>2, <1>3, RelayAssumption

LEMMA AcceptType ==
  ASSUME DualTyped, NEW c \in Conns, Accept(c)
  PROVE  DualTyped'
<1>1. accepts' \in 0 .. MaxAccepts
  BY DualAssumption DEF Accept, DualTyped, Sv2TypeOK
<1>2. 1 \in 1 .. MaxJobId + 1 /\ 0 \in 0 .. MaxTemplates
  BY DualAssumption, RelayAssumption
<1>3. ManagerOk(c, NewManager)
  BY <1>2 DEF ManagerOk, Manager, NewManager
<1> QED BY <1>1, <1>3, ManagerStep DEF Accept

LEMMA DisconnectType ==
  ASSUME DualTyped, NEW c \in Conns, Disconnect(c)
  PROVE  DualTyped'
<1> DEFINE m == [mgr[c] EXCEPT !.up = FALSE]
<1>1. ManagerOk(c, mgr[c])
  BY ManagerIs DEF DualTyped
<1>2. ManagerOk(c, m)
  BY <1>1 DEF ManagerOk, Manager
<1>3. mgr' = [mgr EXCEPT ![c] = m] /\ accepts' \in 0 .. MaxAccepts
  BY DEF Disconnect, DualTyped, Sv2TypeOK
<1> QED BY <1>2, <1>3, ManagerStep DEF Disconnect

LEMMA OpenType ==
  ASSUME DualTyped, NEW c \in Conns, OpenChannel(c)
  PROVE  DualTyped'
<1> DEFINE m == mgr[c]
           cid == m.next_channel_id
           jid == m.next_job_id
           new == [m EXCEPT !.next_channel_id = @ + 1, !.next_job_id = @ + 1,
                     !.channels = @ \cup {cid}, !.jobs = @ \cup {<<cid, jid>>},
                     !.opening = <<cid, jid, published - 1>>]
<1>1. m \in Manager /\ cid <= jid /\ (m.pending # <<>> => parked[c] = <<>>)
  BY ManagerIs DEF DualTyped, ManagerOk
<1>2. published > 0 /\ jid <= MaxJobId /\ mgr' = [mgr EXCEPT ![c] = new]
  BY DEF OpenChannel
<1>3. /\ cid \in 1 .. MaxJobId + 1 /\ jid \in 1 .. MaxJobId + 1 /\ MaxJobId \in Nat
      /\ m.channels \in SUBSET (1 .. MaxJobId)
      /\ m.jobs \in SUBSET ((1 .. MaxJobId) \X (1 .. MaxJobId))
  BY <1>1, DualAssumption DEF Manager
<1> HIDE DEF cid, jid
<1>4. /\ cid \in 1 .. MaxJobId /\ jid \in 1 .. MaxJobId
      /\ cid + 1 \in 1 .. MaxJobId + 1 /\ jid + 1 \in 1 .. MaxJobId + 1 /\ cid + 1 <= jid + 1
  BY <1>1, <1>2, <1>3
<1>5. published - 1 \in Seeds
  BY <1>2, PublishedRange DEF DualTyped
<1>6. /\ m.channels \cup {cid} \in SUBSET (1 .. MaxJobId)
      /\ m.jobs \cup {<<cid, jid>>} \in SUBSET ((1 .. MaxJobId) \X (1 .. MaxJobId))
      /\ <<cid, jid, published - 1>> \in Triple
  BY <1>3, <1>4, <1>5 DEF Triple
<1>7. /\ new \in Manager /\ new.next_channel_id = cid + 1 /\ new.next_job_id = jid + 1
      /\ new.pending = m.pending
  <2> HIDE DEF m
  <2>1. m.next_channel_id + 1 = cid + 1 /\ m.next_job_id + 1 = jid + 1
    BY DEF cid, jid
  <2> QED BY <1>1, <1>4, <1>6, <2>1 DEF Manager
<1>8. ManagerOk(c, new)
  BY <1>1, <1>2, <1>4, <1>7 DEF ManagerOk
<1>9. accepts' \in 0 .. MaxAccepts
  BY DEF OpenChannel, DualTyped, Sv2TypeOK
<1> HIDE DEF new
<1> QED BY <1>2, <1>8, <1>9, ManagerStep DEF OpenChannel

LEMMA CloseType ==
  ASSUME DualTyped, NEW c \in Conns, NEW cid, CloseChannel(c, cid)
  PROVE  DualTyped'
<1> DEFINE m == mgr[c]
           new == [m EXCEPT !.channels = @ \ {cid}, !.jobs = {j \in @ : j[1] # cid}]
<1>1. ManagerOk(c, m)
  BY ManagerIs DEF DualTyped
<1>2. /\ mgr' = [mgr EXCEPT ![c] = new] /\ accepts' \in 0 .. MaxAccepts
  BY DEF CloseChannel, DualTyped, Sv2TypeOK
<1> HIDE DEF m
<1>3. ManagerOk(c, new)
  <2>1. m \in Manager /\ m.channels \in SUBSET (1 .. MaxJobId)
        /\ m.jobs \in SUBSET ((1 .. MaxJobId) \X (1 .. MaxJobId))
    BY <1>1 DEF ManagerOk, Manager
  <2>2. /\ m.channels \ {cid} \in SUBSET (1 .. MaxJobId)
        /\ {j \in m.jobs : j[1] # cid} \in SUBSET ((1 .. MaxJobId) \X (1 .. MaxJobId))
        /\ {j \in m.jobs : j[1] # cid} # {} => m.jobs # {}
    BY <2>1
  <2>3. /\ new \in Manager /\ new.jobs = {j \in m.jobs : j[1] # cid}
        /\ new.next_channel_id = m.next_channel_id /\ new.next_job_id = m.next_job_id
        /\ new.pending = m.pending
    BY <2>1, <2>2 DEF Manager
  <2> QED BY <1>1, <2>2, <2>3 DEF ManagerOk
<1> HIDE DEF new
<1> QED BY <1>2, <1>3, ManagerStep DEF CloseChannel

\* A connection's channels are at most MaxJobId many.
LEMMA UpdateType ==
  ASSUME DualTyped, NEW c \in Conns, TemplateUpdate(c)
  PROVE  DualTyped'
<1> DEFINE m == mgr[c]
           n == Cardinality(m.channels)
           ids == m.next_job_id .. m.next_job_id + n - 1
<1>1. PICK f \in [m.channels -> ids] :
        /\ \A c1, c2 \in m.channels : f[c1] = f[c2] => c1 = c2
        /\ mgr' = [mgr EXCEPT ![c] =
                [m EXCEPT !.seen = published, !.next_job_id = @ + n,
                          !.jobs = @ \cup {<<cid, f[cid]>> : cid \in m.channels}]]
  BY Zenon DEF TemplateUpdate
<1> DEFINE added == {<<cid, f[cid]>> : cid \in m.channels}
           new == [m EXCEPT !.seen = published, !.next_job_id = @ + n, !.jobs = @ \cup added]
<1>2. mgr' = [mgr EXCEPT ![c] = new]
  BY <1>1
<1>3. ManagerOk(c, m)
  BY ManagerIs DEF DualTyped
<1>4. /\ m \in Manager /\ m.channels \in SUBSET (1 .. MaxJobId) /\ m.next_job_id \in 1 .. MaxJobId + 1
      /\ m.next_channel_id \in 1 .. MaxJobId + 1 /\ m.next_channel_id <= m.next_job_id
      /\ m.jobs \in SUBSET ((1 .. MaxJobId) \X (1 .. MaxJobId)) /\ MaxJobId \in Nat
  BY <1>3, DualAssumption DEF ManagerOk, Manager
<1>5. n \in Nat
  <2>1. IsFiniteSet(1 .. MaxJobId)
    BY <1>4, FS_Interval
  <2>2. IsFiniteSet(m.channels)
    BY <1>4, <2>1, FS_Subset
  <2> QED BY <2>2, FS_CardinalityType
<1>6. /\ m.next_job_id + n <= MaxJobId + 1 /\ m.seen < published
      /\ UNCHANGED <<vars, accepts, parked, sv2_queue, sv2_out, last>>
  BY DEF TemplateUpdate
<1>7. published > 0 /\ published \in 0 .. MaxTemplates
  <2>1. m.seen \in 0 .. MaxTemplates
    BY <1>4 DEF Manager
  <2>2. published \in 0 .. MaxTemplates /\ MaxTemplates \in Nat
    BY PublishedRange DEF DualTyped
  <2> QED BY <1>6, <2>1, <2>2
<1> HIDE DEF m, n
<1>8. /\ m.next_job_id + n \in 1 .. MaxJobId + 1 /\ m.next_channel_id <= m.next_job_id + n
      /\ \A id \in ids : id \in 1 .. MaxJobId
  BY <1>4, <1>5, <1>6
<1>9. added \in SUBSET ((1 .. MaxJobId) \X (1 .. MaxJobId))
  <2>1. \A cid \in m.channels : cid \in 1 .. MaxJobId /\ f[cid] \in 1 .. MaxJobId
    BY <1>1, <1>4, <1>8
  <2> QED BY <2>1
<1> HIDE DEF added
<1>10. /\ new \in Manager /\ new.next_channel_id = m.next_channel_id
       /\ new.next_job_id = m.next_job_id + n /\ new.pending = m.pending
  BY <1>4, <1>7, <1>8, <1>9 DEF Manager
<1>11. ManagerOk(c, new)
  BY <1>3, <1>7, <1>8, <1>10 DEF ManagerOk
<1>12. accepts' \in 0 .. MaxAccepts
  BY <1>6 DEF DualTyped, Sv2TypeOK
<1> HIDE DEF new
<1> QED BY <1>2, <1>6, <1>11, <1>12, ManagerStep

LEMMA BeginType ==
  ASSUME DualTyped, NEW c \in Conns, NEW j \in mgr[c].jobs, BeginSubmit(c, j[1], j[2])
  PROVE  DualTyped'
<1> DEFINE m == mgr[c]
           p == <<j[1], j[2], published - 1>>
           new == [m EXCEPT !.pending = p]
<1>1. ManagerOk(c, m) /\ j \in m.jobs
  BY ManagerIs DEF DualTyped
<1>2. /\ mgr' = [mgr EXCEPT ![c] = new] /\ accepts' \in 0 .. MaxAccepts /\ parked[c] = <<>>
  BY DEF BeginSubmit, Serving, DualTyped, Sv2TypeOK
<1> HIDE DEF m
<1>3. m \in Manager /\ m.jobs \in SUBSET ((1 .. MaxJobId) \X (1 .. MaxJobId)) /\ published > 0
  BY <1>1 DEF ManagerOk, Manager
<1>4. p \in Triple
  <2>1. j \in (1 .. MaxJobId) \X (1 .. MaxJobId)
    BY <1>1, <1>3
  <2>2. published - 1 \in Seeds
    BY <1>3, PublishedRange DEF DualTyped
  <2> QED BY <2>1, <2>2 DEF Triple
<1> HIDE DEF p
<1>5. /\ new \in Manager /\ new.jobs = m.jobs
      /\ new.next_channel_id = m.next_channel_id /\ new.next_job_id = m.next_job_id
  BY <1>3, <1>4 DEF Manager
<1>6. ManagerOk(c, new)
  BY <1>1, <1>2, <1>5 DEF ManagerOk
<1> HIDE DEF new
<1> QED BY <1>2, <1>6, ManagerStep DEF BeginSubmit

\* A manager whose pending share is dealt with.
LEMMA ClearedOk ==
  ASSUME DualTyped, NEW c \in Conns
  PROVE  /\ ManagerOk(c, [mgr[c] EXCEPT !.pending = <<>>])
         /\ [mgr[c] EXCEPT !.pending = <<>>].pending = <<>>
<1> DEFINE m == mgr[c]
           new == [m EXCEPT !.pending = <<>>]
<1>1. ManagerOk(c, m)
  BY ManagerIs DEF DualTyped
<1> HIDE DEF m
<1>2. m \in Manager
  BY <1>1 DEF ManagerOk
<1>3. /\ new \in Manager /\ new.jobs = m.jobs /\ new.pending = <<>>
      /\ new.next_channel_id = m.next_channel_id /\ new.next_job_id = m.next_job_id
  BY <1>2 DEF Manager
<1>4. ManagerOk(c, new)
  BY <1>1, <1>3 DEF ManagerOk
<1> QED BY <1>3, <1>4 DEF m

LEMMA RejectType ==
  ASSUME DualTyped, NEW c \in Conns, NEW sized, Reject(c, sized)
  PROVE  DualTyped'
<1> DEFINE new == [mgr[c] EXCEPT !.pending = <<>>]
<1>1. ManagerOk(c, new)
  BY ClearedOk
<1>2. mgr' = [mgr EXCEPT ![c] = new] /\ accepts' \in 0 .. MaxAccepts
  BY DEF Reject, DualTyped, Sv2TypeOK
<1> HIDE DEF new
<1> QED BY <1>1, <1>2, ManagerStep DEF Reject

\* The SV1 state is typed after a step that touches only these parts of it.
LEMMA Sv1Typed ==
  ASSUME TypeInv, TrackerTypeOK', nshares' \in 0 .. MaxShares, ext_queue' \in Seq(Share),
         spawned' \subseteq Nat, UNCHANGED <<published, asmVars, relay_out, linkVars, poolVars>>
  PROVE  TypeInv'
BY DEF TypeInv, TypeOK, AsmInv, asmVars, linkVars, poolVars

LEMMA SeedType ==
  ASSUME DualTyped, NEW c \in Conns, NEW seed \in 0 .. published - 1, SeedJobTracker(c, seed)
  PROVE  DualTyped'
<1> DEFINE m == mgr[c]
           key == Sv2Key(m.opening[1], m.opening[2])
           new == [m EXCEPT !.opening = <<>>]
<1>1. ManagerOk(c, m)
  BY ManagerIs DEF DualTyped
<1>2. /\ mgr' = [mgr EXCEPT ![c] = new] /\ m.opening # <<>> /\ Insert(key, seed, 0)
      /\ UNCHANGED <<published, asmVars, relayVars, ext_queue, linkVars, poolVars,
                     accepts, parked, sv2_queue, sv2_out, last>>
  BY DEF SeedJobTracker
<1> HIDE DEF m
<1>3. m \in Manager /\ m.opening \in Triple
  BY <1>1, <1>2 DEF ManagerOk, Manager
<1>4. key \in Keys
  <2>1. m.opening[1] \in 1 .. MaxJobId /\ m.opening[2] \in 1 .. MaxJobId
    BY <1>3 DEF Triple
  <2> QED BY <2>1, DualAssumption DEF Sv2Key
<1>5. seed \in Seeds /\ 0 \in 0 .. IdxMod - 1
  BY PublishedRange, TrackerAssumption DEF DualTyped
<1> HIDE DEF key
<1>6. TypeOK /\ TrackerTypeOK
  BY DEF DualTyped, TypeInv, TypeOK
<1>7. TrackerTypeOK'
  BY <1>2, <1>4, <1>5, <1>6, InsertType
<1>8. Queued'
  BY <1>2, <1>4, <1>6, InsertQueued DEF DualTyped
<1>9. TypeInv'
  <2>1. /\ nshares' \in 0 .. MaxShares /\ ext_queue' \in Seq(Share) /\ spawned' \subseteq Nat
        /\ relay_out' = relay_out
    BY <1>2, <1>6 DEF TypeOK, relayVars
  <2> QED BY <1>2, <1>7, <2>1, Sv1Typed DEF DualTyped
<1>10. ManagerOk(c, new) /\ new.pending = m.pending
  <2>1. /\ new \in Manager /\ new.jobs = m.jobs /\ new.pending = m.pending
        /\ new.next_channel_id = m.next_channel_id /\ new.next_job_id = m.next_job_id
    BY <1>3 DEF Manager
  <2> QED BY <1>1, <2>1 DEF ManagerOk
<1> HIDE DEF new
<1>11. mgr' \in [Conns -> Manager] /\ ManagerInv'
  BY <1>2, <1>10, ManagerSet DEF DualTyped
<1>12. Sv2TypeOK'
  BY <1>2, <1>11 DEF DualTyped, Sv2TypeOK
<1> QED BY <1>8, <1>9, <1>11, <1>12 DEF DualTyped

LEMMA SubmitType ==
  ASSUME DualTyped, NEW c \in Conns, NEW block \in BOOLEAN, Submit(c, block)
  PROVE  DualTyped'
<1> DEFINE p == mgr[c].pending
           key == Sv2Key(p[1], p[2])
           share == EncodedShare(c, key, p[3], block)
           new == [mgr[c] EXCEPT !.pending = <<>>]
<1>1. /\ p # <<>> /\ nshares < MaxShares /\ Encode(key, p[3])
      /\ parked' = [parked EXCEPT ![c] = <<share>>] /\ nshares' = nshares + 1
      /\ mgr' = [mgr EXCEPT ![c] = new]
      /\ UNCHANGED <<published, asmVars, relay_out, spawned, ext_queue, linkVars, poolVars,
                     accepts, sv2_queue, sv2_out, last>>
  BY DEF Submit
<1>2. p[3] \in Seeds /\ key \in DOMAIN by_key /\ c \in Sources
  <2>1. p \in Triple
    BY <1>1 DEF DualTyped, Sv2TypeOK, Manager
  <2> QED BY <1>1, <2>1, DualAssumption DEF Triple, Encode, Contains
<1>3. ManagerOk(c, new) /\ new.pending = <<>>
  BY ClearedOk
<1> HIDE DEF p, key, new
<1>4. TypeOK /\ TrackerTypeOK /\ parked \in [Conns -> Seq(Share)] /\ MaxShares \in Nat
  BY RelayAssumption DEF DualTyped, TypeInv, TypeOK, Sv2TypeOK
<1>5. TrackerTypeOK'
  BY <1>1, <1>2, <1>4, EncodeType
<1>6. Queued'
  BY <1>1, <1>4, SameQueued DEF Encode, DualTyped
<1>7. share \in Share
  BY <1>2, <1>4, EncodedShareType
<1>8. nshares' \in 0 .. MaxShares /\ ext_queue' \in Seq(Share) /\ spawned' \subseteq Nat
  BY <1>1, <1>4 DEF TypeOK
<1>9. TypeInv'
  BY <1>1, <1>5, <1>8, Sv1Typed DEF DualTyped
<1> HIDE DEF share
<1>10. parked' \in [Conns -> Seq(Share)] /\ \A d \in Conns : d # c => parked'[d] = parked[d]
  BY <1>1, <1>4, <1>7
<1>11. mgr' \in [Conns -> Manager] /\ ManagerInv'
  BY <1>1, <1>3, <1>10, ManagerSet DEF DualTyped
<1>12. Sv2TypeOK'
  BY <1>1, <1>10, <1>11 DEF DualTyped, Sv2TypeOK
<1> QED BY <1>6, <1>9, <1>11, <1>12 DEF DualTyped

LEMMA ForwardType ==
  ASSUME DualTyped, NEW c \in Conns, Forward(c)
  PROVE  DualTyped'
<1>1. /\ TypeOK /\ parked \in [Conns -> Seq(Share)] /\ sv2_queue \in Seq(Share)
      /\ parked[c] \in Seq(Share)
  BY DEF DualTyped, TypeInv, TypeOK, Sv2TypeOK
<1>2. /\ parked[c] # <<>> /\ parked' = [parked EXCEPT ![c] = <<>>]
      /\ sv2_queue' = sv2_queue \o parked[c]
      /\ spawned' = IF Head(parked[c]).block THEN spawned \cup {Head(parked[c]).n} ELSE spawned
      /\ UNCHANGED <<trackerVars, published, asmVars, nshares, relay_out, ext_queue, linkVars,
                     poolVars, accepts, mgr, sv2_out, last>>
  BY DEF Forward
<1>3. spawned' \subseteq Nat
  <2>1. Head(parked[c]) \in Share
    BY <1>1, <1>2, HeadTailProperties
  <2>2. Head(parked[c]).n \in Nat /\ spawned \subseteq Nat
    BY <1>1, <2>1 DEF Share, TypeOK
  <2> QED BY <1>2, <2>2
<1>4. /\ nshares' \in 0 .. MaxShares /\ ext_queue' \in Seq(Share) /\ TrackerTypeOK'
  BY <1>1, <1>2 DEF TypeOK, TrackerTypeOK, trackerVars
<1>5. TypeInv'
  BY <1>2, <1>3, <1>4, Sv1Typed DEF DualTyped
<1>6. Queued'
  BY <1>2, SameQueued DEF DualTyped, trackerVars
<1>7. sv2_queue' \in Seq(Share) /\ parked' \in [Conns -> Seq(Share)]
  BY <1>1, <1>2, EmptyQueue, ConcatProperties
<1>8. Sv2TypeOK'
  BY <1>2, <1>7 DEF DualTyped, Sv2TypeOK
<1>9. ManagerInv'
  <2>1. \A d \in Conns : parked'[d] = parked[d] \/ parked'[d] = <<>>
    BY <1>1, <1>2
  <2> QED BY <1>2, <2>1 DEF DualTyped, ManagerInv
<1> QED BY <1>5, <1>6, <1>8, <1>9 DEF DualTyped

\* The queues of the SV2 side, when a bridge moves a share.
LEMMA BridgesType ==
  ASSUME DualTyped, Sv2BridgeTake \/ Sv2BridgePut
  PROVE  DualTyped'
<1>1. /\ TypeInv /\ TypeOK /\ sv2_queue \in Seq(Share) /\ sv2_out \in Seq(Share)
      /\ ext_queue \in Seq(Share)
  BY DEF DualTyped, TypeInv, TypeOK, Sv2TypeOK
<1>2. /\ sv2_queue' \in Seq(Share) /\ sv2_out' \in Seq(Share) /\ ext_queue' \in Seq(Share)
      /\ UNCHANGED <<trackerVars, published, asmVars, relayVars, linkVars, poolVars,
                     accepts, mgr, parked, last>>
  <2>1. CASE Sv2BridgeTake
    <3>1. Head(sv2_queue) \in Share /\ Tail(sv2_queue) \in Seq(Share)
      BY <1>1, <2>1, HeadTailProperties DEF Sv2BridgeTake
    <3> QED BY <1>1, <2>1, <3>1 DEF Sv2BridgeTake, vars
  <2>2. CASE Sv2BridgePut
    BY <1>1, <2>2, EmptyQueue, ConcatProperties DEF Sv2BridgePut
  <2> QED BY <2>1, <2>2
<1>3. TypeInv'
  <2>1. /\ nshares' \in 0 .. MaxShares /\ spawned' \subseteq Nat /\ TrackerTypeOK'
        /\ relay_out' = relay_out
    BY <1>1, <1>2 DEF TypeOK, relayVars, TrackerTypeOK, trackerVars
  <2> QED BY <1>1, <1>2, <2>1, Sv1Typed
<1>4. Queued'
  BY <1>2, SameQueued DEF DualTyped, trackerVars
<1>5. Sv2TypeOK' /\ ManagerInv'
  BY <1>2 DEF DualTyped, Sv2TypeOK, ManagerInv
<1> QED BY <1>3, <1>4, <1>5 DEF DualTyped

\* The steps of the SV1 relay.
LEMMA Sv1PartType ==
  ASSUME DualTyped, Sv1Part \/ Deliver
  PROVE  DualTyped'
<1>1. [Sv1Next]_vars
  BY DEF Sv1Part, Deliver, Sv1Next
<1>2. TypeInv' /\ Queued'
  BY <1>1, NextType, Sv1Queued DEF DualTyped
<1>3. UNCHANGED sv2Vars /\ last' \in [Sources -> Int]
  <2>1. CASE Sv1Part
    BY <2>1 DEF Sv1Part, DualTyped, Sv2TypeOK
  <2>2. CASE Deliver
    <3>1. conn_queue \in Seq(Share) /\ conn_queue # <<>>
      BY <2>2 DEF Deliver, Write, DualTyped, TypeInv, TypeOK
    <3>2. Head(conn_queue) \in Share
      BY <3>1, HeadTailProperties
    <3>3. Head(conn_queue).n \in Int /\ last \in [Sources -> Int]
      BY <3>2 DEF Share, DualTyped, Sv2TypeOK
    <3> QED BY <2>2, <3>3 DEF Deliver
  <2> QED BY <2>1, <2>2
<1>4. Sv2TypeOK'
  BY <1>3 DEF DualTyped, Sv2TypeOK, sv2Vars
<1>5. published' >= published /\ published \in Int /\ published' \in Int
  <2>1. TypeOK /\ TypeOK'
    BY <1>2 DEF DualTyped, TypeInv
  <2>2. published' = published \/ published' = published + 1
    BY <1>1 DEF Sv1Next, RelayStep, PublishTemplate, AsmAllocate, AsmInsert, RelayEncode, RelayDrop,
       RelaySend, Connect, BridgeTake, BridgePut, BridgeFail, Write, WriteLost, WriteFail, PeerClose,
       Teardown, vars
  <2> QED BY <2>1, <2>2 DEF TypeOK
<1>6. ManagerInv'
  BY <1>3, <1>5 DEF DualTyped, ManagerInv, sv2Vars
<1> QED BY <1>2, <1>4, <1>6 DEF DualTyped

LEMMA DualTypedInit == DualInit => DualTyped
<1> SUFFICES ASSUME DualInit PROVE DualTyped
  OBVIOUS
<1>1. TypeInv
  BY InitType DEF DualInit
<1>2. Queued
  BY DEF DualInit, Init, TrackerInit, Queued
<1>3. 1 \in 1 .. MaxJobId + 1 /\ 0 \in 0 .. MaxTemplates /\ 0 \in 0 .. MaxAccepts
  BY DualAssumption, RelayAssumption
<1> DEFINE down == [NewManager EXCEPT !.up = FALSE]
<1>4. down \in Manager /\ down.jobs = {} /\ down.pending = <<>> /\ down.next_channel_id = 1
      /\ down.next_job_id = 1
  BY <1>3 DEF NewManager, Manager
<1> HIDE DEF down
<1>5. mgr = [c \in Conns |-> down] /\ parked = [c \in Conns |-> <<>>] /\ accepts = 0
      /\ sv2_queue = <<>> /\ sv2_out = <<>> /\ last = [s \in Sources |-> -1]
  BY DEF DualInit, down
<1>6. Sv2TypeOK
  BY <1>3, <1>4, <1>5, EmptyQueue DEF Sv2TypeOK
<1>7. ManagerInv
  BY <1>4, <1>5 DEF ManagerInv
<1> QED BY <1>1, <1>2, <1>6, <1>7 DEF DualTyped

LEMMA DualTypedNext == DualTyped /\ [DualNext]_dualVars => DualTyped'
<1> SUFFICES ASSUME DualTyped, [DualNext]_dualVars PROVE DualTyped'
  OBVIOUS
<1>1. CASE UNCHANGED dualVars
  <2>1. UNCHANGED vars /\ UNCHANGED sv2Vars /\ last' = last
    BY <1>1 DEF dualVars
  <2>2. TypeInv' /\ Queued'
    BY <2>1, NextType, Sv1Queued DEF DualTyped
  <2>3. Sv2TypeOK' /\ ManagerInv'
    BY <2>1 DEF DualTyped, Sv2TypeOK, ManagerInv, sv2Vars, vars
  <2> QED BY <2>2, <2>3 DEF DualTyped
<1>2. CASE Sv1Part \/ Deliver
  BY <1>2, Sv1PartType
<1>3. CASE Sv2BridgeTake \/ Sv2BridgePut
  BY <1>3, BridgesType
<1>4. ASSUME NEW c \in Conns, Sv2Step(c) PROVE DualTyped'
  BY <1>4, AcceptType, DisconnectType, OpenType, SeedType, UpdateType, ForwardType, CloseType,
     BeginType, SubmitType, RejectType DEF Sv2Step
<1> QED BY <1>1, <1>2, <1>3, <1>4 DEF DualNext

LEMMA DualTypedAlways == DualSpec => []DualTyped
BY DualTypedInit, DualTypedNext, PTL DEF DualSpec

\* Every entry of the tracker stays in the eviction queue (insert), although
\* two SV2 connections number their channels and jobs from 1 and so insert the
\* same key again: insertion never evicts an entry whose key is not queued.
THEOREM EntriesStayQueued == DualSpec => []LiveKeysQueued
<1>1. DualTyped => LiveKeysQueued
  BY DEF DualTyped, LiveKeysQueued, DualTypeOK, Sv2TypeOK, Manager, Triple, TypeInv, Queued
<1> QED BY <1>1, DualTypedAlways, PTL

-----------------------------------------------------------------------------
(* Shares of one source stay in the order they were encoded. *)

\* All queues between the encoders and the pool as one, oldest share first.
Path == conn_queue \o (bridge_out \o (ext_queue \o (sv2_out \o sv2_queue)))

\* The share that source s encoded and has not yet put into a queue.
Held(s) == IF s = "sv1" THEN relay_out ELSE IF s \in Conns THEN parked[s] ELSE <<>>

\* Numbered before now and not before what the pool has of its source.
Recent(h) == h.n < nshares /\ last[h.src] <= h.n

Sorted(P) ==
  \A i, j \in 1 .. Len(P) : i < j /\ P[i].src = P[j].src => P[i].n <= P[j].n

\* No share in P from the source of h is newer than h.
Behind(P, h) ==
  \A i \in 1 .. Len(P) : P[i].src = h.src => P[i].n <= h.n

PathOrdered ==
  Sorted(Path) /\ \A i \in 1 .. Len(Path) : Recent(Path[i])

HeldBehind ==
  \A s \in Sources : Held(s) # <<>> =>
    \E h \in Share : Held(s) = <<h>> /\ h.src = s /\ Recent(h) /\ Behind(Path, h)

\* The SV2 queue and its bridge hold shares of SV2 connections only.
SideSources ==
  /\ \A i \in 1 .. Len(sv2_out) : sv2_out[i].src \in Conns
  /\ \A i \in 1 .. Len(sv2_queue) : sv2_queue[i].src \in Conns

\* The numbers the pool has seen were given out.
LastOld == \A s \in Sources : last[s] < nshares

OrderInv == PathOrdered /\ HeldBehind /\ LastOld

LEMMA PathType == DualTyped => Path \in Seq(Share)
BY DEF Path, DualTyped, TypeInv, TypeOK, Sv2TypeOK

\* What the lemmas below need of the types.
LEMMA OrderTypes ==
  ASSUME DualTyped
  PROVE  /\ nshares \in Nat /\ Path \in Seq(Share) /\ Len(Path) \in Nat
         /\ last \in [Sources -> Int] /\ \A i \in 1 .. Len(Path) : Path[i] \in Share
         /\ \A h \in Share : h.n \in Nat /\ h.src \in Sources
<1>1. Path \in Seq(Share)
  BY PathType
<1>2. nshares \in Nat /\ last \in [Sources -> Int]
  BY DEF DualTyped, TypeInv, TypeOK, Sv2TypeOK
<1>3. \A h \in Share : h.n \in Nat /\ h.src \in Sources
  BY DEF Share
<1>4. Len(Path) \in Nat /\ \A i \in 1 .. Len(Path) : Path[i] \in Share
  BY <1>1, ElementOfSeq, LenProperties
<1> QED BY <1>1, <1>2, <1>3, <1>4

LEMMA OrderTypesNext ==
  ASSUME DualTyped'
  PROVE  nshares' \in Nat /\ Len(Path') \in Nat /\ last' \in [Sources -> Int]
<1>1. nshares' \in Nat /\ last' \in [Sources -> Int]
  BY DEF DualTyped, TypeInv, TypeOK, Sv2TypeOK
<1>2. Path' \in Seq(Share)
  BY DEF Path, DualTyped, TypeInv, TypeOK, Sv2TypeOK
<1> QED BY <1>1, <1>2, LenProperties

\* Path loses its m oldest shares.
Drops(m) ==
  /\ m <= Len(Path) /\ Len(Path') = Len(Path) - m
  /\ \A i \in 1 .. Len(Path') : Path'[i] = Path[i + m]

\* A source holds what it held, or nothing, or a share encoded in this step.
HeldNext(s) ==
  \/ Held(s)' = Held(s)
  \/ Held(s)' = <<>>
  \/ \E h \in Share : Held(s)' = <<h>> /\ h.src = s /\ h.n = nshares /\ nshares < nshares'

\* Steps that lose shares, encode one, or leave the path alone.
LEMMA DropsOrdered ==
  ASSUME DualTyped, DualTyped', OrderInv, NEW m \in Nat, Drops(m), last' = last,
         nshares <= nshares', \A s \in Sources : HeldNext(s)
  PROVE  OrderInv'
<1>0. /\ nshares \in Nat /\ Len(Path) \in Nat /\ last \in [Sources -> Int]
      /\ \A i \in 1 .. Len(Path) : Path[i] \in Share
      /\ \A h \in Share : h.n \in Nat /\ h.src \in Sources
  BY OrderTypes
<1>1. nshares' \in Nat /\ Len(Path') \in Nat
  BY OrderTypesNext
<1>2. \A i \in 1 .. Len(Path') : i + m \in 1 .. Len(Path) /\ Path'[i] = Path[i + m]
  BY <1>0, <1>1 DEF Drops
<1>3. \A h \in Share : h.n < nshares /\ last[h.src] <= h.n => h.n < nshares' /\ last'[h.src] <= h.n
  BY <1>0, <1>1
<1>4. ASSUME NEW i \in 1 .. Len(Path') PROVE Path'[i].n < nshares' /\ last'[Path'[i].src] <= Path'[i].n
  <2>1. Path[i + m] \in Share /\ Path'[i] = Path[i + m] /\ i + m \in 1 .. Len(Path)
    BY <1>0, <1>2
  <2>2. Path[i + m].n < nshares /\ last[Path[i + m].src] <= Path[i + m].n
    BY <2>1 DEF OrderInv, PathOrdered, Recent
  <2> QED BY <1>3, <2>1, <2>2
<1>5. Sorted(Path)'
  <2>1. ASSUME NEW i \in 1 .. Len(Path'), NEW j \in 1 .. Len(Path'), i < j, Path'[i].src = Path'[j].src
        PROVE  Path'[i].n <= Path'[j].n
    <3>1. /\ Path'[i] = Path[i + m] /\ i + m \in 1 .. Len(Path)
          /\ Path'[j] = Path[j + m] /\ j + m \in 1 .. Len(Path)
      BY <1>2
    <3>2. i + m < j + m
      BY <1>1, <2>1
    <3> QED BY <2>1, <3>1, <3>2 DEF OrderInv, PathOrdered, Sorted
  <2> QED BY <2>1 DEF Sorted
<1>6. \A h \in Share : Behind(Path, h) => Behind(Path, h)'
  BY <1>2 DEF Behind
<1>7. HeldBehind'
  <2> SUFFICES ASSUME NEW s \in Sources, Held(s)' # <<>>
               PROVE  \E h \in Share : Held(s)' = <<h>> /\ h.src = s /\ Recent(h)' /\ Behind(Path, h)'
    BY DEF HeldBehind
  <2>1. CASE Held(s)' = Held(s)
    <3>1. PICK h \in Share : Held(s) = <<h>> /\ h.src = s /\ Recent(h) /\ Behind(Path, h)
      BY <2>1 DEF OrderInv, HeldBehind
    <3>2. Recent(h)' /\ Behind(Path, h)'
      BY <1>3, <1>6, <3>1 DEF Recent
    <3> QED BY <2>1, <3>1, <3>2
  <2>2. ASSUME NEW h \in Share, Held(s)' = <<h>>, h.src = s, h.n = nshares, nshares < nshares'
        PROVE  Recent(h)' /\ Behind(Path, h)'
    <3>1. last'[h.src] <= h.n /\ h.n < nshares'
      BY <1>0, <2>2 DEF OrderInv, LastOld
    <3>2. ASSUME NEW i \in 1 .. Len(Path) PROVE Path[i].n <= h.n
      <4>1. Path[i] \in Share /\ Path[i].n < nshares
        BY <1>0 DEF OrderInv, PathOrdered, Recent
      <4>2. Path[i].n \in Nat
        BY <1>0, <4>1
      <4> QED BY <1>0, <2>2, <4>1, <4>2
    <3>3. Behind(Path, h)
      BY <3>2 DEF Behind
    <3> QED BY <1>6, <3>1, <3>3 DEF Recent
  <2> QED BY <2>1, <2>2 DEF HeldNext
<1>8. LastOld'
  BY <1>0, <1>1 DEF OrderInv, LastOld
<1> QED BY <1>4, <1>5, <1>7, <1>8 DEF OrderInv, PathOrdered, Recent

\* The pool receives the oldest share of the path.
LEMMA DeliverOrdered ==
  ASSUME DualTyped, DualTyped', OrderInv, Drops(1), nshares' = nshares,
         last' = [last EXCEPT ![Path[1].src] = Path[1].n],
         \A s \in Sources : Held(s)' = Held(s)
  PROVE  OrderInv' /\ \A s \in Sources : last'[s] >= last[s]
<1>0. /\ nshares \in Nat /\ Len(Path) \in Nat /\ last \in [Sources -> Int]
      /\ \A i \in 1 .. Len(Path) : Path[i] \in Share
      /\ \A h \in Share : h.n \in Nat /\ h.src \in Sources
  BY OrderTypes
<1>1. nshares' \in Nat /\ Len(Path') \in Nat
  BY OrderTypesNext
<1>2. /\ 1 \in 1 .. Len(Path)
      /\ \A i \in 1 .. Len(Path') : i + 1 \in 1 .. Len(Path) /\ Path'[i] = Path[i + 1]
  BY <1>0, <1>1 DEF Drops
<1>3. PICK p \in Share : p = Path[1]
  BY <1>0, <1>2
<1>4. /\ p.n \in Nat /\ p.src \in Sources /\ p.n < nshares /\ last[p.src] <= p.n
      /\ \A i \in 1 .. Len(Path) : Path[i].src = p.src => p.n <= Path[i].n
  <2>1. p.n \in Nat /\ p.src \in Sources
    BY <1>0
  <2>2. p.n < nshares /\ last[p.src] <= p.n
    BY <1>2, <1>3 DEF OrderInv, PathOrdered, Recent
  <2>3. ASSUME NEW i \in 1 .. Len(Path), Path[i].src = p.src PROVE p.n <= Path[i].n
    <3>1. CASE i = 1
      BY <1>3, <2>1, <3>1
    <3>2. CASE i > 1
      BY <1>2, <1>3, <2>3, <3>2 DEF OrderInv, PathOrdered, Sorted
    <3> QED BY <3>1, <3>2
  <2> QED BY <2>1, <2>2, <2>3
<1>5. /\ last'[p.src] = p.n
      /\ \A s \in Sources : s # p.src => last'[s] = last[s]
  BY <1>0, <1>3, <1>4
<1>6. \A s \in Sources : last'[s] >= last[s] /\ last'[s] < nshares'
  BY <1>0, <1>4, <1>5 DEF OrderInv, LastOld
<1>7. ASSUME NEW i \in 1 .. Len(Path') PROVE Path'[i].n < nshares' /\ last'[Path'[i].src] <= Path'[i].n
  <2>1. PICK q \in Share : q = Path[i + 1] /\ q = Path'[i] /\ i + 1 \in 1 .. Len(Path)
    BY <1>0, <1>2
  <2>2. q.n < nshares /\ last[q.src] <= q.n
    BY <2>1 DEF OrderInv, PathOrdered, Recent
  <2>3. q.src = p.src => p.n <= q.n
    BY <1>4, <2>1
  <2>4. q.src \in Sources
    BY <1>0
  <2> QED BY <1>5, <2>1, <2>2, <2>3, <2>4
<1>8. Sorted(Path)'
  <2>1. ASSUME NEW i \in 1 .. Len(Path'), NEW j \in 1 .. Len(Path'), i < j, Path'[i].src = Path'[j].src
        PROVE  Path'[i].n <= Path'[j].n
    <3>1. /\ Path'[i] = Path[i + 1] /\ i + 1 \in 1 .. Len(Path)
          /\ Path'[j] = Path[j + 1] /\ j + 1 \in 1 .. Len(Path)
      BY <1>2
    <3>2. i + 1 < j + 1
      BY <1>1, <2>1
    <3> QED BY <2>1, <3>1, <3>2 DEF OrderInv, PathOrdered, Sorted
  <2> QED BY <2>1 DEF Sorted
<1>9. HeldBehind'
  <2> SUFFICES ASSUME NEW s \in Sources, Held(s)' # <<>>
               PROVE  \E h \in Share : Held(s)' = <<h>> /\ h.src = s /\ Recent(h)' /\ Behind(Path, h)'
    BY DEF HeldBehind
  <2>1. Held(s)' = Held(s)
    OBVIOUS
  <2>2. PICK h \in Share : Held(s) = <<h>> /\ h.src = s /\ Recent(h) /\ Behind(Path, h)
    BY <2>1 DEF OrderInv, HeldBehind
  <2>3. Behind(Path, h)'
    BY <1>2, <2>2 DEF Behind
  <2>4. Recent(h)'
    <3>1. h.n < nshares /\ last[s] <= h.n
      BY <2>2 DEF Recent
    <3>2. s = p.src => p.n <= h.n
      BY <1>2, <1>3, <2>2 DEF Behind
    <3>3. last'[s] <= h.n
      BY <1>5, <3>1, <3>2
    <3> QED BY <2>2, <3>1, <3>3 DEF Recent
  <2> QED BY <2>1, <2>2, <2>3, <2>4
<1> QED BY <1>6, <1>7, <1>8, <1>9 DEF OrderInv, PathOrdered, Recent, LastOld

\* A held share enters the path behind all shares of its source.
Enters(h, a) ==
  /\ a <= Len(Path) /\ Len(Path') = Len(Path) + 1
  /\ \A i \in 1 .. a : Path'[i] = Path[i]
  /\ Path'[a + 1] = h
  /\ \A i \in a + 1 .. Len(Path) : Path'[i + 1] = Path[i] /\ Path[i].src # h.src

LEMMA EntersOrdered ==
  ASSUME DualTyped, DualTyped', OrderInv, NEW a \in Nat, NEW s \in Sources, NEW h, Held(s) = <<h>>,
         Enters(h, a), last' = last, nshares' = nshares, Held(s)' = <<>>,
         \A r \in Sources : r # s => Held(r)' = Held(r)
  PROVE  OrderInv'
<1>0. /\ nshares \in Nat /\ Len(Path) \in Nat /\ last \in [Sources -> Int]
      /\ \A i \in 1 .. Len(Path) : Path[i] \in Share
      /\ \A g \in Share : g.n \in Nat /\ g.src \in Sources
  BY OrderTypes
<1>1. nshares' \in Nat /\ Len(Path') \in Nat
  BY OrderTypesNext
<1>2. h \in Share /\ h.src = s /\ h.n < nshares /\ last[s] <= h.n /\ Behind(Path, h)
  <2>1. Held(s) # <<>>
    OBVIOUS
  <2>2. PICK g \in Share : Held(s) = <<g>> /\ g.src = s /\ Recent(g) /\ Behind(Path, g)
    BY <2>1 DEF OrderInv, HeldBehind
  <2>3. g = h
    <3>1. <<g>>[1] = <<h>>[1]
      BY <2>2
    <3> QED BY <3>1
  <2> QED BY <2>2, <2>3 DEF Recent
<1>3. \A i \in 1 .. Len(Path') :
        \/ i <= a /\ i \in 1 .. Len(Path) /\ Path'[i] = Path[i]
        \/ i = a + 1 /\ Path'[i] = h
        \/ i > a + 1 /\ i - 1 \in 1 .. Len(Path) /\ Path'[i] = Path[i - 1] /\ Path[i - 1].src # s
  <2> SUFFICES ASSUME NEW i \in 1 .. Len(Path')
               PROVE  \/ i <= a /\ i \in 1 .. Len(Path) /\ Path'[i] = Path[i]
                      \/ i = a + 1 /\ Path'[i] = h
                      \/ /\ i > a + 1 /\ i - 1 \in 1 .. Len(Path)
                         /\ Path'[i] = Path[i - 1] /\ Path[i - 1].src # s
    OBVIOUS
  <2>1. CASE i <= a
    <3>1. i \in 1 .. a /\ i \in 1 .. Len(Path)
      BY <1>0, <1>1, <2>1 DEF Enters
    <3> QED BY <2>1, <3>1 DEF Enters
  <2>2. CASE i = a + 1
    BY <2>2 DEF Enters
  <2>3. CASE i > a + 1
    <3>1. i - 1 \in a + 1 .. Len(Path) /\ i - 1 \in 1 .. Len(Path) /\ (i - 1) + 1 = i
      BY <1>0, <1>1, <2>3 DEF Enters
    <3>2. Path'[(i - 1) + 1] = Path[i - 1] /\ Path[i - 1].src # s
      BY <1>2, <3>1 DEF Enters
    <3> QED BY <2>3, <3>1, <3>2
  <2> QED BY <1>1, <2>1, <2>2, <2>3
<1>4. \A i \in 1 .. Len(Path') : Path'[i] = h \/ \E k \in 1 .. Len(Path) : Path'[i] = Path[k]
  BY <1>3
<1>5. ASSUME NEW i \in 1 .. Len(Path') PROVE Path'[i].n < nshares' /\ last'[Path'[i].src] <= Path'[i].n
  <2>1. CASE Path'[i] = h
    BY <1>2, <2>1
  <2>2. ASSUME NEW k \in 1 .. Len(Path), Path'[i] = Path[k]
        PROVE  Path'[i].n < nshares' /\ last'[Path'[i].src] <= Path'[i].n
    <3>1. Path[k].n < nshares /\ last[Path[k].src] <= Path[k].n
      BY DEF OrderInv, PathOrdered, Recent
    <3> QED BY <2>2, <3>1
  <2> QED BY <1>4, <2>1, <2>2
<1>6. Sorted(Path)'
  <2>1. ASSUME NEW i \in 1 .. Len(Path'), NEW j \in 1 .. Len(Path'), i < j, Path'[i].src = Path'[j].src
        PROVE  Path'[i].n <= Path'[j].n
    <3>1. ASSUME NEW x \in 1 .. Len(Path), NEW y \in 1 .. Len(Path), x < y,
                 Path'[i] = Path[x], Path'[j] = Path[y]
          PROVE  Path'[i].n <= Path'[j].n
      BY <2>1, <3>1 DEF OrderInv, PathOrdered, Sorted
    <3>2. CASE i <= a
      <4>1. i \in 1 .. Len(Path) /\ Path'[i] = Path[i]
        BY <1>1, <1>3, <3>2
      <4>2. CASE j <= a
        BY <1>1, <1>3, <2>1, <3>1, <4>1, <4>2
      <4>3. CASE j = a + 1
        <5>1. Path'[j] = h
          BY <1>3, <4>3
        <5> QED BY <1>2, <2>1, <4>1, <5>1 DEF Behind
      <4>4. CASE j > a + 1
        <5>1. j - 1 \in 1 .. Len(Path) /\ Path'[j] = Path[j - 1]
          BY <1>3, <4>4
        <5>2. i < j - 1
          BY <3>2, <4>4
        <5> QED BY <3>1, <4>1, <5>1, <5>2
      <4> QED BY <4>2, <4>3, <4>4
    <3>3. CASE i = a + 1
      <4>1. Path'[i] = h /\ j > a + 1
        BY <1>3, <2>1, <3>3
      <4>2. Path'[j].src # s
        BY <1>3, <4>1
      <4> QED BY <1>2, <2>1, <4>1, <4>2
    <3>4. CASE i > a + 1
      <4>1. j > a + 1 /\ i - 1 < j - 1
        BY <2>1, <3>4
      <4>2. /\ i - 1 \in 1 .. Len(Path) /\ Path'[i] = Path[i - 1]
            /\ j - 1 \in 1 .. Len(Path) /\ Path'[j] = Path[j - 1]
        BY <1>3, <3>4, <4>1
      <4> QED BY <3>1, <4>1, <4>2
    <3> QED BY <3>2, <3>3, <3>4
  <2> QED BY <2>1 DEF Sorted
<1>7. HeldBehind'
  <2> SUFFICES ASSUME NEW r \in Sources, Held(r)' # <<>>
               PROVE  \E g \in Share : Held(r)' = <<g>> /\ g.src = r /\ Recent(g)' /\ Behind(Path, g)'
    BY DEF HeldBehind
  <2>1. r # s /\ Held(r)' = Held(r)
    OBVIOUS
  <2>2. PICK g \in Share : Held(r) = <<g>> /\ g.src = r /\ Recent(g) /\ Behind(Path, g)
    BY <2>1 DEF OrderInv, HeldBehind
  <2>3. Recent(g)'
    BY <2>2 DEF Recent
  <2>4. Behind(Path, g)'
    <3>1. ASSUME NEW i \in 1 .. Len(Path'), Path'[i].src = r PROVE Path'[i].n <= g.n
      <4>1. PICK k \in 1 .. Len(Path) : Path'[i] = Path[k]
        BY <1>2, <1>4, <2>1, <3>1
      <4> QED BY <2>2, <3>1, <4>1 DEF Behind
    <3> QED BY <2>2, <3>1 DEF Behind
  <2> QED BY <2>1, <2>2, <2>3, <2>4
<1>8. LastOld'
  BY DEF OrderInv, LastOld
<1> QED BY <1>5, <1>6, <1>7, <1>8 DEF OrderInv, PathOrdered, Recent

-----------------------------------------------------------------------------
(* What the steps do to the path. *)

\* What concatenation does, for the queues below.
LEMMA Joined ==
  ASSUME NEW a \in Seq(Share), NEW b \in Seq(Share)
  PROVE  a \o b \in Seq(Share) /\ <<>> \o a = a /\ a \o <<>> = a
BY ConcatProperties, ConcatEmptySeq

\* The queues of the path and their tails.
LEMMA Queues ==
  ASSUME DualTyped
  PROVE  /\ conn_queue \in Seq(Share) /\ bridge_out \in Seq(Share) /\ ext_queue \in Seq(Share)
         /\ sv2_out \in Seq(Share) /\ sv2_queue \in Seq(Share) /\ relay_out \in Seq(Share)
         /\ sv2_out \o sv2_queue \in Seq(Share)
         /\ ext_queue \o (sv2_out \o sv2_queue) \in Seq(Share)
         /\ bridge_out \o (ext_queue \o (sv2_out \o sv2_queue)) \in Seq(Share)
BY DEF DualTyped, TypeInv, TypeOK, Sv2TypeOK

\* Nothing enters or leaves.
LEMMA SameDrops ==
  ASSUME DualTyped, Path' = Path
  PROVE  Drops(0)
<1>1. Len(Path) \in Nat
  BY OrderTypes
<1> QED BY <1>1 DEF Drops

\* The front of the path is lost.
LEMMA FrontDrops ==
  ASSUME NEW a \in Seq(Share), NEW b \in Seq(Share), Path = a \o b, Path' = b
  PROVE  Len(a) \in Nat /\ Drops(Len(a))
<1>1. Len(a) \in Nat /\ Len(b) \in Nat
  BY LenProperties
<1> QED BY <1>1, DropFront DEF Drops

\* A share is inserted in front of b.
LEMMA InsertedAt ==
  ASSUME NEW a \in Seq(Share), NEW b \in Seq(Share), NEW h \in Share,
         Path = a \o b, Path' = (a \o <<h>>) \o b, \A i \in 1 .. Len(b) : b[i].src # h.src
  PROVE  Len(a) \in Nat /\ Enters(h, Len(a))
<1>1. PICK n \in Nat : n = Len(a)
  BY LenProperties
<1>2. PICK k \in Nat : k = Len(b)
  BY LenProperties
<1>3. /\ a \o <<h>> \in Seq(Share) /\ Len(a \o <<h>>) = n + 1 /\ (a \o <<h>>)[n + 1] = h
      /\ \A i \in 1 .. n : (a \o <<h>>)[i] = a[i]
  BY <1>1
<1> DEFINE ah == a \o <<h>>
<1> HIDE DEF ah
<1>4. /\ ah \in Seq(Share) /\ Len(ah) = n + 1 /\ ah[n + 1] = h /\ \A i \in 1 .. n : ah[i] = a[i]
      /\ Path' = ah \o b
  BY <1>3 DEF ah
<1>5. /\ Len(Path) = n + k /\ \A i \in 1 .. n : Path[i] = a[i]
      /\ \A i \in n + 1 .. n + k : Path[i] = b[i - n]
  BY <1>1, <1>2
<1>6. /\ Len(Path') = n + 1 + k /\ \A i \in 1 .. n + 1 : Path'[i] = ah[i]
      /\ \A i \in n + 2 .. n + 1 + k : Path'[i] = b[i - (n + 1)]
  <2>1. /\ Len(ah \o b) = (n + 1) + k
        /\ \A i \in 1 .. (n + 1) + k : (ah \o b)[i] = IF i <= n + 1 THEN ah[i] ELSE b[i - (n + 1)]
    BY <1>2, <1>4, ConcatProperties
  <2>2. \A i \in 1 .. n + 1 : i \in 1 .. (n + 1) + k /\ i <= n + 1
    OBVIOUS
  <2>3. \A i \in n + 2 .. n + 1 + k : i \in 1 .. (n + 1) + k /\ ~ (i <= n + 1)
    OBVIOUS
  <2>4. n + 1 + k = (n + 1) + k
    OBVIOUS
  <2> DEFINE q == ah \o b
  <2> HIDE DEF q
  <2>5. /\ Len(q) = (n + 1) + k /\ Path' = q
        /\ \A i \in 1 .. (n + 1) + k : q[i] = IF i <= n + 1 THEN ah[i] ELSE b[i - (n + 1)]
    BY <1>4, <2>1 DEF q
  <2> QED BY <2>2, <2>3, <2>4, <2>5
<1>7. ASSUME NEW i \in n + 1 .. n + k PROVE Path'[i + 1] = Path[i] /\ Path[i].src # h.src
  <2>1. i + 1 \in n + 2 .. n + 1 + k /\ (i + 1) - (n + 1) = i - n /\ i - n \in 1 .. k
    OBVIOUS
  <2>2. Path'[i + 1] = b[i - n]
    BY <1>6, <2>1
  <2> QED BY <1>2, <1>5, <2>1, <2>2
<1>8. /\ \A i \in 1 .. n : Path'[i] = Path[i] /\ Path'[n + 1] = h
      /\ n <= Len(Path) /\ Len(Path') = Len(Path) + 1
  <2>1. \A i \in 1 .. n : i \in 1 .. n + 1
    OBVIOUS
  <2>2. n + 1 \in 1 .. n + 1
    OBVIOUS
  <2>3. Path'[n + 1] = h
    BY <1>4, <1>6, <2>2
  <2>4. \A i \in 1 .. n : Path'[i] = Path[i]
    BY <1>4, <1>5, <1>6, <2>1
  <2>5. n <= Len(Path) /\ Len(Path') = Len(Path) + 1
    BY <1>5, <1>6
  <2> QED BY <2>3, <2>4, <2>5
<1>9. Path'[n + 1] = h
  <2>1. n + 1 \in 1 .. n + 1
    OBVIOUS
  <2> QED BY <1>4, <1>6, <2>1
<1> QED BY <1>1, <1>5, <1>7, <1>8, <1>9 DEF Enters

\* A bridge hands a share on.
LEMMA BridgesKeepPath ==
  ASSUME DualTyped,
         \/ BridgeTake /\ UNCHANGED sv2Vars
         \/ BridgePut /\ UNCHANGED sv2Vars
         \/ Sv2BridgeTake
         \/ Sv2BridgePut
  PROVE  Path' = Path
<1> DEFINE side == sv2_out \o sv2_queue
           rest == ext_queue \o side
<1>1. /\ conn_queue \in Seq(Share) /\ bridge_out \in Seq(Share) /\ ext_queue \in Seq(Share)
      /\ sv2_out \in Seq(Share) /\ sv2_queue \in Seq(Share)
  BY Queues
<1>a. side \in Seq(Share)
  BY Queues
<1>b. rest \in Seq(Share)
  BY Queues
<1>2. CASE BridgeTake /\ UNCHANGED sv2Vars
  <2> DEFINE h == <<Head(ext_queue)>>
             t == Tail(ext_queue)
  <2>1. h \in Seq(Share) /\ t \in Seq(Share) /\ h \o t = ext_queue
    BY <1>1, <1>2 DEF BridgeTake
  <2>2. /\ bridge_out = <<>> /\ bridge_out' = h /\ ext_queue' = t /\ conn_queue' = conn_queue
        /\ sv2_out' = sv2_out /\ sv2_queue' = sv2_queue
    BY <1>2 DEF BridgeTake, sv2Vars
  <2> HIDE DEF h, t, side
  <2>3. (h \o t) \o side = h \o (t \o side)
    <3>1. h \in Seq(Share) /\ t \in Seq(Share)
      BY <2>1
    <3> QED BY <1>a, <3>1, ConcatAssociative
  <2>4. h \o (t \o side) = rest
    BY <2>1, <2>3
  <2>5. <<>> \o rest = rest
    <3> HIDE DEF rest
    <3> QED BY <1>b, Joined
  <2> QED BY <2>2, <2>4, <2>5 DEF Path, side
<1>3. CASE BridgePut /\ UNCHANGED sv2Vars
  <2>1. /\ bridge_out' = <<>> /\ ext_queue' = ext_queue /\ conn_queue' = conn_queue \o bridge_out
        /\ sv2_out' = sv2_out /\ sv2_queue' = sv2_queue
    BY <1>3 DEF BridgePut, sv2Vars
  <2>2. Path = conn_queue \o (bridge_out \o rest) /\ Path' = (conn_queue \o bridge_out) \o (<<>> \o rest)
    BY <2>1 DEF Path
  <2> HIDE DEF rest
  <2>3. (conn_queue \o bridge_out) \o rest = conn_queue \o (bridge_out \o rest)
    <3>1. conn_queue \in Seq(Share) /\ bridge_out \in Seq(Share)
      BY <1>1
    <3> QED BY <1>b, <3>1, ConcatAssociative
  <2>4. <<>> \o rest = rest
    BY <1>b, Joined
  <2> QED BY <2>2, <2>3, <2>4
<1>4. CASE Sv2BridgeTake
  <2>1. <<Head(sv2_queue)>> \o Tail(sv2_queue) = sv2_queue
    BY <1>1, <1>4 DEF Sv2BridgeTake
  <2>2. /\ sv2_out = <<>> /\ sv2_out' = <<Head(sv2_queue)>> /\ sv2_queue' = Tail(sv2_queue)
        /\ ext_queue' = ext_queue /\ bridge_out' = bridge_out /\ conn_queue' = conn_queue
    BY <1>4 DEF Sv2BridgeTake, vars, linkVars
  <2>3. sv2_out \o sv2_queue = sv2_queue
    BY <1>1, <2>2, Joined
  <2>4. sv2_out' \o sv2_queue' = sv2_queue
    BY <2>1, <2>2
  <2> QED BY <2>2, <2>3, <2>4 DEF Path
<1>5. CASE Sv2BridgePut
  <2>1. /\ sv2_out' = <<>> /\ sv2_queue' = sv2_queue /\ ext_queue' = ext_queue \o sv2_out
        /\ bridge_out' = bridge_out /\ conn_queue' = conn_queue
    BY <1>5 DEF Sv2BridgePut, linkVars
  <2>2. (ext_queue \o sv2_out) \o sv2_queue = rest
    <3>1. ext_queue \in Seq(Share) /\ sv2_out \in Seq(Share) /\ sv2_queue \in Seq(Share)
      BY <1>1
    <3> QED BY <3>1, ConcatAssociative
  <2>3. <<>> \o sv2_queue = sv2_queue
    BY <1>1, Joined
  <2> QED BY <2>1, <2>2, <2>3 DEF Path
<1> QED BY <1>2, <1>3, <1>4, <1>5

\* The writer, or the bridge of a broken connection, loses shares.
LEMMA LossesDrop ==
  ASSUME DualTyped, LinkInv, WriteLost \/ Write \/ WriteFail \/ BridgeFail \/ Teardown,
         UNCHANGED sv2Vars
  PROVE  /\ \E m \in Nat : Drops(m)
         /\ Write => Drops(1) /\ Path[1] = Head(conn_queue)
<1> DEFINE rest == ext_queue \o (sv2_out \o sv2_queue)
           back == bridge_out \o rest
<1>1. conn_queue \in Seq(Share) /\ bridge_out \in Seq(Share)
  BY Queues
<1>a. rest \in Seq(Share)
  BY Queues
<1>b. back \in Seq(Share)
  BY Queues
<1>2. Path = conn_queue \o back /\ sv2_out' = sv2_out /\ sv2_queue' = sv2_queue
  BY DEF Path, sv2Vars
<1>3. CASE WriteLost \/ Write
  <2>1. conn_queue # <<>> /\ Path' = Tail(conn_queue) \o back
    BY <1>2, <1>3 DEF Path, WriteLost, Write
  <2> HIDE DEF back
  <2> DEFINE h == <<Head(conn_queue)>>
             t == Tail(conn_queue)
  <2>2. h \in Seq(Share) /\ t \in Seq(Share) /\ conn_queue = h \o t /\ Len(h) = 1
    BY <1>1, <2>1
  <2> HIDE DEF h, t
  <2> DEFINE tb == t \o back
  <2>3. tb \in Seq(Share) /\ Path' = tb
    <3>1. tb \in Seq(Share)
      BY <1>b, <2>2, Joined
    <3> QED BY <2>1, <3>1 DEF t
  <2>4. Path = h \o tb
    <3>1. h \in Seq(Share) /\ t \in Seq(Share)
      BY <2>2
    <3>2. (h \o t) \o back = h \o (t \o back)
      BY <1>b, <3>1, ConcatAssociative
    <3> QED BY <1>2, <2>2, <3>2
  <2> HIDE DEF tb
  <2>5. Drops(1)
    BY <2>2, <2>3, <2>4, FrontDrops
  <2>6. Path[1] = h[1]
    <3>1. 1 \in 1 .. Len(h) + Len(tb) /\ 1 <= Len(h)
      BY <2>2, <2>3, LenProperties
    <3> QED BY <2>2, <2>3, <2>4, <3>1, ConcatProperties
  <2> QED BY <2>5, <2>6 DEF h
<1>4. CASE WriteFail
  <2>1. Path' = <<>> \o back
    BY <1>2, <1>4 DEF Path, WriteFail
  <2> HIDE DEF back
  <2>2. Path' = back
    BY <1>b, <2>1, Joined
  <2> QED BY <1>1, <1>b, <1>2, <1>4, <2>2, FrontDrops DEF WriteFail, Write, poolVars
<1>5. CASE BridgeFail \/ Teardown
  <2>1. conn_queue = <<>> /\ conn_queue' = <<>> /\ bridge_out' = <<>> /\ ext_queue' = ext_queue
    BY <1>5 DEF BridgeFail, Teardown, LinkInv
  <2>2. Path' = <<>> \o (<<>> \o rest) /\ Path = <<>> \o (bridge_out \o rest)
    BY <1>2, <2>1 DEF Path
  <2> HIDE DEF rest
  <2>3. Path' = rest /\ Path = bridge_out \o rest
    BY <1>1, <1>a, <2>2, Joined
  <2> QED BY <1>1, <1>a, <1>5, <2>3, FrontDrops DEF BridgeFail, Teardown, Write
<1> QED BY <1>3, <1>4, <1>5

LEMMA Regrouped ==
  \A a, b, c \in Seq(Share) : (a \o b) \o c = a \o (b \o c)
BY ConcatAssociative

\* Four queues joined from the right are the first three joined, and the last.
Splits(a, b, c, d) == a \o (b \o (c \o d)) = (a \o (b \o c)) \o d

LEMMA Grouped ==
  ASSUME NEW a \in Seq(Share), NEW b \in Seq(Share), NEW c \in Seq(Share), NEW d \in Seq(Share)
  PROVE  Splits(a, b, c, d)
<1> DEFINE bc == b \o c
<1>1. bc \in Seq(Share)
  BY Joined
<1>2. b \o (c \o d) = bc \o d
  BY Regrouped, Zenon
<1> HIDE DEF bc
<1>3. a \o (bc \o d) = (a \o bc) \o d
  BY <1>1, Regrouped, Zenon
<1> QED BY <1>2, <1>3, Zenon DEF bc, Splits

\* The share the relay was parked on enters in front of the SV2 queues.
LEMMA SendEnters ==
  ASSUME DualTyped, SideSources, RelaySend, UNCHANGED sv2Vars, NEW h \in Share,
         relay_out = <<h>>, h.src = "sv1"
  PROVE  \E a \in Nat : Enters(h, a)
<1> DEFINE side == sv2_out \o sv2_queue
           front == conn_queue \o (bridge_out \o ext_queue)
           hh == <<h>>
           ext == ext_queue \o hh
<1>1. conn_queue \in Seq(Share) /\ bridge_out \in Seq(Share) /\ ext_queue \in Seq(Share)
  BY Queues
<1>2. side \in Seq(Share)
  BY Queues
<1>3. hh \in Seq(Share) /\ ext \in Seq(Share)
  <2>1. hh \in Seq(Share)
    OBVIOUS
  <2> HIDE DEF hh
  <2> QED BY <1>1, <2>1, Joined
<1>4. front \in Seq(Share)
  BY <1>1
<1>5. \A i \in 1 .. Len(side) : side[i].src # h.src
  <2>1. sv2_out \in Seq(Share) /\ sv2_queue \in Seq(Share)
    BY Queues
  <2>2. PICK n \in Nat : n = Len(sv2_out)
    BY <2>1, LenProperties
  <2>3. PICK k \in Nat : k = Len(sv2_queue)
    BY <2>1, LenProperties
  <2>4. /\ Len(side) = n + k
        /\ \A i \in 1 .. n + k : side[i] = IF i <= n THEN sv2_out[i] ELSE sv2_queue[i - n]
    BY <2>1, <2>2, <2>3, ConcatProperties
  <2> HIDE DEF side
  <2>5. ASSUME NEW i \in 1 .. n + k PROVE side[i].src \in Conns
    <3>1. CASE i <= n
      BY <2>2, <2>4, <3>1 DEF SideSources
    <3>2. CASE i > n
      <4>1. i - n \in 1 .. k /\ ~ (i <= n)
        BY <3>2
      <4> QED BY <2>3, <2>4, <4>1 DEF SideSources
    <3> QED BY <3>1, <3>2
  <2> QED BY <2>4, <2>5, DualAssumption
<1>6. /\ Path = conn_queue \o (bridge_out \o (ext_queue \o side))
      /\ Path' = conn_queue \o (bridge_out \o (ext \o side))
  BY DEF Path, RelaySend, linkVars, sv2Vars
<1> HIDE DEF side, hh, ext
<1>7. /\ Splits(conn_queue, bridge_out, ext_queue, side)
      /\ Splits(conn_queue, bridge_out, ext, side)
      /\ Splits(conn_queue, bridge_out, ext_queue, hh)
  BY <1>1, <1>2, <1>3, Grouped
<1>8. Path = front \o side /\ Path' = (front \o <<h>>) \o side
  BY <1>6, <1>7, Zenon DEF Splits, front, ext, hh
<1> HIDE DEF front
<1> QED BY <1>2, <1>4, <1>5, <1>8, InsertedAt

\* The share an SV2 connection was parked on enters behind all others.
LEMMA ForwardEnters ==
  ASSUME DualTyped, NEW c \in Conns, Forward(c), NEW h \in Share, parked[c] = <<h>>
  PROVE  \E a \in Nat : Enters(h, a)
<1> DEFINE side == sv2_out \o sv2_queue
           rest == ext_queue \o side
           hh == <<h>>
<1>1. conn_queue \in Seq(Share) /\ bridge_out \in Seq(Share)
  BY Queues
<1>2. sv2_out \in Seq(Share) /\ sv2_queue \in Seq(Share)
  BY Queues
<1>3. side \in Seq(Share)
  BY Queues
<1>4. rest \in Seq(Share)
  BY Queues
<1>5. hh \in Seq(Share)
  OBVIOUS
<1>6. Path' = conn_queue \o (bridge_out \o (ext_queue \o (sv2_out \o (sv2_queue \o hh))))
  BY DEF Path, Forward, linkVars
<1> HIDE DEF hh
<1>7. sv2_out \o (sv2_queue \o hh) = side \o hh
  BY <1>2, <1>5, ConcatAssociative
<1>8. ext_queue \o (side \o hh) = rest \o hh
  <2>1. ext_queue \in Seq(Share)
    BY Queues
  <2> HIDE DEF side
  <2> QED BY <1>3, <1>5, <2>1, ConcatAssociative
<1>9. Path = conn_queue \o (bridge_out \o rest)
  BY DEF Path
<1> HIDE DEF rest
<1>10. conn_queue \o (bridge_out \o (rest \o hh)) = (conn_queue \o (bridge_out \o rest)) \o hh
  <2>1. Splits(conn_queue, bridge_out, rest, hh)
    BY <1>1, <1>4, <1>5, Grouped
  <2> QED BY <2>1, Zenon DEF Splits
<1>11. Path' = Path \o hh
  BY <1>6, <1>7, <1>8, <1>9, <1>10
<1>12. Path \in Seq(Share)
  BY PathType
<1> DEFINE none == <<>>
<1>13. none \in Seq(Share) /\ Len(none) = 0 /\ Path = Path \o none /\ (Path \o hh) \o none = Path \o hh
  <2>1. Path \o hh \in Seq(Share)
    BY <1>5, <1>12, Joined
  <2> QED BY <1>12, <2>1, EmptySeq, ConcatEmptySeq
<1>14. \A i \in 1 .. Len(none) : none[i].src # h.src
  BY <1>13
<1> HIDE DEF none
<1>15. Path = Path \o none /\ Path' = (Path \o <<h>>) \o none
  BY <1>11, <1>13 DEF hh
<1> QED BY <1>12, <1>13, <1>14, <1>15, InsertedAt

-----------------------------------------------------------------------------
(* Preservation. *)

LEMMA StillOrdered ==
  ASSUME DualTyped, DualTyped', OrderInv, Path' = Path, last' = last, nshares <= nshares',
         \A s \in Sources : HeldNext(s)
  PROVE  OrderInv'
BY SameDrops, DropsOrdered

LEMMA SameHeld ==
  ASSUME relay_out' = relay_out, parked' = parked
  PROVE  \A s \in Sources : Held(s)' = Held(s) /\ HeldNext(s)
BY DEF Held, HeldNext

\* A step that touches neither the queues nor the encoders.
LEMMA QuietOrdered ==
  ASSUME DualTyped, DualTyped', OrderInv,
         UNCHANGED <<nshares, relay_out, ext_queue, bridge_out, conn_queue, parked,
                     sv2_queue, sv2_out, last>>
  PROVE  OrderInv'
<1>1. Path' = Path /\ nshares' = nshares /\ last' = last
  BY DEF Path
<1>2. nshares <= nshares'
  BY <1>1, OrderTypes
<1> QED BY <1>1, <1>2, SameHeld, StillOrdered

\* What the relay holds, and what a connection holds.
LEMMA HeldShares ==
  ASSUME HeldBehind
  PROVE  /\ relay_out # <<>> => \E h \in Share : relay_out = <<h>> /\ h.src = "sv1"
         /\ \A c \in Conns : parked[c] # <<>> => \E h \in Share : parked[c] = <<h>> /\ h.src = c
<1>1. "sv1" \in Sources /\ Held("sv1") = relay_out
  BY RelayAssumption DEF Held
<1>2. \A c \in Conns : c \in Sources /\ Held(c) = parked[c]
  BY DualAssumption DEF Held
<1> QED BY <1>1, <1>2 DEF HeldBehind

\* Each SV1 step other than a loss and a delivery.
LEMMA RelayOrdered ==
  ASSUME DualTyped, DualTyped', LinkInv, SideSources, OrderInv, UNCHANGED <<sv2Vars, last>>,
         \/ PublishTemplate \/ AsmAllocate \/ AsmInsert \/ RelayStep
         \/ Connect \/ BridgeTake \/ BridgePut
  PROVE  OrderInv'
<1>0. parked' = parked /\ last' = last /\ sv2_out' = sv2_out /\ sv2_queue' = sv2_queue
  BY DEF sv2Vars
<1>1. CASE PublishTemplate \/ AsmAllocate \/ AsmInsert
  BY <1>0, <1>1, QuietOrdered DEF PublishTemplate, AsmAllocate, AsmInsert, relayVars, linkVars
<1>2. CASE Connect
  <2>1. conn_queue = <<>> /\ bridge_out = <<>>
    BY <1>2 DEF Connect, LinkInv
  <2> QED BY <1>0, <1>2, <2>1, QuietOrdered DEF Connect, relayVars
<1>3. CASE BridgeTake \/ BridgePut
  <2>1. Path' = Path
    BY <1>3, BridgesKeepPath
  <2>2. relay_out' = relay_out /\ nshares' = nshares
    BY <1>3 DEF BridgeTake, BridgePut, relayVars
  <2>3. nshares <= nshares'
    BY <2>2, OrderTypes
  <2> QED BY <1>0, <2>1, <2>2, <2>3, SameHeld, StillOrdered
<1>4. ASSUME NEW t \in 0 .. tick - 1, NEW block \in BOOLEAN, RelayEncode(t, block) PROVE OrderInv'
  <2> DEFINE key == Sv1Key(t)
             h == EncodedShare("sv1", key, by_key[key].seed, block)
  <2>1. /\ relay_out' = <<h>> /\ nshares' = nshares + 1
        /\ UNCHANGED <<ext_queue, bridge_out, conn_queue>>
    BY <1>4 DEF RelayEncode, linkVars
  <2>2. h \in Share
    <3>1. key \in DOMAIN by_key
      BY <1>4 DEF RelayEncode, Encode, Contains
    <3>2. by_key[key].seed \in Seeds /\ TypeOK
      BY <3>1 DEF DualTyped, TypeInv, TypeOK, TrackerTypeOK, JobEntry
    <3> HIDE DEF key
    <3> QED BY <3>1, <3>2, EncodedShareType, RelayAssumption
  <2>3. h.src = "sv1" /\ h.n = nshares
    BY DEF EncodedShare
  <2> HIDE DEF h
  <2>4. nshares < nshares' /\ nshares <= nshares'
    BY <2>1, OrderTypes
  <2>5. ASSUME NEW s \in Sources PROVE HeldNext(s)
    <3>1. CASE s = "sv1"
      BY <2>1, <2>2, <2>3, <2>4, <3>1 DEF Held, HeldNext
    <3>2. CASE s # "sv1"
      BY <1>0, <3>2 DEF Held, HeldNext
    <3> QED BY <3>1, <3>2
  <2>6. Path' = Path
    BY <1>0, <2>1 DEF Path
  <2> QED BY <1>0, <2>4, <2>5, <2>6, StillOrdered
<1>5. ASSUME NEW t, NEW parses, RelayDrop(t, parses) PROVE OrderInv'
  <2>1. /\ relay_out' = relay_out /\ nshares' = nshares + 1
        /\ UNCHANGED <<ext_queue, bridge_out, conn_queue>>
    BY <1>5 DEF RelayDrop, linkVars
  <2>2. nshares <= nshares'
    BY <2>1, OrderTypes
  <2>3. Path' = Path
    BY <1>0, <2>1 DEF Path
  <2> QED BY <1>0, <2>1, <2>2, <2>3, SameHeld, StillOrdered
<1>6. CASE RelaySend
  <2>1. relay_out # <<>> /\ relay_out' = <<>> /\ nshares' = nshares
    BY <1>6 DEF RelaySend
  <2>2. PICK h \in Share : relay_out = <<h>> /\ h.src = "sv1"
    BY <2>1, HeldShares DEF OrderInv
  <2>3. PICK a \in Nat : Enters(h, a)
    BY <1>6, <2>2, SendEnters
  <2>4. "sv1" \in Sources /\ Held("sv1") = <<h>> /\ Held("sv1")' = <<>>
    BY <2>1, <2>2, RelayAssumption DEF Held
  <2>5. \A r \in Sources : r # "sv1" => Held(r)' = Held(r)
    BY <1>0 DEF Held
  <2> QED BY <1>0, <2>1, <2>3, <2>4, <2>5, EntersOrdered
<1> QED BY <1>1, <1>2, <1>3, <1>4, <1>5, <1>6 DEF RelayStep

LEMMA LossOrdered ==
  ASSUME DualTyped, DualTyped', LinkInv, OrderInv, UNCHANGED <<sv2Vars, last>>,
         WriteLost \/ WriteFail \/ BridgeFail \/ Teardown
  PROVE  OrderInv'
<1>1. PICK m \in Nat : Drops(m)
  BY LossesDrop
<1>2. /\ nshares' = nshares /\ relay_out' = relay_out /\ parked' = parked /\ last' = last
  BY DEF WriteLost, WriteFail, BridgeFail, Teardown, relayVars, sv2Vars
<1>3. nshares <= nshares'
  BY <1>2, OrderTypes
<1> QED BY <1>1, <1>2, <1>3, SameHeld, DropsOrdered

LEMMA PeerCloseOrdered ==
  ASSUME DualTyped, DualTyped', OrderInv, UNCHANGED <<sv2Vars, last>>, PeerClose
  PROVE  OrderInv'
BY QuietOrdered DEF PeerClose, relayVars, sv2Vars

LEMMA WriteOrdered ==
  ASSUME DualTyped, DualTyped', LinkInv, OrderInv, Deliver
  PROVE  OrderInv' /\ \A s \in Sources : last'[s] >= last[s]
<1>1. Write /\ UNCHANGED sv2Vars
  BY DEF Deliver
<1>2. Drops(1) /\ Path[1] = Head(conn_queue)
  BY <1>1, LossesDrop
<1>3. last' = [last EXCEPT ![Path[1].src] = Path[1].n]
  BY <1>2 DEF Deliver
<1>4. nshares' = nshares /\ relay_out' = relay_out /\ parked' = parked
  BY <1>1 DEF Write, relayVars, sv2Vars
<1> QED BY <1>2, <1>3, <1>4, SameHeld, DeliverOrdered

\* What a step of an SV2 connection touches.
LEMMA Sv2Effect ==
  ASSUME NEW c \in Conns, Sv2Step(c)
  PROVE  /\ UNCHANGED <<sv2_out, last, link, conn_queue, bridge_out, bridge_alive>>
         /\ \/ \E block \in BOOLEAN : Submit(c, block)
            \/ Forward(c)
            \/ UNCHANGED <<nshares, relay_out, ext_queue, parked, sv2_queue>>
         /\ UNCHANGED sv2_queue \/ Forward(c)
<1> DEFINE Still == UNCHANGED <<sv2_out, last, link, conn_queue, bridge_out, bridge_alive,
                               nshares, relay_out, ext_queue, parked, sv2_queue>>
<1>1. ASSUME Accept(c) \/ Disconnect(c) \/ OpenChannel(c) \/ TemplateUpdate(c)
      PROVE  Still
  <2>1. UNCHANGED <<vars, parked, sv2_queue, sv2_out, last>>
    BY <1>1, Zenon DEF Accept, Disconnect, OpenChannel, TemplateUpdate
  <2> QED BY <2>1 DEF vars, relayVars, linkVars
<1>2. ASSUME NEW seed \in 0 .. published - 1, SeedJobTracker(c, seed)
      PROVE  Still
  BY <1>2 DEF SeedJobTracker, relayVars, linkVars
<1>3. ASSUME NEW cid \in mgr[c].channels, CloseChannel(c, cid)
      PROVE  Still
  BY <1>3 DEF CloseChannel, vars, relayVars, linkVars
<1>4. ASSUME NEW j \in mgr[c].jobs, BeginSubmit(c, j[1], j[2])
      PROVE  Still
  BY <1>4 DEF BeginSubmit, vars, relayVars, linkVars
<1>5. ASSUME NEW sized \in BOOLEAN, Reject(c, sized)
      PROVE  Still
  BY <1>5 DEF Reject, vars, relayVars, linkVars
<1>6. ASSUME NEW block \in BOOLEAN, Submit(c, block)
      PROVE  UNCHANGED <<sv2_out, last, link, conn_queue, bridge_out, bridge_alive, sv2_queue>>
  BY <1>6 DEF Submit, linkVars
<1>7. ASSUME Forward(c)
      PROVE  UNCHANGED <<sv2_out, last, link, conn_queue, bridge_out, bridge_alive>>
  BY <1>7 DEF Forward, linkVars
<1>8. Still \/ Forward(c) \/ \E block \in BOOLEAN : Submit(c, block)
  <2> HIDE DEF Still
  <2> QED BY <1>1, <1>2, <1>3, <1>4, <1>5 DEF Sv2Step
<1> QED BY <1>6, <1>7, <1>8

\* Each step of an SV2 connection.
LEMMA Sv2Ordered ==
  ASSUME DualTyped, DualTyped', OrderInv, NEW c \in Conns, Sv2Step(c)
  PROVE  OrderInv' /\ last' = last
<1>0. c \in Sources /\ c # "sv1"
  BY DualAssumption
<1>1. ASSUME NEW block \in BOOLEAN, Submit(c, block) PROVE OrderInv' /\ last' = last
  <2> DEFINE p == mgr[c].pending
             key == Sv2Key(p[1], p[2])
             h == EncodedShare(c, key, p[3], block)
  <2>1. /\ parked' = [parked EXCEPT ![c] = <<h>>] /\ nshares' = nshares + 1
        /\ key \in DOMAIN by_key /\ p # <<>> /\ last' = last /\ relay_out' = relay_out
        /\ UNCHANGED <<ext_queue, bridge_out, conn_queue, sv2_queue, sv2_out>>
    BY <1>1 DEF Submit, linkVars, Encode, Contains
  <2>2. p[3] \in Seeds
    <3>1. p \in Triple
      BY <2>1 DEF DualTyped, Sv2TypeOK, Manager
    <3> QED BY <3>1 DEF Triple
  <2> HIDE DEF p, key
  <2>3. h \in Share
    BY <1>0, <2>1, <2>2, EncodedShareType DEF DualTyped, TypeInv
  <2>4. h.src = c /\ h.n = nshares
    BY DEF EncodedShare
  <2> HIDE DEF h
  <2>5. nshares < nshares' /\ nshares <= nshares'
    BY <2>1, OrderTypes
  <2>6. parked'[c] = <<h>> /\ \A d \in Conns : d # c => parked'[d] = parked[d]
    BY <2>1 DEF DualTyped, Sv2TypeOK
  <2>7. ASSUME NEW s \in Sources PROVE HeldNext(s)
    <3>1. CASE s = c
      <4>1. Held(s)' = <<h>>
        BY <1>0, <2>6, <3>1 DEF Held
      <4> QED BY <2>3, <2>4, <2>5, <3>1, <4>1 DEF HeldNext
    <3>2. CASE s # c
      <4>1. Held(s)' = Held(s)
        BY <2>1, <2>6, <3>2 DEF Held
      <4> QED BY <4>1 DEF HeldNext
    <3> QED BY <3>1, <3>2
  <2>8. Path' = Path
    BY <2>1 DEF Path
  <2> QED BY <2>1, <2>5, <2>7, <2>8, StillOrdered
<1>2. CASE Forward(c)
  <2>1. /\ parked[c] # <<>> /\ parked' = [parked EXCEPT ![c] = <<>>]
        /\ nshares' = nshares /\ last' = last /\ relay_out' = relay_out
    BY <1>2 DEF Forward
  <2>2. PICK h \in Share : parked[c] = <<h>> /\ h.src = c
    BY <2>1, HeldShares DEF OrderInv
  <2>3. PICK a \in Nat : Enters(h, a)
    BY <1>2, <2>2, ForwardEnters
  <2>4. parked'[c] = <<>> /\ \A d \in Conns : d # c => parked'[d] = parked[d]
    BY <2>1 DEF DualTyped, Sv2TypeOK
  <2>5. Held(c) = <<h>> /\ Held(c)' = <<>>
    BY <1>0, <2>2, <2>4 DEF Held
  <2>6. \A r \in Sources : r # c => Held(r)' = Held(r)
    BY <2>1, <2>4 DEF Held
  <2> QED BY <1>0, <2>1, <2>3, <2>5, <2>6, EntersOrdered
<1>3. ASSUME UNCHANGED <<nshares, relay_out, ext_queue, bridge_out, conn_queue, parked,
                         sv2_queue, sv2_out, last>>
      PROVE  OrderInv' /\ last' = last
  BY <1>3, QuietOrdered
<1> QED BY <1>1, <1>2, <1>3, Sv2Effect

LEMMA BridgeOrdered ==
  ASSUME DualTyped, DualTyped', OrderInv, Sv2BridgeTake \/ Sv2BridgePut
  PROVE  OrderInv' /\ last' = last
<1>1. Path' = Path
  BY BridgesKeepPath
<1>2. nshares' = nshares /\ relay_out' = relay_out /\ parked' = parked /\ last' = last
  BY DEF Sv2BridgeTake, Sv2BridgePut, vars, relayVars
<1>3. nshares <= nshares'
  BY <1>2, OrderTypes
<1> QED BY <1>1, <1>2, <1>3, SameHeld, StillOrdered

\* Only an SV2 connection puts shares into the SV2 queue.
LEMMA SideNext ==
  ASSUME DualTyped, HeldBehind, SideSources, [DualNext]_dualVars
  PROVE  SideSources'
<1>0. sv2_queue \in Seq(Share) /\ sv2_out \in Seq(Share)
  BY Queues
<1>1. CASE UNCHANGED <<sv2_queue, sv2_out>>
  BY <1>1 DEF SideSources
<1>2. ASSUME NEW c \in Conns, Forward(c) PROVE SideSources'
  <2>1. PICK h \in Share : parked[c] = <<h>> /\ h.src = c
    BY <1>2, HeldShares DEF Forward
  <2>2. sv2_queue' = Append(sv2_queue, h) /\ sv2_out' = sv2_out
    BY <1>0, <1>2, <2>1 DEF Forward
  <2>3. \A i \in 1 .. Len(sv2_queue') : sv2_queue'[i].src \in Conns
    BY <1>0, <2>1, <2>2, AppendProperties DEF SideSources
  <2> QED BY <2>2, <2>3 DEF SideSources
<1>3. CASE Sv2BridgeTake
  <2>1. /\ sv2_queue # <<>> /\ sv2_out' = <<Head(sv2_queue)>> /\ sv2_queue' = Tail(sv2_queue)
    BY <1>3 DEF Sv2BridgeTake
  <2>2. /\ 1 \in 1 .. Len(sv2_queue) /\ Head(sv2_queue) = sv2_queue[1]
        /\ Len(Tail(sv2_queue)) = Len(sv2_queue) - 1 /\ Len(sv2_queue) \in Nat
        /\ \A i \in 1 .. Len(sv2_queue) - 1 : Tail(sv2_queue)[i] = sv2_queue[i + 1]
    BY <1>0, <2>1, HeadTailProperties, EmptySeq, LenProperties
  <2>3. \A i \in 1 .. Len(sv2_queue) - 1 : i + 1 \in 1 .. Len(sv2_queue)
    BY <2>2
  <2>4. \A i \in 1 .. Len(sv2_queue') : sv2_queue'[i].src \in Conns
    BY <2>1, <2>2, <2>3 DEF SideSources
  <2>5. \A i \in 1 .. Len(sv2_out') : sv2_out'[i].src \in Conns
    BY <2>1, <2>2 DEF SideSources
  <2> QED BY <2>4, <2>5 DEF SideSources
<1>4. CASE Sv2BridgePut
  BY <1>4 DEF Sv2BridgePut, SideSources
<1>5. CASE Sv1Part \/ Deliver
  BY <1>1, <1>5 DEF Sv1Part, Deliver, sv2Vars
<1>6. CASE UNCHANGED dualVars
  BY <1>1, <1>6 DEF dualVars, sv2Vars
<1>7. ASSUME NEW c \in Conns, Sv2Step(c) PROVE SideSources'
  BY <1>1, <1>2, <1>7, Sv2Effect
<1> QED BY <1>3, <1>4, <1>5, <1>6, <1>7 DEF DualNext

OrderedPath == DualTyped /\ LinkInv /\ SideSources /\ OrderInv

LEMMA OrderedInit == DualInit => OrderedPath
<1> SUFFICES ASSUME DualInit PROVE OrderedPath
  OBVIOUS
<1>1. DualTyped
  BY DualTypedInit
<1>2. /\ conn_queue = <<>> /\ bridge_out = <<>> /\ ext_queue = <<>> /\ sv2_out = <<>>
      /\ sv2_queue = <<>> /\ relay_out = <<>> /\ nshares = 0 /\ link = "down" /\ ~ bridge_alive
      /\ parked = [c \in Conns |-> <<>>] /\ last = [s \in Sources |-> -1]
  BY DEF DualInit, Init
<1>3. Path = <<>>
  BY <1>2, ConcatEmptySeq DEF Path
<1>4. Len(Path) = 0 /\ 1 .. Len(Path) = {}
  BY <1>3
<1>5. PathOrdered
  BY <1>4 DEF PathOrdered, Sorted
<1>6. HeldBehind
  BY <1>2 DEF HeldBehind, Held
<1>7. LastOld
  BY <1>2 DEF LastOld
<1>8. SideSources /\ LinkInv
  BY <1>2 DEF SideSources, LinkInv
<1> QED BY <1>1, <1>5, <1>6, <1>7, <1>8 DEF OrderedPath, OrderInv

LEMMA OrderedStep ==
  ASSUME OrderedPath, DualTyped', [DualNext]_dualVars
  PROVE  OrderedPath' /\ (last' = last \/ \A s \in Sources : last'[s] >= last[s])
<1>1. DualTyped /\ LinkInv /\ SideSources /\ OrderInv /\ HeldBehind
  BY DEF OrderedPath, OrderInv
<1>2. SideSources'
  BY <1>1, SideNext
<1>3. LinkInv'
  <2>1. CASE Sv1Part \/ Deliver
    <3>1. [Sv1Next]_vars
      BY <2>1 DEF Sv1Part, Deliver, Sv1Next
    <3> QED BY <1>1, <3>1, LinkNext
  <2>2. ASSUME UNCHANGED <<link, conn_queue, bridge_out, bridge_alive>> PROVE LinkInv'
    BY <1>1, <2>2 DEF LinkInv
  <2>3. CASE Sv2BridgeTake \/ Sv2BridgePut
    BY <2>2, <2>3 DEF Sv2BridgeTake, Sv2BridgePut, vars, linkVars
  <2>4. CASE UNCHANGED dualVars
    BY <2>2, <2>4 DEF dualVars, vars, linkVars
  <2>5. ASSUME NEW c \in Conns, Sv2Step(c) PROVE LinkInv'
    BY <2>2, <2>5, Sv2Effect
  <2> QED BY <2>1, <2>3, <2>4, <2>5 DEF DualNext
<1>4. OrderInv' /\ (last' = last \/ \A s \in Sources : last'[s] >= last[s])
  <2>1. CASE Sv1Part
    <3>1. UNCHANGED <<sv2Vars, last>> /\ last' = last
      BY <2>1 DEF Sv1Part
    <3>2. OrderInv'
      BY <1>1, <2>1, <3>1, RelayOrdered, LossOrdered, PeerCloseOrdered DEF Sv1Part
    <3> QED BY <3>1, <3>2
  <2>2. CASE Deliver
    BY <1>1, <2>2, WriteOrdered
  <2>3. ASSUME NEW c \in Conns, Sv2Step(c) PROVE OrderInv' /\ last' = last
    BY <1>1, <2>3, Sv2Ordered
  <2>4. CASE Sv2BridgeTake \/ Sv2BridgePut
    BY <1>1, <2>4, BridgeOrdered
  <2>5. CASE UNCHANGED dualVars
    <3>1. UNCHANGED <<nshares, relay_out, ext_queue, bridge_out, conn_queue, parked,
                      sv2_queue, sv2_out, last>>
      BY <2>5 DEF dualVars, vars, relayVars, linkVars, sv2Vars
    <3> QED BY <1>1, <3>1, QuietOrdered
  <2> QED BY <2>1, <2>2, <2>3, <2>4, <2>5 DEF DualNext
<1> QED BY <1>2, <1>3, <1>4 DEF OrderedPath

\* Shares of one source (the SV1 relay, or one SV2 connection) reach the pool
\* in the order they were encoded: every queue and every bridge hands them on
\* in order, a lost connection loses the oldest only, and the one share a
\* source is parked on (forward_share_outcome, RelaySend) is behind all others.
THEOREM SharesDeliveredInOrder == DualSpec => DeliveredInOrder
<1>1. OrderedPath /\ [DualNext]_dualVars => OrderedPath'
  <2> SUFFICES ASSUME OrderedPath, [DualNext]_dualVars PROVE OrderedPath'
    OBVIOUS
  <2>1. DualTyped'
    BY DualTypedNext DEF OrderedPath
  <2> QED BY <2>1, OrderedStep
<1>2. OrderedPath /\ [DualNext]_dualVars => [\A s \in Sources : last'[s] >= last[s]]_last
  <2> SUFFICES ASSUME OrderedPath, [DualNext]_dualVars
               PROVE  [\A s \in Sources : last'[s] >= last[s]]_last
    OBVIOUS
  <2>1. DualTyped'
    BY DualTypedNext DEF OrderedPath
  <2> QED BY <2>1, OrderedStep
<1> QED BY <1>1, <1>2, OrderedInit, PTL DEF DualSpec, DeliveredInOrder
=============================================================================
