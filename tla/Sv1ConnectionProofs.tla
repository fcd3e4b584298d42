------------------------ MODULE Sv1ConnectionProofs ------------------------
(***************************************************************************)
(* Theorems about one SV1 connection, for any number of jobs, difficulty   *)
(* changes and messages on the way: a share is stamped with the difficulty *)
(* its coinb1 was patched for, the miner's work keeps in step with the     *)
(* job and the difficulty, and the ring resolves the last two notifies.    *)
(***************************************************************************)
EXTENDS Sv1Connection, SequenceTheorems, WellFoundedInduction, NaturalsInduction, TLAPS

-----------------------------------------------------------------------------
(* The inductive invariant. *)

Msg == [kind : {"diff"}, diff : Nat] \cup [kind : {"notify"}, coinb1 : Coinb1]

Emitted == [coinb1 : Coinb1, diff : Nat]

Submission == [job : 1 .. MaxJobs, hashed : Coinb1, diff : Nat, coinb1 : Seq(Coinb1),
               version : SUBSET Bits]

\* TypeOK, by the parts that change together and with the wire's messages.
LoginTyped ==
  /\ conn \in {"none", "open", "closed"}
  /\ subscribed \in BOOLEAN /\ authorized \in BOOLEAN /\ in_order \in BOOLEAN
  /\ logins \in 0 .. MaxLogins /\ version_rolling \in {<<>>} \cup {<<b>> : b \in SUBSET Bits}

CountTyped ==
  /\ current_diff \in Nat /\ (conn # "none" => current_diff >= VardiffMin) /\ told \in Nat
  /\ nshares \in 0 .. MaxShares /\ shares_since_snap \in 0 .. nshares
  /\ jobs \in 0 .. MaxJobs /\ notify_seen \in 0 .. jobs
  /\ pool_min_diff \in [value : Nat, version : 0 .. MaxRaises]
  /\ pool_min_seen \in 0 .. pool_min_diff.version

SeqTyped ==
  /\ emit_ring \in Seq(Emitted) /\ Len(emit_ring) <= 2
  /\ wire \in Seq(Msg) /\ work \in Seq(Coinb1)
  /\ parked \in Seq(Submission) /\ submit_queue \in Seq(Submission)

Typed == LoginTyped /\ CountTyped /\ SeqTyped

\* The login, and what it implies of the rest.
LoginInv ==
  /\ in_order => subscribed /\ authorized
  /\ conn = "none" => ~ subscribed /\ ~ authorized
  /\ jobs = 0 => emit_ring = <<>>

\* Every entry of the ring was patched for the difficulty it records.
RingStamped ==
  \A i \in 1 .. Len(emit_ring) : emit_ring[i].coinb1.pot = FloorPot(emit_ring[i].diff)

Stamped(s) == s.coinb1 # <<>> => s.coinb1[1].pot = FloorPot(s.diff)

QueueStamped ==
  /\ \A i \in 1 .. Len(parked) : Stamped(parked[i])
  /\ \A i \in 1 .. Len(submit_queue) : Stamped(submit_queue[i])

\* The newest entry is at the difficulty in force, and for the newest job once
\* the notify arm has seen it.
RingNewest ==
  /\ in_order /\ emit_ring # <<>> => emit_ring[1].diff = current_diff
  /\ conn = "open" /\ in_order /\ jobs > 0 /\ notify_seen = jobs =>
       emit_ring # <<>> /\ emit_ring[1].coinb1.job = jobs

\* The entries of the ring are the last notifies sent.
RingSent ==
  /\ \A i \in Notifies : IsLast(i) =>
       Len(emit_ring) >= 1 /\ emit_ring[1].coinb1 = Outbox[i].coinb1
  /\ \A i, j \in Notifies : IsNextToLast(i, j) =>
       Len(emit_ring) >= 2 /\ emit_ring[2].coinb1 = Outbox[i].coinb1

\* The last difficulty on the wire, or the one the miner was told when there
\* is none, is the difficulty in force.
IsDiff(i) == wire[i].kind = "diff"

DiffSent ==
  /\ \A i \in 1 .. Len(wire) :
       IsDiff(i) /\ (\A k \in i + 1 .. Len(wire) : ~ IsDiff(k)) => wire[i].diff = current_diff
  /\ subscribed /\ (\A k \in 1 .. Len(wire) : ~ IsDiff(k)) => told = current_diff
  /\ conn = "none" => wire = <<>>

IInv ==
  /\ Typed /\ LoginInv /\ RingStamped /\ QueueStamped /\ RingNewest /\ RingSent /\ DiffSent

-----------------------------------------------------------------------------
(* The operators of the model. *)

\* A nonempty set of naturals has a least element.
LEMMA Least ==
  ASSUME NEW T \in SUBSET Nat, T # {}
  PROVE  \E x \in T : \A y \in T : x <= y
<1> DEFINE R == {ss \in Nat \X Nat : ss[1] < ss[2]}
<1>1. IsWellFoundedOn(R, Nat)
  BY NatLessThanWellFounded DEF OpToRel
<1> HIDE DEF R
<1>2. PICK x \in T : \A y \in T : ~ (<<y, x>> \in R)
  BY <1>1, WFMin
<1>3. ASSUME NEW y \in T PROVE x <= y
  <2>1. y < x => <<y, x>> \in R
    BY DEF R
  <2> QED BY <1>2, <2>1
<1> QED BY <1>3

\* The PoT byte is the position of a bit of a u64.
LEMMA FloorPotType ==
  ASSUME NEW x
  PROVE  FloorPot(x) \in 0 .. 63
<1> DEFINE Below(p) == p = 63 \/ x < 2 ^ (p + 1)
           T == {p \in 0 .. 63 : Below(p)}
<1>1. T \in SUBSET Nat /\ 63 \in T
  OBVIOUS
<1>2. PICK p \in T : \A q \in T : p <= q
  BY <1>1, Least
<1>3. p \in 0 .. 63 /\ Below(p)
  BY <1>2
<1>4. p # 0 => ~ (x < 2 ^ p)
  <2> SUFFICES ASSUME p # 0 PROVE ~ (x < 2 ^ p)
    OBVIOUS
  <2>1. p - 1 \in 0 .. 63 /\ (p - 1) + 1 = p /\ ~ (p <= p - 1)
    BY <1>3
  <2>2. p - 1 \notin T
    BY <1>2, <2>1
  <2>3. ~ Below(p - 1)
    BY <2>1, <2>2
  <2> QED BY <2>1, <2>3
<1>5. \E q \in 0 .. 63 : (q = 63 \/ x < 2 ^ (q + 1)) /\ (q = 0 \/ ~ (x < 2 ^ q))
  BY <1>3, <1>4
<1> QED BY <1>5 DEF FloorPot

LEMMA PatchedType ==
  ASSUME NEW j \in 1 .. MaxJobs, NEW d
  PROVE  Patched(j, d) \in Coinb1 /\ Patched(j, d).job = j /\ Patched(j, d).pot = FloorPot(d)
BY FloorPotType DEF Patched, Coinb1

LEMMA MsgType ==
  ASSUME NEW m \in Msg
  PROVE  /\ m.kind \in {"diff", "notify"}
         /\ m.kind = "diff" => m.diff \in Nat
         /\ m.kind = "notify" => m.coinb1 \in Coinb1
BY DEF Msg

LEMMA MsgMade ==
  ASSUME NEW j \in 1 .. MaxJobs, NEW d \in Nat
  PROVE  /\ SetDifficulty(d) \in Msg /\ SetDifficulty(d).kind = "diff" /\ SetDifficulty(d).diff = d
         /\ Notify(j, d) \in Msg /\ Notify(j, d).kind = "notify"
         /\ Notify(j, d).coinb1 = Patched(j, d)
<1>1. Patched(j, d) \in Coinb1
  BY PatchedType
<1> QED BY <1>1 DEF Msg, SetDifficulty, Notify

LEMMA DiffMade ==
  ASSUME NEW d \in Nat
  PROVE  /\ SetDifficulty(d) \in Msg /\ SetDifficulty(d).kind = "diff" /\ SetDifficulty(d).diff = d
BY DEF Msg, SetDifficulty

LEMMA TwoOnes ==
  ASSUME NEW S, NEW a \in Seq(S), NEW b \in Seq(S), Len(a) = 1, Len(b) = 1
  PROVE  a \o b \in Seq(S) /\ Len(a \o b) = 2 /\ (a \o b)[1] = a[1] /\ (a \o b)[2] = b[1]
<1>1. /\ a \o b \in Seq(S) /\ Len(a \o b) = 2
      /\ \A i \in 1 .. 2 : (a \o b)[i] = IF i <= 1 THEN a[i] ELSE b[i - 1]
  BY ConcatProperties
<1> QED BY <1>1

\* The ring after a push: the new entry, then the newest of before.
LEMMA PushIs ==
  ASSUME NEW ring \in Seq(Emitted), NEW e \in Emitted
  PROVE  /\ RingPush(ring, e) \in Seq(Emitted)
         /\ Len(RingPush(ring, e)) = IF ring = <<>> THEN 1 ELSE 2
         /\ RingPush(ring, e)[1] = e
         /\ ring # <<>> => RingPush(ring, e)[2] = ring[1]
<1> DEFINE kept == SubSeq(ring, 1, Smaller(1, Len(ring)))
<1>1. CASE ring = <<>>
  <2>1. kept = <<>>
    BY <1>1 DEF Smaller
  <2>2. RingPush(ring, e) = <<e>> \o <<>>
    BY <2>1 DEF RingPush
  <2>3. <<e>> \in Seq(Emitted) /\ <<e>> \o <<>> = <<e>>
    BY ConcatEmptySeq
  <2> QED BY <1>1, <2>2, <2>3
<1>2. CASE ring # <<>>
  <2>1. Len(ring) \in Nat /\ Len(ring) >= 1 /\ Smaller(1, Len(ring)) = 1
    BY <1>2, EmptySeq DEF Smaller
  <2>2. kept \in Seq(Emitted) /\ Len(kept) = 1 /\ kept[1] = ring[1]
    <3>1. kept = SubSeq(ring, 1, 1)
      BY <2>1
    <3>2. /\ SubSeq(ring, 1, 1) \in Seq(Emitted) /\ Len(SubSeq(ring, 1, 1)) = 1
          /\ SubSeq(ring, 1, 1)[1] = ring[1]
      BY <2>1
    <3> QED BY <3>1, <3>2
  <2> DEFINE one == <<e>>
  <2>3. RingPush(ring, e) = one \o kept
    BY DEF RingPush
  <2>4. one \in Seq(Emitted) /\ Len(one) = 1 /\ one[1] = e
    OBVIOUS
  <2> HIDE DEF kept, one
  <2>5. /\ one \o kept \in Seq(Emitted) /\ Len(one \o kept) = 2
        /\ (one \o kept)[1] = one[1] /\ (one \o kept)[2] = kept[1]
    BY <2>2, <2>4, TwoOnes
  <2> QED BY <1>2, <2>2, <2>3, <2>4, <2>5
<1> QED BY <1>1, <1>2

\* A lookup finds nothing, or one of the entries.
LEMMA LookupIs ==
  ASSUME NEW ring \in Seq(Emitted), NEW job
  PROVE  \/ RingLookup(ring, job) = <<>>
         \/ \E i \in 1 .. Len(ring) : RingLookup(ring, job) = <<ring[i]>> /\ ring[i].coinb1.job = job
<1> DEFINE hits == {i \in 1 .. Len(ring) : ring[i].coinb1.job = job}
           first == CHOOSE i \in hits : \A k \in hits : i <= k
<1>1. CASE hits = {}
  BY <1>1 DEF RingLookup
<1>2. CASE hits # {}
  <2>1. hits \in SUBSET Nat
    OBVIOUS
  <2>2. \E i \in hits : \A k \in hits : i <= k
    BY <1>2, <2>1, Least
  <2>3. first \in hits
    BY <2>2
  <2>4. RingLookup(ring, job) = <<ring[first]>>
    BY <1>2 DEF RingLookup
  <2> HIDE DEF first
  <2> QED BY <2>3, <2>4
<1> QED BY <1>1, <1>2

\* The newest entry resolves its own job, the other one a job of its own.
LEMMA LookupFirst ==
  ASSUME NEW ring \in Seq(Emitted), Len(ring) >= 1, NEW job, ring[1].coinb1.job = job
  PROVE  RingLookup(ring, job) = <<ring[1]>>
<1> DEFINE hits == {i \in 1 .. Len(ring) : ring[i].coinb1.job = job}
           first == CHOOSE i \in hits : \A k \in hits : i <= k
<1>1. 1 \in hits /\ \A k \in hits : 1 <= k /\ (k <= 1 => k = 1)
  OBVIOUS
<1>2. first = 1
  <2>1. first \in hits /\ first <= 1
    BY <1>1
  <2> QED BY <1>1, <2>1
<1>3. RingLookup(ring, job) = <<ring[first]>>
  BY <1>1 DEF RingLookup
<1> QED BY <1>2, <1>3

LEMMA LookupSecond ==
  ASSUME NEW ring \in Seq(Emitted), Len(ring) = 2, NEW job,
         ring[1].coinb1.job # job, ring[2].coinb1.job = job
  PROVE  RingLookup(ring, job) = <<ring[2]>>
<1> DEFINE hits == {i \in 1 .. Len(ring) : ring[i].coinb1.job = job}
           first == CHOOSE i \in hits : \A k \in hits : i <= k
<1>1. hits = {2}
  OBVIOUS
<1>2. first = 2
  BY <1>1
<1>3. RingLookup(ring, job) = <<ring[first]>>
  BY <1>1 DEF RingLookup
<1> QED BY <1>2, <1>3

-----------------------------------------------------------------------------
(* What becomes of the notifies sent. *)

\* The messages added to the wire stand behind everything sent before.
LEMMA OutboxGrows ==
  ASSUME Typed, work' = work, wire' \in Seq(Msg), Len(wire) <= Len(wire'),
         \A i \in 1 .. Len(wire) : wire'[i] = wire[i]
  PROVE  /\ DOMAIN Outbox = 1 .. Len(work) + Len(wire)
         /\ DOMAIN Outbox' = 1 .. Len(work) + Len(wire')
         /\ \A i \in DOMAIN Outbox : i \in DOMAIN Outbox' /\ Outbox'[i] = Outbox[i]
         /\ \A i \in DOMAIN Outbox' : i \notin DOMAIN Outbox =>
              /\ i - Len(work) \in Len(wire) + 1 .. Len(wire')
              /\ Outbox'[i] = wire'[i - Len(work)]
<1>1. Len(work) \in Nat /\ Len(wire) \in Nat /\ Len(wire') \in Nat
  BY DEF Typed, SeqTyped
<1>2. /\ DOMAIN Outbox = 1 .. Len(work) + Len(wire)
      /\ DOMAIN Outbox' = 1 .. Len(work) + Len(wire')
  BY DEF Outbox
<1>3. ASSUME NEW i \in 1 .. Len(work) + Len(wire)
      PROVE  i \in 1 .. Len(work) + Len(wire') /\ Outbox'[i] = Outbox[i]
  <2>1. i \in 1 .. Len(work) + Len(wire')
    BY <1>1
  <2>2. CASE i <= Len(work)
    BY <2>1, <2>2 DEF Outbox
  <2>3. CASE ~ (i <= Len(work))
    <3>1. i - Len(work) \in 1 .. Len(wire)
      BY <1>1, <2>3
    <3> QED BY <2>1, <2>3, <3>1 DEF Outbox
  <2> QED BY <2>1, <2>2, <2>3
<1>4. ASSUME NEW i \in 1 .. Len(work) + Len(wire'), i \notin 1 .. Len(work) + Len(wire)
      PROVE  i - Len(work) \in Len(wire) + 1 .. Len(wire') /\ Outbox'[i] = wire'[i - Len(work)]
  <2>1. i - Len(work) \in Len(wire) + 1 .. Len(wire') /\ ~ (i <= Len(work))
    BY <1>1, <1>4
  <2> QED BY <2>1 DEF Outbox
<1> QED BY <1>2, <1>3, <1>4

\* Messages that are no notifies change nothing.
LEMMA SentQuiet ==
  ASSUME Typed, RingSent, work' = work, emit_ring' = emit_ring,
         wire' \in Seq(Msg), Len(wire) <= Len(wire'),
         \A i \in 1 .. Len(wire) : wire'[i] = wire[i],
         \A i \in Len(wire) + 1 .. Len(wire') : wire'[i].kind = "diff"
  PROVE  RingSent'
<1>1. /\ \A i \in DOMAIN Outbox : i \in DOMAIN Outbox' /\ Outbox'[i] = Outbox[i]
      /\ \A i \in DOMAIN Outbox' : i \notin DOMAIN Outbox => Outbox'[i].kind = "diff"
  BY OutboxGrows
<1>2. Notifies' = Notifies
  BY <1>1 DEF Notifies
<1>3. \A i \in Notifies : Outbox'[i] = Outbox[i]
  BY <1>1 DEF Notifies
<1>4. ASSUME NEW i, NEW j
      PROVE  IsLast(i)' = IsLast(i) /\ IsNextToLast(i, j)' = IsNextToLast(i, j)
  BY <1>2 DEF IsLast, IsNextToLast
<1>5. \A i \in Notifies' : IsLast(i)' =>
        Len(emit_ring') >= 1 /\ emit_ring'[1].coinb1 = Outbox'[i].coinb1
  BY <1>2, <1>3, <1>4 DEF RingSent
<1>6. \A i, j \in Notifies' : IsNextToLast(i, j)' =>
        Len(emit_ring') >= 2 /\ emit_ring'[2].coinb1 = Outbox'[i].coinb1
  BY <1>2, <1>3, <1>4 DEF RingSent
<1> QED BY <1>5, <1>6 DEF RingSent

\* A notify at the end, pushed on the ring, makes the last one the one before.
LEMMA SentEmit ==
  ASSUME Typed, RingSent, work' = work, NEW e \in Emitted,
         emit_ring' = RingPush(emit_ring, e),
         wire' \in Seq(Msg), Len(wire) < Len(wire'),
         \A i \in 1 .. Len(wire) : wire'[i] = wire[i],
         \A i \in Len(wire) + 1 .. Len(wire') - 1 : wire'[i].kind = "diff",
         wire'[Len(wire')].kind = "notify", wire'[Len(wire')].coinb1 = e.coinb1
  PROVE  RingSent'
<1>0. /\ Len(work) \in Nat /\ Len(wire) \in Nat /\ Len(wire') \in Nat
      /\ emit_ring \in Seq(Emitted)
  BY DEF Typed, SeqTyped
<1>n. PICK n \in Nat : n = Len(work) + Len(wire')
  BY <1>0
<1>1. /\ DOMAIN Outbox = 1 .. Len(work) + Len(wire)
      /\ DOMAIN Outbox' = 1 .. n
      /\ \A i \in DOMAIN Outbox : i \in DOMAIN Outbox' /\ Outbox'[i] = Outbox[i]
      /\ \A i \in DOMAIN Outbox' : i \notin DOMAIN Outbox =>
           i - Len(work) \in Len(wire) + 1 .. Len(wire') /\ Outbox'[i] = wire'[i - Len(work)]
  BY <1>0, <1>n, OutboxGrows
<1>2. n \in DOMAIN Outbox' /\ Outbox'[n].kind = "notify" /\ Outbox'[n].coinb1 = e.coinb1
  <2>1. n \in DOMAIN Outbox' /\ n \notin DOMAIN Outbox /\ n - Len(work) = Len(wire')
    BY <1>0, <1>n, <1>1
  <2> QED BY <1>1, <2>1
<1>3. ASSUME NEW i \in DOMAIN Outbox', i \notin DOMAIN Outbox, i # n
      PROVE  Outbox'[i].kind = "diff"
  <2>1. i - Len(work) \in Len(wire) + 1 .. Len(wire') - 1
    BY <1>0, <1>n, <1>1, <1>3
  <2> QED BY <1>1, <1>3, <2>1
<1>4. Notifies' = Notifies \cup {n}
  BY <1>1, <1>2, <1>3 DEF Notifies
<1>5. \A i \in Notifies : i < n /\ i \in Nat /\ Outbox'[i] = Outbox[i]
  BY <1>0, <1>n, <1>1 DEF Notifies
<1>6. /\ Len(emit_ring') = IF emit_ring = <<>> THEN 1 ELSE 2
      /\ emit_ring'[1] = e /\ (emit_ring # <<>> => emit_ring'[2] = emit_ring[1])
  BY <1>0, PushIs
<1>7. ASSUME NEW i \in Notifies', IsLast(i)'
      PROVE  Len(emit_ring') >= 1 /\ emit_ring'[1].coinb1 = Outbox'[i].coinb1
  <2>1. n <= i
    BY <1>4, <1>7 DEF IsLast
  <2>2. i = n
    BY <1>4, <1>5, <2>1
  <2> QED BY <1>2, <1>6, <2>2
<1>8. ASSUME NEW i \in Notifies', NEW j \in Notifies', IsNextToLast(i, j)'
      PROVE  Len(emit_ring') >= 2 /\ emit_ring'[2].coinb1 = Outbox'[i].coinb1
  <2>1. i < j /\ \A k \in Notifies' : k <= i \/ k = j
    BY <1>8 DEF IsNextToLast
  <2>2. i \in Notifies /\ j = n
    BY <1>4, <1>5, <2>1
  <2>3. IsLast(i)
    BY <1>4, <1>5, <2>1, <2>2 DEF IsLast
  <2>4. Len(emit_ring) >= 1 /\ emit_ring[1].coinb1 = Outbox[i].coinb1
    BY <2>2, <2>3 DEF RingSent
  <2>5. emit_ring # <<>>
    BY <1>0, <2>4
  <2> QED BY <1>5, <1>6, <2>2, <2>4, <2>5
<1> QED BY <1>7, <1>8 DEF RingSent

\* A step that leaves what was sent and the ring alone.
LEMMA SentStill ==
  ASSUME RingSent, UNCHANGED <<wire, work, emit_ring>>
  PROVE  RingSent'
BY DEF RingSent, Notifies, IsLast, IsNextToLast, Outbox

-----------------------------------------------------------------------------
(* The difficulty on the wire. *)

LEMMA DiffStill ==
  ASSUME DiffSent, UNCHANGED <<wire, told, current_diff, subscribed>>, conn' = "none" => conn = "none"
  PROVE  DiffSent'
BY DEF DiffSent, IsDiff

\* A new difficulty is the last on the wire, with or without a notify behind it.
LEMMA DiffChanged ==
  ASSUME Typed, wire' \in Seq(Msg), conn' # "none",
         Len(wire') \in {Len(wire) + 1, Len(wire) + 2},
         wire'[Len(wire) + 1] = SetDifficulty(current_diff'), current_diff' \in Nat,
         Len(wire') = Len(wire) + 2 => wire'[Len(wire) + 2].kind = "notify"
  PROVE  DiffSent'
<1>1. PICK p \in Nat \ {0} : p = Len(wire) + 1
  BY DEF Typed, SeqTyped
<1>2. /\ wire'[p].kind = "diff" /\ wire'[p].diff = current_diff'
      /\ Len(wire') \in {p, p + 1} /\ (Len(wire') = p + 1 => wire'[p + 1].kind = "notify")
  BY <1>1, DiffMade DEF Typed, SeqTyped
<1>3. p \in 1 .. Len(wire')
  BY <1>1, <1>2
<1>4. ASSUME NEW i \in 1 .. Len(wire'), wire'[i].kind = "diff",
             \A k \in i + 1 .. Len(wire') : wire'[k].kind # "diff"
      PROVE  wire'[i].diff = current_diff'
  <2>1. p \notin i + 1 .. Len(wire')
    BY <1>2, <1>4
  <2>2. i = p \/ i = p + 1
    BY <1>1, <1>2, <2>1
  <2> QED BY <1>2, <1>4, <2>2
<1> QED BY <1>2, <1>3, <1>4 DEF DiffSent, IsDiff

\* A notify alone leaves the last difficulty where it is.
LEMMA DiffNotified ==
  ASSUME Typed, DiffSent, UNCHANGED <<told, current_diff, subscribed>>, conn' # "none",
         wire' \in Seq(Msg), Len(wire') = Len(wire) + 1,
         \A i \in 1 .. Len(wire) : wire'[i] = wire[i],
         wire'[Len(wire) + 1].kind = "notify"
  PROVE  DiffSent'
<1>1. PICK n \in Nat : n = Len(wire)
  BY DEF Typed, SeqTyped
<1>2. /\ Len(wire') = n + 1 /\ wire'[n + 1].kind = "notify"
      /\ \A i \in 1 .. n : wire'[i] = wire[i] /\ i \in 1 .. n + 1
  BY <1>1
<1>3. ASSUME NEW i \in 1 .. Len(wire'), wire'[i].kind = "diff",
             \A k \in i + 1 .. Len(wire') : wire'[k].kind # "diff"
      PROVE  wire'[i].diff = current_diff
  <2>1. i \in 1 .. n
    BY <1>2, <1>3
  <2>2. \A k \in i + 1 .. n : k \in i + 1 .. Len(wire') /\ k \in 1 .. n
    BY <1>2, <2>1
  <2>3. \A k \in i + 1 .. n : wire[k].kind # "diff"
    BY <1>2, <1>3, <2>2
  <2> QED BY <1>1, <1>2, <1>3, <2>1, <2>3 DEF DiffSent, IsDiff
<1>4. (\A k \in 1 .. Len(wire') : wire'[k].kind # "diff") => \A k \in 1 .. n : wire[k].kind # "diff"
  BY <1>2
<1> QED BY <1>1, <1>3, <1>4 DEF DiffSent, IsDiff

-----------------------------------------------------------------------------
(* What the arms emit. *)

LEMMA PushStamped ==
  ASSUME SeqTyped, RingStamped, NEW e \in Emitted, e.coinb1.pot = FloorPot(e.diff),
         emit_ring' = RingPush(emit_ring, e)
  PROVE  RingStamped'
<1>1. /\ Len(emit_ring') = IF emit_ring = <<>> THEN 1 ELSE 2
      /\ emit_ring'[1] = e /\ (emit_ring # <<>> => emit_ring'[2] = emit_ring[1])
  BY PushIs DEF SeqTyped
<1>2. emit_ring # <<>> => 1 \in 1 .. Len(emit_ring)
  BY EmptySeq DEF SeqTyped
<1>3. emit_ring # <<>> => emit_ring[1].coinb1.pot = FloorPot(emit_ring[1].diff)
  BY <1>2 DEF RingStamped
<1>4. \A i \in 1 .. Len(emit_ring') : i = 1 \/ (i = 2 /\ emit_ring # <<>>)
  BY <1>1
<1> QED BY <1>1, <1>3, <1>4 DEF RingStamped

\* The newest job at difficulty d, as the ring records it.
Entry(d) == [coinb1 |-> Patched(jobs, d), diff |-> d]

LEMMA EntryType ==
  ASSUME CountTyped, jobs # 0, NEW d \in Nat
  PROVE  /\ jobs \in 1 .. MaxJobs /\ Entry(d) \in Emitted
         /\ Entry(d).coinb1.job = jobs /\ Entry(d).coinb1.pot = FloorPot(d) /\ Entry(d).diff = d
<1>1. jobs \in 1 .. MaxJobs
  BY ConnectionAssumption DEF CountTyped
<1> QED BY <1>1, PatchedType DEF Entry, Emitted

\* What every emission leaves right.
Sound == SeqTyped /\ RingStamped /\ RingSent /\ DiffSent

\* A notify of the newest job at the difficulty in force.
LEMMA EmitNotify ==
  ASSUME Typed, Sound, EmitAfter(<<>>, current_diff), conn' # "none",
         UNCHANGED <<work, told, current_diff, subscribed, parked, submit_queue>>
  PROVE  /\ Sound'
         /\ jobs # 0 => emit_ring' # <<>> /\ emit_ring'[1] = Entry(current_diff)
         /\ jobs = 0 => emit_ring' = emit_ring
<1>1. wire \in Seq(Msg) /\ emit_ring \in Seq(Emitted) /\ current_diff \in Nat
  BY DEF Typed, SeqTyped, CountTyped
<1>2. wire \o <<>> = wire
  BY <1>1, ConcatEmptySeq
<1>3. CASE jobs = 0
  <2>1. wire' = wire /\ emit_ring' = emit_ring
    BY <1>2, <1>3 DEF EmitAfter
  <2>2. SeqTyped' /\ RingStamped'
    BY <2>1 DEF Typed, SeqTyped, Sound, RingStamped
  <2>3. RingSent' /\ DiffSent'
    BY <2>1, SentStill, DiffStill DEF Sound
  <2> QED BY <1>3, <2>1, <2>2, <2>3 DEF Sound
<1>4. CASE jobs # 0
  <2> DEFINE e == Entry(current_diff)
             m == Notify(jobs, current_diff)
  <2>1. /\ jobs \in 1 .. MaxJobs /\ e \in Emitted /\ e.coinb1.pot = FloorPot(e.diff)
    BY <1>1, <1>4, EntryType DEF Typed
  <2>2. m \in Msg /\ m.kind = "notify" /\ m.coinb1 = e.coinb1
    BY <1>1, <2>1, MsgMade DEF Entry
  <2>3. emit_ring' = RingPush(emit_ring, e) /\ wire' = wire \o <<m>>
    BY <1>2, <1>4 DEF EmitAfter, Entry
  <2> HIDE DEF e, m
  <2>4. /\ wire' \in Seq(Msg) /\ Len(wire') = Len(wire) + 1 /\ wire'[Len(wire) + 1] = m
        /\ \A i \in 1 .. Len(wire) : wire'[i] = wire[i]
    <3>1. wire' = Append(wire, m)
      BY <1>1, <2>2, <2>3, AppendIsConcat
    <3> QED BY <1>1, <2>2, <3>1, AppendProperties
  <2>5. /\ emit_ring' \in Seq(Emitted) /\ emit_ring'[1] = e
        /\ Len(emit_ring') = IF emit_ring = <<>> THEN 1 ELSE 2
    BY <1>1, <2>1, <2>3, PushIs
  <2>6. SeqTyped'
    <3>1. Len(emit_ring') <= 2
      BY <2>5
    <3> QED BY <2>4, <2>5, <3>1 DEF Typed, SeqTyped
  <2>7. RingStamped'
    BY <2>1, <2>3, PushStamped DEF Sound
  <2>8. RingSent'
    <3>1. /\ Len(wire) < Len(wire') /\ Len(wire') = Len(wire) + 1
          /\ \A i \in Len(wire) + 1 .. Len(wire') - 1 : wire'[i].kind = "diff"
      BY <1>1, <2>4
    <3>2. wire'[Len(wire')].kind = "notify" /\ wire'[Len(wire')].coinb1 = e.coinb1
      BY <2>2, <2>4
    <3> QED BY <2>1, <2>3, <2>4, <3>1, <3>2, SentEmit DEF Sound
  <2>9. DiffSent'
    BY <2>2, <2>4, DiffNotified DEF Sound
  <2>10. emit_ring' # <<>>
    BY <2>5
  <2> QED BY <1>4, <2>5, <2>6, <2>7, <2>8, <2>9, <2>10 DEF Sound, e
<1> QED BY <1>3, <1>4

\* A new difficulty, and with it the newest job for an authorized miner.
LEMMA EmitDiff ==
  ASSUME Typed, Sound, NEW d \in Nat, ChangeDiff(d), conn' # "none",
         UNCHANGED <<work, told, subscribed, parked, submit_queue>>
  PROVE  /\ Sound'
         /\ authorized /\ jobs # 0 => emit_ring' # <<>> /\ emit_ring'[1] = Entry(d)
         /\ ~ (authorized /\ jobs # 0) => emit_ring' = emit_ring
<1> DEFINE s == SetDifficulty(d)
<1>1. wire \in Seq(Msg) /\ emit_ring \in Seq(Emitted) /\ current_diff' = d
  BY DEF Typed, SeqTyped, ChangeDiff
<1>2. s \in Msg /\ s.kind = "diff"
  BY DiffMade
<1>3. wire \o <<s>> = Append(wire, s)
  BY <1>1, <1>2, AppendIsConcat
<1> DEFINE w == Append(wire, s)
<1>4. /\ w \in Seq(Msg) /\ Len(w) = Len(wire) + 1 /\ w[Len(wire) + 1] = s
      /\ \A i \in 1 .. Len(wire) : w[i] = wire[i]
  BY <1>1, <1>2, AppendProperties
<1>5. CASE ~ (authorized /\ jobs # 0)
  <2>1. wire' = w /\ emit_ring' = emit_ring
    BY <1>3, <1>5 DEF ChangeDiff, EmitAfter
  <2> HIDE DEF w
  <2>2. SeqTyped' /\ RingStamped'
    BY <1>4, <2>1 DEF Typed, SeqTyped, Sound, RingStamped
  <2>3. RingSent'
    <3>1. Len(wire) <= Len(wire') /\ \A i \in Len(wire) + 1 .. Len(wire') : wire'[i].kind = "diff"
      BY <1>1, <1>2, <1>4, <2>1
    <3> QED BY <1>4, <2>1, <3>1, SentQuiet DEF Sound
  <2>4. DiffSent'
    <3>1. Len(wire') = Len(wire) + 1 /\ Len(wire') # Len(wire) + 2
      BY <1>1, <1>4, <2>1
    <3> QED BY <1>1, <1>4, <2>1, <3>1, DiffChanged
  <2> QED BY <1>5, <2>1, <2>2, <2>3, <2>4 DEF Sound
<1>6. CASE authorized /\ jobs # 0
  <2> DEFINE e == Entry(d)
             m == Notify(jobs, d)
  <2>1. /\ jobs \in 1 .. MaxJobs /\ e \in Emitted /\ e.coinb1.pot = FloorPot(e.diff)
    BY <1>6, EntryType DEF Typed
  <2>2. m \in Msg /\ m.kind = "notify" /\ m.coinb1 = e.coinb1
    BY <2>1, MsgMade DEF Entry
  <2>3. emit_ring' = RingPush(emit_ring, e) /\ wire' = w \o <<m>>
    BY <1>3, <1>6 DEF ChangeDiff, EmitAfter, Entry
  <2> HIDE DEF e, m, w
  <2>4. wire' = Append(w, m)
    BY <1>4, <2>2, <2>3, AppendIsConcat
  <2>5. /\ wire' \in Seq(Msg) /\ Len(wire') = Len(wire) + 2
        /\ wire'[Len(wire) + 1] = s /\ wire'[Len(wire) + 2] = m
        /\ \A i \in 1 .. Len(wire) : wire'[i] = wire[i]
    <3>1. /\ wire' \in Seq(Msg) /\ Len(wire') = Len(w) + 1 /\ wire'[Len(w) + 1] = m
          /\ \A i \in 1 .. Len(w) : wire'[i] = w[i]
      BY <1>4, <2>2, <2>4, AppendProperties
    <3>2. Len(w) + 1 = Len(wire) + 2 /\ Len(wire) + 1 \in 1 .. Len(w)
          /\ \A i \in 1 .. Len(wire) : i \in 1 .. Len(w)
      BY <1>1, <1>4
    <3> QED BY <1>4, <3>1, <3>2
  <2>6. /\ emit_ring' \in Seq(Emitted) /\ emit_ring'[1] = e
        /\ Len(emit_ring') = IF emit_ring = <<>> THEN 1 ELSE 2
    BY <1>1, <2>1, <2>3, PushIs
  <2>7. SeqTyped'
    <3>1. Len(emit_ring') <= 2
      BY <2>6
    <3> QED BY <2>5, <2>6, <3>1 DEF Typed, SeqTyped
  <2>8. RingStamped'
    BY <2>1, <2>3, PushStamped DEF Sound
  <2>9. RingSent'
    <3>1. Len(wire) < Len(wire') /\ Len(wire') - 1 = Len(wire) + 1
      BY <1>1, <2>5
    <3>2. \A i \in Len(wire) + 1 .. Len(wire') - 1 : wire'[i].kind = "diff"
      <4>1. \A i \in Len(wire) + 1 .. Len(wire') - 1 : i = Len(wire) + 1
        BY <1>1, <3>1
      <4> QED BY <1>2, <2>5, <4>1
    <3>3. wire'[Len(wire')].kind = "notify" /\ wire'[Len(wire')].coinb1 = e.coinb1
      BY <2>2, <2>5
    <3> QED BY <2>1, <2>3, <2>5, <3>1, <3>2, <3>3, SentEmit DEF Sound
  <2>10. DiffSent'
    BY <1>1, <2>2, <2>5, DiffChanged
  <2>11. emit_ring' # <<>>
    BY <2>6
  <2> QED BY <1>6, <2>6, <2>7, <2>8, <2>9, <2>10, <2>11 DEF Sound, e
<1> QED BY <1>5, <1>6

-----------------------------------------------------------------------------
(* One lemma for each kind of step. *)

LEMMA InitIInv == Init => IInv
<1> SUFFICES ASSUME Init PROVE IInv
  OBVIOUS
<1>1. LoginTyped
  <2>1. 0 \in 0 .. MaxLogins
    BY ConnectionAssumption
  <2>2. /\ conn = "none" /\ subscribed = FALSE /\ authorized = FALSE /\ in_order = FALSE
        /\ logins = 0 /\ version_rolling = <<>>
    BY DEF Init
  <2>3. version_rolling \in {<<>>} \cup {<<b>> : b \in SUBSET Bits}
    BY <2>2
  <2>4. subscribed \in BOOLEAN /\ authorized \in BOOLEAN /\ in_order \in BOOLEAN
    BY <2>2
  <2> QED BY <2>1, <2>2, <2>3, <2>4 DEF LoginTyped
<1>2. CountTyped
  <2>1. pool_min_diff = [value |-> 0, version |-> 0] /\ 0 \in 0 .. MaxRaises
    BY ConnectionAssumption DEF Init
  <2>2. pool_min_diff \in [value : Nat, version : 0 .. MaxRaises] /\ pool_min_diff.version = 0
    BY <2>1
  <2> QED BY <2>2, ConnectionAssumption DEF Init, CountTyped
<1>3. SeqTyped
  BY DEF Init, SeqTyped
<1>4. LoginInv /\ RingNewest
  BY DEF Init, LoginInv, RingNewest
<1>5. RingStamped /\ QueueStamped
  BY DEF Init, RingStamped, QueueStamped
<1>6. RingSent
  <2>1. Len(work) + Len(wire) = 0
    BY DEF Init
  <2>2. Notifies = {}
    BY <2>1 DEF Notifies, Outbox
  <2> QED BY <2>2 DEF RingSent
<1>7. DiffSent
  BY DEF Init, DiffSent
<1> QED BY <1>1, <1>2, <1>3, <1>4, <1>5, <1>6, <1>7 DEF IInv, Typed

\* Steps that send nothing: the ring, the wire and the difficulty stay.
LEMMA CalmIInv ==
  ASSUME IInv, Typed', QueueStamped',
         UNCHANGED <<emit_ring, wire, work, told, current_diff, subscribed, authorized, in_order>>,
         conn' \in {conn, "closed"}, notify_seen' = notify_seen, jobs' \in {jobs, jobs + 1}
  PROVE  IInv'
<1>1. RingSent' /\ DiffSent'
  BY SentStill, DiffStill DEF IInv
<1>2. RingStamped'
  BY DEF IInv, RingStamped
<1>3. jobs \in Nat /\ notify_seen \in 0 .. jobs
  BY DEF IInv, Typed, CountTyped
<1>4. LoginInv'
  BY <1>3 DEF IInv, LoginInv
<1>5. RingNewest'
  <2>1. notify_seen' = jobs' => jobs' = jobs
    BY <1>3
  <2> QED BY <2>1 DEF IInv, RingNewest
<1> QED BY <1>1, <1>2, <1>4, <1>5 DEF IInv

LEMMA CloseIInv ==
  ASSUME IInv, Close \/ UNCHANGED vars
  PROVE  IInv'
<1> USE DEF vars, loginVars, diffVars, watchVars, seenVars, minerVars, shareVars
<1>1. /\ UNCHANGED <<loginVars, diffVars, watchVars, seenVars, wire, minerVars, shareVars>>
      /\ conn' = conn \/ (conn = "open" /\ conn' = "closed")
  BY DEF Close, Idle
<1>2. LoginTyped'
  BY <1>1 DEF IInv, Typed, LoginTyped
<1>3. CountTyped' /\ SeqTyped'
  BY <1>1 DEF IInv, Typed, CountTyped, SeqTyped
<1>4. QueueStamped'
  BY <1>1 DEF IInv, QueueStamped, Stamped
<1> QED BY <1>1, <1>2, <1>3, <1>4, CalmIInv DEF Typed

LEMMA NewJobIInv ==
  ASSUME IInv, NewJob
  PROVE  IInv'
<1> USE DEF loginVars, diffVars, watchVars, seenVars, minerVars, shareVars
<1>1. LoginTyped'
  BY DEF IInv, Typed, LoginTyped, NewJob
<1>2. CountTyped'
  BY ConnectionAssumption DEF IInv, Typed, CountTyped, NewJob
<1>3. SeqTyped'
  BY DEF IInv, Typed, SeqTyped, NewJob
<1>4. QueueStamped'
  BY DEF IInv, QueueStamped, Stamped, NewJob
<1> QED BY <1>1, <1>2, <1>3, <1>4, CalmIInv DEF Typed, NewJob

LEMMA NewPoolMinIInv ==
  ASSUME IInv, NEW v \in PoolMins, NewPoolMin(v)
  PROVE  IInv'
<1> USE DEF loginVars, diffVars, watchVars, seenVars, minerVars, shareVars
<1>1. LoginTyped'
  BY DEF IInv, Typed, LoginTyped, NewPoolMin
<1>2. CountTyped'
  <2>1. v \in Nat /\ MaxRaises \in Nat /\ pool_min_diff.version \in 0 .. MaxRaises
        /\ pool_min_seen \in 0 .. pool_min_diff.version
    BY ConnectionAssumption DEF IInv, Typed, CountTyped
  <2>2. pool_min_diff.version + 1 \in 0 .. MaxRaises /\ pool_min_seen \in 0 .. pool_min_diff.version + 1
    BY <2>1 DEF NewPoolMin
  <2>3. /\ pool_min_diff' \in [value : Nat, version : 0 .. MaxRaises]
        /\ pool_min_diff'.version = pool_min_diff.version + 1
    BY <2>1, <2>2 DEF NewPoolMin
  <2> QED BY <2>2, <2>3 DEF IInv, Typed, CountTyped, NewPoolMin
<1>3. SeqTyped'
  BY DEF IInv, Typed, SeqTyped, NewPoolMin
<1>4. QueueStamped'
  BY DEF IInv, QueueStamped, Stamped, NewPoolMin
<1> QED BY <1>1, <1>2, <1>3, <1>4, CalmIInv DEF Typed, NewPoolMin

LEMMA ConfigureIInv ==
  ASSUME IInv, NEW requested \in SUBSET Bits, Configure(requested)
  PROVE  IInv'
<1> USE DEF loginVars, diffVars, watchVars, seenVars, minerVars, shareVars
<1>1. LoginTyped'
  <2>1. version_rolling' = <<requested \cap Bits>> /\ requested \cap Bits \in SUBSET Bits
    BY DEF Configure
  <2> QED BY <2>1 DEF IInv, Typed, LoginTyped, Configure
<1>2. CountTyped' /\ SeqTyped'
  BY DEF IInv, Typed, CountTyped, SeqTyped, Configure
<1>3. QueueStamped'
  BY DEF IInv, QueueStamped, Stamped, Configure
<1> QED BY <1>1, <1>2, <1>3, CalmIInv DEF Typed, Configure

\* The relay takes a submission, or the connection gets it into the channel.
LEMMA QueueIInv ==
  ASSUME IInv, RelayTake \/ SubmitSend
  PROVE  IInv'
<1> USE DEF loginVars, diffVars, watchVars, seenVars, minerVars, shareVars
<1>1. LoginTyped' /\ CountTyped'
  BY DEF IInv, Typed, LoginTyped, CountTyped, RelayTake, SubmitSend
<1>2. parked \in Seq(Submission) /\ submit_queue \in Seq(Submission)
  BY DEF IInv, Typed, SeqTyped
<1>3. CASE RelayTake
  <2>1. /\ submit_queue' \in Seq(Submission) /\ Len(submit_queue') = Len(submit_queue) - 1
        /\ \A i \in 1 .. Len(submit_queue') : submit_queue'[i] = submit_queue[i + 1]
    BY <1>2, <1>3, HeadTailProperties DEF RelayTake
  <2>2. \A i \in 1 .. Len(submit_queue') : i + 1 \in 1 .. Len(submit_queue)
    BY <1>2, <2>1
  <2>3. QueueStamped'
    BY <1>3, <2>1, <2>2 DEF IInv, QueueStamped, Stamped, RelayTake
  <2>4. SeqTyped'
    BY <1>3, <2>1 DEF IInv, Typed, SeqTyped, RelayTake
  <2> QED BY <1>1, <1>3, <2>3, <2>4, CalmIInv DEF Typed, RelayTake
<1>4. CASE SubmitSend
  <2>1. /\ submit_queue' \in Seq(Submission)
        /\ Len(submit_queue') = Len(submit_queue) + Len(parked)
        /\ \A i \in 1 .. Len(submit_queue) + Len(parked) :
             submit_queue'[i] = IF i <= Len(submit_queue) THEN submit_queue[i]
                                ELSE parked[i - Len(submit_queue)]
    BY <1>2, <1>4, ConcatProperties DEF SubmitSend
  <2>2. \A i \in 1 .. Len(submit_queue') :
          i \in 1 .. Len(submit_queue) \/ (~ (i <= Len(submit_queue)) /\ i - Len(submit_queue) \in 1 .. Len(parked))
    BY <1>2, <2>1
  <2>3. ASSUME NEW i \in 1 .. Len(submit_queue')
        PROVE  Stamped(submit_queue'[i])
    <3>1. i \in 1 .. Len(submit_queue) + Len(parked)
      BY <2>1
    <3>2. CASE i \in 1 .. Len(submit_queue)
      <4>1. submit_queue'[i] = submit_queue[i]
        BY <2>1, <3>1, <3>2
      <4> QED BY <3>2, <4>1 DEF IInv, QueueStamped
    <3>3. CASE ~ (i <= Len(submit_queue)) /\ i - Len(submit_queue) \in 1 .. Len(parked)
      <4>1. submit_queue'[i] = parked[i - Len(submit_queue)]
        BY <2>1, <3>1, <3>3
      <4> QED BY <3>3, <4>1 DEF IInv, QueueStamped
    <3> QED BY <2>2, <3>2, <3>3
  <2>4. parked' = <<>>
    BY <1>4 DEF SubmitSend
  <2>5. QueueStamped'
    BY <2>3, <2>4 DEF QueueStamped, Stamped
  <2>6. SeqTyped'
    BY <1>4, <2>1, <2>4 DEF IInv, Typed, SeqTyped, SubmitSend
  <2> QED BY <1>1, <1>4, <2>5, <2>6, CalmIInv DEF Typed, SubmitSend
<1> QED BY <1>3, <1>4

\* The share takes coinb1 and difficulty from the same entry of the ring.
LEMMA SubmitIInv ==
  ASSUME IInv, NEW hashed \in Coinb1, NEW nversion \in {<<>>} \cup {<<b>> : b \in SUBSET Bits},
         Submit(hashed, nversion)
  PROVE  IInv'
<1> USE DEF loginVars, diffVars, watchVars, seenVars, minerVars, shareVars
<1> DEFINE emitted == RingLookup(emit_ring, hashed.job)
           s == Submitted(hashed, nversion)
<1>1. LoginTyped'
  BY DEF IInv, Typed, LoginTyped, Submit
<1>2. CountTyped'
  BY ConnectionAssumption DEF IInv, Typed, CountTyped, Submit
<1>3. emit_ring \in Seq(Emitted) /\ current_diff \in Nat /\ hashed.job \in 1 .. MaxJobs
  BY DEF IInv, Typed, SeqTyped, CountTyped, Coinb1
<1>4. \/ emitted = <<>>
      \/ \E i \in 1 .. Len(emit_ring) : emitted = <<emit_ring[i]>>
  BY <1>3, LookupIs
<1>5. emitted # <<>> => /\ emitted[1] \in Emitted
                        /\ emitted[1].coinb1.pot = FloorPot(emitted[1].diff)
  <2> SUFFICES ASSUME emitted # <<>>
               PROVE  emitted[1] \in Emitted /\ emitted[1].coinb1.pot = FloorPot(emitted[1].diff)
    OBVIOUS
  <2>1. PICK i \in 1 .. Len(emit_ring) : emitted = <<emit_ring[i]>>
    BY <1>4
  <2> HIDE DEF emitted
  <2>2. emitted[1] = emit_ring[i] /\ emit_ring[i] \in Emitted
    BY <1>3, <2>1
  <2> QED BY <2>2 DEF IInv, RingStamped
<1>6. /\ s.job = hashed.job /\ s.hashed = hashed
      /\ s.diff = IF emitted = <<>> THEN current_diff ELSE emitted[1].diff
      /\ s.coinb1 = IF emitted = <<>> THEN <<>> ELSE <<emitted[1].coinb1>>
      /\ s.version = IF version_rolling = <<>> THEN {} ELSE nversion[1]
      /\ s = [job |-> s.job, hashed |-> s.hashed, diff |-> s.diff, coinb1 |-> s.coinb1,
              version |-> s.version]
  BY DEF Submitted
<1>7. s.version \in SUBSET Bits
  <2>1. CASE version_rolling = <<>>
    BY <1>6, <2>1
  <2>2. CASE version_rolling # <<>>
    <3>1. nversion # <<>>
      BY <2>2 DEF Submit, VersionOk
    <3>2. PICK b \in SUBSET Bits : nversion = <<b>>
      BY <3>1
    <3> QED BY <1>6, <2>2, <3>2
  <2> QED BY <2>1, <2>2
<1> HIDE DEF s, emitted
<1>8. s.diff \in Nat /\ s.coinb1 \in Seq(Coinb1)
  BY <1>3, <1>5, <1>6 DEF Emitted
<1>9. s \in Submission
  BY <1>3, <1>6, <1>7, <1>8 DEF Submission
<1>10. Stamped(s)
  BY <1>5, <1>6 DEF Stamped
<1>11. parked' = <<s>> /\ UNCHANGED submit_queue
  BY DEF Submit, s
<1>12. SeqTyped'
  BY <1>9, <1>11 DEF IInv, Typed, SeqTyped, Submit
<1>13. QueueStamped'
  BY <1>10, <1>11 DEF IInv, QueueStamped, Stamped
<1> QED BY <1>1, <1>2, <1>12, <1>13, CalmIInv DEF Typed, Submit

\* The connection opens: the miner has not logged in and was sent nothing.
LEMMA AcceptIInv ==
  ASSUME IInv, Accept
  PROVE  IInv'
<1> USE DEF loginVars, diffVars, watchVars, seenVars, minerVars, shareVars
<1>1. /\ conn = "none" /\ conn' = "open" /\ wire = <<>> /\ wire' = wire
      /\ ~ subscribed /\ ~ authorized /\ ~ in_order
      /\ UNCHANGED <<subscribed, authorized, in_order, emit_ring, work, jobs, parked, submit_queue>>
  BY DEF Accept, IInv, LoginInv, DiffSent
<1>2. LoginTyped'
  BY DEF IInv, Typed, LoginTyped, Accept
<1>3. CountTyped'
  <2>1. pool_min_diff.value \in Nat /\ VardiffMin \in Nat
    BY ConnectionAssumption DEF IInv, Typed, CountTyped
  <2>2. current_diff' \in Nat /\ current_diff' >= VardiffMin
    BY <2>1 DEF Accept, Larger
  <2> QED BY <2>2 DEF IInv, Typed, CountTyped, Accept
<1>4. SeqTyped'
  BY DEF IInv, Typed, SeqTyped, Accept
<1>5. LoginInv' /\ RingNewest'
  BY <1>1 DEF IInv, LoginInv, RingNewest
<1>6. RingStamped' /\ QueueStamped'
  BY <1>1 DEF IInv, RingStamped, QueueStamped, Stamped
<1>7. RingSent'
  BY <1>1, SentStill DEF IInv
<1>8. DiffSent'
  BY <1>1 DEF DiffSent
<1> QED BY <1>2, <1>3, <1>4, <1>5, <1>6, <1>7, <1>8 DEF IInv, Typed

\* The answer to mining.subscribe is followed by the difficulty in force.
LEMMA SubscribeIInv ==
  ASSUME IInv, Subscribe
  PROVE  IInv'
<1> USE DEF loginVars, diffVars, watchVars, seenVars, minerVars, shareVars
<1> DEFINE s == SetDifficulty(current_diff)
<1>1. /\ conn = "open" /\ conn' = conn /\ subscribed' = TRUE /\ wire' = Append(wire, s)
      /\ UNCHANGED <<authorized, in_order, emit_ring, work, jobs, notify_seen, current_diff,
                     parked, submit_queue>>
  BY DEF Subscribe, Idle
<1>2. wire \in Seq(Msg) /\ current_diff \in Nat
  BY DEF IInv, Typed, SeqTyped, CountTyped
<1>3. s \in Msg /\ s.kind = "diff"
  BY <1>2, DiffMade
<1>4. LoginTyped'
  <2>1. logins' \in 0 .. MaxLogins
    BY ConnectionAssumption DEF IInv, Typed, LoginTyped, Subscribe
  <2>2. UNCHANGED <<conn, authorized, in_order, version_rolling>>
    BY DEF Subscribe
  <2> QED BY <1>1, <2>1, <2>2 DEF IInv, Typed, LoginTyped
<1>5. CountTyped'
  BY DEF IInv, Typed, CountTyped, Subscribe
<1> HIDE DEF s
<1>6. /\ wire' \in Seq(Msg) /\ Len(wire') = Len(wire) + 1 /\ wire'[Len(wire) + 1] = s
      /\ \A i \in 1 .. Len(wire) : wire'[i] = wire[i]
  BY <1>1, <1>2, <1>3, AppendProperties
<1>7. SeqTyped'
  BY <1>1, <1>6 DEF IInv, Typed, SeqTyped
<1>8. LoginInv' /\ RingNewest'
  BY <1>1 DEF IInv, LoginInv, RingNewest
<1>9. RingStamped' /\ QueueStamped'
  BY <1>1 DEF IInv, RingStamped, QueueStamped, Stamped
<1>10. RingSent'
  <2>1. Len(wire) <= Len(wire') /\ \A i \in Len(wire) + 1 .. Len(wire') : wire'[i].kind = "diff"
    BY <1>2, <1>3, <1>6
  <2> QED BY <1>1, <1>6, <2>1, SentQuiet DEF IInv
<1>11. DiffSent'
  <2>1. Len(wire') = Len(wire) + 1 /\ Len(wire') # Len(wire) + 2
    BY <1>2, <1>6
  <2> QED BY <1>1, <1>2, <1>6, <2>1, DiffChanged DEF IInv, s
<1> QED BY <1>4, <1>5, <1>7, <1>8, <1>9, <1>10, <1>11 DEF IInv, Typed

\* A notify of the newest job, after a login or a change of the job.
LEMMA NotifiedIInv ==
  ASSUME IInv, LoginTyped', CountTyped', EmitAfter(<<>>, current_diff), conn = "open",
         UNCHANGED <<conn, work, told, current_diff, subscribed, jobs, parked, submit_queue>>,
         in_order' => subscribed' /\ authorized'
  PROVE  IInv'
<1>1. Sound
  BY DEF IInv, Typed, Sound
<1>2. /\ Sound'
      /\ jobs # 0 => emit_ring' # <<>> /\ emit_ring'[1] = Entry(current_diff)
      /\ jobs = 0 => emit_ring' = emit_ring
  BY <1>1, EmitNotify DEF IInv
<1>3. jobs \in Nat /\ current_diff \in Nat
  BY DEF IInv, Typed, CountTyped
<1>4. jobs # 0 => emit_ring'[1].diff = current_diff /\ emit_ring'[1].coinb1.job = jobs
  BY <1>2, <1>3, EntryType DEF IInv, Typed
<1>5. jobs = 0 => emit_ring' = <<>>
  BY <1>2 DEF IInv, LoginInv
<1>6. LoginInv'
  BY <1>5 DEF LoginInv
<1>7. RingNewest'
  BY <1>2, <1>3, <1>4, <1>5 DEF RingNewest
<1>8. QueueStamped'
  BY DEF IInv, QueueStamped, Stamped
<1> QED BY <1>2, <1>6, <1>7, <1>8 DEF IInv, Typed, Sound

LEMMA AuthorizeIInv ==
  ASSUME IInv, Authorize
  PROVE  IInv'
<1> USE DEF loginVars, diffVars, watchVars, seenVars, minerVars, shareVars
<1>1. LoginTyped'
  <2>1. logins' \in 0 .. MaxLogins
    BY ConnectionAssumption DEF IInv, Typed, LoginTyped, Authorize
  <2>2. /\ authorized' = TRUE /\ in_order' = (in_order \/ subscribed)
        /\ UNCHANGED <<conn, subscribed, version_rolling>>
    BY DEF Authorize
  <2>3. authorized' \in BOOLEAN /\ in_order' \in BOOLEAN
    BY <2>2
  <2> QED BY <2>1, <2>2, <2>3 DEF IInv, Typed, LoginTyped
<1>2. CountTyped'
  BY DEF IInv, Typed, CountTyped, Authorize
<1>3. in_order' => subscribed' /\ authorized'
  BY DEF IInv, LoginInv, Authorize
<1>4. /\ EmitAfter(<<>>, current_diff) /\ conn = "open"
      /\ UNCHANGED <<conn, work, told, current_diff, subscribed, jobs, parked, submit_queue>>
  BY DEF Authorize, Idle
<1> QED BY <1>1, <1>2, <1>3, <1>4, NotifiedIInv

LEMMA OnNotifyIInv ==
  ASSUME IInv, OnNotify
  PROVE  IInv'
<1> USE DEF loginVars, diffVars, watchVars, seenVars, minerVars, shareVars
<1>1. /\ conn = "open"
      /\ UNCHANGED <<conn, subscribed, authorized, in_order, work, told, current_diff, jobs, parked,
                     submit_queue>>
  BY DEF OnNotify, Idle
<1>2. LoginTyped'
  BY DEF IInv, Typed, LoginTyped, OnNotify
<1>3. CountTyped'
  BY DEF IInv, Typed, CountTyped, OnNotify
<1>4. CASE subscribed /\ authorized
  BY <1>1, <1>2, <1>3, <1>4, NotifiedIInv DEF OnNotify
<1>5. CASE ~ (subscribed /\ authorized)
  <2>1. ~ in_order /\ ~ in_order' /\ UNCHANGED <<wire, emit_ring>>
    BY <1>1, <1>5 DEF IInv, LoginInv, OnNotify
  <2>2. SeqTyped'
    BY <1>1, <2>1 DEF IInv, Typed, SeqTyped
  <2>3. LoginInv' /\ RingNewest'
    BY <1>1, <2>1 DEF IInv, LoginInv, RingNewest
  <2>4. RingStamped' /\ QueueStamped'
    BY <1>1, <2>1 DEF IInv, RingStamped, QueueStamped, Stamped
  <2>5. RingSent' /\ DiffSent'
    BY <1>1, <2>1, SentStill, DiffStill DEF IInv
  <2> QED BY <1>2, <1>3, <2>2, <2>3, <2>4, <2>5 DEF IInv, Typed
<1> QED BY <1>4, <1>5

\* A change of the difficulty keeps the newest work in step with it.
LEMMA RetargetedIInv ==
  ASSUME IInv, NEW d \in Nat, ChangeDiff(d), CountTyped', conn = "open",
         UNCHANGED <<conn, loginVars, work, told, jobs, notify_seen, parked, submit_queue>>
  PROVE  IInv'
<1> USE DEF loginVars
<1>1. Sound
  BY DEF IInv, Typed, Sound
<1>2. /\ Sound'
      /\ authorized /\ jobs # 0 => emit_ring' # <<>> /\ emit_ring'[1] = Entry(d)
      /\ ~ (authorized /\ jobs # 0) => emit_ring' = emit_ring
  BY <1>1, EmitDiff DEF IInv
<1>3. jobs \in Nat /\ current_diff' = d
  BY DEF IInv, Typed, CountTyped, ChangeDiff
<1>4. authorized /\ jobs # 0 => emit_ring'[1].diff = d /\ emit_ring'[1].coinb1.job = jobs
  BY <1>2, <1>3, EntryType DEF IInv, Typed
<1>5. jobs = 0 => emit_ring' = <<>>
  BY <1>2 DEF IInv, LoginInv
<1>6. LoginInv'
  BY <1>5 DEF IInv, LoginInv
<1>7. RingNewest'
  <2>1. in_order => authorized
    BY DEF IInv, LoginInv
  <2> QED BY <1>2, <1>3, <1>4, <1>5, <2>1 DEF RingNewest
<1>8. QueueStamped'
  BY DEF IInv, QueueStamped, Stamped
<1>9. LoginTyped'
  BY DEF IInv, Typed, LoginTyped
<1> QED BY <1>2, <1>6, <1>7, <1>8, <1>9 DEF IInv, Typed, Sound

LEMMA FloorType ==
  ASSUME CountTyped
  PROVE  Floor \in Nat /\ Floor >= VardiffMin
<1>1. pool_min_diff.value \in Nat /\ VardiffMin \in Nat
  BY ConnectionAssumption DEF CountTyped
<1> QED BY <1>1 DEF Floor, Larger

LEMMA NewDiffType ==
  ASSUME CountTyped, NEW secs
  PROVE  NewDiff(secs) \in Nat /\ NewDiff(secs) >= VardiffMin
<1>1. current_diff \in Nat /\ VardiffMin \in Nat /\ VardiffMax \in Nat
  BY ConnectionAssumption DEF CountTyped
<1>2. 2 * current_diff \in Nat /\ current_diff \div 2 \in Nat
  BY <1>1
<1>3. Retarget(secs) \in Nat
  BY <1>1, <1>2 DEF Retarget, Smaller, Larger
<1>4. Floor \in Nat /\ Floor >= VardiffMin
  BY FloorType
<1> QED BY <1>1, <1>3, <1>4 DEF NewDiff, Larger

LEMMA OnPoolMinIInv ==
  ASSUME IInv, OnPoolMin
  PROVE  IInv'
<1> USE DEF loginVars, diffVars, watchVars, seenVars, minerVars, shareVars
<1>1. /\ conn = "open"
      /\ UNCHANGED <<conn, loginVars, shares_since_snap, watchVars, notify_seen, minerVars,
                     shareVars>>
  BY DEF OnPoolMin, Idle
<1>2. Floor \in Nat /\ Floor >= VardiffMin
  BY FloorType DEF IInv, Typed
<1>3. current_diff' \in {current_diff, Floor}
  BY DEF OnPoolMin, ChangeDiff
<1>4. CountTyped'
  <2>1. current_diff' \in Nat /\ current_diff' >= VardiffMin
    BY <1>1, <1>2, <1>3 DEF IInv, Typed, CountTyped
  <2>2. pool_min_seen' \in 0 .. pool_min_diff.version
    BY DEF IInv, Typed, CountTyped, OnPoolMin
  <2> QED BY <1>1, <2>1, <2>2 DEF IInv, Typed, CountTyped
<1>5. CASE Floor > current_diff /\ subscribed
  BY <1>1, <1>2, <1>4, <1>5, RetargetedIInv DEF OnPoolMin
<1>6. CASE ~ (Floor > current_diff /\ subscribed)
  <2>1. UNCHANGED <<current_diff, wire, emit_ring>>
    BY <1>6 DEF OnPoolMin
  <2>2. LoginTyped' /\ SeqTyped'
    BY <1>1, <2>1 DEF IInv, Typed, LoginTyped, SeqTyped
  <2>3. QueueStamped'
    BY <1>1 DEF IInv, QueueStamped, Stamped
  <2> QED BY <1>1, <1>4, <2>1, <2>2, <2>3, CalmIInv DEF Typed
<1> QED BY <1>5, <1>6

LEMMA TickIInv ==
  ASSUME IInv, NEW secs, Tick(secs)
  PROVE  IInv'
<1> USE DEF loginVars, diffVars, watchVars, seenVars, minerVars, shareVars
<1>1. /\ conn = "open" /\ shares_since_snap' = 0
      /\ UNCHANGED <<conn, loginVars, watchVars, seenVars, minerVars, shareVars>>
  BY DEF Tick, Idle
<1>2. NewDiff(secs) \in Nat /\ NewDiff(secs) >= VardiffMin
  BY NewDiffType DEF IInv, Typed
<1>3. current_diff' \in {current_diff, NewDiff(secs)}
  BY DEF Tick, ChangeDiff
<1>4. CountTyped'
  <2>1. current_diff' \in Nat /\ current_diff' >= VardiffMin
    BY <1>1, <1>2, <1>3 DEF IInv, Typed, CountTyped
  <2>2. shares_since_snap' \in 0 .. nshares
    BY <1>1, ConnectionAssumption DEF IInv, Typed, CountTyped
  <2> QED BY <1>1, <2>1, <2>2 DEF IInv, Typed, CountTyped
<1>5. CASE NewDiff(secs) # current_diff /\ subscribed
  BY <1>1, <1>2, <1>4, <1>5, RetargetedIInv DEF Tick
<1>6. CASE ~ (NewDiff(secs) # current_diff /\ subscribed)
  <2>1. UNCHANGED <<current_diff, wire, emit_ring>>
    BY <1>6 DEF Tick
  <2>2. LoginTyped' /\ SeqTyped'
    BY <1>1, <2>1 DEF IInv, Typed, LoginTyped, SeqTyped
  <2>3. QueueStamped'
    BY <1>1 DEF IInv, QueueStamped, Stamped
  <2> QED BY <1>1, <1>4, <2>1, <2>2, <2>3, CalmIInv DEF Typed
<1> QED BY <1>5, <1>6

-----------------------------------------------------------------------------
(* The miner reads a message. *)

\* A notify that is read stands where it stood; a difficulty leaves a gap that
\* closes, and the notifies keep their order.
LEMMA ReadSent ==
  ASSUME Typed, RingSent, MinerRead
  PROVE  RingSent'
<1> USE DEF diffVars, minerVars
<1>1. /\ wire \in Seq(Msg) /\ wire # <<>> /\ wire' = Tail(wire) /\ emit_ring' = emit_ring
      /\ work \in Seq(Coinb1)
  BY DEF Typed, SeqTyped, MinerRead
<1>2. /\ Head(wire) = wire[1] /\ wire' \in Seq(Msg) /\ Len(wire') = Len(wire) - 1
      /\ \A i \in 1 .. Len(wire) - 1 : wire'[i] = wire[i + 1]
  BY <1>1, HeadTailProperties
<1>3. Len(wire) >= 1 /\ wire[1] \in Msg
  BY <1>1, EmptySeq
<1>w. PICK w \in Nat : w = Len(work)
  BY <1>1
<1>n. PICK n \in Nat : n = Len(work) + Len(wire) /\ w + 1 <= n
  BY <1>1, <1>3, <1>w
<1>4. /\ DOMAIN Outbox = 1 .. n
      /\ \A i \in 1 .. n : i <= w => Outbox[i] = [kind |-> "notify", coinb1 |-> work[i]]
      /\ \A i \in 1 .. n : ~ (i <= w) => Outbox[i] = wire[i - w]
  BY <1>w, <1>n DEF Outbox
<1>5. CASE wire[1].kind = "diff"
  <2> DEFINE Skip(i) == IF i <= w THEN i ELSE i + 1
  <2>1. work' = work
    BY <1>2, <1>5 DEF MinerRead
  <2>2. DOMAIN Outbox' = 1 .. n - 1
    BY <1>1, <1>2, <1>n, <2>1 DEF Outbox
  <2>3. ASSUME NEW i \in 1 .. n - 1
        PROVE  Skip(i) \in 1 .. n /\ Outbox'[i] = Outbox[Skip(i)]
    <3>1. i \in 1 .. Len(work') + Len(wire') /\ i \in 1 .. n
      BY <1>1, <1>2, <1>n, <2>1
    <3>2. CASE i <= w
      <4>1. Outbox'[i] = [kind |-> "notify", coinb1 |-> work[i]]
        BY <1>w, <2>1, <3>1, <3>2 DEF Outbox
      <4> QED BY <1>4, <3>1, <3>2, <4>1
    <3>3. CASE ~ (i <= w)
      <4>1. Outbox'[i] = wire'[i - w]
        BY <1>w, <2>1, <3>1, <3>3 DEF Outbox
      <4>2. /\ i - w \in 1 .. Len(wire) - 1 /\ i + 1 \in 1 .. n /\ ~ (i + 1 <= w)
            /\ (i + 1) - w = (i - w) + 1
        BY <1>1, <1>w, <1>n, <3>3
      <4>3. Outbox'[i] = wire[(i - w) + 1]
        BY <1>2, <4>1, <4>2
      <4>4. Outbox[i + 1] = wire[(i - w) + 1]
        BY <1>4, <4>2
      <4> QED BY <3>3, <4>2, <4>3, <4>4
    <3> QED BY <3>2, <3>3
  <2>4. Outbox[w + 1].kind = "diff"
    <3>1. w + 1 \in 1 .. n /\ ~ (w + 1 <= w) /\ (w + 1) - w = 1
      BY <1>n
    <3> QED BY <1>4, <1>5, <3>1
  <2>5. \A i \in Notifies' : i \in 1 .. n - 1 /\ Skip(i) \in Notifies
    BY <1>4, <2>2, <2>3 DEF Notifies
  <2>6. \A k \in Notifies : \E i \in Notifies' : k = Skip(i)
    <3> SUFFICES ASSUME NEW k \in Notifies PROVE \E i \in Notifies' : k = Skip(i)
      OBVIOUS
    <3>1. k \in 1 .. n /\ k # w + 1 /\ Outbox[k].kind = "notify"
      BY <1>4, <2>4 DEF Notifies
    <3>2. PICK i \in 1 .. n - 1 : k = Skip(i)
      <4>1. CASE k <= w
        BY <1>n, <3>1, <4>1
      <4>2. CASE ~ (k <= w)
        <5>1. k - 1 \in 1 .. n - 1 /\ ~ (k - 1 <= w) /\ (k - 1) + 1 = k
          BY <1>w, <3>1, <4>2
        <5> QED BY <5>1
      <4> QED BY <4>1, <4>2
    <3>3. Outbox'[i].kind = "notify"
      BY <2>3, <3>1, <3>2
    <3> QED BY <2>2, <3>2, <3>3 DEF Notifies
  <2>7. \A i, k \in 1 .. n - 1 : (i <= k => Skip(i) <= Skip(k)) /\ (i < k => Skip(i) < Skip(k))
    BY <1>w
  <2> HIDE DEF Skip
  <2>8. ASSUME NEW i \in Notifies', IsLast(i)'
        PROVE  Len(emit_ring') >= 1 /\ emit_ring'[1].coinb1 = Outbox'[i].coinb1
    <3>1. IsLast(Skip(i))
      BY <2>5, <2>6, <2>7, <2>8 DEF IsLast
    <3> QED BY <1>1, <2>3, <2>5, <3>1 DEF RingSent
  <2>9. ASSUME NEW i \in Notifies', NEW j \in Notifies', IsNextToLast(i, j)'
        PROVE  Len(emit_ring') >= 2 /\ emit_ring'[2].coinb1 = Outbox'[i].coinb1
    <3>1. i < j /\ \A k \in Notifies' : k <= i \/ k = j
      BY <2>9 DEF IsNextToLast
    <3>2. Skip(i) < Skip(j)
      BY <2>5, <2>7, <3>1
    <3>3. \A k \in Notifies : k <= Skip(i) \/ k = Skip(j)
      BY <2>5, <2>6, <2>7, <3>1
    <3>4. IsNextToLast(Skip(i), Skip(j))
      BY <3>2, <3>3 DEF IsNextToLast
    <3> QED BY <1>1, <2>3, <2>5, <3>4 DEF RingSent
  <2> QED BY <2>8, <2>9 DEF RingSent
<1>6. CASE wire[1].kind # "diff"
  <2>1. work' = Append(work, wire[1].coinb1) /\ wire[1].kind = "notify" /\ wire[1].coinb1 \in Coinb1
    BY <1>2, <1>3, <1>6, MsgType DEF MinerRead
  <2>2. /\ work' \in Seq(Coinb1) /\ Len(work') = w + 1 /\ work'[w + 1] = wire[1].coinb1
        /\ \A i \in 1 .. w : work'[i] = work[i]
    BY <1>1, <1>w, <2>1, AppendProperties
  <2>3. DOMAIN Outbox' = 1 .. n
    <3>1. Len(work') + Len(wire') = n
      BY <1>1, <1>2, <1>w, <1>n, <2>2
    <3> QED BY <3>1 DEF Outbox
  <2>4. ASSUME NEW i \in 1 .. n
        PROVE  Outbox'[i].kind = Outbox[i].kind /\ (Outbox[i].kind = "notify" => Outbox'[i].coinb1 = Outbox[i].coinb1)
    <3>1. i \in 1 .. Len(work') + Len(wire')
      BY <1>1, <1>2, <1>w, <1>n, <2>2
    <3>2. /\ i <= w + 1 => Outbox'[i] = [kind |-> "notify", coinb1 |-> work'[i]]
          /\ ~ (i <= w + 1) => Outbox'[i] = wire'[i - (w + 1)]
      BY <2>2, <3>1 DEF Outbox
    <3>3. CASE i <= w
      <4>1. i <= w + 1 /\ work'[i] = work[i]
        BY <2>2, <3>3
      <4> QED BY <1>4, <3>2, <3>3, <4>1
    <3>4. CASE i = w + 1
      <4>1. i <= w + 1 /\ ~ (i <= w) /\ i - w = 1
        BY <3>4
      <4> QED BY <1>4, <2>1, <2>2, <3>2, <3>4, <4>1
    <3>5. CASE ~ (i <= w) /\ i # w + 1
      <4>1. /\ ~ (i <= w + 1) /\ i - (w + 1) \in 1 .. Len(wire) - 1 /\ (i - (w + 1)) + 1 = i - w
        BY <1>1, <1>w, <1>n, <3>5
      <4>2. Outbox'[i] = wire[i - w]
        BY <1>2, <3>2, <4>1
      <4> QED BY <1>4, <3>5, <4>2
    <3> QED BY <3>3, <3>4, <3>5
  <2>5. Notifies' = Notifies
    BY <1>4, <2>3, <2>4 DEF Notifies
  <2>6. \A i \in Notifies : Outbox'[i].coinb1 = Outbox[i].coinb1
    BY <1>4, <2>4 DEF Notifies
  <2>7. ASSUME NEW i, NEW j
        PROVE  IsLast(i)' = IsLast(i) /\ IsNextToLast(i, j)' = IsNextToLast(i, j)
    BY <2>5 DEF IsLast, IsNextToLast
  <2>8. \A i \in Notifies' : IsLast(i)' =>
          Len(emit_ring') >= 1 /\ emit_ring'[1].coinb1 = Outbox'[i].coinb1
    BY <1>1, <2>5, <2>6, <2>7 DEF RingSent
  <2>9. \A i, j \in Notifies' : IsNextToLast(i, j)' =>
          Len(emit_ring') >= 2 /\ emit_ring'[2].coinb1 = Outbox'[i].coinb1
    BY <1>1, <2>5, <2>6, <2>7 DEF RingSent
  <2> QED BY <2>8, <2>9 DEF RingSent
<1> QED BY <1>5, <1>6

\* The last difficulty read is the last one sent once none is on the wire.
LEMMA ReadDiff ==
  ASSUME Typed, DiffSent, MinerRead
  PROVE  DiffSent'
<1> USE DEF loginVars, diffVars, minerVars
<1>1. /\ wire \in Seq(Msg) /\ wire # <<>> /\ wire' = Tail(wire)
      /\ UNCHANGED <<conn, subscribed, current_diff>>
  BY DEF Typed, SeqTyped, MinerRead
<1>2. PICK n \in Nat : n = Len(wire) /\ n >= 1
  BY <1>1, EmptySeq
<1>3. /\ Head(wire) = wire[1] /\ Len(wire') = n - 1
      /\ \A i \in 1 .. n - 1 : wire'[i] = wire[i + 1]
  BY <1>1, <1>2, HeadTailProperties
<1>4. ASSUME NEW i \in 1 .. Len(wire'), wire'[i].kind = "diff",
             \A k \in i + 1 .. Len(wire') : wire'[k].kind # "diff"
      PROVE  wire'[i].diff = current_diff
  <2>1. i \in 1 .. n - 1 /\ i + 1 \in 1 .. Len(wire)
    BY <1>2, <1>3
  <2>2. ASSUME NEW k \in (i + 1) + 1 .. Len(wire) PROVE wire[k].kind # "diff"
    <3>1. k - 1 \in i + 1 .. n - 1 /\ k - 1 \in 1 .. n - 1 /\ (k - 1) + 1 = k
      BY <1>2, <2>1
    <3> QED BY <1>3, <1>4, <3>1
  <2> QED BY <1>3, <1>4, <2>1, <2>2 DEF DiffSent, IsDiff
<1>5. ASSUME subscribed, \A k \in 1 .. Len(wire') : wire'[k].kind # "diff"
      PROVE  told' = current_diff
  <2>1. ASSUME NEW k \in 2 .. n PROVE wire[k].kind # "diff"
    <3>1. k - 1 \in 1 .. n - 1 /\ (k - 1) + 1 = k
      BY <1>2
    <3> QED BY <1>3, <1>5, <3>1
  <2>2. CASE wire[1].kind = "diff"
    <3>1. told' = wire[1].diff
      BY <1>3, <2>2 DEF MinerRead
    <3>2. 1 \in 1 .. Len(wire) /\ \A k \in 1 + 1 .. Len(wire) : wire[k].kind # "diff"
      BY <1>2, <2>1
    <3> QED BY <2>2, <3>1, <3>2 DEF DiffSent, IsDiff
  <2>3. CASE wire[1].kind # "diff"
    <3>1. told' = told
      BY <1>3, <2>3 DEF MinerRead
    <3>2. \A k \in 1 .. Len(wire) : k = 1 \/ k \in 2 .. n
      BY <1>2
    <3>3. \A k \in 1 .. Len(wire) : wire[k].kind # "diff"
      BY <2>1, <2>3, <3>2
    <3> QED BY <1>5, <3>1, <3>3 DEF DiffSent, IsDiff
  <2> QED BY <2>2, <2>3
<1>6. conn # "none"
  BY <1>1 DEF DiffSent
<1> QED BY <1>1, <1>4, <1>5, <1>6 DEF DiffSent, IsDiff

LEMMA MinerReadIInv ==
  ASSUME IInv, MinerRead
  PROVE  IInv'
<1> USE DEF loginVars, diffVars, watchVars, seenVars, minerVars, shareVars
<1>1. /\ wire \in Seq(Msg) /\ wire # <<>> /\ work \in Seq(Coinb1)
      /\ UNCHANGED <<conn, loginVars, diffVars, watchVars, seenVars, shareVars>>
  BY DEF IInv, Typed, SeqTyped, MinerRead
<1>2. Head(wire) \in Msg /\ Tail(wire) \in Seq(Msg)
  BY <1>1, HeadTailProperties
<1>3. ASSUME Head(wire).kind = "diff" PROVE CountTyped' /\ SeqTyped'
  <2>1. told' \in Nat /\ work' = work
    BY <1>2, <1>3, MsgType DEF MinerRead
  <2>2. CountTyped'
    BY <1>1, <2>1 DEF IInv, Typed, CountTyped
  <2>3. SeqTyped'
    BY <1>1, <1>2, <2>1 DEF IInv, Typed, SeqTyped, MinerRead
  <2> QED BY <2>2, <2>3
<1>4. ASSUME Head(wire).kind # "diff" PROVE CountTyped' /\ SeqTyped'
  <2>1. told' = told /\ work' = Append(work, Head(wire).coinb1) /\ Head(wire).coinb1 \in Coinb1
    BY <1>2, <1>4, MsgType DEF MinerRead
  <2>2. work' \in Seq(Coinb1)
    BY <1>1, <2>1, AppendProperties
  <2>3. CountTyped'
    BY <1>1, <2>1 DEF IInv, Typed, CountTyped
  <2>4. SeqTyped'
    BY <1>1, <1>2, <2>2 DEF IInv, Typed, SeqTyped, MinerRead
  <2> QED BY <2>3, <2>4
<1>5. CountTyped' /\ SeqTyped'
  BY <1>3, <1>4
<1>6. LoginTyped'
  BY <1>1 DEF IInv, Typed, LoginTyped
<1>7. LoginInv' /\ RingNewest'
  BY <1>1 DEF IInv, LoginInv, RingNewest
<1>8. RingStamped' /\ QueueStamped'
  BY <1>1 DEF IInv, RingStamped, QueueStamped, Stamped
<1>9. RingSent' /\ DiffSent'
  BY ReadSent, ReadDiff DEF IInv
<1> QED BY <1>5, <1>6, <1>7, <1>8, <1>9 DEF IInv, Typed

-----------------------------------------------------------------------------
(* The theorems. *)

LEMMA NextIInv == IInv /\ [Next]_vars => IInv'
<1> SUFFICES ASSUME IInv, [Next]_vars PROVE IInv'
  OBVIOUS
<1>1. CASE Close \/ UNCHANGED vars
  BY <1>1, CloseIInv
<1>2. CASE NewJob
  BY <1>2, NewJobIInv
<1>3. CASE RelayTake \/ SubmitSend
  BY <1>3, QueueIInv
<1>4. CASE MinerRead
  BY <1>4, MinerReadIInv
<1>5. ASSUME NEW v \in PoolMins, NewPoolMin(v) PROVE IInv'
  BY <1>5, NewPoolMinIInv
<1>6. CASE Accept
  BY <1>6, AcceptIInv
<1>7. ASSUME NEW requested \in SUBSET Bits, Configure(requested) PROVE IInv'
  BY <1>7, ConfigureIInv
<1>8. CASE Subscribe
  BY <1>8, SubscribeIInv
<1>9. CASE Authorize
  BY <1>9, AuthorizeIInv
<1>10. ASSUME NEW i \in 1 .. Len(work),
              NEW nversion \in {<<>>} \cup {<<b>> : b \in SUBSET Bits},
              Submit(work[i], nversion)
       PROVE  IInv'
  <2>1. work[i] \in Coinb1
    BY DEF IInv, Typed, SeqTyped
  <2> QED BY <1>10, <2>1, SubmitIInv
<1>11. CASE OnNotify
  BY <1>11, OnNotifyIInv
<1>12. CASE OnPoolMin
  BY <1>12, OnPoolMinIInv
<1>13. ASSUME NEW secs \in Ticks, Tick(secs) PROVE IInv'
  BY <1>13, TickIInv
<1> QED
  BY <1>1, <1>2, <1>3, <1>4, <1>5, <1>6, <1>7, <1>8, <1>9, <1>10, <1>11, <1>12, <1>13
  DEF Next, Request

LEMMA Invariant == Spec => []IInv
BY InitIInv, NextIInv, PTL DEF Spec

LEMMA SubmissionOk ==
  ASSUME NEW s \in Submission
  PROVE  ShareOk(s)
BY DEF Submission, ShareOk

LEMMA IInvType == IInv => TypeOK
<1> SUFFICES ASSUME IInv PROVE TypeOK
  OBVIOUS
<1>1. \A i \in 1 .. Len(wire) : wire[i].kind \in {"diff", "notify"}
  <2> SUFFICES ASSUME NEW i \in 1 .. Len(wire) PROVE wire[i].kind \in {"diff", "notify"}
    OBVIOUS
  <2>1. wire[i] \in Msg
    BY DEF IInv, Typed, SeqTyped
  <2> QED BY <2>1, MsgType
<1>2. \A i \in 1 .. Len(parked) : ShareOk(parked[i])
  <2> SUFFICES ASSUME NEW i \in 1 .. Len(parked) PROVE ShareOk(parked[i])
    OBVIOUS
  <2>1. parked[i] \in Submission
    BY DEF IInv, Typed, SeqTyped
  <2> QED BY <2>1, SubmissionOk
<1>3. \A i \in 1 .. Len(submit_queue) : ShareOk(submit_queue[i])
  <2> SUFFICES ASSUME NEW i \in 1 .. Len(submit_queue) PROVE ShareOk(submit_queue[i])
    OBVIOUS
  <2>1. submit_queue[i] \in Submission
    BY DEF IInv, Typed, SeqTyped
  <2> QED BY <2>1, SubmissionOk
<1>4. shares_since_snap \in 0 .. MaxShares
  BY ConnectionAssumption DEF IInv, Typed, CountTyped
<1>5. LoginTyped /\ CountTyped /\ SeqTyped
  BY DEF IInv, Typed
<1> QED BY <1>1, <1>2, <1>3, <1>4, <1>5 DEF TypeOK, LoginTyped, CountTyped, SeqTyped, Emitted

\* handle_submit takes coinb1 and difficulty from one entry of the ring, so a
\* forwarded share is stamped with the difficulty its coinb1 was patched for,
\* however vardiff and the pool's floor move between notify and submission.
THEOREM StampsMatch == Spec => []StampMatchesCoinb1
<1>1. IInv => StampMatchesCoinb1
  BY IInvType DEF StampMatchesCoinb1, IInv, QueueStamped, Stamped, Forwarded
<1> QED BY <1>1, Invariant, PTL

\* A miner that logged in in order is last sent the newest job at the
\* difficulty in force, and one that has read its wire hashes the PoT byte of
\* the difficulty it was told: no arm of the loop moves one without the others.
THEOREM WorkKeepsStep == Spec => []WorkInStep
<1>1. IInv => NewestWorkSent
  <2> SUFFICES ASSUME IInv, Idle, in_order, jobs > 0, notify_seen = jobs
               PROVE  emit_ring # <<>> /\ emit_ring[1] = [coinb1 |-> Patched(jobs, current_diff),
                                                          diff |-> current_diff]
    BY DEF NewestWorkSent
  <2>1. /\ emit_ring # <<>> /\ emit_ring[1].coinb1.job = jobs /\ emit_ring[1].diff = current_diff
    BY DEF IInv, RingNewest, Idle
  <2>2. 1 \in 1 .. Len(emit_ring) /\ emit_ring[1] \in Emitted
    BY <2>1, EmptySeq DEF IInv, Typed, SeqTyped
  <2>3. emit_ring[1].coinb1.pot = FloorPot(current_diff)
    BY <2>1, <2>2 DEF IInv, RingStamped
  <2>4. emit_ring[1].coinb1 = Patched(jobs, current_diff)
    BY <2>1, <2>2, <2>3 DEF Emitted, Coinb1, Patched
  <2> QED BY <2>1, <2>2, <2>4 DEF Emitted
<1>2. IInv => ToldMatchesWork
  <2> SUFFICES ASSUME IInv, conn = "open", in_order, wire = <<>>, work # <<>>
               PROVE  work[Len(work)].pot = FloorPot(told)
    BY DEF ToldMatchesWork
  <2>1. PICK w \in Nat : w = Len(work) /\ w >= 1 /\ Len(work) + Len(wire) = w
    BY EmptySeq DEF IInv, Typed, SeqTyped
  <2>2. DOMAIN Outbox = 1 .. w /\ Outbox[w] = [kind |-> "notify", coinb1 |-> work[w]]
    BY <2>1 DEF Outbox
  <2>3. w \in Notifies /\ IsLast(w)
    BY <2>1, <2>2 DEF Notifies, IsLast
  <2>4. Len(emit_ring) >= 1 /\ emit_ring[1].coinb1 = work[w]
    BY <2>2, <2>3 DEF IInv, RingSent
  <2>5. 1 \in 1 .. Len(emit_ring) /\ emit_ring # <<>>
    BY <2>4 DEF IInv, Typed, SeqTyped
  <2>6. emit_ring[1].diff = current_diff /\ emit_ring[1].coinb1.pot = FloorPot(emit_ring[1].diff)
    BY <2>5 DEF IInv, RingNewest, RingStamped
  <2>7. told = current_diff
    <3>1. subscribed /\ \A k \in 1 .. Len(wire) : ~ IsDiff(k)
      BY DEF IInv, LoginInv
    <3> QED BY <3>1 DEF IInv, DiffSent
  <2> QED BY <2>1, <2>4, <2>6, <2>7
<1> QED BY <1>1, <1>2, Invariant, PTL DEF WorkInStep

\* ring_lookup finds, for the last notify sent and for the one before it when
\* that was for another job, the very coinb1 the miner was given, whatever is
\* still on the wire.
THEOREM LastTwoAlwaysResolve == Spec => []LastTwoResolve
<1>1. IInv => LastTwoResolve
  <2> SUFFICES ASSUME IInv, NEW i \in Notifies,
                      \/ IsLast(i)
                      \/ \E j \in Notifies : IsNextToLast(i, j)
                                               /\ Outbox[j].coinb1.job # Outbox[i].coinb1.job
               PROVE  /\ RingLookup(emit_ring, Outbox[i].coinb1.job) # <<>>
                      /\ RingLookup(emit_ring, Outbox[i].coinb1.job)[1].coinb1 = Outbox[i].coinb1
    BY DEF LastTwoResolve
  <2> DEFINE sent == Outbox[i].coinb1
  <2>0. emit_ring \in Seq(Emitted) /\ Len(emit_ring) <= 2
    BY DEF IInv, Typed, SeqTyped
  <2>1. CASE IsLast(i)
    <3>1. Len(emit_ring) >= 1 /\ emit_ring[1].coinb1 = sent
      BY <2>1 DEF IInv, RingSent
    <3> HIDE DEF sent
    <3>2. RingLookup(emit_ring, sent.job) = <<emit_ring[1]>>
      BY <2>0, <3>1, LookupFirst
    <3> QED BY <3>1, <3>2 DEF sent
  <2>2. ASSUME NEW j \in Notifies, IsNextToLast(i, j), Outbox[j].coinb1.job # sent.job
        PROVE  RingLookup(emit_ring, sent.job) # <<>> /\ RingLookup(emit_ring, sent.job)[1].coinb1 = sent
    <3>1. \A k \in Notifies : k \in Nat
      <4>1. DOMAIN Outbox = 1 .. Len(work) + Len(wire) /\ Len(work) + Len(wire) \in Nat
        BY DEF Outbox, IInv, Typed, SeqTyped
      <4> QED BY <4>1 DEF Notifies
    <3>2. IsLast(j)
      BY <2>2, <3>1 DEF IsLast, IsNextToLast
    <3>3. emit_ring[1].coinb1 = Outbox[j].coinb1
      BY <3>2 DEF IInv, RingSent
    <3>4. Len(emit_ring) >= 2 /\ emit_ring[2].coinb1 = sent
      BY <2>2 DEF IInv, RingSent
    <3>5. Len(emit_ring) = 2
      <4>1. PICK n \in Nat : n = Len(emit_ring)
        BY <2>0
      <4>2. n <= 2 /\ n >= 2
        BY <2>0, <3>4, <4>1
      <4>3. n = 2
        BY <4>2
      <4> QED BY <4>1, <4>3
    <3> HIDE DEF sent
    <3>6. RingLookup(emit_ring, sent.job) = <<emit_ring[2]>>
      BY <2>0, <2>2, <3>3, <3>4, <3>5, LookupSecond
    <3> QED BY <3>4, <3>6
  <2> QED BY <2>1, <2>2
<1> QED BY <1>1, Invariant, PTL
=============================================================================
