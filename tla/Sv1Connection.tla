---------------------------- MODULE Sv1Connection ----------------------------
(***************************************************************************)
(* One SV1 miner connection (handle_connection): the requests of the       *)
(* miner, the notify and minimum-difficulty channels of the gateway, the   *)
(* vardiff timer and the two-slot ring of emitted jobs, one action per arm *)
(* of the select loop.                                                     *)
(*                                                                         *)
(* A job is its number, and its coinb1 the pair of the job and the PoT     *)
(* byte patched into it.  Messages to the miner travel on `wire`, so the   *)
(* miner may work on a notify the server has since replaced; a submission  *)
(* is read by the server at once, which loses nothing because only the     *)
(* order of the miner's requests and the server's messages matters.        *)
(* Requests that are refused write an error and change nothing.  The loop  *)
(* polls its arms in a fixed order, but another task may make a later arm  *)
(* ready after an earlier one was polled, so any ready arm may run.        *)
(***************************************************************************)
EXTENDS Integers, Sequences, FiniteSets

CONSTANTS
  Bits,            \* bits of POOL_VERSION_MASK
  VardiffMin, VardiffMax,
  TargetSharesMin, \* shares per minute vardiff aims at
  RecheckSecs,     \* period of the vardiff timer
  Burst,           \* shares needed before the difficulty is raised (16)
  PoolMins,        \* floors a ClientConfig may set
  SubmitCap,       \* capacity of the submit channel
  MaxJobs,         \* bound: jobs the assembler publishes
  MaxShares,       \* bound: submissions accepted
  MaxRaises,       \* bound: ClientConfigs received
  MaxLogins        \* bound: subscribe and authorize requests

ASSUME ConnectionAssumption ==
  /\ VardiffMin \in Nat \ {0} /\ VardiffMax \in Nat /\ VardiffMin <= VardiffMax
  /\ TargetSharesMin \in Nat /\ RecheckSecs \in Nat \ {0} /\ Burst \in Nat
  /\ PoolMins \subseteq Nat /\ SubmitCap \in Nat \ {0}
  /\ MaxJobs \in Nat /\ MaxShares \in Nat /\ MaxRaises \in Nat /\ MaxLogins \in Nat

VARIABLES
  conn,              \* "none", "open", "closed"
  subscribed, authorized,
  in_order,          \* history: subscribed before it was authorized
  logins,            \* subscribe and authorize requests so far
  version_rolling,   \* the negotiated mask as <<mask>>, <<>> when not enabled
  current_diff,
  shares_since_snap,
  nshares,           \* submissions accepted so far
  emit_ring,         \* the emitted jobs, newest first, at most two
  jobs,              \* notify watch channel: number of the newest job
  notify_seen,       \* this connection's receiver of it
  pool_min_diff,     \* minimum-difficulty watch channel: value and version
  pool_min_seen,     \* this connection's receiver of it
  wire,              \* messages to the miner that it has not read
  work,              \* the notifies the miner has read
  told,              \* the last difficulty the miner has read, 0 before
  parked,            \* the share being sent on the submit channel
  submit_queue       \* the submit channel

loginVars == <<subscribed, authorized, in_order, logins, version_rolling>>
diffVars  == <<current_diff, shares_since_snap, emit_ring>>
watchVars == <<jobs, pool_min_diff>>
seenVars  == <<notify_seen, pool_min_seen>>
minerVars == <<work, told>>
shareVars == <<nshares, parked, submit_queue>>
vars == <<conn, loginVars, diffVars, watchVars, seenVars, wire, minerVars, shareVars>>

Larger(a, b)  == IF a >= b THEN a ELSE b
Smaller(a, b) == IF a <= b THEN a ELSE b

\* Position of the highest set bit of a u64, 0 for 0.
FloorPot(x) == CHOOSE p \in 0 .. 63 : (p = 63 \/ x < 2 ^ (p + 1)) /\ (p = 0 \/ ~ (x < 2 ^ p))

\* patch_coinb1_bytes, and with it the coinb1 a notify carries.
Patched(job, diff) == [job |-> job, pot |-> FloorPot(diff)]

Idle == conn = "open" /\ parked = <<>>

Init ==
  /\ conn = "none" /\ subscribed = FALSE /\ authorized = FALSE /\ in_order = FALSE
  /\ logins = 0 /\ version_rolling = <<>>
  /\ current_diff = 0 /\ shares_since_snap = 0 /\ emit_ring = <<>>
  /\ jobs = 0 /\ pool_min_diff = [value |-> 0, version |-> 0]
  /\ notify_seen = 0 /\ pool_min_seen = 0
  /\ wire = <<>> /\ work = <<>> /\ told = 0
  /\ nshares = 0 /\ parked = <<>> /\ submit_queue = <<>>

-----------------------------------------------------------------------------
(* The gateway and the miner. *)

NewJob ==
  /\ jobs < MaxJobs
  /\ jobs' = jobs + 1
  /\ UNCHANGED <<conn, loginVars, diffVars, pool_min_diff, seenVars, wire, minerVars, shareVars>>

NewPoolMin(v) ==
  /\ pool_min_diff.version < MaxRaises
  /\ pool_min_diff' = [value |-> v, version |-> pool_min_diff.version + 1]
  /\ UNCHANGED <<conn, loginVars, diffVars, jobs, seenVars, wire, minerVars, shareVars>>

\* The share relay takes a submission.
RelayTake ==
  /\ submit_queue # <<>>
  /\ submit_queue' = Tail(submit_queue)
  /\ UNCHANGED <<conn, loginVars, diffVars, watchVars, seenVars, wire, minerVars, nshares,
                 parked>>

SetDifficulty(d) == [kind |-> "diff", diff |-> d]
Notify(j, d)     == [kind |-> "notify", coinb1 |-> Patched(j, d)]

MinerRead ==
  /\ wire # <<>>
  /\ wire' = Tail(wire)
  /\ IF Head(wire).kind = "diff"
     THEN told' = Head(wire).diff /\ UNCHANGED work
     ELSE work' = Append(work, Head(wire).coinb1) /\ UNCHANGED told
  /\ UNCHANGED <<conn, loginVars, diffVars, watchVars, seenVars, shareVars>>

-----------------------------------------------------------------------------
(* The life of the connection. *)

\* The receivers are clones of ones that never saw a value, so whatever was
\* published before counts as a change.
Accept ==
  /\ conn = "none"
  /\ conn' = "open"
  /\ current_diff' = Larger(VardiffMin, pool_min_diff.value)
  /\ UNCHANGED <<loginVars, shares_since_snap, emit_ring, watchVars, seenVars, wire, minerVars,
                 shareVars>>

Close ==
  /\ Idle
  /\ conn' = "closed"
  /\ UNCHANGED <<loginVars, diffVars, watchVars, seenVars, wire, minerVars, shareVars>>

\* Mutant: the push overwrites the newest slot and keeps the other.
RingPushOverwrites(ring, e) == <<e>> \o (IF Len(ring) = 2 THEN <<ring[2]>> ELSE <<>>)

RingPush(ring, e) == <<e>> \o SubSeq(ring, 1, Smaller(1, Len(ring)))

RingLookup(ring, job) ==
  LET hits == {i \in 1 .. Len(ring) : ring[i].coinb1.job = job}
  IN  IF hits = {} THEN <<>> ELSE <<ring[CHOOSE i \in hits : \A k \in hits : i <= k]>>

\* Emit the newest job at difficulty d: ring and wire, after the messages ms.
EmitAfter(ms, d) ==
  IF jobs = 0
  THEN wire' = wire \o ms /\ UNCHANGED emit_ring
  ELSE /\ wire' = (wire \o ms) \o <<Notify(jobs, d)>>
       /\ emit_ring' = RingPush(emit_ring, [coinb1 |-> Patched(jobs, d), diff |-> d])

-----------------------------------------------------------------------------
(* Requests of the miner. *)

\* mining.configure with the version-rolling extension; the other extensions
\* are acknowledged without effect.
Configure(requested) ==
  /\ Idle
  /\ version_rolling' = <<requested \cap Bits>>
  /\ UNCHANGED <<conn, subscribed, authorized, in_order, logins, diffVars, watchVars, seenVars,
                 wire, minerVars, shareVars>>

Subscribe ==
  /\ Idle /\ logins < MaxLogins
  /\ subscribed' = TRUE /\ logins' = logins + 1
  /\ wire' = Append(wire, SetDifficulty(current_diff))
  /\ UNCHANGED <<conn, authorized, in_order, version_rolling, diffVars, watchVars, seenVars,
                 minerVars, shareVars>>

\* The job is borrowed, not marked as seen: the notify arm sends it again.
Authorize ==
  /\ Idle /\ logins < MaxLogins
  /\ authorized' = TRUE /\ logins' = logins + 1
  /\ in_order' = (in_order \/ subscribed)
  /\ EmitAfter(<<>>, current_diff)
  /\ UNCHANGED <<conn, subscribed, version_rolling, current_diff, shares_since_snap, watchVars,
                 seenVars, minerVars, shareVars>>

\* The version bits of a submission are required, and must lie in the mask,
\* when rolling was negotiated; otherwise they are ignored.
VersionOk(nversion) ==
  version_rolling # <<>> => nversion # <<>> /\ nversion[1] \subseteq version_rolling[1]

\* What is forwarded of a submission on coinb1 `hashed`; `hashed` is history.
Submitted(hashed, nversion) ==
  LET emitted == RingLookup(emit_ring, hashed.job)
  IN  [job |-> hashed.job, hashed |-> hashed,
       diff |-> IF emitted = <<>> THEN current_diff ELSE emitted[1].diff,
       coinb1 |-> IF emitted = <<>> THEN <<>> ELSE <<emitted[1].coinb1>>,
       version |-> IF version_rolling = <<>> THEN {} ELSE nversion[1]]

\* Mutant: the share is stamped with the difficulty of the moment.
SubmitLiveDiff(hashed, nversion) ==
  /\ Idle /\ subscribed /\ authorized /\ nshares < MaxShares
  /\ VersionOk(nversion)
  /\ parked' = <<[Submitted(hashed, nversion) EXCEPT !.diff = current_diff]>>
  /\ nshares' = nshares + 1
  /\ shares_since_snap' = shares_since_snap + 1
  /\ UNCHANGED <<conn, loginVars, current_diff, emit_ring, watchVars, seenVars, wire, minerVars,
                 submit_queue>>

Submit(hashed, nversion) ==
  /\ Idle /\ subscribed /\ authorized /\ nshares < MaxShares
  /\ VersionOk(nversion)
  /\ parked' = <<Submitted(hashed, nversion)>>
  /\ nshares' = nshares + 1
  /\ shares_since_snap' = shares_since_snap + 1
  /\ UNCHANGED <<conn, loginVars, current_diff, emit_ring, watchVars, seenVars, wire, minerVars,
                 submit_queue>>

\* submit_tx.send().await: the whole connection waits for room.
SubmitSend ==
  /\ parked # <<>> /\ Len(submit_queue) < SubmitCap
  /\ submit_queue' = submit_queue \o parked
  /\ parked' = <<>>
  /\ UNCHANGED <<conn, loginVars, diffVars, watchVars, seenVars, wire, minerVars, nshares>>

-----------------------------------------------------------------------------
(* The other arms of the loop. *)

\* A change of the job is consumed, and sent only to a miner that logged in.
OnNotify ==
  /\ Idle /\ notify_seen < jobs
  /\ notify_seen' = jobs
  /\ IF subscribed /\ authorized THEN EmitAfter(<<>>, current_diff)
                                 ELSE UNCHANGED <<wire, emit_ring>>
  /\ UNCHANGED <<conn, loginVars, current_diff, shares_since_snap, watchVars, pool_min_seen,
                 minerVars, shareVars>>

Floor == Larger(VardiffMin, pool_min_diff.value)

\* Mutant: the new difficulty is sent without a new notify.
ChangeDiffOnly(d) ==
  /\ current_diff' = d
  /\ wire' = Append(wire, SetDifficulty(d))
  /\ UNCHANGED emit_ring

\* The difficulty changes: tell the miner, and re-emit the newest job to one
\* that is authorized.
ChangeDiff(d) ==
  /\ current_diff' = d
  /\ IF authorized THEN EmitAfter(<<SetDifficulty(d)>>, d)
                   ELSE wire' = Append(wire, SetDifficulty(d)) /\ UNCHANGED emit_ring

\* A ClientConfig raised the floor.
OnPoolMin ==
  /\ Idle /\ pool_min_seen < pool_min_diff.version
  /\ pool_min_seen' = pool_min_diff.version
  /\ IF Floor > current_diff /\ subscribed
     THEN ChangeDiff(Floor)
     ELSE UNCHANGED <<current_diff, wire, emit_ring>>
  /\ UNCHANGED <<conn, loginVars, shares_since_snap, watchVars, notify_seen, minerVars,
                 shareVars>>

\* Shares expected in `secs` seconds: at least one, rounded up.
Expected(secs) == Larger(1, (TargetSharesMin * Larger(1, secs) + 59) \div 60)

\* The difficulty vardiff asks for after a window of `secs` seconds.
Retarget(secs) ==
  IF shares_since_snap >= Burst /\ shares_since_snap > 2 * Expected(secs)
  THEN Smaller(2 * current_diff, VardiffMax)
  ELSE IF 2 * shares_since_snap < Expected(secs) /\ secs >= RecheckSecs
       THEN Larger(current_diff \div 2, VardiffMin)
       ELSE current_diff

\* Mutant: the timer does not look at the pool's floor.
NewDiffUnfloored(secs) == Retarget(secs)

NewDiff(secs) == Larger(Retarget(secs), Floor)

\* The vardiff timer.  The snapshot is taken after the handler and the timer
\* is periodic, so the measured window may round down to a second less.
Tick(secs) ==
  /\ Idle
  /\ IF NewDiff(secs) # current_diff /\ subscribed
     THEN ChangeDiff(NewDiff(secs))
     ELSE UNCHANGED <<current_diff, wire, emit_ring>>
  /\ shares_since_snap' = 0
  /\ UNCHANGED <<conn, loginVars, watchVars, seenVars, minerVars, shareVars>>

-----------------------------------------------------------------------------
Ticks == {RecheckSecs - 1, RecheckSecs}

Request ==
  \/ \E requested \in SUBSET Bits : Configure(requested)
  \/ Subscribe \/ Authorize
  \/ \E i \in 1 .. Len(work), nversion \in {<<>>} \cup {<<b>> : b \in SUBSET Bits} :
        Submit(work[i], nversion)

Next ==
  \/ NewJob \/ RelayTake \/ MinerRead
  \/ \E v \in PoolMins : NewPoolMin(v)
  \/ Accept \/ Close \/ Request \/ SubmitSend
  \/ OnNotify \/ OnPoolMin
  \/ \E secs \in Ticks : Tick(secs)

\* The relay keeps taking submissions, and the arms of the loop get their
\* turn: the miner does not send requests faster than they are read.
Fairness ==
  /\ WF_vars(RelayTake) /\ WF_vars(SubmitSend)
  /\ WF_vars(OnNotify) /\ WF_vars(OnPoolMin)
  /\ SF_vars(\E secs \in Ticks : Tick(secs))

Spec == Init /\ [][Next]_vars /\ Fairness

-----------------------------------------------------------------------------
(* Properties. *)

Coinb1 == [job : 1 .. MaxJobs, pot : 0 .. 63]

ShareOk(s) ==
  /\ s.job \in 1 .. MaxJobs /\ s.hashed \in Coinb1 /\ s.diff \in Nat
  /\ s.coinb1 \in Seq(Coinb1) /\ s.version \subseteq Bits

\* The values of every variable: the ring holds at most two jobs, and the
\* difficulty of a subscribed miner is at least the configured minimum.
TypeOK ==
  /\ conn \in {"none", "open", "closed"}
  /\ subscribed \in BOOLEAN /\ authorized \in BOOLEAN /\ in_order \in BOOLEAN
  /\ logins \in 0 .. MaxLogins /\ version_rolling \in {<<>>} \cup {<<b>> : b \in SUBSET Bits}
  /\ current_diff \in Nat /\ (conn # "none" => current_diff >= VardiffMin)
  /\ shares_since_snap \in 0 .. MaxShares /\ nshares \in 0 .. MaxShares
  /\ emit_ring \in Seq([coinb1 : Coinb1, diff : Nat]) /\ Len(emit_ring) <= 2
  /\ jobs \in 0 .. MaxJobs /\ notify_seen \in 0 .. jobs
  /\ pool_min_diff \in [value : Nat, version : 0 .. MaxRaises]
  /\ pool_min_seen \in 0 .. pool_min_diff.version
  /\ \A i \in 1 .. Len(wire) : wire[i].kind \in {"diff", "notify"}
  /\ work \in Seq(Coinb1) /\ told \in Nat
  /\ \A i \in 1 .. Len(parked) : ShareOk(parked[i])
  /\ \A i \in 1 .. Len(submit_queue) : ShareOk(submit_queue[i])

Forwarded == {parked[i] : i \in 1 .. Len(parked)}
               \cup {submit_queue[i] : i \in 1 .. Len(submit_queue)}

\* The PoT byte in a share's coinb1 is the one of the difficulty the share is
\* stamped with, whatever vardiff and the pool did since the notify
\* (SubmittedShare::current_diff).
StampMatchesCoinb1 ==
  /\ TypeOK
  /\ \A s \in Forwarded : s.coinb1 # <<>> => s.coinb1[1].pot = FloorPot(s.diff)

\* A miner that subscribed before it was authorized was last sent the newest
\* job, at the difficulty now in force, once every change of the job has been
\* handled: no arm changes the difficulty or drops a job without a notify.
NewestWorkSent ==
  (Idle /\ in_order /\ jobs > 0 /\ notify_seen = jobs) =>
    emit_ring # <<>> /\ emit_ring[1] = [coinb1 |-> Patched(jobs, current_diff),
                                        diff |-> current_diff]

\* The notifies the miner has read, then what is on the wire.
Outbox ==
  [i \in 1 .. Len(work) + Len(wire) |->
     IF i <= Len(work) THEN [kind |-> "notify", coinb1 |-> work[i]] ELSE wire[i - Len(work)]]

\* Where the notifies sent so far stand in it.
Notifies == {i \in DOMAIN Outbox : Outbox[i].kind = "notify"}

IsLast(i)         == \A k \in Notifies : k <= i
IsNextToLast(i, j) == i < j /\ \A k \in Notifies : k <= i \/ k = j

\* The ring resolves the last notify sent, and the one before it when that was
\* for another job, to the very coinb1 the miner was given (ring_lookup).
LastTwoResolve ==
  \A i \in Notifies :
    LET sent == Outbox[i].coinb1
    IN  IsLast(i) \/ (\E j \in Notifies : IsNextToLast(i, j) /\ Outbox[j].coinb1.job # sent.job) =>
          /\ RingLookup(emit_ring, sent.job) # <<>>
          /\ RingLookup(emit_ring, sent.job)[1].coinb1 = sent

\* A miner that has read everything it was sent hashes the PoT byte of the
\* difficulty it was last told: each change of the difficulty sends both
\* messages (set_difficulty and the notify that follows it).
ToldMatchesWork ==
  (conn = "open" /\ in_order /\ wire = <<>> /\ work # <<>>) =>
    work[Len(work)].pot = FloorPot(told)

\* Job, difficulty and what the miner was told move together: no arm of the
\* select loop changes one of them without the messages for the others.
WorkInStep == NewestWorkSent /\ ToldMatchesWork

\* A subscribed miner is not left below the pool's floor for good: the floor
\* is caught up with by the minimum-difficulty arm or by the timer.
FloorRestored ==
  (conn = "open" /\ subscribed /\ current_diff < pool_min_diff.value)
    ~> (conn = "closed" \/ current_diff >= pool_min_diff.value)

\* What the comment on the ring says: a share on the notify from before a
\* difficulty change carries the coinb1 the miner hashed.
OldNotifyResolves ==
  in_order => \A s \in Forwarded : s.coinb1 # <<>> => s.coinb1[1] = s.hashed
=============================================================================
