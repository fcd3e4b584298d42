------------------------------ MODULE DualRelay ------------------------------
(***************************************************************************)
(* Both protocols on one gateway: the SV2 listener added to the SV1 share  *)
(* path of Sv1Relay.  Each SV2 connection runs one task with a channel     *)
(* manager of its own (channel and job numbers start at 1 on every         *)
(* connection); opening a channel inserts one job into the shared tracker, *)
(* a template update hands out new jobs without inserting them, and a      *)
(* submission is encoded under the tracker's lock with the seed of the     *)
(* template that is current at that moment.  Shares go through a queue and *)
(* a bridge of their own into the persistent command queue of the SV1      *)
(* relay.                                                                  *)
(*                                                                         *)
(* Extended and Standard channels differ in the frames, the extranonce and *)
(* the merkle root only, which the tracker and the queues never see.       *)
(***************************************************************************)
EXTENDS Sv1Relay

CONSTANTS
  Conns,       \* SV2 connections that may be served at the same time
  Sv2Cap,      \* capacity of the SV2 share queue (64)
  MaxAccepts,  \* bound: SV2 connections accepted
  MaxJobId     \* bound: jobs numbered on one SV2 connection

ASSUME DualAssumption ==
  /\ Sv2Cap \in Nat \ {0} /\ MaxAccepts \in Nat /\ MaxJobId \in Nat
  /\ Conns \subseteq Sources /\ "sv1" \notin Conns
  /\ \A i, j \in 1 .. MaxJobId : <<"sv2", i, j>> \in Keys

VARIABLES
  accepts,      \* SV2 connections accepted so far
  mgr,          \* per connection: its task and ChannelManager
  parked,       \* per connection: the share its task is sending
  sv2_queue,    \* sv2_tx / sv2_rx
  sv2_out,      \* the command the SV2 bridge holds between recv and send
  last          \* history: number of the last share of each source delivered

sv2Vars == <<accepts, mgr, parked, sv2_queue, sv2_out>>
dualVars == <<vars, sv2Vars, last>>

Sv2Key(cid, jid) == <<"sv2", cid, jid>>

NewManager == [up |-> TRUE, next_channel_id |-> 1, next_job_id |-> 1, channels |-> {},
               jobs |-> {}, seen |-> 0, opening |-> <<>>, pending |-> <<>>]

DualInit ==
  /\ Init
  /\ accepts = 0
  /\ mgr = [c \in Conns |-> [NewManager EXCEPT !.up = FALSE]]
  /\ parked = [c \in Conns |-> <<>>]
  /\ sv2_queue = <<>> /\ sv2_out = <<>>
  /\ last = [s \in Sources |-> -1]

\* The connection task is in its select loop: not inside a handler.
Serving(c) ==
  mgr[c].up /\ mgr[c].opening = <<>> /\ mgr[c].pending = <<>> /\ parked[c] = <<>>

-----------------------------------------------------------------------------
(* Connections and channels. *)

\* Handshake and SetupConnection succeeded: the task builds its manager from
\* the shared template watch.
Accept(c) ==
  /\ ~ mgr[c].up /\ accepts < MaxAccepts
  /\ accepts' = accepts + 1
  /\ mgr' = [mgr EXCEPT ![c] = NewManager]
  /\ UNCHANGED <<vars, parked, sv2_queue, sv2_out, last>>

\* The miner closes the socket: the task ends and its manager is dropped; the
\* tracker keeps the jobs it inserted.
Disconnect(c) ==
  /\ Serving(c)
  /\ mgr' = [mgr EXCEPT ![c].up = FALSE]
  /\ UNCHANGED <<vars, accepts, parked, sv2_queue, sv2_out, last>>

\* OpenMiningChannel: without a template the open is refused; otherwise a
\* channel id and a job id are taken.
OpenChannel(c) ==
  LET m == mgr[c]
  IN  /\ Serving(c) /\ published > 0 /\ m.next_job_id <= MaxJobId
      /\ mgr' = [mgr EXCEPT ![c] =
           [m EXCEPT !.next_channel_id = @ + 1, !.next_job_id = @ + 1,
                     !.channels = @ \cup {m.next_channel_id},
                     !.jobs = @ \cup {<<m.next_channel_id, m.next_job_id>>},
                     !.opening = <<m.next_channel_id, m.next_job_id, published - 1>>]]
      /\ UNCHANGED <<vars, accepts, parked, sv2_queue, sv2_out, last>>

\* seed_job_tracker, before the reply is written: insert the opened channel's
\* job with slot 0 and the seed of a template that was current at some moment
\* between the open and the lock.
SeedJobTracker(c, seed) ==
  /\ mgr[c].opening # <<>> /\ seed \in mgr[c].opening[3] .. published - 1
  /\ Insert(Sv2Key(mgr[c].opening[1], mgr[c].opening[2]), seed, 0)
  /\ mgr' = [mgr EXCEPT ![c].opening = <<>>]
  /\ UNCHANGED <<published, asmVars, relayVars, ext_queue, linkVars, poolVars,
                 accepts, parked, sv2_queue, sv2_out, last>>

CloseChannel(c, cid) ==
  /\ Serving(c) /\ cid \in mgr[c].channels
  /\ mgr' = [mgr EXCEPT ![c].channels = @ \ {cid},
                        ![c].jobs = {j \in @ : j[1] # cid}]
  /\ UNCHANGED <<vars, accepts, parked, sv2_queue, sv2_out, last>>

\* on_template_update: every open channel gets a new job, in any order.  The
\* jobs are written to the miner and not inserted into the tracker.
TemplateUpdate(c) ==
  LET m == mgr[c]
      n == Cardinality(m.channels)
      ids == m.next_job_id .. m.next_job_id + n - 1
  IN  /\ Serving(c) /\ m.seen < published /\ m.next_job_id + n <= MaxJobId + 1
      /\ \E f \in [m.channels -> ids] :
           /\ \A c1, c2 \in m.channels : f[c1] = f[c2] => c1 = c2
           /\ mgr' = [mgr EXCEPT ![c] =
                [m EXCEPT !.seen = published, !.next_job_id = @ + n,
                          !.jobs = @ \cup {<<cid, f[cid]>> : cid \in m.channels}]]
      /\ UNCHANGED <<vars, accepts, parked, sv2_queue, sv2_out, last>>

-----------------------------------------------------------------------------
(* Shares. *)

\* A submission on an issued job of an open channel: the seed of the current
\* template is read before the tracker's lock is taken.
BeginSubmit(c, cid, jid) ==
  /\ Serving(c) /\ nshares < MaxShares /\ <<cid, jid>> \in mgr[c].jobs
  /\ mgr' = [mgr EXCEPT ![c].pending = <<cid, jid, published - 1>>]
  /\ UNCHANGED <<vars, accepts, parked, sv2_queue, sv2_out, last>>

\* The share is encoded and marked under the lock with that seed, then parked
\* on the queue.
Submit(c, block) ==
  LET p == mgr[c].pending
  IN  /\ p # <<>> /\ nshares < MaxShares
      /\ Encode(Sv2Key(p[1], p[2]), p[3])
      /\ parked' = [parked EXCEPT ![c] =
           <<EncodedShare(c, Sv2Key(p[1], p[2]), p[3], block)>>]
      /\ nshares' = nshares + 1
      /\ mgr' = [mgr EXCEPT ![c].pending = <<>>]
      /\ UNCHANGED <<published, asmVars, relay_out, spawned, ext_queue, linkVars, poolVars,
                     accepts, sv2_queue, sv2_out, last>>

\* A wrong extranonce size and a job the tracker does not hold are answered
\* with an error.
Reject(c, sized) ==
  LET p == mgr[c].pending
  IN  /\ p # <<>>
      /\ Contains(Sv2Key(p[1], p[2])) => ~ sized
      /\ mgr' = [mgr EXCEPT ![c].pending = <<>>]
      /\ UNCHANGED <<vars, accepts, parked, sv2_queue, sv2_out, last>>

\* forward_share_outcome: the send completes, then a block is handed to the
\* block_found callback, which spawns the submitblock task.
Forward(c) ==
  /\ parked[c] # <<>> /\ Len(sv2_queue) < Sv2Cap
  /\ sv2_queue' = sv2_queue \o parked[c]
  /\ parked' = [parked EXCEPT ![c] = <<>>]
  /\ spawned' = IF Head(parked[c]).block THEN spawned \cup {Head(parked[c]).n} ELSE spawned
  /\ UNCHANGED <<trackerVars, published, asmVars, nshares, relay_out, ext_queue, linkVars,
                 poolVars, accepts, mgr, sv2_out, last>>

Sv2BridgeTake ==
  /\ sv2_out = <<>> /\ sv2_queue # <<>>
  /\ sv2_out' = <<Head(sv2_queue)>>
  /\ sv2_queue' = Tail(sv2_queue)
  /\ UNCHANGED <<vars, accepts, mgr, parked, last>>

\* Mutant: the bridge puts its command in front of the queue.
Sv2BridgeJumps ==
  /\ sv2_out # <<>> /\ Len(ext_queue) < ExtCap
  /\ ext_queue' = sv2_out \o ext_queue
  /\ sv2_out' = <<>>
  /\ UNCHANGED <<trackerVars, published, asmVars, relayVars, linkVars, poolVars,
                 accepts, mgr, parked, sv2_queue, last>>

Sv2BridgePut ==
  /\ sv2_out # <<>> /\ Len(ext_queue) < ExtCap
  /\ ext_queue' = ext_queue \o sv2_out
  /\ sv2_out' = <<>>
  /\ UNCHANGED <<trackerVars, published, asmVars, relayVars, linkVars, poolVars,
                 accepts, mgr, parked, sv2_queue, last>>

\* Write of Sv1Relay, with the history of what the pool received.
Deliver ==
  /\ Write
  /\ last' = [last EXCEPT ![Head(conn_queue).src] = Head(conn_queue).n]
  /\ UNCHANGED sv2Vars

-----------------------------------------------------------------------------
\* Blocks are bounded by the shares that carry the block flag anywhere.
BlockBound == Cardinality(spawned) < MaxBlocks

Sv2Step(c) ==
  \/ Accept(c) \/ Disconnect(c) \/ OpenChannel(c)
  \/ \E seed \in 0 .. published - 1 : SeedJobTracker(c, seed)
  \/ TemplateUpdate(c) \/ Forward(c)
  \/ \E cid \in mgr[c].channels : CloseChannel(c, cid)
  \/ \E j \in mgr[c].jobs : BeginSubmit(c, j[1], j[2])
  \/ \E block \in BOOLEAN : (block => BlockBound) /\ Submit(c, block)
  \/ \E sized \in BOOLEAN : Reject(c, sized)

\* The steps of Sv1Relay other than Write.
Sv1Part ==
  /\ \/ PublishTemplate \/ AsmAllocate \/ AsmInsert \/ RelayStep
     \/ Connect \/ BridgeTake \/ BridgePut \/ BridgeFail
     \/ WriteLost \/ WriteFail \/ PeerClose \/ Teardown
  /\ UNCHANGED <<sv2Vars, last>>

DualNext ==
  \/ Sv1Part \/ Deliver
  \/ \E c \in Conns : Sv2Step(c)
  \/ Sv2BridgeTake \/ Sv2BridgePut

DualSpec == DualInit /\ [][DualNext]_dualVars

-----------------------------------------------------------------------------
(* Properties. *)

\* The values of every variable, the SV1 part included.
DualTypeOK ==
  /\ TypeOK
  /\ accepts \in 0 .. MaxAccepts
  /\ mgr \in [Conns -> [up : BOOLEAN, next_channel_id : 1 .. MaxJobId + 1,
                        next_job_id : 1 .. MaxJobId + 1,
                        channels : SUBSET (1 .. MaxJobId),
                        jobs : SUBSET ((1 .. MaxJobId) \X (1 .. MaxJobId)),
                        seen : 0 .. MaxTemplates,
                        opening : {<<>>} \cup ((1 .. MaxJobId) \X (1 .. MaxJobId) \X Seeds),
                        pending : {<<>>} \cup ((1 .. MaxJobId) \X (1 .. MaxJobId) \X Seeds)]]
  /\ parked \in [Conns -> Seq(Share)]
  /\ sv2_queue \in Seq(Share) /\ sv2_out \in Seq(Share)
  /\ last \in [Sources -> Int]

\* Every entry of the tracker is in the eviction queue, however often SV2
\* connections insert the same (channel_id, job_id) again: no entry can stay
\* in the map for ever (insert).
LiveKeysQueued ==
  /\ DualTypeOK
  /\ \A k \in DOMAIN by_key : \E i \in 1 .. Len(order) : order[i] = k

\* Shares of one source (the SV1 relay, or one SV2 connection) reach the pool
\* in the order they were encoded, through two bridges, two or three queues
\* and any number of reconnects.
DeliveredInOrder ==
  [][\A s \in Sources : last'[s] >= last[s]]_last

\* Every queue between an SV2 connection and the DATUM upstream is full.
Saturated == Len(sv2_queue) = Sv2Cap /\ sv2_out # <<>> /\ Len(ext_queue) = ExtCap

\* The gateway rule of the SV1 relay, asked of SV2: a found block is handed to
\* submitblock and does not wait for the DATUM queue to drain.
SubmitBlockFirst ==
  \A c \in Conns : Saturated /\ parked[c] # <<>> =>
    (Head(parked[c]).block => Head(parked[c]).n \in spawned)
=============================================================================
