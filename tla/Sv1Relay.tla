------------------------------ MODULE Sv1Relay ------------------------------
(***************************************************************************)
(* The SV1 half of the gateway's share path, from the published template   *)
(* to the pool: the notify assembler that numbers and tracks jobs, the     *)
(* share relay that encodes 0x27 bodies under the tracker's lock and sends *)
(* them on the persistent command queue, the per-connection bridge and     *)
(* writer of the DATUM upstream task, and the reset of the send-once flags *)
(* when that task reconnects.  The pool is external: it keeps, for one     *)
(* connection, the jobs announced with 0x01 and the coinbases announced    *)
(* with 0x02, and cannot place a share whose job it was not told about     *)
(* (DATUM_REJECT_BAD_JOB_ID).                                              *)
(*                                                                         *)
(* A share is any submission on a job some miner was notified of; the SV1  *)
(* submit queue holds only such submissions and has no effect of its own.  *)
(***************************************************************************)
EXTENDS JobTracker

CONSTANTS
  Sources,      \* the tasks that encode shares: "sv1" and the SV2 connections
  ExtCap,       \* capacity of the persistent command queue (1024)
  ConnCap,      \* capacity of the per-connection command queue (64)
  MaxTemplates, \* bound: TemplateStates published
  MaxShares,    \* bound: shares the relay takes from the submit queue
  MaxEpoch,     \* bound: connections to the pool
  MaxBlocks     \* bound: shares that solve a block

ASSUME RelayAssumption ==
  /\ "sv1" \in Sources
  /\ ExtCap \in Nat \ {0} /\ ConnCap \in Nat \ {0}
  /\ MaxTemplates \in Nat /\ MaxShares \in Nat /\ MaxEpoch \in Nat /\ MaxBlocks \in Nat
  /\ 0 .. MaxTemplates \subseteq Seeds
  /\ \A t \in 0 .. MaxTemplates : <<"sv1", 0, t>> \in Keys

VARIABLES
  published,    \* TemplateStates published so far; the current seed is one less
  asm_seen,     \* the assembler's watch receiver: states it has observed
  asm,          \* the assembler between its two lock sections
  tick,         \* next SV1 job number (a u32 in the job id)
  nshares,      \* shares taken by the relay
  relay_out,    \* the share the relay is parked on while the queue is full
  ext_queue,    \* commands_tx / external_commands_rx, lives across reconnects
  bridge_alive, \* the bridge task of the current connection
  bridge_out,   \* the command the bridge holds between recv and send
  conn_queue,   \* per-connection command queue read by Connected::run
  link,         \* "down", "up", "stale" (peer gone, writer unaware), "broken"
  epoch,        \* connections made; reset_send_once_flags runs once for each
  pool_slot,    \* pool: job announced for each datum_job_idx on this connection
  pool_coinbase,\* pool: seeds whose coinbase arrived on this connection
  verdicts,     \* history: how the pool placed the shares delivered so far
  spawned       \* the block shares whose submitblock task was spawned

relayVars == <<nshares, relay_out, spawned>>
asmVars   == <<asm_seen, asm, tick>>
linkVars  == <<bridge_alive, bridge_out, conn_queue, link, epoch>>
poolVars  == <<pool_slot, pool_coinbase, verdicts>>
vars == <<trackerVars, published, asmVars, relayVars, ext_queue, linkVars, poolVars>>

NoJob == [key |-> <<"none", 0, 0>>, epoch |-> 0]

\* The job id carries the tick, so every SV1 job has a key of its own.
Sv1Key(t) == <<"sv1", 0, t>>

\* `src`, `n` and `epoch` are history: the task that encoded the share, its
\* number among all shares taken, and the connection whose reset preceded it.
Share == [src : Sources, n : Nat, key : Keys, idx : 0 .. IdxMod - 1, seed : Seeds,
          has01 : BOOLEAN, has02 : BOOLEAN, epoch : Nat, block : BOOLEAN]

\* The 0x27 body of a share on `key`, encoded with the sentinel of `seed`; its
\* job and coinbase sub-blocks always come from the entry.
EncodedShare(src, key, seed, block) ==
  [src |-> src, n |-> nshares, key |-> key, idx |-> by_key[key].idx,
   seed |-> by_key[key].seed, has01 |-> Emits01(key), has02 |-> Emits02(key, seed),
   epoch |-> epoch, block |-> block]

Init ==
  /\ TrackerInit
  /\ published = 0 /\ asm_seen = 0 /\ tick = 0
  /\ asm = [busy |-> FALSE, seed |-> 0, idx |-> 0]
  /\ nshares = 0 /\ relay_out = <<>> /\ spawned = {}
  /\ ext_queue = <<>>
  /\ bridge_alive = FALSE /\ bridge_out = <<>> /\ conn_queue = <<>>
  /\ link = "down" /\ epoch = 0
  /\ pool_slot = [i \in 0 .. IdxMod - 1 |-> NoJob]
  /\ pool_coinbase = {} /\ verdicts = {}

-----------------------------------------------------------------------------
(* Templates and the SV1 notify assembler. *)

\* The TemplateState driver publishes a state with the next seed.
PublishTemplate ==
  /\ published < MaxTemplates
  /\ published' = published + 1
  /\ UNCHANGED <<trackerVars, asmVars, relayVars, ext_queue, linkVars, poolVars>>

\* The assembler wakes on the newest state and takes a slot under the lock.
AsmAllocate ==
  /\ ~ asm.busy /\ asm_seen < published
  /\ asm_seen' = published
  /\ asm' = [busy |-> TRUE, seed |-> published - 1, idx |-> next_datum_idx]
  /\ NextIdx
  /\ UNCHANGED <<published, tick, relayVars, ext_queue, linkVars, poolVars>>

\* It builds the job without the lock, inserts it under a second lock section
\* and then notifies the miners: from here on shares may name this tick.
AsmInsert ==
  /\ asm.busy
  /\ Insert(Sv1Key(tick), asm.seed, asm.idx)
  /\ asm' = [busy |-> FALSE, seed |-> asm.seed, idx |-> asm.idx]
  /\ tick' = tick + 1
  /\ UNCHANGED <<published, asm_seen, relayVars, ext_queue, linkVars, poolVars>>

-----------------------------------------------------------------------------
(* The share relay. *)

\* Look up, encode and mark under one lock; a block is handed to a submitblock
\* task before the share is offered to the command queue.
RelayEncode(t, block) ==
  /\ relay_out = <<>> /\ nshares < MaxShares
  /\ Encode(Sv1Key(t), by_key[Sv1Key(t)].seed)
  /\ relay_out' = <<EncodedShare("sv1", Sv1Key(t), by_key[Sv1Key(t)].seed, block)>>
  /\ nshares' = nshares + 1
  /\ spawned' = IF block THEN spawned \cup {nshares} ELSE spawned
  /\ UNCHANGED <<published, asmVars, ext_queue, linkVars, poolVars>>

\* A share on a job that is no longer tracked is dropped, and so is one whose
\* hex fields do not parse.
RelayDrop(t, parses) ==
  /\ relay_out = <<>> /\ nshares < MaxShares
  /\ Contains(Sv1Key(t)) => ~ parses
  /\ nshares' = nshares + 1
  /\ UNCHANGED <<trackerVars, published, asmVars, relay_out, spawned, ext_queue,
                 linkVars, poolVars>>

\* commands_tx.send().await completes once the queue has room.
RelaySend ==
  /\ relay_out # <<>> /\ Len(ext_queue) < ExtCap
  /\ ext_queue' = ext_queue \o relay_out
  /\ relay_out' = <<>>
  /\ UNCHANGED <<trackerVars, published, asmVars, nshares, spawned, linkVars, poolVars>>

-----------------------------------------------------------------------------
(* The DATUM upstream connection. *)

\* connect() succeeded: the pool starts with an empty slot table, the flags
\* are reset under the lock, a new bridge and a new command queue are made.
Connect ==
  /\ link = "down" /\ epoch < MaxEpoch
  /\ link' = "up" /\ epoch' = epoch + 1
  /\ ResetSendOnceFlags
  /\ bridge_alive' = TRUE /\ bridge_out' = <<>> /\ conn_queue' = <<>>
  /\ pool_slot' = [i \in 0 .. IdxMod - 1 |-> NoJob]
  /\ pool_coinbase' = {}
  /\ UNCHANGED <<published, asmVars, relayVars, ext_queue, verdicts>>

\* The bridge takes a command ...
BridgeTake ==
  /\ bridge_alive /\ bridge_out = <<>> /\ ext_queue # <<>>
  /\ bridge_out' = <<Head(ext_queue)>>
  /\ ext_queue' = Tail(ext_queue)
  /\ UNCHANGED <<trackerVars, published, asmVars, relayVars, bridge_alive, conn_queue,
                 link, epoch, poolVars>>

\* ... and sends it on, waiting for room ...
BridgePut ==
  /\ bridge_out # <<>> /\ link \in {"up", "stale"} /\ Len(conn_queue) < ConnCap
  /\ conn_queue' = conn_queue \o bridge_out
  /\ bridge_out' = <<>>
  /\ UNCHANGED <<trackerVars, published, asmVars, relayVars, ext_queue, bridge_alive,
                 link, epoch, poolVars>>

\* ... or finds the receiver gone, drops the command and returns.
BridgeFail ==
  /\ bridge_out # <<>> /\ link = "broken"
  /\ bridge_out' = <<>> /\ bridge_alive' = FALSE
  /\ UNCHANGED <<trackerVars, published, asmVars, relayVars, ext_queue, conn_queue,
                 link, epoch, poolVars>>

\* The pool applies the share's own sub-blocks before it places the share.
PoolSlotAfter(s) ==
  IF s.has01 THEN [pool_slot EXCEPT ![s.idx] = [key |-> s.key, epoch |-> s.epoch]]
             ELSE pool_slot

PoolCoinbaseAfter(s) ==
  IF s.has02 THEN pool_coinbase \cup {[seed |-> s.seed, epoch |-> s.epoch]}
             ELSE pool_coinbase

\* How the pool places share s: was the share encoded since this connection's
\* reset, does the pool know its job and its coinbase, and does the share
\* repeat a sub-block of the same encoding epoch the pool already has.
Verdict(s) ==
  [fresh    |-> s.epoch = epoch,
   job      |-> PoolSlotAfter(s)[s.idx].key = s.key,
   coinbase |-> \E c \in PoolCoinbaseAfter(s) : c.seed = s.seed,
   repeated |-> \/ s.has01 /\ pool_slot[s.idx] = [key |-> s.key, epoch |-> s.epoch]
                \/ s.has02 /\ [seed |-> s.seed, epoch |-> s.epoch] \in pool_coinbase]

\* Connected::run pops a command and the frame reaches the pool.
Write ==
  /\ link = "up" /\ conn_queue # <<>>
  /\ LET s == Head(conn_queue)
     IN  /\ pool_slot' = PoolSlotAfter(s)
         /\ pool_coinbase' = PoolCoinbaseAfter(s)
         /\ verdicts' = verdicts \cup {Verdict(s)}
  /\ conn_queue' = Tail(conn_queue)
  /\ UNCHANGED <<trackerVars, published, asmVars, relayVars, ext_queue, bridge_alive,
                 bridge_out, link, epoch>>

\* A write into a connection the pool has closed may still succeed locally.
WriteLost ==
  /\ link = "stale" /\ conn_queue # <<>>
  /\ conn_queue' = Tail(conn_queue)
  /\ UNCHANGED <<trackerVars, published, asmVars, relayVars, ext_queue, bridge_alive,
                 bridge_out, link, epoch, poolVars>>

\* send_frame fails or times out: run returns and its receiver is dropped
\* with everything queued in it.
WriteFail ==
  /\ link \in {"up", "stale"} /\ conn_queue # <<>>
  /\ link' = "broken" /\ conn_queue' = <<>>
  /\ UNCHANGED <<trackerVars, published, asmVars, relayVars, ext_queue, bridge_alive,
                 bridge_out, epoch, poolVars>>

\* The pool closes the connection and forgets its slot table.
PeerClose ==
  /\ link = "up"
  /\ link' = "stale"
  /\ UNCHANGED <<trackerVars, published, asmVars, relayVars, ext_queue, bridge_alive,
                 bridge_out, conn_queue, epoch, poolVars>>

\* The event stream closed: the bridge is aborted, with the command it holds.
Teardown ==
  /\ link = "broken"
  /\ link' = "down" /\ bridge_alive' = FALSE /\ bridge_out' = <<>>
  /\ UNCHANGED <<trackerVars, published, asmVars, relayVars, ext_queue, conn_queue,
                 epoch, poolVars>>

-----------------------------------------------------------------------------
RelayStep ==
  \/ \E t \in 0 .. tick - 1, block \in BOOLEAN :
        (block => Cardinality(spawned) < MaxBlocks) /\ RelayEncode(t, block)
  \/ \E t \in 0 .. tick - 1, parses \in BOOLEAN : RelayDrop(t, parses)
  \/ RelaySend

Sv1Next ==
  \/ PublishTemplate \/ AsmAllocate \/ AsmInsert \/ RelayStep
  \/ Connect \/ BridgeTake \/ BridgePut \/ BridgeFail
  \/ Write \/ WriteLost \/ WriteFail \/ PeerClose \/ Teardown

Spec == Init /\ [][Sv1Next]_vars

-----------------------------------------------------------------------------
(* Properties. *)

\* The values of every variable.
TypeOK ==
  /\ TrackerTypeOK
  /\ published \in 0 .. MaxTemplates /\ asm_seen \in 0 .. MaxTemplates
  /\ tick \in 0 .. MaxTemplates
  /\ asm \in [busy : BOOLEAN, seed : Seeds, idx : 0 .. IdxMod - 1]
  /\ nshares \in 0 .. MaxShares
  /\ relay_out \in Seq(Share) /\ ext_queue \in Seq(Share)
  /\ bridge_out \in Seq(Share) /\ conn_queue \in Seq(Share)
  /\ bridge_alive \in BOOLEAN
  /\ link \in {"down", "up", "stale", "broken"}
  /\ epoch \in 0 .. MaxEpoch
  /\ pool_slot \in [0 .. IdxMod - 1 -> [key : Keys \cup {NoJob.key}, epoch : Nat]]
  /\ pool_coinbase \subseteq [seed : Seeds, epoch : Nat]
  /\ verdicts \subseteq [fresh : BOOLEAN, job : BOOLEAN, coinbase : BOOLEAN,
                     repeated : BOOLEAN]
  /\ spawned \subseteq Nat

\* The oldest tick the tracker still holds when n jobs were inserted.
OldestLive(n) == IF n > MAX THEN n - MAX ELSE 0

\* The tracker (insert) holds exactly the MAX newest SV1 jobs, in the order
\* of their ticks: eviction never drops a job a newer one has not displaced,
\* so a submission is dropped only for a job MAX jobs old.
TracksNewestJobs ==
  /\ DOMAIN by_key = {Sv1Key(t) : t \in OldestLive(tick) .. tick - 1}
  /\ order = [i \in 1 .. tick - OldestLive(tick) |-> Sv1Key(OldestLive(tick) + i - 1)]

\* Two jobs the tracker holds never share a pool slot (next_idx), although
\* the 8-bit slot is taken in one lock section and used in another.
DistinctSlots ==
  \A k1, k2 \in DOMAIN by_key : by_key[k1].idx = by_key[k2].idx => k1 = k2

\* A share encoded since the reset of this connection always reaches a pool
\* that knows its job and its coinbase: the share that carries 0x01 and 0x02
\* is ahead of it in every queue.
FreshSharesResolve ==
  \A v \in verdicts : v.fresh => v.job /\ v.coinbase

\* The stronger claim of the reconnect code: after the reset every share the
\* pool sees can be placed, also one that was waiting in the command queue.
AllSharesResolve ==
  \A v \in verdicts : v.job /\ v.coinbase

\* The bulky sub-blocks go to the pool exactly once per job (0x01) and once
\* per template and coinbase (0x02) between two resets, as the share encoder
\* promises: no delivered share repeats one the pool already has.
AnnouncedOnce ==
  \A v \in verdicts : ~ v.repeated
=============================================================================
