------------------------------ MODULE Upstream ------------------------------
(***************************************************************************)
(* The DATUM upstream task (run_datum_upstream) and the two tasks of a     *)
(* connection (Connected::run): the receive task that turns frames into    *)
(* events, the writer that drains the command queue, and the main loop     *)
(* that selects between events and template changes, requests the          *)
(* coinbaser once, publishes the pool's overrides, and reconnects with a   *)
(* backoff when the event stream closes.                                   *)
(*                                                                         *)
(* A template is its number; 0 is "none yet".  A command is the number of  *)
(* the template whose coinbaser is requested, 0 for a share.  The pool is  *)
(* external and may send any frame at any time.                            *)
(***************************************************************************)
EXTENDS Integers, Sequences

CONSTANTS
  EventCap,     \* capacity of the event channel (64)
  CmdCap,       \* capacity of the per-connection command channel (64)
  MaxTemplates, \* bound: templates bitcoind delivers
  MaxFrames,    \* bound: frames the pool sends on one connection
  MaxEpoch      \* bound: connections made

ASSUME UpstreamAssumption ==
  /\ EventCap \in Nat \ {0} /\ CmdCap \in Nat \ {0}
  /\ MaxTemplates \in Nat /\ MaxFrames \in Nat /\ MaxEpoch \in Nat

VARIABLES
  templates,           \* template watch channel: number of the newest template
  template_sub,        \* the main loop's receiver: newest template it was woken for
  phase,               \* where the main loop is
  request,             \* the template whose coinbaser is being requested
  client_config_seen,
  coinbaser_requested,
  coinbaser,           \* coinbaser watch channel: template of the newest blob
  overrides,           \* pool_coinbase_tag and pool_min_diff watch channels
  epoch,               \* connections made
  peer,                \* "off", "up", "closed" (by the pool)
  inbound,             \* frames on the wire towards the gateway
  frames,              \* frames the pool sent on this connection
  recv,                \* the receive task: "off", "on", "dead"
  recv_out,            \* the event it is parked on while the channel is full
  events,              \* the event channel
  writer,              \* Connected::run's command loop: "off", "on", "dead"
  cmds,                \* the command channel
  enqueued             \* history: coinbaser requests enqueued on this connection

mainVars == <<template_sub, phase, request, client_config_seen, coinbaser_requested>>
pubVars  == <<coinbaser, overrides>>
poolVars == <<peer, inbound, frames>>
recvVars == <<recv, recv_out, events>>
cmdVars  == <<writer, cmds, enqueued>>
vars == <<templates, mainVars, pubVars, epoch, poolVars, recvVars, cmdVars>>

\* Frames by what decode_event makes of them; "bad" ones do not decode.
Frame == [kind : {"config", "coinbaser", "other", "bad"}, template : 0 .. MaxTemplates]
Event == [kind : {"config", "coinbaser", "other"}, template : 0 .. MaxTemplates]

Phases == {"backoff", "connecting", "select", "request_config", "request_template",
           "recheck"}

Serving == phase \notin {"backoff", "connecting"}

Init ==
  /\ templates = 0 /\ template_sub = 0
  /\ phase = "connecting" /\ request = 0
  /\ client_config_seen = FALSE /\ coinbaser_requested = FALSE
  /\ coinbaser = 0 /\ overrides = [tag |-> FALSE, pool_min |-> FALSE]
  /\ epoch = 0
  /\ peer = "off" /\ inbound = <<>> /\ frames = 0
  /\ recv = "off" /\ recv_out = <<>> /\ events = <<>>
  /\ writer = "off" /\ cmds = <<>> /\ enqueued = 0

-----------------------------------------------------------------------------
(* The connection's life. *)

\* The handshake succeeded: new channels, a receive task, a writer, cleared
\* flags, and a receiver that has seen no template since the gateway started.
ConnectOk ==
  /\ phase = "connecting" /\ epoch < MaxEpoch
  /\ phase' = "select" /\ epoch' = epoch + 1
  /\ client_config_seen' = FALSE /\ coinbaser_requested' = FALSE
  /\ template_sub' = 0
  /\ peer' = "up" /\ inbound' = <<>> /\ frames' = 0
  /\ recv' = "on" /\ recv_out' = <<>> /\ events' = <<>>
  /\ writer' = "on" /\ cmds' = <<>> /\ enqueued' = 0
  /\ UNCHANGED <<templates, request, pubVars>>

ConnectFail ==
  /\ phase = "connecting"
  /\ phase' = "backoff"
  /\ UNCHANGED <<templates, template_sub, request, client_config_seen, coinbaser_requested,
                 pubVars, epoch, poolVars, recvVars, cmdVars>>

BackoffEnd ==
  /\ phase = "backoff"
  /\ phase' = "connecting"
  /\ UNCHANGED <<templates, template_sub, request, client_config_seen, coinbaser_requested,
                 pubVars, epoch, poolVars, recvVars, cmdVars>>

\* Mutant: the main loop stops as soon as the receive task is gone.
StreamClosedEarly ==
  /\ phase = "select" /\ events = <<>> /\ recv = "dead" /\ recv_out = <<>>
  /\ phase' = "backoff"
  /\ overrides' = [tag |-> FALSE, pool_min |-> overrides.pool_min]
  /\ UNCHANGED <<templates, template_sub, request, client_config_seen, coinbaser_requested,
                 coinbaser, epoch, poolVars, recvVars, cmdVars>>

\* events_rx.recv() returns None: every event was taken and both senders, the
\* receive task's and the writer's, are gone.  The tag override is withdrawn,
\* the vardiff floor is not.
StreamClosed ==
  /\ phase = "select" /\ events = <<>> /\ recv = "dead" /\ recv_out = <<>> /\ writer = "dead"
  /\ phase' = "backoff"
  /\ overrides' = [tag |-> FALSE, pool_min |-> overrides.pool_min]
  /\ UNCHANGED <<templates, template_sub, request, client_config_seen, coinbaser_requested,
                 coinbaser, epoch, poolVars, recvVars, cmdVars>>

-----------------------------------------------------------------------------
(* The pool and bitcoind. *)

PublishTemplate ==
  /\ templates < MaxTemplates
  /\ templates' = templates + 1
  /\ UNCHANGED <<mainVars, pubVars, epoch, poolVars, recvVars, cmdVars>>

PoolSend(f) ==
  /\ peer = "up" /\ frames < MaxFrames /\ Serving
  /\ frames' = frames + 1 /\ inbound' = Append(inbound, f)
  /\ UNCHANGED <<templates, mainVars, pubVars, epoch, peer, recvVars, cmdVars>>

PoolClose ==
  /\ peer = "up" /\ Serving
  /\ peer' = "closed"
  /\ UNCHANGED <<templates, mainVars, pubVars, epoch, inbound, frames, recvVars, cmdVars>>

-----------------------------------------------------------------------------
(* The receive task. *)

\* recv_frame and decode_event; a frame that does not decode ends the task.
RecvFrame ==
  /\ recv = "on" /\ recv_out = <<>> /\ inbound # <<>>
  /\ inbound' = Tail(inbound)
  /\ IF Head(inbound).kind = "bad"
     THEN recv' = "dead" /\ recv_out' = <<>>
     ELSE recv' = "on" /\ recv_out' = <<Head(inbound)>>
  /\ UNCHANGED <<templates, mainVars, pubVars, epoch, peer, frames, events, cmdVars>>

\* Mutant: a failed read is retried.
RecvEofRetries ==
  /\ recv = "on" /\ recv_out = <<>> /\ peer = "closed"
  /\ UNCHANGED vars

\* The read fails once the pool has gone, with or without the frames in flight.
RecvEof ==
  /\ recv = "on" /\ recv_out = <<>> /\ peer = "closed"
  /\ recv' = "dead"
  /\ UNCHANGED <<templates, mainVars, pubVars, epoch, poolVars, recv_out, events, cmdVars>>

RecvPut ==
  /\ recv_out # <<>> /\ Len(events) < EventCap
  /\ events' = events \o recv_out
  /\ recv_out' = <<>>
  /\ UNCHANGED <<templates, mainVars, pubVars, epoch, poolVars, recv, cmdVars>>

-----------------------------------------------------------------------------
(* The main loop. *)

TakeEvent(kind) ==
  /\ phase = "select" /\ events # <<>> /\ Head(events).kind = kind
  /\ events' = Tail(events)
  /\ UNCHANGED <<recv, recv_out>>

\* ClientConfig: publish the overrides, then request the coinbaser of the
\* current template, or go on to the recheck when there is none.
OnConfig ==
  /\ TakeEvent("config")
  /\ overrides' = [tag |-> TRUE, pool_min |-> TRUE]
  /\ client_config_seen' = TRUE
  /\ phase' = IF coinbaser_requested THEN "select"
              ELSE IF templates > 0 THEN "request_config" ELSE "recheck"
  /\ request' = IF coinbaser_requested THEN request ELSE templates
  /\ UNCHANGED <<templates, template_sub, coinbaser_requested, coinbaser, epoch, poolVars,
                 cmdVars>>

\* Mutant: the recheck forgets to set the flag.
RecheckForgets ==
  /\ phase = "recheck"
  /\ phase' = "select"
  /\ UNCHANGED <<templates, template_sub, request, client_config_seen, coinbaser_requested,
                 pubVars, epoch, poolVars, recvVars, cmdVars>>

\* The handler reads the template channel a second time to set the flag.
Recheck ==
  /\ phase = "recheck"
  /\ coinbaser_requested' = (templates > 0)
  /\ phase' = "select"
  /\ UNCHANGED <<templates, template_sub, request, client_config_seen, pubVars, epoch,
                 poolVars, recvVars, cmdVars>>

\* Mutant: the template arm only consumes the change.
OnTemplateIgnores ==
  /\ phase = "select" /\ template_sub < templates
  /\ template_sub' = templates
  /\ UNCHANGED <<templates, phase, request, client_config_seen, coinbaser_requested, pubVars,
                 epoch, poolVars, recvVars, cmdVars>>

\* The template arm: request the coinbaser if the ClientConfig came first.
OnTemplate ==
  /\ phase = "select" /\ template_sub < templates
  /\ template_sub' = templates
  /\ IF client_config_seen /\ ~ coinbaser_requested
     THEN phase' = "request_template" /\ request' = templates
     ELSE UNCHANGED <<phase, request>>
  /\ UNCHANGED <<templates, client_config_seen, coinbaser_requested, pubVars, epoch,
                 poolVars, recvVars, cmdVars>>

\* After the send the template arm sets the flag, the other one rechecks.
RequestDone ==
  /\ phase' = IF phase = "request_config" THEN "recheck" ELSE "select"
  /\ coinbaser_requested' = (coinbaser_requested \/ phase = "request_template")
  /\ UNCHANGED <<templates, template_sub, request, client_config_seen, pubVars, epoch,
                 poolVars, recvVars>>

\* commands_tx.send().await: there is room ...
RequestPut ==
  /\ phase \in {"request_config", "request_template"}
  /\ writer = "on" /\ Len(cmds) < CmdCap
  /\ cmds' = Append(cmds, request) /\ enqueued' = enqueued + 1
  /\ UNCHANGED writer
  /\ RequestDone

\* Mutant: a command channel whose reader is gone parks the sender.
RequestRefusedNever == FALSE /\ RequestDone /\ UNCHANGED cmdVars

\* ... or the writer is gone, the error is logged and the flag set all the same.
RequestRefused ==
  /\ phase \in {"request_config", "request_template"}
  /\ writer = "dead"
  /\ UNCHANGED cmdVars
  /\ RequestDone

\* A coinbaser response that parses is published; one that does not is logged.
OnCoinbaser(parses) ==
  /\ TakeEvent("coinbaser")
  /\ coinbaser' = IF parses THEN Head(events).template ELSE coinbaser
  /\ UNCHANGED <<templates, mainVars, overrides, epoch, poolVars, cmdVars>>

\* ShareResponse, BlockNotify, JobValidationRequest, UnknownFrame.
OnOther ==
  /\ TakeEvent("other")
  /\ UNCHANGED <<templates, mainVars, pubVars, epoch, poolVars, cmdVars>>

-----------------------------------------------------------------------------
(* The bridge and the writer. *)

\* The bridge hands a share to the writer.
BridgeShare ==
  /\ writer = "on" /\ Serving /\ Len(cmds) < CmdCap
  /\ cmds' = Append(cmds, 0)
  /\ UNCHANGED <<templates, mainVars, pubVars, epoch, poolVars, recvVars, writer, enqueued>>

\* send_frame succeeds, also for a while after the pool has gone.
Write ==
  /\ writer = "on" /\ cmds # <<>>
  /\ cmds' = Tail(cmds)
  /\ UNCHANGED <<templates, mainVars, pubVars, epoch, poolVars, recvVars, writer, enqueued>>

\* send_frame fails or times out; the receive task is left running.
WriteFail ==
  /\ writer = "on" /\ cmds # <<>>
  /\ writer' = "dead" /\ cmds' = <<>>
  /\ UNCHANGED <<templates, mainVars, pubVars, epoch, poolVars, recvVars, enqueued>>

-----------------------------------------------------------------------------
MainStep ==
  \/ OnConfig \/ Recheck \/ OnTemplate \/ RequestPut \/ RequestRefused
  \/ \E parses \in BOOLEAN : OnCoinbaser(parses)
  \/ OnOther \/ StreamClosed

RecvStep == RecvFrame \/ RecvEof \/ RecvPut

Next ==
  \/ PublishTemplate
  \/ \E f \in Frame : (f.kind = "coinbaser" \/ f.template = 0) /\ PoolSend(f)
  \/ PoolClose
  \/ ConnectOk \/ ConnectFail \/ BackoffEnd
  \/ RecvStep \/ MainStep
  \/ BridgeShare \/ Write \/ WriteFail

\* The tasks are scheduled, the backoff ends, and a task waiting for room in a
\* channel gets its turn (tokio grants permits in FIFO order, so the bridge
\* cannot overtake the main loop for ever).  Nothing is assumed of the pool, of
\* bitcoind or of the miners.
Fairness ==
  /\ WF_vars(RecvStep) /\ WF_vars(MainStep) /\ SF_vars(RequestPut) /\ WF_vars(BackoffEnd)
  /\ WF_vars(Write \/ WriteFail)

\* Miners keep submitting, and a write to a pool that has gone fails sooner or
\* later: TCP answers it with a reset.
Busy ==
  /\ SF_vars(BridgeShare)
  /\ SF_vars(WriteFail /\ peer = "closed")

Spec == Init /\ [][Next]_vars /\ Fairness

-----------------------------------------------------------------------------
(* Properties. *)

\* The values of every variable; an event is never an undecodable frame.
TypeOK ==
  /\ templates \in 0 .. MaxTemplates /\ template_sub \in 0 .. templates
  /\ phase \in Phases /\ request \in 0 .. MaxTemplates
  /\ client_config_seen \in BOOLEAN /\ coinbaser_requested \in BOOLEAN
  /\ coinbaser \in 0 .. MaxTemplates
  /\ overrides \in [tag : BOOLEAN, pool_min : BOOLEAN]
  /\ epoch \in 0 .. MaxEpoch
  /\ peer \in {"off", "up", "closed"} /\ inbound \in Seq(Frame) /\ frames \in 0 .. MaxFrames
  /\ recv \in {"off", "on", "dead"} /\ recv_out \in Seq(Event) /\ events \in Seq(Event)
  /\ writer \in {"off", "on", "dead"} /\ cmds \in Seq(0 .. MaxTemplates)
  /\ enqueued \in Nat

\* The pool's coinbase tag is in force only on a connection whose ClientConfig
\* was received: no teardown path leaves the override behind.
TagWithdrawn == overrides.tag => Serving /\ client_config_seen

\* A connection asks for the coinbaser at most once, and never before the
\* ClientConfig, whichever of template and ClientConfig comes first and
\* however often either comes again.
OneRequest == enqueued > 0 => enqueued = 1 /\ client_config_seen

\* A connection's effects are those of its own ClientConfig: the override and
\* the request exist only after it, on every path through the main loop, and
\* neither survives the connection or is made twice.
ConfigGoverns == TypeOK /\ TagWithdrawn /\ OneRequest

\* Once the ClientConfig and a template are there the request is settled, or
\* the connection ends: neither order of the two signals is forgotten.
RequestSettled ==
  (Serving /\ client_config_seen /\ templates > 0) ~> (coinbaser_requested \/ ~ Serving)

\* The main loop never stays parked on the command channel: a writer that
\* stops reading has dropped the receiver, which releases the sender.
NeverParkedForever ==
  (phase \in {"request_config", "request_template"}) ~> (phase = "select")

\* A connection the pool closed is given up and replaced after the backoff
\* ("Reconnects on disconnect with a fixed backoff", run_datum_upstream).
ClosedReconnects == (Serving /\ peer = "closed") ~> (phase = "backoff")

\* While miners keep submitting, the failing write gives such a connection away
\* although the receive task ends silently (Connected::run).
BusyReconnects == Busy => ClosedReconnects

\* The connection as the share path sees it.
LinkState ==
  IF ~ Serving THEN "down"
  ELSE IF writer = "dead" THEN "broken"
  ELSE IF peer = "closed" THEN "stale" ELSE "up"

Lifecycle == INSTANCE Link WITH link <- LinkState

\* The upstream task implements the connection life cycle the share path
\* assumes: only a failed write breaks a connection, and only a broken one is
\* torn down (StreamClosed waits for the writer's sender too).
LinkLifecycle == Lifecycle!Spec
=============================================================================
