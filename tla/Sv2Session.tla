----------------------------- MODULE Sv2Session -----------------------------
(***************************************************************************)
(* One SV2 connection below the channels: the Noise handshake under its    *)
(* timeout, the SetupConnection exchange, and the dispatch loop.  Its      *)
(* select is biased: it looks at the shutdown signal, then at the template *)
(* channel, and polls read_frame last; a pending read_frame is dropped     *)
(* when another arm is taken.  While a handler runs nothing is polled, and *)
(* a handler may wait: for the miner to take what is written to it, or for *)
(* room in the command queue.                                              *)
(*                                                                         *)
(* A byte is named by where it stands in the miner's stream, <<frame,      *)
(* part, k>>: frame 0 is the handshake message, of one part; a later frame *)
(* has a header of HeaderLen bytes (part 1) and a body (part 2) of the     *)
(* length its header gives.                                                *)
(***************************************************************************)
EXTENDS Integers, Sequences

CONSTANTS
  HandshakeLen,  \* bytes of the first handshake message
  HeaderLen,     \* bytes of an encrypted header
  Bodies,        \* bound: body lengths of the frames the miner sends
  MaxUpdates     \* bound: TemplateStates published

ASSUME SessionAssumption ==
  /\ HandshakeLen \in Nat \ {0} /\ HeaderLen \in Nat \ {0}
  /\ Bodies \in Seq(Nat \ {0}) /\ MaxUpdates \in Nat

VARIABLES
  phase,        \* "handshake", "setup", "serving", "closed"
  sent,         \* the next byte the miner sends
  socket,       \* bytes that have arrived and were not read
  eof,          \* the miner closed its side
  reading,      \* read_frame: "no", "read" (in its read loop), "yield"
  current_frame_buf, bytes_read,
  decoded,      \* parts the decoder has of the frame in progress
  dispatched,   \* frames handed to setup and dispatch, in order
  handler,      \* what the task does outside the select and read_frame: "no",
                \* "update" (a template), "forward" (waits for room in the command
                \* queue), "write" or "refuse" (waits for the miner to take frames;
                \* a refusal closes the connection)
  updates,      \* template watch channel: states published so far
  dropped,      \* its publisher is gone
  template_seen,\* this connection's receiver of it
  shutdown      \* shutdown was signalled

bufVars  == <<current_frame_buf, bytes_read, decoded>>
readVars == <<reading, bufVars>>
envVars  == <<sent, eof, updates, dropped, shutdown>>
vars == <<phase, handler, socket, readVars, dispatched, template_seen, envVars>>

Parts(f) == IF f = 0 THEN <<HandshakeLen>> ELSE <<HeaderLen, Bodies[f]>>

\* Part p of frame f as the miner sends it.
Bytes(f, p) == [k \in 1 .. Parts(f)[p] |-> <<f, p, k>>]

\* The byte after b.
Following(b) ==
  IF b[3] < Parts(b[1])[b[2]] THEN <<b[1], b[2], b[3] + 1>>
  ELSE IF b[2] < Len(Parts(b[1])) THEN <<b[1], b[2] + 1, 1>>
  ELSE <<b[1] + 1, 1, 1>>

Init ==
  /\ phase = "handshake" /\ sent = <<0, 1, 1>> /\ socket = <<>> /\ eof = FALSE
  /\ reading = "no" /\ current_frame_buf = <<>> /\ bytes_read = 0 /\ decoded = <<>>
  /\ dispatched = <<>> /\ handler = "no" /\ updates = 0 /\ dropped = FALSE
  /\ template_seen = 0 /\ shutdown = FALSE

-----------------------------------------------------------------------------
(* The miner, the template driver and the operator. *)

taskVars == <<phase, handler, readVars, dispatched, template_seen>>

Arrive ==
  /\ ~ eof /\ sent[1] <= Len(Bodies)
  /\ socket' = Append(socket, sent) /\ sent' = Following(sent)
  /\ UNCHANGED <<taskVars, eof, updates, dropped, shutdown>>

PeerClose ==
  /\ ~ eof
  /\ eof' = TRUE
  /\ UNCHANGED <<taskVars, sent, socket, updates, dropped, shutdown>>

PublishState ==
  /\ updates < MaxUpdates /\ ~ dropped
  /\ updates' = updates + 1
  /\ UNCHANGED <<taskVars, sent, socket, eof, dropped, shutdown>>

\* The last TemplateStatePublisher is dropped.
PublisherGone ==
  /\ ~ dropped
  /\ dropped' = TRUE
  /\ UNCHANGED <<taskVars, sent, socket, eof, updates, shutdown>>

Shutdown ==
  /\ ~ shutdown
  /\ shutdown' = TRUE
  /\ UNCHANGED <<taskVars, sent, socket, eof, updates, dropped>>

-----------------------------------------------------------------------------
(* The end of the connection, and its handlers. *)

Close == phase' = "closed" /\ handler' = "no" /\ reading' = "no"

\* The miner has taken what was written.
WriteDone ==
  /\ handler \in {"write", "refuse"}
  /\ IF handler = "refuse" THEN Close ELSE handler' = "no" /\ UNCHANGED <<phase, reading>>
  /\ UNCHANGED <<socket, bufVars, dispatched, template_seen, envVars>>

WriteFail ==
  /\ handler \in {"write", "refuse"}
  /\ Close
  /\ UNCHANGED <<socket, bufVars, dispatched, template_seen, envVars>>

\* commands_tx has room for the share; an acknowledgement may be due.
ForwardDone ==
  /\ handler = "forward"
  /\ handler' \in {"no", "write"}
  /\ UNCHANGED <<phase, socket, readVars, dispatched, template_seen, envVars>>

\* The upstream task is gone.
ForwardGone ==
  /\ handler = "forward"
  /\ Close
  /\ UNCHANGED <<socket, bufVars, dispatched, template_seen, envVars>>

-----------------------------------------------------------------------------
(* Handshake: read_exact of the whole message, under a timeout, and the      *)
(* second message written without one.                                       *)

HandshakeRead ==
  /\ phase = "handshake" /\ Len(socket) >= HandshakeLen
  /\ socket' = SubSeq(socket, HandshakeLen + 1, Len(socket))
  /\ phase' = "setup" /\ handler' = "write"
  /\ UNCHANGED <<readVars, dispatched, template_seen, envVars>>

\* The timeout, the end of the stream, or a message that is not a handshake.
HandshakeFail ==
  /\ phase = "handshake"
  /\ Close
  /\ UNCHANGED <<socket, bufVars, dispatched, template_seen, envVars>>

-----------------------------------------------------------------------------
(* read_frame. *)

\* writable_len(): the length of the part the decoder waits for.
Expected ==
  IF decoded = <<>> THEN HeaderLen ELSE Bodies[decoded[1][1][1]]

\* Mutant: the buffer is set up anew whenever a read starts.
FitBufferAlways ==
  /\ current_frame_buf' = [k \in 1 .. Expected |-> <<>>]
  /\ bytes_read' = 0

\* The top of the loop: resize the buffer if its length is not the expected.
FitBuffer ==
  IF Len(current_frame_buf) = Expected
  THEN UNCHANGED <<current_frame_buf, bytes_read>>
  ELSE /\ current_frame_buf' = [k \in 1 .. Expected |-> <<>>]
       /\ bytes_read' = 0

\* No handler runs and read_frame is polled: at once in the setup, in the loop
\* only if neither arm before it is ready.
ReadPolled ==
  /\ handler = "no"
  /\ \/ phase = "setup"
     \/ phase = "serving" /\ ~ shutdown /\ template_seen = updates /\ ~ dropped

\* Mutant: a future that yielded is not polled again.
StartReadNoWake ==
  /\ ReadPolled /\ reading = "no"
  /\ FitBuffer
  /\ reading' = "read"
  /\ UNCHANGED <<phase, handler, socket, decoded, dispatched, template_seen, envVars>>

\* A new future is polled, or an old one after its yield_now.
StartRead ==
  /\ ReadPolled /\ reading \in {"no", "yield"}
  /\ FitBuffer
  /\ reading' = "read"
  /\ UNCHANGED <<phase, handler, socket, decoded, dispatched, template_seen, envVars>>

\* read() returns some of the bytes that have arrived.
ReadSome(n) ==
  /\ reading = "read" /\ bytes_read < Len(current_frame_buf)
  /\ n <= Len(socket) /\ n <= Len(current_frame_buf) - bytes_read
  /\ current_frame_buf' = [k \in 1 .. Len(current_frame_buf) |->
                             IF k \in bytes_read + 1 .. bytes_read + n
                             THEN socket[k - bytes_read] ELSE current_frame_buf[k]]
  /\ bytes_read' = bytes_read + n
  /\ socket' = SubSeq(socket, n + 1, Len(socket))
  /\ UNCHANGED <<phase, handler, reading, decoded, dispatched, template_seen, envVars>>

\* The header is decoded: MissingBytes, and yield_now before the body.
DecodeHeader ==
  /\ reading = "read" /\ bytes_read = Len(current_frame_buf) /\ decoded = <<>>
  /\ decoded' = <<current_frame_buf>> /\ bytes_read' = 0 /\ reading' = "yield"
  /\ UNCHANGED <<phase, handler, socket, current_frame_buf, dispatched, template_seen, envVars>>

\* What follows a frame.  The first one decides the SetupConnection exchange: a
\* frame of another type ends the connection, another protocol or
\* REQUIRES_WORK_SELECTION is refused with a reply.  A later one is dropped or
\* changes the channels only, is answered, or is a share to forward.
Handle ==
  \/ phase' = "closed" /\ handler' = "no"
  \/ phase = "setup" /\ phase' = "serving" /\ handler' = "write"
  \/ phase = "setup" /\ UNCHANGED phase /\ handler' = "refuse"
  \/ phase = "serving" /\ UNCHANGED phase /\ handler' \in {"no", "write", "forward"}

\* The body is decoded and read_frame returns.
DecodeBody ==
  /\ reading = "read" /\ bytes_read = Len(current_frame_buf) /\ decoded # <<>>
  /\ dispatched' = Append(dispatched, decoded \o <<current_frame_buf>>)
  /\ decoded' = <<>> /\ bytes_read' = 0 /\ reading' = "no"
  /\ Handle
  /\ UNCHANGED <<socket, current_frame_buf, template_seen, envVars>>

\* The codec refuses what was read.
DecodeFail ==
  /\ reading = "read" /\ bytes_read = Len(current_frame_buf)
  /\ bytes_read' = 0 /\ Close
  /\ UNCHANGED <<socket, current_frame_buf, decoded, dispatched, template_seen, envVars>>

ReadEof ==
  /\ reading = "read" /\ bytes_read < Len(current_frame_buf) /\ eof /\ socket = <<>>
  /\ Close
  /\ UNCHANGED <<socket, bufVars, dispatched, template_seen, envVars>>

-----------------------------------------------------------------------------
(* The arms of the select before read_frame, which drop a pending one. *)

\* Mutant: the arm goes round the loop when shutdown is signalled.
ShutdownArmLoops ==
  /\ phase = "serving" /\ handler = "no" /\ shutdown
  /\ reading' = "no"
  /\ UNCHANGED <<phase, handler, socket, bufVars, dispatched, template_seen, envVars>>

ShutdownArm ==
  /\ phase = "serving" /\ handler = "no" /\ shutdown
  /\ Close
  /\ UNCHANGED <<socket, bufVars, dispatched, template_seen, envVars>>

\* changed() returns for a state not seen, also when the publisher is gone.
TemplateArm ==
  /\ phase = "serving" /\ handler = "no" /\ ~ shutdown /\ template_seen < updates
  /\ reading' = "no" /\ handler' = "update"
  /\ UNCHANGED <<phase, socket, bufVars, dispatched, template_seen, envVars>>

\* The newest state is taken, and the jobs made of it are written to the
\* miner, if there are any.
PushJobs ==
  /\ handler = "update"
  /\ template_seen' = updates /\ handler' \in {"no", "write"}
  /\ UNCHANGED <<phase, socket, readVars, dispatched, envVars>>

\* changed() fails at once, every time: the loop goes round.
PublisherArm ==
  /\ phase = "serving" /\ handler = "no" /\ ~ shutdown /\ template_seen = updates /\ dropped
  /\ reading' = "no"
  /\ UNCHANGED <<phase, handler, socket, bufVars, dispatched, template_seen, envVars>>

-----------------------------------------------------------------------------
ReadStep ==
  \/ StartRead \/ DecodeHeader \/ DecodeBody \/ DecodeFail \/ ReadEof
  \/ \E n \in 1 .. Len(socket) : ReadSome(n)

Next ==
  \/ Arrive \/ PeerClose \/ PublishState \/ PublisherGone \/ Shutdown
  \/ HandshakeRead \/ HandshakeFail
  \/ ReadStep
  \/ ShutdownArm \/ TemplateArm \/ PublisherArm
  \/ PushJobs
  \/ ForwardDone \/ ForwardGone \/ WriteDone \/ WriteFail

\* The connection's task is scheduled: the handshake ends or times out, what
\* has arrived is read, an arm that is ready is taken.  Nothing is assumed of
\* the room in the command queue or of the miner's reading, which a handler
\* may wait for.
Fairness ==
  /\ WF_vars(HandshakeRead \/ HandshakeFail)
  /\ WF_vars(ReadStep) /\ WF_vars(ShutdownArm)
  /\ WF_vars(TemplateArm) /\ WF_vars(PushJobs)

Spec == Init /\ [][Next]_vars /\ Fairness

-----------------------------------------------------------------------------
(* Properties. *)

\* The values of every variable; bytes_read stays within the buffer, and no
\* read is pending while a handler runs.
TypeOK ==
  /\ phase \in {"handshake", "setup", "serving", "closed"}
  /\ reading \in {"no", "read", "yield"} /\ eof \in BOOLEAN /\ shutdown \in BOOLEAN
  /\ handler \in {"no", "update", "forward", "write", "refuse"} /\ dropped \in BOOLEAN
  /\ handler # "no" => reading = "no"
  /\ bytes_read \in 0 .. Len(current_frame_buf) /\ Len(decoded) <= 1
  /\ updates \in 0 .. MaxUpdates /\ template_seen \in 0 .. updates
  /\ Len(dispatched) <= Len(Bodies)

\* However reads are split and dropped, the frames dispatched are the frames
\* the miner sent, in order, none torn, skipped or repeated: read_frame keeps
\* its progress outside the future, so that the select may drop it, although
\* its comment calls it "Not cancellation-safe".
FramesIntact ==
  /\ TypeOK
  /\ \A i \in 1 .. Len(dispatched) : dispatched[i] = <<Bytes(i, 1), Bytes(i, 2)>>

\* No handler waits for ever, neither for the miner nor for the command queue.
HandlersReturn == []<>(handler = "no")

\* A frame that has arrived whole is dispatched, or the connection ends,
\* although template updates drop the read again and again: as long as
\* handlers return and the publisher of the templates lives.
FramesDispatched ==
  HandlersReturn /\ [](~ dropped) =>
    \A i \in 1 .. Len(Bodies) :
      (sent[1] > i) ~> (Len(dispatched) >= i \/ phase = "closed")

\* A connection that serves ends after shutdown is signalled, whatever arrives
\* meanwhile, if its handlers return: the signal is seen between handlers only.
ShutdownEnds ==
  HandlersReturn => ((phase = "serving" /\ shutdown) ~> (phase = "closed"))

\* What the dispatch loop says of a publisher that is gone: "Keep serving
\* existing frames so the miner closes us, not vice versa".
ServedWithoutPublisher ==
  HandlersReturn =>
    \A i \in 1 .. Len(Bodies) :
      (phase = "serving" /\ dropped /\ sent[1] > i)
        ~> (Len(dispatched) >= i \/ phase = "closed" \/ shutdown)
=============================================================================
