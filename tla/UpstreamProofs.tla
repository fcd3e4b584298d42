--------------------------- MODULE UpstreamProofs ---------------------------
(***************************************************************************)
(* Theorems about Upstream, for channels of any capacity and any number of *)
(* templates, frames and connections.                                      *)
(***************************************************************************)
EXTENDS Upstream, TLAPS

-----------------------------------------------------------------------------
(* The inductive invariant. *)

Requesting == phase \in {"request_config", "request_template"}

\* A handler that is about to ask has its ClientConfig and its template, and
\* nothing was asked before; until the recheck has run the flag is clear.
AskingFirst ==
  /\ Requesting \/ phase = "recheck" => client_config_seen /\ ~ coinbaser_requested
  /\ Requesting => enqueued = 0 /\ templates > 0

\* A request that was made is remembered, by the flag or by the recheck that
\* will find the template it was made for.
AskedOnce ==
  enqueued > 0 =>
    /\ enqueued = 1 /\ client_config_seen /\ templates > 0
    /\ coinbaser_requested \/ phase = "recheck"

\* A connection that is served has a writer and a peer; one that is given up
\* has neither a writer nor a tag.
Ends ==
  /\ Serving => writer # "off" /\ peer # "off"
  /\ ~ Serving => writer # "on"

IInv == TypeOK /\ TagWithdrawn /\ AskingFirst /\ AskedOnce /\ Ends

-----------------------------------------------------------------------------
(* Types. *)

LEMMA EmptyQueues ==
  <<>> \in Seq(Frame) /\ <<>> \in Seq(Event) /\ <<>> \in Seq(0 .. MaxTemplates)
OBVIOUS

LEMMA InitType == Init => TypeOK
<1> SUFFICES ASSUME Init PROVE TypeOK
  OBVIOUS
<1>1. /\ inbound \in Seq(Frame) /\ recv_out \in Seq(Event) /\ events \in Seq(Event)
      /\ cmds \in Seq(0 .. MaxTemplates)
  BY EmptyQueues DEF Init
<1>2. /\ templates \in 0 .. MaxTemplates /\ template_sub \in 0 .. templates
      /\ phase \in Phases /\ request \in 0 .. MaxTemplates /\ coinbaser \in 0 .. MaxTemplates
      /\ epoch \in 0 .. MaxEpoch /\ frames \in 0 .. MaxFrames /\ enqueued \in Nat
  BY UpstreamAssumption DEF Init, Phases
<1>3. /\ client_config_seen \in BOOLEAN /\ coinbaser_requested \in BOOLEAN
      /\ overrides \in [tag : BOOLEAN, pool_min : BOOLEAN]
      /\ peer \in {"off", "up", "closed"} /\ recv \in {"off", "on", "dead"}
      /\ writer \in {"off", "on", "dead"}
  BY DEF Init
<1> QED
  BY <1>1, <1>2, <1>3 DEF TypeOK

\* Taking the head off a queue, and putting an element at its end.
LEMMA Queues ==
  ASSUME NEW S, NEW q \in Seq(S)
  PROVE  /\ q # <<>> => Head(q) \in S /\ Tail(q) \in Seq(S)
         /\ \A x \in S : Append(q, x) \in Seq(S) /\ <<x>> \in Seq(S)
         /\ \A r \in Seq(S) : q \o r \in Seq(S)
OBVIOUS

\* A frame that decodes is an event.
LEMMA FrameEvent == \A f \in Frame : f.kind # "bad" => f \in Event
BY DEF Frame, Event

LEMMA NextType == TypeOK /\ [Next]_vars => TypeOK'
<1> SUFFICES ASSUME TypeOK, [Next]_vars PROVE TypeOK'
  OBVIOUS
<1>0. /\ MaxTemplates \in Nat /\ MaxFrames \in Nat /\ MaxEpoch \in Nat
      /\ templates \in 0 .. MaxTemplates /\ inbound \in Seq(Frame) /\ events \in Seq(Event)
      /\ recv_out \in Seq(Event) /\ cmds \in Seq(0 .. MaxTemplates)
  BY UpstreamAssumption DEF TypeOK
<1> USE DEF mainVars, pubVars, poolVars, recvVars, cmdVars
<1>1. CASE UNCHANGED vars
  BY <1>1 DEF TypeOK, vars
<1>2. CASE PublishTemplate
  BY <1>0, <1>2 DEF TypeOK, PublishTemplate
<1>3. ASSUME NEW f \in Frame, PoolSend(f) PROVE TypeOK'
  <2>1. Append(inbound, f) \in Seq(Frame)
    BY <1>0, Queues
  <2> QED
    BY <1>0, <1>3, <2>1 DEF TypeOK, PoolSend
<1>4. CASE PoolClose
  BY <1>4 DEF TypeOK, PoolClose
<1>5. CASE ConnectOk
  <2>1. /\ inbound' \in Seq(Frame) /\ recv_out' \in Seq(Event) /\ events' \in Seq(Event)
        /\ cmds' \in Seq(0 .. MaxTemplates)
    BY <1>5, EmptyQueues DEF ConnectOk
  <2>2. /\ template_sub' \in 0 .. templates /\ phase' \in Phases /\ epoch' \in 0 .. MaxEpoch
        /\ frames' \in 0 .. MaxFrames /\ enqueued' \in Nat
    BY <1>0, <1>5 DEF TypeOK, ConnectOk, Phases
  <2> QED
    BY <1>5, <2>1, <2>2 DEF TypeOK, ConnectOk
<1>6. CASE ConnectFail \/ BackoffEnd
  BY <1>6 DEF TypeOK, ConnectFail, BackoffEnd, Phases
<1>7. CASE RecvFrame
  <2>1. Head(inbound) \in Frame /\ Tail(inbound) \in Seq(Frame)
    BY <1>0, <1>7, Queues DEF RecvFrame
  <2>2. Head(inbound).kind # "bad" => Head(inbound) \in Event
    BY <2>1, FrameEvent
  <2>3. recv_out' \in Seq(Event) /\ recv' \in {"on", "dead"}
    <3>1. CASE Head(inbound).kind = "bad"
      BY <1>7, <3>1, EmptyQueues DEF RecvFrame
    <3>2. CASE Head(inbound).kind # "bad"
      <4>1. recv' = "on" /\ recv_out' = <<Head(inbound)>>
        BY <1>7, <3>2 DEF RecvFrame
      <4>2. <<Head(inbound)>> \in Seq(Event)
        BY <2>2, <3>2
      <4> QED
        BY <4>1, <4>2
    <3> QED
      BY <3>1, <3>2
  <2> QED
    BY <1>7, <2>1, <2>3 DEF TypeOK, RecvFrame
<1>8. CASE RecvEof
  BY <1>8 DEF TypeOK, RecvEof
<1>9. CASE RecvPut
  <2>1. events \o recv_out \in Seq(Event)
    BY <1>0
  <2> QED
    BY <1>9, <2>1 DEF TypeOK, RecvPut
<1>10. ASSUME NEW k, TakeEvent(k) PROVE Head(events) \in Event /\ Tail(events) \in Seq(Event)
  BY <1>0, <1>10, Queues DEF TakeEvent
<1>11. CASE OnConfig
  <2>1. events' \in Seq(Event)
    BY <1>10, <1>11 DEF OnConfig, TakeEvent
  <2>2. phase' \in Phases /\ request' \in 0 .. MaxTemplates
    BY <1>0, <1>11 DEF TypeOK, OnConfig, Phases
  <2>3. overrides' \in [tag : BOOLEAN, pool_min : BOOLEAN] /\ client_config_seen' \in BOOLEAN
    BY <1>11 DEF OnConfig
  <2> QED
    BY <1>11, <2>1, <2>2, <2>3 DEF TypeOK, OnConfig, TakeEvent
<1>12. CASE Recheck
  <2>1. coinbaser_requested' \in BOOLEAN /\ phase' \in Phases
    BY <1>12 DEF Recheck, Phases
  <2> QED
    BY <1>12, <2>1 DEF TypeOK, Recheck
<1>13. CASE OnTemplate
  <2>1. phase' \in Phases /\ request' \in 0 .. MaxTemplates /\ template_sub' \in 0 .. templates
    BY <1>0, <1>13 DEF TypeOK, OnTemplate, Phases
  <2> QED
    BY <1>13, <2>1 DEF TypeOK, OnTemplate
<1>14. ASSUME RequestDone PROVE phase' \in Phases /\ coinbaser_requested' \in BOOLEAN
  BY <1>14 DEF TypeOK, RequestDone, Phases
<1>15. CASE RequestPut
  <2>1. Append(cmds, request) \in Seq(0 .. MaxTemplates)
    BY <1>0 DEF TypeOK
  <2> QED
    BY <1>14, <1>15, <2>1 DEF TypeOK, RequestPut, RequestDone
<1>16. CASE RequestRefused
  BY <1>14, <1>16 DEF TypeOK, RequestRefused, RequestDone
<1>17. ASSUME NEW parses \in BOOLEAN, OnCoinbaser(parses) PROVE TypeOK'
  <2>1. Head(events) \in Event /\ events' \in Seq(Event)
    BY <1>10, <1>17 DEF OnCoinbaser, TakeEvent
  <2>2. coinbaser' \in 0 .. MaxTemplates
    BY <1>17, <2>1 DEF TypeOK, OnCoinbaser, Event
  <2> QED
    BY <1>17, <2>1, <2>2 DEF TypeOK, OnCoinbaser, TakeEvent
<1>18. CASE OnOther
  <2>1. events' \in Seq(Event)
    BY <1>10, <1>18 DEF OnOther, TakeEvent
  <2> QED
    BY <1>18, <2>1 DEF TypeOK, OnOther, TakeEvent
<1>19. CASE StreamClosed
  <2>1. overrides' \in [tag : BOOLEAN, pool_min : BOOLEAN] /\ phase' \in Phases
    BY <1>19 DEF TypeOK, StreamClosed, Phases
  <2> QED
    BY <1>19, <2>1 DEF TypeOK, StreamClosed
<1>20. CASE BridgeShare
  <2>1. Append(cmds, 0) \in Seq(0 .. MaxTemplates)
    BY <1>0
  <2> QED
    BY <1>20, <2>1 DEF TypeOK, BridgeShare
<1>21. CASE Write \/ WriteFail
  <2>1. cmds # <<>> => Tail(cmds) \in Seq(0 .. MaxTemplates)
    BY <1>0
  <2>2. <<>> \in Seq(0 .. MaxTemplates)
    OBVIOUS
  <2> QED
    BY <1>21, <2>1, <2>2 DEF TypeOK, Write, WriteFail
<1> QED
  BY <1>1, <1>2, <1>3, <1>4, <1>5, <1>6, <1>7, <1>8, <1>9, <1>11, <1>12, <1>13, <1>15, <1>16,
     <1>17, <1>18, <1>19, <1>20, <1>21 DEF Next, RecvStep, MainStep

-----------------------------------------------------------------------------
(* The main loop. *)

LEMMA NextIInv == IInv /\ [Next]_vars => IInv'
<1> SUFFICES ASSUME IInv, [Next]_vars PROVE IInv'
  OBVIOUS
<1>0. /\ TypeOK' /\ templates \in Nat /\ enqueued \in Nat /\ phase \in Phases
      /\ client_config_seen \in BOOLEAN /\ coinbaser_requested \in BOOLEAN
      /\ writer \in {"off", "on", "dead"}
  BY NextType, UpstreamAssumption DEF IInv, TypeOK
<1> SUFFICES TagWithdrawn' /\ AskingFirst' /\ AskedOnce' /\ Ends'
  BY <1>0 DEF IInv
<1> USE DEF IInv, TagWithdrawn, AskingFirst, AskedOnce, Ends, Serving, Requesting,
            mainVars, pubVars, poolVars, recvVars, cmdVars
<1>1. CASE UNCHANGED vars
  BY <1>1 DEF vars
<1>2. CASE PublishTemplate
  BY <1>0, <1>2 DEF PublishTemplate
<1>3. ASSUME NEW f \in Frame, PoolSend(f)
      PROVE  TagWithdrawn' /\ AskingFirst' /\ AskedOnce' /\ Ends'
  BY <1>3 DEF PoolSend
<1>4. CASE PoolClose
  BY <1>4 DEF PoolClose
<1>5. CASE ConnectOk
  BY <1>5 DEF ConnectOk
<1>6. CASE ConnectFail \/ BackoffEnd
  BY <1>6 DEF ConnectFail, BackoffEnd
<1>7. CASE RecvStep
  BY <1>7 DEF RecvStep, RecvFrame, RecvEof, RecvPut
<1>8. CASE OnConfig
  BY <1>0, <1>8 DEF OnConfig, TakeEvent
<1>9. CASE Recheck
  BY <1>0, <1>9 DEF Recheck
<1>10. CASE OnTemplate
  <2>1. template_sub \in Nat
    BY DEF TypeOK
  <2> QED
    BY <1>0, <1>10, <2>1 DEF OnTemplate
<1>11. CASE RequestPut
  BY <1>0, <1>11 DEF RequestPut, RequestDone
<1>12. CASE RequestRefused
  BY <1>0, <1>12 DEF RequestRefused, RequestDone
<1>13. ASSUME NEW parses \in BOOLEAN, OnCoinbaser(parses)
       PROVE  TagWithdrawn' /\ AskingFirst' /\ AskedOnce' /\ Ends'
  BY <1>13 DEF OnCoinbaser, TakeEvent
<1>14. CASE OnOther
  BY <1>14 DEF OnOther, TakeEvent
<1>15. CASE StreamClosed
  BY <1>15 DEF StreamClosed
<1>16. CASE BridgeShare \/ Write \/ WriteFail
  BY <1>16 DEF BridgeShare, Write, WriteFail
<1> QED
  BY <1>1, <1>2, <1>3, <1>4, <1>5, <1>6, <1>7, <1>8, <1>9, <1>10, <1>11, <1>12, <1>13, <1>14,
     <1>15, <1>16 DEF Next, MainStep

LEMMA InitIInv == Init => IInv
<1> SUFFICES ASSUME Init PROVE IInv
  OBVIOUS
<1> QED
  BY InitType DEF Init, IInv, TagWithdrawn, AskingFirst, AskedOnce, Ends, Serving, Requesting

LEMMA SpecIInv == Spec => []IInv
<1> QED
  BY InitIInv, NextIInv, PTL DEF Spec

\* The overrides and the coinbaser request of a connection exist only after
\* its own ClientConfig, the request is made at most once, and the tag does
\* not outlive the connection (run_datum_upstream).
THEOREM ConfigAlwaysGoverns == Spec => []ConfigGoverns
<1>1. IInv => ConfigGoverns
  BY DEF IInv, ConfigGoverns, OneRequest, AskedOnce
<1> QED
  BY <1>1, SpecIInv, PTL

\* The upstream task implements the life cycle of a connection that the share
\* path relies on: only a failed write breaks it, only a broken connection is
\* torn down (Connected::run, run_datum_upstream).
THEOREM UpstreamImplementsLink == Spec => LinkLifecycle
<1>1. Init => Lifecycle!Init
  BY DEF Init, Lifecycle!Init, LinkState, Serving
<1>2. IInv /\ [Next]_vars => [Lifecycle!Next]_LinkState
  <2> SUFFICES ASSUME IInv, [Next]_vars PROVE Lifecycle!Next \/ LinkState' = LinkState
    OBVIOUS
  <2>0. /\ Serving => writer \in {"on", "dead"} /\ peer \in {"up", "closed"}
        /\ ~ Serving => writer # "on"
    BY DEF IInv, Ends, TypeOK
  <2> USE DEF LinkState, Serving, mainVars, pubVars, poolVars, recvVars, cmdVars
  <2>1. CASE ConnectOk
    <3>1. Lifecycle!Connect
      BY <2>1 DEF ConnectOk, Lifecycle!Connect
    <3> QED
      BY <3>1 DEF Lifecycle!Next
  <2>2. CASE PoolClose
    <3>1. Lifecycle!PeerClose \/ LinkState' = LinkState
      BY <2>0, <2>2 DEF PoolClose, Lifecycle!PeerClose
    <3> QED
      BY <3>1 DEF Lifecycle!Next
  <2>3. CASE WriteFail
    <3>1. Lifecycle!WriteFail
      BY <2>0, <2>3 DEF WriteFail, Lifecycle!WriteFail
    <3> QED
      BY <3>1 DEF Lifecycle!Next
  <2>4. CASE StreamClosed
    <3>1. Lifecycle!Teardown
      BY <2>4 DEF StreamClosed, Lifecycle!Teardown
    <3> QED
      BY <3>1 DEF Lifecycle!Next
  <2>5. CASE UNCHANGED vars
    BY <2>5 DEF vars
  <2>6. CASE PublishTemplate \/ ConnectFail \/ BackoffEnd \/ RecvStep \/ BridgeShare \/ Write
    BY <2>6 DEF PublishTemplate, ConnectFail, BackoffEnd, RecvStep, RecvFrame, RecvEof, RecvPut,
                BridgeShare, Write
  <2>7. ASSUME NEW f \in Frame, PoolSend(f) PROVE LinkState' = LinkState
    BY <2>7 DEF PoolSend
  <2>8. CASE OnConfig \/ Recheck \/ OnTemplate \/ OnOther
    BY <2>8 DEF OnConfig, Recheck, OnTemplate, OnOther, TakeEvent
  <2>9. CASE RequestPut \/ RequestRefused
    BY <2>9 DEF RequestPut, RequestRefused, RequestDone
  <2>10. ASSUME NEW parses \in BOOLEAN, OnCoinbaser(parses) PROVE LinkState' = LinkState
    BY <2>10 DEF OnCoinbaser, TakeEvent
  <2> QED
    BY <2>1, <2>2, <2>3, <2>4, <2>5, <2>6, <2>7, <2>8, <2>9, <2>10 DEF Next, MainStep
<1> QED
  BY <1>1, <1>2, SpecIInv, PTL DEF Spec, LinkLifecycle, Lifecycle!Spec
=============================================================================
