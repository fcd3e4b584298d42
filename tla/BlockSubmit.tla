---------------------------- MODULE BlockSubmit ----------------------------
(***************************************************************************)
(* The bitcoind RPC client and the tasks that share it: the template       *)
(* puller, and one task for every block found (BlockSubmitter::submit).    *)
(* The client keeps the credentials it last read; reading them, storing    *)
(* them, sending a request and dropping them after a 401 are separate      *)
(* steps, between which other tasks run and bitcoind restarts with a new   *)
(* cookie.  bitcoind is external: it writes its cookie before it answers,  *)
(* removes it when it stops cleanly and leaves it behind when it crashes.  *)
(* Requests have a deadline, so that each one ends.                        *)
(***************************************************************************)
EXTENDS Integers, FiniteSets

CONSTANTS
  None,         \* no value
  Finds,        \* shares that turn out to be blocks: one task each
  Blocks,       \* the blocks they make; a share sent twice makes the same
  Extras,       \* further nodes blocks are sent to
  MaxRestarts,  \* bound on restarts of bitcoind
  MaxLost       \* bound on answers lost while bitcoind is up

ASSUME BoundsAssumption == MaxRestarts \in Nat /\ MaxLost \in Nat

VARIABLES
  auth,      \* "Cookie" or "UserPass"
  passOk,    \* whether bitcoind knows the static user
  node,      \* bitcoind: [up, cookie], cookies numbered by restart
  file,      \* the cookie file: a cookie, None when there is none to read
  cached,    \* the client's cached_userpass
  call,      \* the call each task is in: [at, userpass, retried]
  outcome,   \* how each task's last call ended
  stage,     \* where each block task is
  blockOf,   \* the block of each task
  fanout,    \* the extra nodes a task still waits for
  chain,     \* blocks bitcoind accepted
  extraHas,  \* blocks each extra node was given
  lost,      \* answers lost so far
  raced      \* history: calls during which bitcoind restarted, or another
             \* task stored a cookie that was no longer bitcoind's

nodeVars == <<auth, passOk, node, file>>
blockVars == <<stage, blockOf, fanout, chain, extraHas>>
vars == <<nodeVars, cached, call, outcome, blockVars, lost, raced>>

\* None is no value of the program's.
ASSUME NamesAssumption ==
  /\ "puller" \notin Finds
  /\ None \notin Nat /\ None \notin {"AuthFailed"}

Puller == "puller"
Tasks == {Puller} \cup Finds

Idle == [at |-> "idle", userpass |-> None, retried |-> FALSE]
Called == [Idle EXCEPT !.at = "userpass"]

\* The static user and password count as the credentials numbered 0.
Static == 0

Init ==
  /\ auth \in {"Cookie", "UserPass"}
  /\ passOk \in (IF auth = "Cookie" THEN {FALSE} ELSE BOOLEAN)
  /\ node = [up |-> TRUE, cookie |-> 1] /\ file = 1
  /\ cached = None
  /\ call = [t \in Tasks |-> IF t = Puller THEN Called ELSE Idle]
  /\ outcome = [t \in Tasks |-> None]
  /\ stage = [f \in Finds |-> "unfound"] /\ blockOf = [f \in Finds |-> None]
  /\ fanout = [f \in Finds |-> {}]
  /\ chain = {} /\ extraHas = [e \in Extras |-> {}]
  /\ lost = 0 /\ raced = {}

----------------------------------------------------------------------------
(* How a call ends *)

\* submit: an error from the primary ends the task; after the primary come
\* the extras, all at once, and then preciousblock, whose error is ignored.
NextStage(f, result) ==
  CASE stage[f] = "submit" /\ result # "ok" -> "err"
    [] stage[f] = "submit" /\ result = "ok" ->
         IF Extras = {} THEN "precious" ELSE "extras"
    [] stage[f] = "precious" -> "ok"

\* The client's call returns to its task; the puller either has a template
\* and asks for the next one, or backs off.
Return(t, result) ==
  LET next == IF t # Puller THEN NextStage(t, result)
              ELSE IF result = "ok" THEN "pull" ELSE "backoff"
      again == next \in {"precious", "pull"}
  IN  /\ outcome' = [outcome EXCEPT ![t] = result]
      /\ call' = [call EXCEPT ![t] = IF again THEN Called ELSE Idle]
      /\ raced' = IF again THEN raced \ {t} ELSE raced
      /\ stage' = IF t = Puller THEN stage ELSE [stage EXCEPT ![t] = next]
      /\ fanout' = IF next = "extras" THEN [fanout EXCEPT ![t] = Extras]
                   ELSE fanout

----------------------------------------------------------------------------
(* Client::call_value *)

\* userpass(): the credentials in the cache are used as they are.
UseCached(t) ==
  /\ call[t].at = "userpass" /\ cached # None
  /\ call' = [call EXCEPT ![t].userpass = cached, ![t].at = "send"]
  /\ UNCHANGED <<nodeVars, cached, outcome, blockVars, lost, raced>>

\* resolve_auth, with the cache empty.
ReadAuth(t) ==
  /\ call[t].at = "userpass" /\ cached = None
  /\ LET read == IF auth = "UserPass" THEN Static ELSE file IN
     IF read = None
     THEN Return(t, "CookieRead") /\ UNCHANGED <<blockOf, chain, extraHas>>
     ELSE /\ call' = [call EXCEPT ![t].userpass = read, ![t].at = "store"]
          /\ UNCHANGED <<outcome, blockVars, raced>>
  /\ UNCHANGED <<nodeVars, cached, lost>>

Good(userpass) == IF auth = "UserPass" THEN passOk ELSE userpass = node.cookie

\* The credentials read are stored, whatever was stored or dropped meanwhile.
Store(t) ==
  /\ call[t].at = "store"
  /\ cached' = call[t].userpass
  /\ call' = [call EXCEPT ![t].at = "send"]
  /\ raced' = IF Good(cached') THEN raced
              ELSE raced \cup {u \in Tasks \ {t} : call[u].at # "idle"}
  /\ UNCHANGED <<nodeVars, outcome, blockVars, lost>>

\* A 401 ends the call at once; the cookie is read again for the next call.
UnauthorizedEnds(t) ==
  /\ call[t].at = "send" /\ node.up /\ ~Good(call[t].userpass)
  /\ cached' = None
  /\ Return(t, "AuthFailed")
  /\ UNCHANGED <<nodeVars, lost, blockOf, chain, extraHas>>

\* http_call: a 401.  Only cookies are worth a second try.
Unauthorized(t) ==
  /\ call[t].at = "send" /\ node.up /\ ~Good(call[t].userpass)
  /\ IF auth = "Cookie" /\ ~call[t].retried
     THEN /\ call' = [call EXCEPT ![t].at = "clear"]
          /\ UNCHANGED <<outcome, blockVars, raced>>
     ELSE Return(t, "AuthFailed") /\ UNCHANGED <<blockOf, chain, extraHas>>
  /\ UNCHANGED <<nodeVars, cached, lost>>

\* The second try is made with the credentials that were refused.
ClearKeeps(t) ==
  /\ call[t].at = "clear"
  /\ call' = [call EXCEPT ![t].at = "userpass", ![t].retried = TRUE]
  /\ UNCHANGED <<nodeVars, cached, outcome, blockVars, lost, raced>>

Clear(t) ==
  /\ call[t].at = "clear"
  /\ cached' = None
  /\ call' = [call EXCEPT ![t].at = "userpass", ![t].retried = TRUE]
  /\ UNCHANGED <<nodeVars, outcome, blockVars, lost, raced>>

\* A transport error: bitcoind is down, or the request timed out unanswered.
SendFails(t) ==
  /\ call[t].at = "send"
  /\ ~node.up \/ lost < MaxLost
  /\ lost' = IF node.up THEN lost + 1 ELSE lost
  /\ Return(t, "Http")
  /\ UNCHANGED <<nodeVars, cached, blockOf, chain, extraHas>>

Submitting(t) == t \in Finds /\ stage[t] = "submit"

\* External: bitcoind may refuse any block, and refuses one it has.
Verdicts(t) ==
  IF ~Submitting(t) THEN {"null"}
  ELSE {"reason"} \cup (IF blockOf[t] \in chain THEN {} ELSE {"null"})

\* Every answer counts as success, as that of preciousblock does.
SubmitResultAny(t, verdict) == "ok"

\* submitblock: null is success, a string is bitcoind's reason to refuse.
SubmitResult(t, verdict) ==
  IF Submitting(t) /\ verdict # "null" THEN "Remote" ELSE "ok"

\* bitcoind answers, or its answer is lost after it has done its part.
Answered(t, verdict) ==
  /\ call[t].at = "send" /\ node.up /\ Good(call[t].userpass)
  /\ verdict \in Verdicts(t)
  /\ chain' = IF Submitting(t) /\ verdict = "null"
              THEN chain \cup {blockOf[t]} ELSE chain
  /\ \/ Return(t, SubmitResult(t, verdict)) /\ UNCHANGED lost
     \/ Return(t, "Http") /\ lost < MaxLost /\ lost' = lost + 1
  /\ UNCHANGED <<nodeVars, cached, blockOf, extraHas>>

----------------------------------------------------------------------------
(* The tasks *)

\* TemplatePuller::run, after its backoff.
PullAgain ==
  /\ call[Puller].at = "idle"
  /\ call' = [call EXCEPT ![Puller] = Called]
  /\ raced' = raced \ {Puller}
  /\ UNCHANGED <<nodeVars, cached, outcome, blockVars, lost>>

\* A share is a block: the relay (SV1) or the callback (SV2) spawns a task.
BlockFound(f, b) ==
  /\ stage[f] = "unfound"
  /\ stage' = [stage EXCEPT ![f] = "submit"]
  /\ blockOf' = [blockOf EXCEPT ![f] = b]
  /\ call' = [call EXCEPT ![f] = Called]
  /\ UNCHANGED <<nodeVars, cached, outcome, fanout, chain, extraHas, lost, raced>>

\* The call to one extra node ends, by its own client, with or without success.
ExtraEnds(f, e) ==
  /\ stage[f] = "extras" /\ e \in fanout[f]
  /\ fanout' = [fanout EXCEPT ![f] = @ \ {e}]
  /\ \/ extraHas' = [extraHas EXCEPT ![e] = @ \cup {blockOf[f]}]
     \/ UNCHANGED extraHas
  /\ UNCHANGED <<nodeVars, cached, call, outcome, stage, blockOf, chain, lost, raced>>

\* The JoinSet is empty.
Joined(f) ==
  /\ stage[f] = "extras" /\ fanout[f] = {}
  /\ stage' = [stage EXCEPT ![f] = "precious"]
  /\ call' = [call EXCEPT ![f] = Called]
  /\ raced' = raced \ {f}
  /\ UNCHANGED <<nodeVars, cached, outcome, blockOf, fanout, chain, extraHas, lost>>

----------------------------------------------------------------------------
(* External: bitcoind *)

NodeStops(clean) ==
  /\ node.up /\ node.cookie <= MaxRestarts
  /\ node' = [node EXCEPT !.up = FALSE]
  /\ file' = IF clean THEN None ELSE file
  /\ UNCHANGED <<auth, passOk, cached, call, outcome, blockVars, lost, raced>>

NodeStarts ==
  /\ ~node.up
  /\ node' = [up |-> TRUE, cookie |-> node.cookie + 1]
  /\ file' = node.cookie + 1
  /\ raced' = raced \cup {t \in Tasks : call[t].at # "idle"}
  /\ UNCHANGED <<auth, passOk, cached, call, outcome, blockVars, lost>>

CallStep(t) ==
  \/ UseCached(t) \/ ReadAuth(t) \/ Store(t) \/ Clear(t)
  \/ Unauthorized(t) \/ SendFails(t)
  \/ \E verdict \in {"null", "reason"} : Answered(t, verdict)

BlockStep(f) == Joined(f) \/ \E e \in Extras : ExtraEnds(f, e)

Next ==
  \/ \E t \in Tasks : CallStep(t)
  \/ PullAgain
  \/ \E f \in Finds : BlockStep(f) \/ \E b \in Blocks : BlockFound(f, b)
  \/ \E clean \in BOOLEAN : NodeStops(clean)
  \/ NodeStarts

\* The runtime runs every task that can run, and the client's timeouts end
\* every request.  Nothing is assumed of bitcoind or of the miners.
Fairness ==
  /\ \A t \in Tasks : WF_vars(CallStep(t))
  /\ \A f \in Finds : WF_vars(BlockStep(f))
  /\ WF_vars(PullAgain)

Spec == Init /\ [][Next]_vars /\ Fairness

----------------------------------------------------------------------------
(* Properties *)

Cookies == 1 .. MaxRestarts + 1
Results == {"ok", "Http", "CookieRead", "AuthFailed", "Remote"}

TypeOK ==
  /\ auth \in {"Cookie", "UserPass"} /\ passOk \in BOOLEAN
  /\ node \in [up : BOOLEAN, cookie : Cookies]
  /\ file \in Cookies \cup {None}
  /\ cached \in Cookies \cup {None, Static}
  /\ call \in [Tasks -> [at : {"idle", "userpass", "store", "send", "clear"},
                         userpass : Cookies \cup {None, Static},
                         retried : BOOLEAN]]
  /\ outcome \in [Tasks -> Results \cup {None}]
  /\ stage \in [Finds -> {"unfound", "submit", "extras", "precious", "ok", "err"}]
  /\ blockOf \in [Finds -> Blocks \cup {None}]
  /\ fanout \in [Finds -> SUBSET Extras]
  /\ chain \subseteq Blocks /\ extraHas \in [Extras -> SUBSET Blocks]
  /\ lost \in 0 .. MaxLost /\ raced \subseteq Tasks

\* A task goes past its first call, and no other node sees its block, only
\* once bitcoind has the block; the same share submitted twice is reported as
\* an error (bitcoind answers "duplicate"), never as a second accepted block,
\* so the gateway never reports two successes for one block.
AcceptedBlockStored ==
  /\ TypeOK
  /\ \A f \in Finds :
       stage[f] \in {"extras", "precious", "ok"} => blockOf[f] \in chain
  /\ \A e \in Extras : extraHas[e] \subseteq chain
  /\ \A f, g \in Finds :
       /\ f # g /\ blockOf[f] = blockOf[g]
       /\ stage[f] \in {"extras", "precious", "ok"}
       => stage[g] \notin {"extras", "precious", "ok"}

\* "auth failed and cookie reload did not help": with a cookie, one reload is
\* enough unless bitcoind restarted during that very call or another task
\* put back, after the reload, the old cookie it had read; a static user is
\* refused only if bitcoind does not know it.
ReloadHelps ==
  \A t \in Tasks :
    (outcome[t] = "AuthFailed" /\ call[t].at = "idle")
      => IF auth = "Cookie" THEN t \in raced ELSE ~passOk

\* Once bitcoind stays up, the puller gets a template again and again, in
\* whatever order the restarts, the stale cookies and the block tasks came:
\* no stale credentials survive in the cache.
PullerRecovers ==
  (<>[]node.up /\ [](auth = "Cookie" \/ passOk)) => []<>(outcome[Puller] = "ok")
=============================================================================
