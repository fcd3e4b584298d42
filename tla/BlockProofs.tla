---------------------------- MODULE BlockProofs ----------------------------
(***************************************************************************)
(* How a block comes about, and what becomes of it.  First the theorems    *)
(* about BlockSubmit, for every number of tasks, blocks, extra nodes,      *)
(* restarts of bitcoind and lost answers; then those about Work, for every *)
(* configuration, template, difficulty and hash its assumptions admit.     *)
(***************************************************************************)
EXTENDS BlockSubmit, Work, WellFoundedInduction, NaturalsInduction, SequenceTheorems, TLAPS

----------------------------------------------------------------------------
(* The inductive invariant. *)

Past == {"extras", "precious", "ok"}

\* A block task is in a call only while it submits or calls preciousblock.
CallsInStage ==
  \A f \in Finds : call[f].at # "idle" => stage[f] \in {"submit", "precious"}

\* A task that has found its block has one.
BlocksNamed == \A f \in Finds : stage[f] # "unfound" => blockOf[f] \in Blocks

\* What AcceptedBlockStored says beside the types.
Stored ==
  /\ \A f \in Finds : stage[f] \in Past => blockOf[f] \in chain
  /\ \A e \in Extras : extraHas[e] \subseteq chain
  /\ \A f, g \in Finds :
       f # g /\ blockOf[f] = blockOf[g] /\ stage[f] \in Past => stage[g] \notin Past

\* The cookie file is bitcoind's while it is up, and no other cookie's after;
\* a restart is left for a bitcoind that is down.
FileCurrent ==
  /\ file \in {None, node.cookie}
  /\ node.up => file = node.cookie
  /\ ~node.up => node.cookie <= MaxRestarts

\* A call on its second try that nothing raced with uses the current cookie.
SecondTry ==
  \A t \in Tasks :
    (auth = "Cookie" /\ t \notin raced /\ call[t].retried) =>
      /\ call[t].at = "userpass" => cached \in {None, node.cookie}
      /\ call[t].at \in {"store", "send"} => call[t].userpass = node.cookie

IInv ==
  TypeOK /\ CallsInStage /\ BlocksNamed /\ Stored /\ FileCurrent /\ SecondTry /\ ReloadHelps

----------------------------------------------------------------------------
(* Steps. *)

CallType == [at : {"idle", "userpass", "store", "send", "clear"},
             userpass : Cookies \cup {None, Static}, retried : BOOLEAN]

LEMMA IdleCalled ==
  /\ Idle \in CallType /\ Called \in CallType
  /\ Idle.at = "idle" /\ Called.at = "userpass"
  /\ Idle.retried = FALSE /\ Called.retried = FALSE
BY DEF Idle, Called, CallType

\* A call that ends, whatever its task does next.
LEMMA ReturnEffect ==
  ASSUME IInv, NEW t \in Tasks, NEW result \in Results, call[t].at # "idle", Return(t, result)
  PROVE  /\ call' \in [Tasks -> CallType] /\ outcome' \in [Tasks -> Results \cup {None}]
         /\ stage' \in [Finds -> {"unfound", "submit", "extras", "precious", "ok", "err"}]
         /\ fanout' \in [Finds -> SUBSET Extras] /\ raced' \subseteq Tasks
         /\ CallsInStage'
         /\ \A f \in Finds : stage'[f] # "unfound" => stage[f] # "unfound"
         /\ \A f \in Finds : stage'[f] \in Past =>
              stage[f] \in Past \/ (f = t /\ stage[f] = "submit" /\ result = "ok")
         /\ \A u \in Tasks \ {t} : /\ call'[u] = call[u] /\ outcome'[u] = outcome[u]
                                   /\ u \in raced' <=> u \in raced
         /\ call'[t].retried = FALSE /\ outcome'[t] = result
         /\ result = "AuthFailed" => raced' = raced
<1> DEFINE next == IF t # Puller THEN NextStage(t, result)
                   ELSE IF result = "ok" THEN "pull" ELSE "backoff"
           again == next \in {"precious", "pull"}
<1>0. /\ call \in [Tasks -> CallType] /\ outcome \in [Tasks -> Results \cup {None}]
      /\ stage \in [Finds -> {"unfound", "submit", "extras", "precious", "ok", "err"}]
      /\ fanout \in [Finds -> SUBSET Extras] /\ raced \subseteq Tasks
  BY DEF IInv, TypeOK, CallType
<1>1. /\ outcome' = [outcome EXCEPT ![t] = result]
      /\ call' = [call EXCEPT ![t] = IF again THEN Called ELSE Idle]
      /\ raced' = IF again THEN raced \ {t} ELSE raced
      /\ stage' = IF t = Puller THEN stage ELSE [stage EXCEPT ![t] = next]
      /\ fanout' = IF next = "extras" THEN [fanout EXCEPT ![t] = Extras] ELSE fanout
  BY DEF Return
<1>2. Puller \notin Finds /\ Tasks = {Puller} \cup Finds
  BY NamesAssumption DEF Puller, Tasks
<1>3. ASSUME t # Puller
      PROVE  /\ t \in Finds /\ stage[t] \in {"submit", "precious"}
             /\ next \in {"extras", "precious", "ok", "err"}
             /\ next \in Past => stage[t] \in Past \/ (stage[t] = "submit" /\ result = "ok")
             /\ result = "AuthFailed" => next \in {"ok", "err"}
  <2>1. t \in Finds /\ stage[t] \in {"submit", "precious"}
    BY <1>2, <1>3 DEF IInv, CallsInStage
  <2>2. CASE stage[t] = "submit" /\ result # "ok"
    <3>1. next = "err"
      BY <1>3, <2>2 DEF NextStage
    <3> QED
      BY <2>1, <3>1 DEF Past
  <2>3. CASE stage[t] = "submit" /\ result = "ok"
    <3>1. next = IF Extras = {} THEN "precious" ELSE "extras"
      BY <1>3, <2>3 DEF NextStage
    <3> QED
      BY <2>1, <2>3, <3>1 DEF Past
  <2>4. CASE stage[t] = "precious"
    <3>1. next = "ok"
      BY <1>3, <2>4 DEF NextStage
    <3> QED
      BY <2>1, <2>4, <3>1 DEF Past
  <2> QED
    BY <2>1, <2>2, <2>3, <2>4
<1>4. ASSUME t = Puller
      PROVE  next \in {"pull", "backoff"} /\ (result = "AuthFailed" => next = "backoff")
  BY <1>4
<1> HIDE DEF next
<1>5. /\ call' \in [Tasks -> CallType] /\ outcome' \in [Tasks -> Results \cup {None}]
      /\ call'[t].retried = FALSE /\ outcome'[t] = result
      /\ \A u \in Tasks \ {t} : call'[u] = call[u] /\ outcome'[u] = outcome[u]
  BY <1>0, <1>1, IdleCalled
<1>6. /\ stage' \in [Finds -> {"unfound", "submit", "extras", "precious", "ok", "err"}]
      /\ fanout' \in [Finds -> SUBSET Extras] /\ raced' \subseteq Tasks
  <2>1. CASE t = Puller
    BY <1>0, <1>1, <1>4, <2>1
  <2>2. CASE t # Puller
    BY <1>0, <1>1, <1>3, <2>2
  <2> QED
    BY <2>1, <2>2
<1>7. /\ \A f \in Finds : stage'[f] # "unfound" => stage[f] # "unfound"
      /\ \A f \in Finds : stage'[f] \in Past =>
           stage[f] \in Past \/ (f = t /\ stage[f] = "submit" /\ result = "ok")
  <2>1. CASE t = Puller
    BY <1>1, <2>1
  <2>2. CASE t # Puller
    BY <1>0, <1>1, <1>3, <2>2
  <2> QED
    BY <2>1, <2>2
<1>8. /\ \A u \in Tasks \ {t} : u \in raced' <=> u \in raced
      /\ result = "AuthFailed" => raced' = raced
  BY <1>1, <1>3, <1>4
<1>9. CallsInStage'
  <2>1. ASSUME NEW f \in Finds, call'[f].at # "idle" PROVE stage'[f] \in {"submit", "precious"}
    <3>1. CASE f = t
      <4>1. next = "precious"
        BY <1>0, <1>1, <1>2, <1>3, <2>1, <3>1, IdleCalled
      <4> QED
        BY <1>0, <1>1, <1>2, <2>1, <3>1, <4>1
    <3>2. CASE f # t
      <4>1. call'[f] = call[f]
        BY <1>2, <1>5, <2>1, <3>2
      <4>2. stage'[f] = stage[f]
        BY <1>0, <1>1, <2>1, <3>2
      <4> QED
        BY <2>1, <4>1, <4>2 DEF IInv, CallsInStage
    <3> QED
      BY <3>1, <3>2
  <2> QED
    BY <2>1 DEF CallsInStage
<1> QED
  BY <1>5, <1>6, <1>7, <1>8, <1>9

\* A call ends: the invariant is kept if the result is honest about the chain
\* and about the credentials.
LEMMA ReturnStep ==
  ASSUME IInv, NEW t \in Tasks, NEW result \in Results, call[t].at # "idle", Return(t, result),
         UNCHANGED <<nodeVars, cached, blockOf, extraHas>>, lost' \in 0 .. MaxLost,
         chain \subseteq chain', chain' \subseteq Blocks,
         (t \in Finds /\ stage[t] = "submit" /\ result = "ok") =>
            blockOf[t] \in chain' /\ blockOf[t] \notin chain,
         result = "AuthFailed" => IF auth = "Cookie" THEN t \in raced ELSE ~passOk
  PROVE  IInv'
<1>0. /\ call' \in [Tasks -> CallType] /\ outcome' \in [Tasks -> Results \cup {None}]
      /\ stage' \in [Finds -> {"unfound", "submit", "extras", "precious", "ok", "err"}]
      /\ fanout' \in [Finds -> SUBSET Extras] /\ raced' \subseteq Tasks
  BY ReturnEffect
<1>1. /\ CallsInStage'
      /\ \A f \in Finds : stage'[f] # "unfound" => stage[f] # "unfound"
      /\ \A f \in Finds : stage'[f] \in Past =>
           stage[f] \in Past \/ (f = t /\ stage[f] = "submit" /\ result = "ok")
  BY ReturnEffect
<1>2. /\ \A u \in Tasks \ {t} : /\ call'[u] = call[u] /\ outcome'[u] = outcome[u]
                                /\ u \in raced' <=> u \in raced
      /\ call'[t].retried = FALSE /\ outcome'[t] = result
      /\ result = "AuthFailed" => raced' = raced
  BY ReturnEffect
<1>3. TypeOK'
  BY <1>0 DEF IInv, TypeOK, CallType, nodeVars
<1>4. BlocksNamed'
  BY <1>1 DEF IInv, BlocksNamed
<1>5. Stored'
  <2>1. \A f \in Finds : stage'[f] \in Past => blockOf[f] \in chain'
    BY <1>1 DEF IInv, Stored
  <2>2. \A e \in Extras : extraHas'[e] \subseteq chain'
    BY DEF IInv, Stored
  <2>3. ASSUME NEW f \in Finds, NEW g \in Finds, f # g, blockOf[f] = blockOf[g],
               stage'[f] \in Past, stage'[g] \in Past
        PROVE  FALSE
    BY <1>1, <2>3 DEF IInv, Stored
  <2> QED
    BY <2>1, <2>2, <2>3 DEF Stored
<1>6. FileCurrent'
  BY DEF IInv, FileCurrent, nodeVars
<1>7. SecondTry'
  BY <1>2 DEF IInv, SecondTry, nodeVars
<1>8. ReloadHelps'
  BY <1>2 DEF IInv, ReloadHelps, nodeVars
<1> QED
  BY <1>1, <1>3, <1>4, <1>5, <1>6, <1>7, <1>8 DEF IInv

\* Steps inside a call leave the blocks and the results alone.
LEMMA CallFrame ==
  ASSUME IInv, UNCHANGED <<nodeVars, outcome, blockVars, lost>>, raced \subseteq raced',
         raced' \subseteq Tasks, cached' \in Cookies \cup {None, Static},
         NEW t \in Tasks, NEW new \in CallType, call' = [call EXCEPT ![t] = new],
         call[t].at # "idle", new.at # "idle",
         auth = "Cookie" /\ t \notin raced' /\ new.retried =>
           /\ new.at = "userpass" => cached' \in {None, node.cookie}
           /\ new.at \in {"store", "send"} => new.userpass = node.cookie,
         auth = "Cookie" /\ cached' \notin {None, node.cookie, cached} =>
           \A u \in Tasks \ {t} : call[u].at # "idle" => u \in raced'
  PROVE  IInv'
<1>0. /\ call \in [Tasks -> CallType] /\ Tasks = {Puller} \cup Finds
      /\ call' \in [Tasks -> CallType]
      /\ call'[t] = new /\ \A u \in Tasks \ {t} : call'[u] = call[u]
  BY DEF IInv, TypeOK, CallType, Tasks
<1>1. TypeOK'
  BY <1>0 DEF IInv, TypeOK, CallType, nodeVars, blockVars
<1>2. CallsInStage'
  BY <1>0 DEF IInv, CallsInStage, blockVars
<1>3. BlocksNamed' /\ Stored' /\ FileCurrent'
  BY DEF IInv, BlocksNamed, Stored, FileCurrent, nodeVars, blockVars
<1>4. SecondTry'
  <2> SUFFICES ASSUME NEW u \in Tasks, auth = "Cookie", u \notin raced', call'[u].retried
               PROVE  /\ call'[u].at = "userpass" => cached' \in {None, node.cookie}
                      /\ call'[u].at \in {"store", "send"} => call'[u].userpass = node.cookie
    BY DEF SecondTry, nodeVars
  <2>1. CASE u = t
    BY <1>0, <2>1
  <2>2. CASE u # t
    <3>1. call'[u] = call[u] /\ u \notin raced
      BY <1>0, <2>2
    <3>2. /\ call[u].at = "userpass" => cached \in {None, node.cookie}
          /\ call[u].at \in {"store", "send"} => call[u].userpass = node.cookie
      BY <3>1 DEF IInv, SecondTry
    <3>3. call[u].at # "idle" => cached' \in {None, node.cookie, cached}
      BY <2>2
    <3> QED
      BY <3>1, <3>2, <3>3
  <2> QED
    BY <2>1, <2>2
<1>5. ReloadHelps'
  BY <1>0 DEF IInv, ReloadHelps, nodeVars
<1> QED
  BY <1>1, <1>2, <1>3, <1>4, <1>5 DEF IInv

LEMMA CallStepInv ==
  ASSUME IInv, NEW t \in Tasks, CallStep(t)
  PROVE  IInv'
<1>0. /\ call \in [Tasks -> CallType] /\ call[t] \in CallType
      /\ cached \in Cookies \cup {None, Static} /\ raced \subseteq Tasks
      /\ lost \in 0 .. MaxLost /\ chain \subseteq Blocks /\ MaxLost \in Nat
      /\ auth \in {"Cookie", "UserPass"}
  BY BoundsAssumption DEF IInv, TypeOK, CallType
<1>1. CASE UseCached(t)
  <2> DEFINE new == [call[t] EXCEPT !.userpass = cached, !.at = "send"]
  <2>1. /\ call' = [call EXCEPT ![t] = new] /\ new \in CallType /\ new.at = "send"
        /\ new.userpass = cached /\ new.retried = call[t].retried
    BY <1>0, <1>1 DEF UseCached, CallType
  <2>2. /\ UNCHANGED <<nodeVars, cached, outcome, blockVars, lost, raced>>
        /\ call[t].at = "userpass" /\ cached # None
    BY <1>1 DEF UseCached
  <2>3. auth = "Cookie" /\ t \notin raced /\ call[t].retried => cached = node.cookie
    BY <2>2 DEF IInv, SecondTry
  <2> HIDE DEF new
  <2> QED
    BY <1>0, <2>1, <2>2, <2>3, CallFrame
<1>2. CASE ReadAuth(t)
  <2> DEFINE read == IF auth = "UserPass" THEN Static ELSE file
             new  == [call[t] EXCEPT !.userpass = read, !.at = "store"]
  <2>1. call[t].at = "userpass" /\ cached = None /\ UNCHANGED <<nodeVars, cached, lost>>
    BY <1>2 DEF ReadAuth
  <2>2. CASE read = None
    <3>1. Return(t, "CookieRead") /\ UNCHANGED <<blockOf, chain, extraHas>>
      BY <1>2, <2>2 DEF ReadAuth
    <3> QED
      BY <1>0, <2>1, <3>1, ReturnStep DEF Results
  <2>3. CASE read # None
    <3>1. call' = [call EXCEPT ![t] = new] /\ UNCHANGED <<outcome, blockVars, raced>>
      BY <1>0, <1>2, <2>3 DEF ReadAuth
    <3>2. read \in Cookies \cup {None, Static}
      BY DEF IInv, TypeOK
    <3>3. new \in CallType /\ new.at = "store" /\ new.userpass = read
      BY <1>0, <3>2 DEF CallType
    <3>4. auth = "Cookie" => read = node.cookie
      BY <2>3 DEF IInv, FileCurrent
    <3> HIDE DEF new, read
    <3> QED
      BY <1>0, <2>1, <3>1, <3>3, <3>4, CallFrame
  <2> QED
    BY <2>2, <2>3
<1>3. CASE Store(t)
  <2> DEFINE new == [call[t] EXCEPT !.at = "send"]
  <2>1. /\ call' = [call EXCEPT ![t] = new] /\ new \in CallType /\ new.at = "send"
        /\ new.userpass = call[t].userpass /\ new.retried = call[t].retried
    BY <1>0, <1>3 DEF Store, CallType
  <2>2. /\ UNCHANGED <<nodeVars, outcome, blockVars, lost>> /\ call[t].at = "store"
        /\ cached' = call[t].userpass /\ call[t].userpass \in Cookies \cup {None, Static}
    BY <1>0, <1>3 DEF Store, CallType
  <2>3. raced' = IF Good(cached') THEN raced
                 ELSE raced \cup {u \in Tasks \ {t} : call[u].at # "idle"}
    BY <1>3 DEF Store
  <2>4. auth = "Cookie" => (Good(cached') <=> cached' = node.cookie)
    BY DEF Good
  <2>5. raced \subseteq raced' /\ raced' \subseteq Tasks /\ (t \in raced' <=> t \in raced)
    BY <1>0, <2>3
  <2>6. auth = "Cookie" /\ t \notin raced /\ call[t].retried => call[t].userpass = node.cookie
    BY <2>2 DEF IInv, SecondTry
  <2>7. auth = "Cookie" /\ cached' # node.cookie =>
          \A u \in Tasks \ {t} : call[u].at # "idle" => u \in raced'
    BY <2>3, <2>4
  <2> HIDE DEF new
  <2> QED
    BY <1>0, <2>1, <2>2, <2>5, <2>6, <2>7, CallFrame
<1>4. CASE Clear(t)
  <2> DEFINE new == [call[t] EXCEPT !.at = "userpass", !.retried = TRUE]
  <2>1. call' = [call EXCEPT ![t] = new] /\ new \in CallType /\ new.at = "userpass"
    BY <1>0, <1>4 DEF Clear, CallType
  <2>2. /\ UNCHANGED <<nodeVars, outcome, blockVars, lost, raced>> /\ call[t].at = "clear"
        /\ cached' = None
    BY <1>4 DEF Clear
  <2> HIDE DEF new
  <2> QED
    BY <1>0, <2>1, <2>2, CallFrame
<1>5. CASE Unauthorized(t)
  <2>1. /\ call[t].at = "send" /\ node.up /\ ~Good(call[t].userpass)
        /\ UNCHANGED <<nodeVars, cached, lost>>
    BY <1>5 DEF Unauthorized
  <2>2. CASE auth = "Cookie" /\ ~call[t].retried
    <3> DEFINE new == [call[t] EXCEPT !.at = "clear"]
    <3>1. call' = [call EXCEPT ![t] = new] /\ new \in CallType /\ new.at = "clear"
      BY <1>0, <1>5, <2>2 DEF Unauthorized, CallType
    <3>2. UNCHANGED <<outcome, blockVars, raced>>
      BY <1>5, <2>2 DEF Unauthorized
    <3> HIDE DEF new
    <3> QED
      BY <1>0, <2>1, <3>1, <3>2, CallFrame
  <2>3. CASE ~(auth = "Cookie" /\ ~call[t].retried)
    <3>1. Return(t, "AuthFailed") /\ UNCHANGED <<blockOf, chain, extraHas>>
      BY <1>5, <2>3 DEF Unauthorized
    <3>2. auth = "Cookie" => t \in raced
      BY <2>1, <2>3 DEF IInv, SecondTry, Good
    <3>3. auth # "Cookie" => ~passOk
      BY <1>0, <2>1 DEF Good
    <3> QED
      BY <1>0, <2>1, <3>1, <3>2, <3>3, ReturnStep DEF Results
  <2> QED
    BY <2>2, <2>3
<1>6. CASE SendFails(t)
  <2>1. /\ call[t].at = "send" /\ Return(t, "Http")
        /\ UNCHANGED <<nodeVars, cached, blockOf, chain, extraHas>>
    BY <1>6 DEF SendFails
  <2>2. lost' \in 0 .. MaxLost
    BY <1>0, <1>6 DEF SendFails
  <2> QED
    BY <1>0, <2>1, <2>2, ReturnStep DEF Results
<1>7. ASSUME NEW verdict \in {"null", "reason"}, Answered(t, verdict) PROVE IInv'
  <2>1. /\ call[t].at = "send" /\ verdict \in Verdicts(t)
        /\ UNCHANGED <<nodeVars, cached, blockOf, extraHas>>
        /\ chain' = IF Submitting(t) /\ verdict = "null" THEN chain \cup {blockOf[t]} ELSE chain
    BY <1>7 DEF Answered
  <2>2. chain \subseteq chain' /\ chain' \subseteq Blocks
    BY <1>0, <2>1 DEF Submitting, IInv, BlocksNamed
  <2>3. CASE Return(t, SubmitResult(t, verdict)) /\ UNCHANGED lost
    <3>1. SubmitResult(t, verdict) \in {"Remote", "ok"}
      BY DEF SubmitResult
    <3>2. (t \in Finds /\ stage[t] = "submit" /\ SubmitResult(t, verdict) = "ok") =>
            blockOf[t] \in chain' /\ blockOf[t] \notin chain
      BY <2>1 DEF SubmitResult, Submitting, Verdicts
    <3> QED
      BY <1>0, <2>1, <2>2, <2>3, <3>1, <3>2, ReturnStep DEF Results
  <2>4. CASE Return(t, "Http") /\ lost < MaxLost /\ lost' = lost + 1
    <3>1. lost' \in 0 .. MaxLost
      BY <1>0, <2>4
    <3> QED
      BY <1>0, <2>1, <2>2, <2>4, <3>1, ReturnStep DEF Results
  <2> QED
    BY <1>7, <2>3, <2>4 DEF Answered
<1> QED
  BY <1>1, <1>2, <1>3, <1>4, <1>5, <1>6, <1>7 DEF CallStep

\* A task starts a call.
LEMMA StartStep ==
  ASSUME IInv, NEW t \in Tasks, call' = [call EXCEPT ![t] = Called],
         raced' \in {raced, raced \ {t}}, UNCHANGED <<nodeVars, cached, outcome, lost>>
  PROVE  /\ call' \in [Tasks -> CallType] /\ raced' \subseteq Tasks
         /\ \A u \in Tasks \ {t} : call'[u] = call[u]
         /\ FileCurrent' /\ SecondTry' /\ ReloadHelps'
<1>1. /\ call' \in [Tasks -> CallType] /\ raced' \subseteq Tasks
      /\ call'[t] = Called /\ \A u \in Tasks \ {t} : call'[u] = call[u]
  BY IdleCalled DEF IInv, TypeOK, CallType
<1>2. FileCurrent'
  BY DEF IInv, FileCurrent, nodeVars
<1>3. \A u \in Tasks \ {t} : u \in raced' <=> u \in raced
  OBVIOUS
<1>4. SecondTry'
  BY <1>1, <1>3, IdleCalled DEF IInv, SecondTry, nodeVars
<1>5. ReloadHelps'
  BY <1>1, <1>3, IdleCalled DEF IInv, ReloadHelps, nodeVars
<1> QED
  BY <1>1, <1>2, <1>4, <1>5

LEMMA TaskStepInv ==
  ASSUME IInv, \/ PullAgain
               \/ \E f \in Finds : BlockStep(f) \/ \E b \in Blocks : BlockFound(f, b)
  PROVE  IInv'
<1>0. /\ stage \in [Finds -> {"unfound", "submit", "extras", "precious", "ok", "err"}]
      /\ blockOf \in [Finds -> Blocks \cup {None}] /\ fanout \in [Finds -> SUBSET Extras]
      /\ extraHas \in [Extras -> SUBSET Blocks] /\ chain \subseteq Blocks
      /\ Puller \in Tasks /\ Puller \notin Finds /\ Finds \subseteq Tasks
  BY NamesAssumption DEF IInv, TypeOK, Tasks, Puller
<1>1. CASE PullAgain
  <2>1. /\ call' = [call EXCEPT ![Puller] = Called] /\ raced' = raced \ {Puller}
        /\ UNCHANGED <<nodeVars, cached, outcome, blockVars, lost>>
    BY <1>1 DEF PullAgain
  <2>2. /\ call' \in [Tasks -> CallType] /\ raced' \subseteq Tasks
        /\ \A u \in Tasks \ {Puller} : call'[u] = call[u]
        /\ FileCurrent' /\ SecondTry' /\ ReloadHelps'
    BY <1>0, <2>1, StartStep
  <2>3. TypeOK'
    BY <2>1, <2>2 DEF IInv, TypeOK, CallType, nodeVars, blockVars
  <2>4. CallsInStage' /\ BlocksNamed' /\ Stored'
    BY <1>0, <2>1, <2>2 DEF IInv, CallsInStage, BlocksNamed, Stored, blockVars
  <2> QED
    BY <2>2, <2>3, <2>4 DEF IInv
<1>2. ASSUME NEW f \in Finds, NEW b \in Blocks, BlockFound(f, b) PROVE IInv'
  <2>1. /\ call' = [call EXCEPT ![f] = Called] /\ raced' = raced /\ stage[f] = "unfound"
        /\ stage' = [stage EXCEPT ![f] = "submit"] /\ blockOf' = [blockOf EXCEPT ![f] = b]
        /\ UNCHANGED <<nodeVars, cached, outcome, fanout, chain, extraHas, lost>>
    BY <1>2 DEF BlockFound
  <2>2. /\ call' \in [Tasks -> CallType] /\ raced' \subseteq Tasks
        /\ \A u \in Tasks \ {f} : call'[u] = call[u]
        /\ FileCurrent' /\ SecondTry' /\ ReloadHelps'
    BY <1>0, <2>1, StartStep
  <2>3. /\ stage' \in [Finds -> {"unfound", "submit", "extras", "precious", "ok", "err"}]
        /\ blockOf' \in [Finds -> Blocks \cup {None}]
        /\ stage'[f] = "submit" /\ blockOf'[f] = b
        /\ \A g \in Finds \ {f} : stage'[g] = stage[g] /\ blockOf'[g] = blockOf[g]
    BY <1>0, <2>1
  <2>4. TypeOK'
    BY <2>1, <2>2, <2>3 DEF IInv, TypeOK, CallType, nodeVars
  <2>5. CallsInStage'
    BY <1>0, <2>2, <2>3 DEF IInv, CallsInStage
  <2>6. BlocksNamed'
    BY <2>3 DEF IInv, BlocksNamed
  <2>7. Stored'
    <3>1. \A g \in Finds : stage'[g] \in Past => stage[g] \in Past /\ blockOf'[g] = blockOf[g]
      BY <2>3 DEF Past
    <3> QED
      BY <2>1, <3>1 DEF IInv, Stored
  <2> QED
    BY <2>2, <2>4, <2>5, <2>6, <2>7 DEF IInv
<1>3. ASSUME NEW f \in Finds, NEW e \in Extras, ExtraEnds(f, e) PROVE IInv'
  <2>1. /\ stage[f] = "extras" /\ fanout' = [fanout EXCEPT ![f] = @ \ {e}]
        /\ UNCHANGED <<nodeVars, cached, call, outcome, stage, blockOf, chain, lost, raced>>
        /\ \/ extraHas' = [extraHas EXCEPT ![e] = @ \cup {blockOf[f]}] \/ UNCHANGED extraHas
    BY <1>3 DEF ExtraEnds
  <2>2. blockOf[f] \in chain
    BY <2>1 DEF IInv, Stored, Past
  <2>3. /\ fanout' \in [Finds -> SUBSET Extras] /\ extraHas' \in [Extras -> SUBSET Blocks]
        /\ \A x \in Extras : extraHas'[x] \subseteq extraHas[x] \cup {blockOf[f]}
    BY <1>0, <2>1, <2>2
  <2>4. TypeOK'
    BY <2>1, <2>3 DEF IInv, TypeOK, nodeVars
  <2>5. Stored'
    BY <2>1, <2>2, <2>3 DEF IInv, Stored
  <2>6. CallsInStage' /\ BlocksNamed' /\ FileCurrent' /\ SecondTry' /\ ReloadHelps'
    BY <2>1 DEF IInv, CallsInStage, BlocksNamed, FileCurrent, SecondTry, ReloadHelps, nodeVars
  <2> QED
    BY <2>4, <2>5, <2>6 DEF IInv
<1>4. ASSUME NEW f \in Finds, Joined(f) PROVE IInv'
  <2>1. /\ call' = [call EXCEPT ![f] = Called] /\ raced' = raced \ {f} /\ stage[f] = "extras"
        /\ stage' = [stage EXCEPT ![f] = "precious"]
        /\ UNCHANGED <<nodeVars, cached, outcome, blockOf, fanout, chain, extraHas, lost>>
    BY <1>4 DEF Joined
  <2>2. /\ call' \in [Tasks -> CallType] /\ raced' \subseteq Tasks
        /\ \A u \in Tasks \ {f} : call'[u] = call[u]
        /\ FileCurrent' /\ SecondTry' /\ ReloadHelps'
    BY <1>0, <2>1, StartStep
  <2>3. /\ stage' \in [Finds -> {"unfound", "submit", "extras", "precious", "ok", "err"}]
        /\ stage'[f] = "precious" /\ \A g \in Finds \ {f} : stage'[g] = stage[g]
    BY <1>0, <2>1
  <2>4. TypeOK'
    BY <2>1, <2>2, <2>3 DEF IInv, TypeOK, CallType, nodeVars
  <2>5. CallsInStage'
    BY <1>0, <2>2, <2>3 DEF IInv, CallsInStage
  <2>6. BlocksNamed'
    BY <2>1, <2>3 DEF IInv, BlocksNamed
  <2>7. Stored'
    <3>1. \A g \in Finds : stage'[g] \in Past => stage[g] \in Past
      BY <2>1, <2>3 DEF Past
    <3> QED
      BY <2>1, <3>1 DEF IInv, Stored
  <2> QED
    BY <2>2, <2>4, <2>5, <2>6, <2>7 DEF IInv
<1> QED
  BY <1>1, <1>2, <1>3, <1>4 DEF BlockStep

LEMMA NodeStepInv ==
  ASSUME IInv, (\E clean \in BOOLEAN : NodeStops(clean)) \/ NodeStarts
  PROVE  IInv'
<1>0. /\ node \in [up : BOOLEAN, cookie : Cookies] /\ MaxRestarts \in Nat
      /\ file \in {None, node.cookie} /\ (node.up => file = node.cookie)
      /\ (~node.up => node.cookie <= MaxRestarts) /\ call \in [Tasks -> CallType]
  BY BoundsAssumption DEF IInv, TypeOK, FileCurrent, CallType
<1>1. node.cookie \in Cookies /\ node.cookie \in Nat
  BY <1>0 DEF Cookies
<1>2. ASSUME NEW clean \in BOOLEAN, NodeStops(clean) PROVE IInv'
  <2>1. /\ node.up /\ node.cookie <= MaxRestarts /\ node' = [node EXCEPT !.up = FALSE]
        /\ file' = IF clean THEN None ELSE file
        /\ UNCHANGED <<auth, passOk, cached, call, outcome, blockVars, lost, raced>>
    BY <1>2 DEF NodeStops
  <2>2. node' \in [up : BOOLEAN, cookie : Cookies] /\ node'.cookie = node.cookie /\ ~node'.up
    BY <1>0, <2>1
  <2>3. file' \in {None, node.cookie}
    BY <1>0, <2>1
  <2>4. TypeOK'
    BY <1>1, <2>1, <2>2, <2>3 DEF IInv, TypeOK, blockVars
  <2>5. FileCurrent'
    BY <2>1, <2>2, <2>3 DEF FileCurrent
  <2>6. CallsInStage' /\ BlocksNamed' /\ Stored' /\ SecondTry' /\ ReloadHelps'
    BY <2>1, <2>2 DEF IInv, CallsInStage, BlocksNamed, Stored, SecondTry, ReloadHelps, blockVars
  <2> QED
    BY <2>4, <2>5, <2>6 DEF IInv
<1>3. CASE NodeStarts
  <2>1. /\ ~node.up /\ node' = [up |-> TRUE, cookie |-> node.cookie + 1]
        /\ file' = node.cookie + 1
        /\ raced' = raced \cup {t \in Tasks : call[t].at # "idle"}
        /\ UNCHANGED <<auth, passOk, cached, call, outcome, blockVars, lost>>
    BY <1>3 DEF NodeStarts
  <2>2. node.cookie + 1 \in Cookies
    BY <1>0, <1>1, <2>1 DEF Cookies
  <2>3. node' \in [up : BOOLEAN, cookie : Cookies] /\ node'.cookie = node.cookie + 1 /\ node'.up
    BY <2>1, <2>2
  <2>4. TypeOK'
    BY <2>1, <2>2, <2>3 DEF IInv, TypeOK, blockVars
  <2>5. FileCurrent'
    BY <2>1, <2>3 DEF FileCurrent
  <2>6. SecondTry' /\ ReloadHelps'
    BY <2>1 DEF IInv, SecondTry, ReloadHelps
  <2>7. CallsInStage' /\ BlocksNamed' /\ Stored'
    BY <2>1 DEF IInv, CallsInStage, BlocksNamed, Stored, blockVars
  <2> QED
    BY <2>4, <2>5, <2>6, <2>7 DEF IInv
<1> QED
  BY <1>2, <1>3

----------------------------------------------------------------------------
(* The theorems. *)

LEMMA InitIInv == Init => IInv
<1> SUFFICES ASSUME Init PROVE IInv
  OBVIOUS
<1>1. /\ MaxRestarts \in Nat /\ MaxLost \in Nat /\ 1 \in Cookies /\ None # "AuthFailed"
      /\ Tasks = {Puller} \cup Finds /\ Puller \notin Finds
  BY BoundsAssumption, NamesAssumption DEF Cookies, Tasks, Puller
<1>2. call \in [Tasks -> CallType] /\ \A f \in Finds : call[f] = Idle
  BY <1>1, IdleCalled DEF Init
<1>3. \A t \in Tasks : call[t].retried = FALSE
  BY IdleCalled DEF Init
<1>4. TypeOK
  <2>1. /\ auth \in {"Cookie", "UserPass"} /\ passOk \in BOOLEAN
        /\ node \in [up : BOOLEAN, cookie : Cookies] /\ file \in Cookies \cup {None}
        /\ cached \in Cookies \cup {None, Static}
    BY <1>1 DEF Init
  <2>2. /\ outcome \in [Tasks -> Results \cup {None}]
        /\ stage \in [Finds -> {"unfound", "submit", "extras", "precious", "ok", "err"}]
        /\ blockOf \in [Finds -> Blocks \cup {None}] /\ fanout \in [Finds -> SUBSET Extras]
        /\ chain \subseteq Blocks /\ extraHas \in [Extras -> SUBSET Blocks]
        /\ lost \in 0 .. MaxLost /\ raced \subseteq Tasks
    BY <1>1 DEF Init
  <2> QED
    BY <1>2, <2>1, <2>2 DEF TypeOK, CallType
<1>5. CallsInStage /\ BlocksNamed
  BY <1>2, IdleCalled DEF Init, CallsInStage, BlocksNamed
<1>6. Stored
  BY DEF Init, Stored, Past
<1>7. FileCurrent
  BY <1>1 DEF Init, FileCurrent
<1>8. SecondTry
  BY <1>3 DEF SecondTry
<1>9. ReloadHelps
  BY <1>1 DEF Init, ReloadHelps
<1> QED
  BY <1>4, <1>5, <1>6, <1>7, <1>8, <1>9 DEF IInv

LEMMA NextIInv == IInv /\ [Next]_vars => IInv'
<1> SUFFICES ASSUME IInv, [Next]_vars PROVE IInv'
  OBVIOUS
<1>1. CASE UNCHANGED vars
  <2>1. TypeOK'
    BY <1>1 DEF IInv, TypeOK, vars, nodeVars, blockVars
  <2>2. CallsInStage' /\ BlocksNamed' /\ Stored' /\ FileCurrent' /\ SecondTry' /\ ReloadHelps'
    BY <1>1 DEF IInv, CallsInStage, BlocksNamed, Stored, FileCurrent, SecondTry, ReloadHelps,
                vars, nodeVars, blockVars
  <2> QED
    BY <2>1, <2>2 DEF IInv
<1>2. CASE Next
  BY <1>2, CallStepInv, TaskStepInv, NodeStepInv DEF Next
<1> QED
  BY <1>1, <1>2

LEMMA SpecIInv == Spec => []IInv
<1> QED
  BY InitIInv, NextIInv, PTL DEF Spec

\* A block task never goes past its first call, and no extra node gets its
\* block, before bitcoind has accepted the block, and two tasks never both
\* report one block (BlockSubmitter::submit, submitblock).
THEOREM BlocksStored == Spec => []AcceptedBlockStored
<1>1. IInv => AcceptedBlockStored
  BY DEF IInv, Stored, Past, AcceptedBlockStored
<1> QED
  BY <1>1, SpecIInv, PTL

\* One reload of the cookie is enough, for any number of tasks that share the
\* client, unless a restart or a stale store raced with the call (call_value,
\* http_call).
THEOREM ReloadSuffices == Spec => []ReloadHelps
<1>1. IInv => ReloadHelps
  BY DEF IInv
<1> QED
  BY <1>1, SpecIInv, PTL

----------------------------------------------------------------------------
(* Work: counting up, and what the recursive functions of the model are.    *)

\* What holds for 0, and for the next number when it holds for one, holds up to m.
LEMMA UpTo ==
  ASSUME NEW m \in Nat, NEW S, 0 \in S, \A i \in 1 .. m : i - 1 \in S => i \in S
  PROVE  \A i \in 0 .. m : i \in S
<1> DEFINE R == {ss \in Nat \X Nat : ss[1] < ss[2]}
           T == {i \in 0 .. m : i \notin S}
<1>1. IsWellFoundedOn(R, Nat)
  BY NatLessThanWellFounded DEF OpToRel
<1>2. \A x, y \in Nat : y < x => <<y, x>> \in R
  OBVIOUS
<1> HIDE DEF R
<1>3. T = {}
  <2> SUFFICES ASSUME T # {} PROVE FALSE
    OBVIOUS
  <2>1. T \subseteq Nat
    OBVIOUS
  <2> HIDE DEF T
  <2>2. PICK x \in T : \A y \in T : ~ (<<y, x>> \in R)
    BY <1>1, <2>1, WFMin
  <2>3. x \in 1 .. m
    BY <2>2 DEF T
  <2>4. x \in Nat /\ x - 1 \in Nat /\ x - 1 < x
    BY <2>3
  <2>5. <<x - 1, x>> \in R
    BY <1>2, <2>4
  <2>6. x - 1 \notin T
    BY <2>2, <2>5
  <2> QED
    BY <2>2, <2>3, <2>6 DEF T
<1> QED
  BY <1>3

\* Power2 is well defined.
LEMMA Doubling ==
  \E f : f = [i \in 0 .. 64 |-> IF i = 0 THEN 1 ELSE 2 * f[i - 1]]
<1> DEFINE P(m, f) == /\ f = [i \in 0 .. m |-> f[i]] /\ f[0] = 1
                      /\ \A i \in 1 .. m : f[i] = 2 * f[i - 1]
           S == {m \in 0 .. 64 : \E f : P(m, f)}
<1>1. 0 \in S
  <2>1. P(0, [i \in 0 .. 0 |-> 1])
    OBVIOUS
  <2>2. \E f : P(0, f)
    BY <2>1
  <2> QED
    BY <2>2
<1>2. ASSUME NEW m \in 1 .. 64, m - 1 \in S PROVE m \in S
  <2>1. PICK f : P(m - 1, f)
    BY <1>2
  <2> DEFINE h == [i \in 0 .. m |-> IF i = m THEN 2 * f[m - 1] ELSE f[i]]
  <2>2. h[0] = 1 /\ h = [i \in 0 .. m |-> h[i]]
    <3>1. h[0] = f[0] /\ h = [i \in 0 .. m |-> h[i]]
      OBVIOUS
    <3> QED
      BY <2>1, <3>1
  <2>3. ASSUME NEW i \in 1 .. m PROVE h[i] = 2 * h[i - 1]
    <3>1. h[i - 1] = f[i - 1]
      OBVIOUS
    <3>2. ASSUME i # m PROVE h[i] = f[i] /\ f[i] = 2 * f[i - 1]
      <4>1. i \in 1 .. m - 1
        BY <3>2
      <4>2. f[i] = 2 * f[i - 1]
        BY <2>1, <4>1
      <4>3. h[i] = f[i]
        BY <3>2
      <4> QED
        BY <4>2, <4>3
    <3>3. i = m => h[i] = 2 * f[i - 1]
      OBVIOUS
    <3> QED
      BY <3>1, <3>2, <3>3
  <2> HIDE DEF h
  <2>4. P(m, h)
    BY <2>2, <2>3
  <2> HIDE DEF P
  <2>5. \E f1 : P(m, f1)
    BY <2>4
  <2> QED
    BY <2>5
<1> HIDE DEF S
<1>3. 64 \in S
  BY <1>1, <1>2, UpTo
<1>4. PICK f : P(64, f)
  BY <1>3 DEF S
<1> DEFINE g == [i \in 0 .. 64 |-> IF i = 0 THEN 1 ELSE 2 * f[i - 1]]
<1>5. ASSUME NEW i \in 0 .. 64 PROVE f[i] = g[i]
  <2>1. i # 0 => i \in 1 .. 64
    OBVIOUS
  <2> QED
    BY <1>4, <2>1
<1>6. f = g
  BY <1>4, <1>5
<1> QED
  BY <1>6

HashesUp(f, n, leaf, path) ==
  f = [i \in 0 .. n |-> IF i = 0 THEN leaf ELSE PairHash(f[i - 1], path[i])]

\* So is the climb from a leaf along its siblings ...
LEMMA HashingUp ==
  ASSUME NEW n \in Nat, NEW leaf, NEW path
  PROVE  \E f : HashesUp(f, n, leaf, path)
<1> DEFINE P(m, f) == /\ f = [i \in 0 .. m |-> f[i]] /\ f[0] = leaf
                      /\ \A i \in 1 .. m : f[i] = PairHash(f[i - 1], path[i])
           S == {m \in 0 .. n : \E f : P(m, f)}
<1>1. 0 \in S
  <2>1. P(0, [i \in 0 .. 0 |-> leaf])
    OBVIOUS
  <2>2. \E f : P(0, f)
    BY <2>1
  <2> QED
    BY <2>2
<1>2. ASSUME NEW m \in 1 .. n, m - 1 \in S PROVE m \in S
  <2>1. PICK f : P(m - 1, f)
    BY <1>2
  <2> DEFINE h == [i \in 0 .. m |-> IF i = m THEN PairHash(f[m - 1], path[m]) ELSE f[i]]
  <2>2. h[0] = leaf /\ h = [i \in 0 .. m |-> h[i]]
    <3>1. h[0] = f[0] /\ h = [i \in 0 .. m |-> h[i]]
      OBVIOUS
    <3> QED
      BY <2>1, <3>1
  <2>3. ASSUME NEW i \in 1 .. m PROVE h[i] = PairHash(h[i - 1], path[i])
    <3>1. h[i - 1] = f[i - 1]
      OBVIOUS
    <3>2. ASSUME i # m PROVE h[i] = f[i] /\ f[i] = PairHash(f[i - 1], path[i])
      <4>1. i \in 1 .. m - 1
        BY <3>2
      <4>2. f[i] = PairHash(f[i - 1], path[i])
        BY <2>1, <4>1
      <4>3. h[i] = f[i]
        BY <3>2
      <4> QED
        BY <4>2, <4>3
    <3>3. i = m => h[i] = PairHash(f[i - 1], path[i])
      OBVIOUS
    <3> QED
      BY <3>1, <3>2, <3>3
  <2> HIDE DEF h
  <2>4. P(m, h)
    BY <2>2, <2>3
  <2> HIDE DEF P
  <2>5. \E f1 : P(m, f1)
    BY <2>4
  <2> QED
    BY <2>5
<1> HIDE DEF S
<1>3. n \in S
  BY <1>1, <1>2, UpTo
<1>4. PICK f : P(n, f)
  BY <1>3 DEF S
<1> DEFINE g == [i \in 0 .. n |-> IF i = 0 THEN leaf ELSE PairHash(f[i - 1], path[i])]
<1>5. ASSUME NEW i \in 0 .. n PROVE f[i] = g[i]
  <2>1. i # 0 => i \in 1 .. n
    OBVIOUS
  <2> QED
    BY <1>4, <2>1
<1>6. f = g
  BY <1>4, <1>5
<1> QED
  BY <1>6 DEF HashesUp

\* One round of the loop, and one more row of the tree; the last one stays.
NextRound(l) == IF l.size <= 1 THEN l ELSE Climb(l.level, l.size, l.branch)
NextRow(row) == IF Len(row) = 1 THEN row ELSE Halved(row)

RoundsFrom(f, n, first) ==
  f = [i \in 0 .. n |-> IF i = 0 THEN first ELSE NextRound(f[i - 1])]

\* ... and the rounds of build_merkle_branches ...
LEMMA Rounding ==
  ASSUME NEW n \in Nat, NEW first
  PROVE  \E f : RoundsFrom(f, n, first)
<1> DEFINE P(m, f) == /\ f = [i \in 0 .. m |-> f[i]] /\ f[0] = first
                      /\ \A i \in 1 .. m : f[i] = NextRound(f[i - 1])
           S == {m \in 0 .. n : \E f : P(m, f)}
<1>1. 0 \in S
  <2>1. P(0, [i \in 0 .. 0 |-> first])
    OBVIOUS
  <2>2. \E f : P(0, f)
    BY <2>1
  <2> QED
    BY <2>2
<1>2. ASSUME NEW m \in 1 .. n, m - 1 \in S PROVE m \in S
  <2>1. PICK f : P(m - 1, f)
    BY <1>2
  <2> DEFINE h == [i \in 0 .. m |-> IF i = m THEN NextRound(f[m - 1]) ELSE f[i]]
  <2>2. h[0] = first /\ h = [i \in 0 .. m |-> h[i]]
    <3>1. h[0] = f[0] /\ h = [i \in 0 .. m |-> h[i]]
      OBVIOUS
    <3> QED
      BY <2>1, <3>1
  <2>3. ASSUME NEW i \in 1 .. m PROVE h[i] = NextRound(h[i - 1])
    <3>1. h[i - 1] = f[i - 1]
      OBVIOUS
    <3>2. ASSUME i # m PROVE h[i] = f[i] /\ f[i] = NextRound(f[i - 1])
      <4>1. i \in 1 .. m - 1
        BY <3>2
      <4>2. f[i] = NextRound(f[i - 1])
        BY <2>1, <4>1
      <4>3. h[i] = f[i]
        BY <3>2
      <4> QED
        BY <4>2, <4>3
    <3>3. i = m => h[i] = NextRound(f[i - 1])
      OBVIOUS
    <3> QED
      BY <3>1, <3>2, <3>3
  <2> HIDE DEF h
  <2>4. P(m, h)
    BY <2>2, <2>3
  <2> HIDE DEF P
  <2>5. \E f1 : P(m, f1)
    BY <2>4
  <2> QED
    BY <2>5
<1> HIDE DEF S
<1>3. n \in S
  BY <1>1, <1>2, UpTo
<1>4. PICK f : P(n, f)
  BY <1>3 DEF S
<1> DEFINE g == [i \in 0 .. n |-> IF i = 0 THEN first ELSE NextRound(f[i - 1])]
<1>5. ASSUME NEW i \in 0 .. n PROVE f[i] = g[i]
  <2>1. i # 0 => i \in 1 .. n
    OBVIOUS
  <2> QED
    BY <1>4, <2>1
<1>6. f = g
  BY <1>4, <1>5
<1> QED
  BY <1>6 DEF RoundsFrom

RowsFrom(f, n, leaves) ==
  f = [i \in 0 .. n |-> IF i = 0 THEN leaves ELSE NextRow(f[i - 1])]

\* ... and the rows of a merkle tree.
LEMMA Rowing ==
  ASSUME NEW n \in Nat, NEW leaves
  PROVE  \E f : RowsFrom(f, n, leaves)
<1> DEFINE P(m, f) == /\ f = [i \in 0 .. m |-> f[i]] /\ f[0] = leaves
                      /\ \A i \in 1 .. m : f[i] = NextRow(f[i - 1])
           S == {m \in 0 .. n : \E f : P(m, f)}
<1>1. 0 \in S
  <2>1. P(0, [i \in 0 .. 0 |-> leaves])
    OBVIOUS
  <2>2. \E f : P(0, f)
    BY <2>1
  <2> QED
    BY <2>2
<1>2. ASSUME NEW m \in 1 .. n, m - 1 \in S PROVE m \in S
  <2>1. PICK f : P(m - 1, f)
    BY <1>2
  <2> DEFINE h == [i \in 0 .. m |-> IF i = m THEN NextRow(f[m - 1]) ELSE f[i]]
  <2>2. h[0] = leaves /\ h = [i \in 0 .. m |-> h[i]]
    <3>1. h[0] = f[0] /\ h = [i \in 0 .. m |-> h[i]]
      OBVIOUS
    <3> QED
      BY <2>1, <3>1
  <2>3. ASSUME NEW i \in 1 .. m PROVE h[i] = NextRow(h[i - 1])
    <3>1. h[i - 1] = f[i - 1]
      OBVIOUS
    <3>2. ASSUME i # m PROVE h[i] = f[i] /\ f[i] = NextRow(f[i - 1])
      <4>1. i \in 1 .. m - 1
        BY <3>2
      <4>2. f[i] = NextRow(f[i - 1])
        BY <2>1, <4>1
      <4>3. h[i] = f[i]
        BY <3>2
      <4> QED
        BY <4>2, <4>3
    <3>3. i = m => h[i] = NextRow(f[i - 1])
      OBVIOUS
    <3> QED
      BY <3>1, <3>2, <3>3
  <2> HIDE DEF h
  <2>4. P(m, h)
    BY <2>2, <2>3
  <2> HIDE DEF P
  <2>5. \E f1 : P(m, f1)
    BY <2>4
  <2> QED
    BY <2>5
<1> HIDE DEF S
<1>3. n \in S
  BY <1>1, <1>2, UpTo
<1>4. PICK f : P(n, f)
  BY <1>3 DEF S
<1> DEFINE g == [i \in 0 .. n |-> IF i = 0 THEN leaves ELSE NextRow(f[i - 1])]
<1>5. ASSUME NEW i \in 0 .. n PROVE f[i] = g[i]
  <2>1. i # 0 => i \in 1 .. n
    OBVIOUS
  <2> QED
    BY <1>4, <2>1
<1>6. f = g
  BY <1>4, <1>5
<1> QED
  BY <1>6 DEF RowsFrom

LEMMA Power2Is ==
  /\ Power2[0] = 1 /\ \A i \in 1 .. 64 : Power2[i] = 2 * Power2[i - 1]
  /\ \A i \in 0 .. 64 : Power2[i] \in Nat /\ Power2[i] > 0
<1>1. PICK f : f = [i \in 0 .. 64 |-> IF i = 0 THEN 1 ELSE 2 * f[i - 1]]
  BY Doubling
<1>2. Power2 = [i \in 0 .. 64 |-> IF i = 0 THEN 1 ELSE 2 * Power2[i - 1]]
  BY <1>1 DEF Power2
<1>3. Power2[0] = 1
  BY <1>2
<1>4. ASSUME NEW i \in 1 .. 64 PROVE Power2[i] = 2 * Power2[i - 1]
  BY <1>2
<1> DEFINE S == {i \in 0 .. 64 : Power2[i] \in Nat /\ Power2[i] > 0}
<1>5. 0 \in S
  BY <1>3
<1>6. ASSUME NEW i \in 1 .. 64, i - 1 \in S PROVE i \in S
  BY <1>4, <1>6
<1>7. \A i \in 0 .. 64 : i \in S
  <2> HIDE DEF S
  <2> QED
    BY <1>5, <1>6, UpTo
<1> QED
  BY <1>3, <1>4, <1>7

\* The powers increase.
LEMMA PowersGrow ==
  ASSUME NEW j \in 0 .. 64, NEW k \in 0 .. 64, j < k
  PROVE  2 * Power2[j] <= Power2[k]
<1> DEFINE S == {d \in 0 .. 64 : j + 1 + d <= 64 => 2 * Power2[j] <= Power2[j + 1 + d]}
<1>1. 0 \in S
  <2>1. j + 1 \in 1 .. 64 /\ (j + 1) - 1 = j /\ j + 1 + 0 = j + 1
    OBVIOUS
  <2>2. Power2[j + 1] = 2 * Power2[j] /\ Power2[j] \in Nat
    BY <2>1, Power2Is
  <2> QED
    BY <2>1, <2>2
<1>2. ASSUME NEW d \in 1 .. 64, d - 1 \in S PROVE d \in S
  <2> SUFFICES ASSUME j + 1 + d <= 64 PROVE 2 * Power2[j] <= Power2[j + 1 + d]
    OBVIOUS
  <2> DEFINE m == j + 1 + d
  <2>1. m \in 1 .. 64 /\ m - 1 = j + 1 + (d - 1) /\ m - 1 \in 0 .. 64
    OBVIOUS
  <2>2. 2 * Power2[j] <= Power2[m - 1]
    BY <1>2, <2>1
  <2> HIDE DEF m
  <2>3. Power2[m] = 2 * Power2[m - 1] /\ Power2[m - 1] \in Nat /\ Power2[j] \in Nat
    BY <2>1, Power2Is
  <2> QED
    BY <2>2, <2>3 DEF m
<1>3. \A d \in 0 .. 64 : d \in S
  <2> HIDE DEF S
  <2> QED
    BY <1>1, <1>2, UpTo
<1>4. k - j - 1 \in S /\ j + 1 + (k - j - 1) = k
  BY <1>3
<1> QED
  BY <1>4

\* floor_pot of a power is its exponent.
LEMMA FloorPotOfPower ==
  ASSUME NEW k \in 0 .. 63
  PROVE  floor_pot(Power2[k]) = k
<1> DEFINE x == Power2[k]
           E(j) == Power2[j] <= x /\ x < Power2[j + 1]
<1>0. \A j \in 0 .. 63 :
         /\ j \in 0 .. 64 /\ j + 1 \in 0 .. 64 /\ j + 1 \in 1 .. 64 /\ (j + 1) - 1 = j
  OBVIOUS
<1>1. /\ \A j \in 0 .. 63 : /\ Power2[j] \in Nat /\ Power2[j] > 0
                             /\ Power2[j + 1] \in Nat /\ Power2[j + 1] = 2 * Power2[j]
  <2> SUFFICES ASSUME NEW j \in 0 .. 63
               PROVE  /\ Power2[j] \in Nat /\ Power2[j] > 0
                      /\ Power2[j + 1] \in Nat /\ Power2[j + 1] = 2 * Power2[j]
    OBVIOUS
  <2>1. Power2[j + 1] = 2 * Power2[(j + 1) - 1]
    BY <1>0, Power2Is
  <2>2. Power2[j] \in Nat /\ Power2[j] > 0 /\ Power2[j + 1] \in Nat
    BY <1>0, Power2Is
  <2> QED
    BY <1>0, <2>1, <2>2
<1>2. E(k) /\ x \in Nat /\ x > 0
  BY <1>1
<1>3. ASSUME NEW j \in 0 .. 63, E(j) PROVE j = k
  <2>1. ASSUME j < k PROVE FALSE
    <3>1. CASE j + 1 = k
      BY <1>2, <1>3, <3>1
    <3>2. CASE j + 1 < k
      <4>1. 2 * Power2[j + 1] <= Power2[k]
        BY <1>0, <3>2, PowersGrow
      <4>2. Power2[j + 1] \in Nat /\ Power2[j + 1] > x
        BY <1>1, <1>3
      <4> QED
        BY <1>2, <4>1, <4>2
    <3> QED
      BY <2>1, <3>1, <3>2
  <2>2. ASSUME k < j PROVE FALSE
    <3>1. 2 * Power2[k] <= Power2[j]
      BY <1>0, <2>2, PowersGrow
    <3> QED
      BY <1>1, <1>2, <1>3, <3>1
  <2> QED
    BY <2>1, <2>2
<1>4. floor_pot(x) = CHOOSE j \in 0 .. 63 : E(j)
  BY <1>2 DEF floor_pot
<1> HIDE DEF x, E
<1>5. (CHOOSE j \in 0 .. 63 : E(j)) \in 0 .. 63 /\ E(CHOOSE j \in 0 .. 63 : E(j))
  BY <1>2
<1> QED
  BY <1>3, <1>4, <1>5 DEF x

IsClimb(f, coinbase, path) ==
  /\ f[0] = TxHash(coinbase) /\ Climbed(coinbase, path) = f[Len(path)]
  /\ \A i \in 1 .. Len(path) : f[i] = PairHash(f[i - 1], path[i])

\* The climb hashes the leaf with one sibling after the other.
LEMMA ClimbedIs ==
  ASSUME NEW coinbase, NEW path, Len(path) \in Nat
  PROVE  \E f : IsClimb(f, coinbase, path)
<1> DEFINE n == Len(path)
           leaf == TxHash(coinbase)
           F(f) == f = [i \in 0 .. n |-> IF i = 0 THEN leaf ELSE PairHash(f[i - 1], path[i])]
           up == CHOOSE f : F(f)
<1>1. Climbed(coinbase, path) = up[n]
  BY DEF Climbed
<1> HIDE DEF n, leaf
<1>2. \E f : F(f)
  <2>1. n \in Nat
    BY DEF n
  <2>2. \E f : HashesUp(f, n, leaf, path)
    BY <2>1, HashingUp
  <2> QED
    BY <2>2 DEF HashesUp
<1>3. F(up)
  BY <1>2
<1> HIDE DEF up
<1>4. up[0] = leaf /\ \A i \in 1 .. n : up[i] = PairHash(up[i - 1], path[i])
  BY <1>3 DEF n
<1>5. IsClimb(up, coinbase, path)
  BY <1>1, <1>4 DEF n, leaf, IsClimb
<1> QED
  BY <1>5

\* compute_merkle_root is the climb along the branches in internal order.
LEMMA RootIsClimbed ==
  ASSUME NEW coinb1, NEW xn, NEW coinb2, NEW branches,
         Len(branches) \in Nat, DOMAIN branches = 1 .. Len(branches)
  PROVE  compute_merkle_root(coinb1, xn, coinb2, branches)
           = Climbed(coinb1 \o xn \o coinb2, [i \in DOMAIN branches |-> Rev(branches[i])])
<1> DEFINE n == Len(branches)
           coinbase == coinb1 \o xn \o coinb2
           path == [i \in DOMAIN branches |-> Rev(branches[i])]
           leaf == TxHash(coinbase)
           F(f) == f = [i \in 0 .. n |-> IF i = 0 THEN leaf
                                         ELSE PairHash(f[i - 1], Rev(branches[i]))]
           acc == CHOOSE f : F(f)
<1>1. compute_merkle_root(coinb1, xn, coinb2, branches) = acc[n]
  BY DEF compute_merkle_root
<1>2. n \in Nat /\ Len(path) = n /\ \A i \in 1 .. n : path[i] = Rev(branches[i])
  OBVIOUS
<1> HIDE DEF n, leaf, coinbase, path
<1>0. n \in Nat
  BY <1>2
<1>a. PICK g : HashesUp(g, n, leaf, path)
  BY <1>0, HashingUp
<1>3. g = [i \in 0 .. n |-> IF i = 0 THEN leaf ELSE PairHash(g[i - 1], path[i])]
  BY <1>a DEF HashesUp
<1>4. F(g)
  <2> DEFINE h == [i \in 0 .. n |-> IF i = 0 THEN leaf ELSE PairHash(g[i - 1], Rev(branches[i]))]
  <2>1. ASSUME NEW i \in 0 .. n PROVE g[i] = h[i]
    <3>1. i # 0 => path[i] = Rev(branches[i])
      BY <1>2
    <3> QED
      BY <1>3, <3>1
  <2> QED
    BY <1>3, <2>1
<1>5. F(acc)
  BY <1>4
<1> HIDE DEF acc
<1>6. acc[0] = leaf /\ \A i \in 1 .. n : acc[i] = PairHash(acc[i - 1], path[i])
  BY <1>2, <1>5
<1>7. PICK f : /\ f[0] = leaf /\ Climbed(coinbase, path) = f[n]
               /\ \A i \in 1 .. n : f[i] = PairHash(f[i - 1], path[i])
  <2>1. Len(path) \in Nat
    BY <1>2
  <2>2. PICK f : IsClimb(f, coinbase, path)
    BY <2>1, ClimbedIs
  <2> QED
    BY <1>2, <2>2 DEF leaf, IsClimb
<1> DEFINE S == {i \in 0 .. n : f[i] = acc[i]}
<1>8. 0 \in S
  BY <1>2, <1>6, <1>7
<1>9. ASSUME NEW i \in 1 .. n, i - 1 \in S PROVE i \in S
  BY <1>2, <1>6, <1>7, <1>9
<1>10. n \in S
  <2> HIDE DEF S
  <2> QED
    BY <1>0, <1>8, <1>9, UpTo
<1>11. compute_merkle_root(coinb1, xn, coinb2, branches) = Climbed(coinbase, path)
  BY <1>1, <1>7, <1>10
<1> QED
  BY <1>11 DEF coinbase, path

LEMMA RevIs ==
  ASSUME NEW h, IsHash(h)
  PROVE  /\ Rev(h) = [term |-> h.term, rev |-> IF h.rev THEN FALSE ELSE TRUE, swap |-> h.swap]
         /\ SwapWords(h) = [term |-> h.term, rev |-> h.rev, swap |-> IF h.swap THEN FALSE ELSE TRUE]
<1>1. /\ Rev(h) = [term |-> h.term, rev |-> ~h.rev, swap |-> h.swap]
      /\ SwapWords(h) = [term |-> h.term, rev |-> h.rev, swap |-> ~h.swap]
  BY DEF IsHash, Rev, SwapWords
<1>2. h.rev \in BOOLEAN /\ h.swap \in BOOLEAN
  BY DEF IsHash
<1>3. Rev(h) = [term |-> h.term, rev |-> IF h.rev THEN FALSE ELSE TRUE, swap |-> h.swap]
  <2>1. CASE h.rev = TRUE
    BY <1>1, <2>1
  <2>2. CASE h.rev = FALSE
    BY <1>1, <2>2
  <2> QED
    BY <1>2, <2>1, <2>2
<1>4. SwapWords(h) = [term |-> h.term, rev |-> h.rev,
                      swap |-> IF h.swap THEN FALSE ELSE TRUE]
  <2>1. CASE h.swap = TRUE
    BY <1>1, <2>1
  <2>2. CASE h.swap = FALSE
    BY <1>1, <2>2
  <2> QED
    BY <1>2, <2>1, <2>2
<1> QED
  BY <1>3, <1>4

\* Reversing twice changes nothing.
LEMMA RevTwice ==
  ASSUME NEW h, IsHash(h)
  PROVE  /\ Rev(Rev(h)) = h /\ IsHash(Rev(h))
         /\ SwapWords(SwapWords(h)) = h /\ IsHash(SwapWords(h))
<1> DEFINE r == [term |-> h.term, rev |-> IF h.rev THEN FALSE ELSE TRUE, swap |-> h.swap]
           s == [term |-> h.term, rev |-> h.rev, swap |-> IF h.swap THEN FALSE ELSE TRUE]
<1>1. /\ h.rev \in BOOLEAN /\ h.swap \in BOOLEAN
      /\ h = [term |-> h.term, rev |-> h.rev, swap |-> h.swap]
  BY DEF IsHash
<1>2. Rev(h) = r /\ SwapWords(h) = s
  BY RevIs
<1>3. IsHash(r) /\ IsHash(s)
  BY <1>1 DEF IsHash
<1>4. /\ r.term = h.term /\ r.swap = h.swap /\ s.term = h.term /\ s.rev = h.rev
      /\ (IF r.rev THEN FALSE ELSE TRUE) = h.rev /\ (IF s.swap THEN FALSE ELSE TRUE) = h.swap
  BY <1>1
<1> HIDE DEF r, s
<1>5. Rev(r) = [term |-> h.term, rev |-> h.rev, swap |-> h.swap]
  <2>1. Rev(r) = [term |-> r.term, rev |-> IF r.rev THEN FALSE ELSE TRUE, swap |-> r.swap]
    BY <1>3, RevIs
  <2> QED
    BY <1>4, <2>1
<1>6. SwapWords(s) = [term |-> h.term, rev |-> h.rev, swap |-> h.swap]
  <2>1. SwapWords(s) = [term |-> s.term, rev |-> s.rev, swap |-> IF s.swap THEN FALSE ELSE TRUE]
    BY <1>3, RevIs
  <2> QED
    BY <1>4, <2>1
<1> QED
  BY <1>1, <1>2, <1>3, <1>5, <1>6

LEMMA HashesAre ==
  /\ \A l, r : IsHash(PairHash(l, r))
  /\ IsHash(Zero32) /\ \A b : IsHash(TxHash(b))
BY DEF IsHash, PairHash, TxHash, Zero32, Word32

\* What the loop of build_merkle_branches starts from.
FirstRound(txids) ==
  [level |-> [i \in DOMAIN txids |-> Rev(txids[i])], size |-> Len(txids) + 1,
   branch |-> <<[i \in DOMAIN txids |-> Rev(txids[i])][1]>>]

Branches(path) == [i \in DOMAIN path |-> Rev(path[i])]

\* Some sequence of rounds gives the branches.
LEMMA BranchesByRounds ==
  ASSUME NEW txids, txids # << >>, Len(txids) \in Nat
  PROVE  \E f : /\ f[0] = FirstRound(txids)
                /\ \A r \in 1 .. Len(txids) :
                     f[r] = IF f[r - 1].size <= 1 THEN f[r - 1]
                            ELSE Climb(f[r - 1].level, f[r - 1].size, f[r - 1].branch)
                /\ build_merkle_branches(txids) = Branches(f[Len(txids)].branch)
<1> DEFINE n == Len(txids)
           first == FirstRound(txids)
           F(f) == f = [i \in 0 .. n |->
                          IF i = 0 THEN first
                          ELSE IF f[i - 1].size <= 1 THEN f[i - 1]
                               ELSE Climb(f[i - 1].level, f[i - 1].size, f[i - 1].branch)]
           round == CHOOSE f : F(f)
<1>1. build_merkle_branches(txids) = Branches(round[n].branch)
  BY DEF build_merkle_branches, Branches, FirstRound
<1> HIDE DEF n, first
<1>2. n \in Nat
  BY DEF n
<1>3. \E f : RoundsFrom(f, n, first)
  BY <1>2, Rounding
<1>4. F(round)
  BY <1>3 DEF RoundsFrom, NextRound
<1> HIDE DEF round
<1>5. /\ round[0] = first
      /\ \A r \in 1 .. n :
           round[r] = IF round[r - 1].size <= 1 THEN round[r - 1]
                      ELSE Climb(round[r - 1].level, round[r - 1].size, round[r - 1].branch)
  BY <1>2, <1>4
<1> QED
  BY <1>1, <1>5 DEF n, first

LEMMA ClimbAppends ==
  ASSUME NEW level, NEW size, NEW branch, NEW V, branch \in Seq(V)
  PROVE  \E W : Climb(level, size, branch).branch \in Seq(W)
<1>1. PICK x : Climb(level, size, branch).branch \in {branch, Append(branch, x)}
  BY DEF Climb
<1>2. Append(branch, x) \in Seq(V \cup {x}) /\ branch \in Seq(V \cup {x})
  OBVIOUS
<1> QED
  BY <1>1, <1>2

\* The branches are a sequence.
LEMMA BranchesAreSequence ==
  ASSUME NEW txids, Len(txids) \in Nat
  PROVE  /\ Len(build_merkle_branches(txids)) \in Nat
         /\ DOMAIN build_merkle_branches(txids) = 1 .. Len(build_merkle_branches(txids))
<1>1. CASE txids = << >>
  <2>1. build_merkle_branches(txids) = << >>
    BY <1>1 DEF build_merkle_branches
  <2> QED
    BY <2>1
<1>2. CASE txids # << >>
  <2> DEFINE n == Len(txids)
  <2>1. n \in Nat
    OBVIOUS
  <2>2. PICK f : /\ f[0] = FirstRound(txids)
                 /\ \A r \in 1 .. n :
                      f[r] = IF f[r - 1].size <= 1 THEN f[r - 1]
                             ELSE Climb(f[r - 1].level, f[r - 1].size, f[r - 1].branch)
                 /\ build_merkle_branches(txids) = Branches(f[n].branch)
    BY <1>2, BranchesByRounds
  <2> HIDE DEF n
  <2> DEFINE S == {r \in 0 .. n : \E V : f[r].branch \in Seq(V)}
  <2>3. 0 \in S
    <3> DEFINE x == [i \in DOMAIN txids |-> Rev(txids[i])][1]
    <3>1. f[0].branch = <<x>>
      BY <2>2 DEF FirstRound
    <3> HIDE DEF x
    <3>2. f[0].branch \in Seq({x})
      BY <3>1
    <3> QED
      BY <2>1, <3>2
  <2>4. ASSUME NEW r \in 1 .. n, r - 1 \in S PROVE r \in S
    <3>1. PICK V : f[r - 1].branch \in Seq(V)
      BY <2>4
    <3>2. \E W : Climb(f[r - 1].level, f[r - 1].size, f[r - 1].branch).branch \in Seq(W)
      BY <3>1, ClimbAppends
    <3>3. f[r] \in {f[r - 1], Climb(f[r - 1].level, f[r - 1].size, f[r - 1].branch)}
      BY <2>2
    <3>4. \E W : f[r].branch \in Seq(W)
      BY <3>1, <3>2, <3>3
    <3> QED
      BY <3>4
  <2>5. n \in S
    <3> HIDE DEF S
    <3> QED
      BY <2>1, <2>3, <2>4, UpTo
  <2>6. PICK V : f[n].branch \in Seq(V)
    BY <2>5
  <2> DEFINE path == f[n].branch
             m == Len(path)
  <2>7. m \in Nat /\ DOMAIN path = 1 .. m
    BY <2>6
  <2> HIDE DEF path, m
  <2>8. Branches(path) = [i \in 1 .. m |-> Rev(path[i])]
    BY <2>7 DEF Branches
  <2>9. Len(Branches(path)) = m /\ DOMAIN Branches(path) = 1 .. m
    BY <2>7, <2>8
  <2> QED
    BY <2>2, <2>7, <2>9 DEF path
<1> QED
  BY <1>1, <1>2

\* A sequence of anything.
IsSeq(s) == \E V : s \in Seq(V)

LEMMA Concat ==
  ASSUME NEW s, NEW t, IsSeq(s), IsSeq(t)
  PROVE  IsSeq(s \o t) /\ Len(s \o t) = Len(s) + Len(t) /\ Len(s) \in Nat /\ Len(t) \in Nat
<1>1. PICK V : s \in Seq(V)
  BY DEF IsSeq
<1>2. PICK W : t \in Seq(W)
  BY DEF IsSeq
<1>3. s \in Seq(V \cup W) /\ t \in Seq(V \cup W)
  BY <1>1, <1>2
<1> DEFINE U == V \cup W
<1> HIDE DEF U
<1>4. s \in Seq(U) /\ t \in Seq(U)
  BY <1>3 DEF U
<1>5. s \o t \in Seq(U) /\ Len(s \o t) = Len(s) + Len(t) /\ Len(s) \in Nat /\ Len(t) \in Nat
  BY <1>4
<1> QED
  BY <1>5 DEF IsSeq

\* Where the elements of a concatenation come from.
LEMMA FromFirst ==
  ASSUME NEW s, NEW t, IsSeq(s), IsSeq(t), NEW i \in 1 .. Len(s)
  PROVE  (s \o t)[i] = s[i]
<1>1. PICK V : s \in Seq(V)
  BY DEF IsSeq
<1>2. PICK W : t \in Seq(W)
  BY DEF IsSeq
<1> QED
  BY <1>1, <1>2

LEMMA FromSecond ==
  ASSUME NEW s, NEW t, IsSeq(s), IsSeq(t), NEW i \in 1 .. Len(t)
  PROVE  (s \o t)[Len(s) + i] = t[i]
<1>1. PICK V : s \in Seq(V)
  BY DEF IsSeq
<1>2. PICK W : t \in Seq(W)
  BY DEF IsSeq
<1> QED
  BY <1>1, <1>2

LEMMA FunctionIsSeq ==
  ASSUME NEW n \in Nat, NEW s, DOMAIN s = 1 .. n, s = [i \in 1 .. n |-> s[i]]
  PROVE  IsSeq(s) /\ Len(s) = n
<1> DEFINE V == {s[i] : i \in 1 .. n}
<1>1. s \in [1 .. n -> V]
  OBVIOUS
<1> HIDE DEF V
<1>2. s \in Seq(V) /\ Len(s) = n
  BY <1>1
<1> QED
  BY <1>2 DEF IsSeq

LEMMA TupleIsSeq ==
  /\ \A a : IsSeq(<<a>>) /\ Len(<<a>>) = 1
  /\ \A a, b : IsSeq(<<a, b>>) /\ Len(<<a, b>>) = 2
  /\ IsSeq(<< >>) /\ Len(<< >>) = 0
<1>1. ASSUME NEW a PROVE IsSeq(<<a>>) /\ Len(<<a>>) = 1
  <2>1. <<a>> \in Seq({a})
    OBVIOUS
  <2> QED
    BY <2>1 DEF IsSeq
<1>2. ASSUME NEW a, NEW b PROVE IsSeq(<<a, b>>) /\ Len(<<a, b>>) = 2
  <2>1. <<a, b>> \in Seq({a, b})
    OBVIOUS
  <2> QED
    BY <2>1 DEF IsSeq
<1>3. IsSeq(<< >>) /\ Len(<< >>) = 0
  <2>1. << >> \in Seq({})
    OBVIOUS
  <2> QED
    BY <2>1 DEF IsSeq
<1> QED
  BY <1>1, <1>2, <1>3

LEMMA Appended ==
  ASSUME NEW s, NEW a, IsSeq(s)
  PROVE  IsSeq(Append(s, a))
<1>1. PICK V : s \in Seq(V)
  BY DEF IsSeq
<1>2. Append(s, a) \in Seq(V \cup {a})
  BY <1>1
<1> QED
  BY <1>2 DEF IsSeq

LEMMA BytesAre ==
  /\ \A n, w : w \in Nat => IsSeq(Bytes(n, w)) /\ Len(Bytes(n, w)) = w
  /\ \A b, n : n \in Nat => IsSeq(Rep(b, n)) /\ Len(Rep(b, n)) = n
<1>1. ASSUME NEW n, NEW w \in Nat PROVE IsSeq(Bytes(n, w)) /\ Len(Bytes(n, w)) = w
  <2> DEFINE s == [i \in 1 .. w |-> (n \div 256 ^ (i - 1)) % 256]
  <2>1. DOMAIN s = 1 .. w /\ s = [i \in 1 .. w |-> s[i]]
    OBVIOUS
  <2> HIDE DEF s
  <2>2. IsSeq(s) /\ Len(s) = w
    BY <2>1, FunctionIsSeq
  <2> QED
    BY <2>2 DEF s, Bytes
<1>2. ASSUME NEW b, NEW n \in Nat PROVE IsSeq(Rep(b, n)) /\ Len(Rep(b, n)) = n
  <2> DEFINE s == [i \in 1 .. n |-> b]
  <2>1. DOMAIN s = 1 .. n /\ s = [i \in 1 .. n |-> s[i]]
    OBVIOUS
  <2> HIDE DEF s
  <2>2. IsSeq(s) /\ Len(s) = n
    BY <2>1, FunctionIsSeq
  <2> QED
    BY <2>2 DEF s, Rep
<1> QED
  BY <1>1, <1>2

\* The parts of the scriptsig are sequences, whatever the height and the length.
LEMMA PartsAreSeqs ==
  /\ \A n : IsSeq(push_varint(n))
  /\ \A height : IsSeq(bip34_height_script(height))
  /\ \A p, s : IsSeq(p) /\ IsSeq(s) => IsSeq(build_tag_push_block(p, s))
  /\ \A pot, uid : IsSeq(build_uid_push_block(pot, uid)) /\ Len(build_uid_push_block(pot, uid)) = 4
<1>1. ASSUME NEW n PROVE IsSeq(push_varint(n))
  <2>1. IsSeq(<<253>> \o Bytes(n, 2)) /\ IsSeq(<<n>>)
    BY BytesAre, TupleIsSeq, Concat
  <2> QED
    BY <2>1 DEF push_varint
<1>2. ASSUME NEW height PROVE IsSeq(bip34_height_script(height))
  <2> DEFINE W(w) == /\ w = 4 \/ height < 256 ^ w
                     /\ w = 1 \/ ~ (height < 256 ^ (w - 1))
             width == CHOOSE w \in 1 .. 4 : W(w)
             bytes == Bytes(height, width)
             signed == IF bytes[width] >= 128 THEN Append(bytes, 0) ELSE bytes
  <2>1. bip34_height_script(height) = <<Len(signed)>> \o signed
    BY DEF bip34_height_script
  <2>2. W(1) \/ W(2) \/ W(3) \/ W(4)
    OBVIOUS
  <2> HIDE DEF W
  <2>3. width \in 1 .. 4
    BY <2>2
  <2> HIDE DEF width
  <2>4. IsSeq(bytes)
    BY <2>3, BytesAre
  <2> HIDE DEF bytes
  <2>5. IsSeq(signed)
    BY <2>4, Appended
  <2> HIDE DEF signed
  <2> QED
    BY <2>1, <2>5, TupleIsSeq, Concat
<1>3. ASSUME NEW p, NEW s, IsSeq(p), IsSeq(s) PROVE IsSeq(build_tag_push_block(p, s))
  <2> DEFINE a == IF p # << >> THEN Append(p, IF s = << >> THEN 0 ELSE 15)
                  ELSE IF s # << >> THEN <<15>> ELSE << >>
             b == IF s # << >> THEN Append(s, 0) ELSE << >>
             body_ == TagBody(p, s)
             k == Len(body_)
  <2>1. IsSeq(a) /\ IsSeq(b)
    BY <1>3, Appended, TupleIsSeq
  <2>2. body_ = a \o b
    BY DEF TagBody
  <2> HIDE DEF a, b, body_
  <2>3. IsSeq(body_)
    BY <2>1, <2>2, Concat
  <2>4. k \in Nat
    BY <2>3, TupleIsSeq, Concat
  <2>5. /\ build_tag_push_block(p, s) = CASE k = 0 -> <<1, 0>>
                                          [] k \in 1 .. 75 -> <<k>> \o body_
                                          [] k > 75 -> <<76, k % 256>> \o body_
    BY DEF build_tag_push_block, body_
  <2> HIDE DEF k
  <2>6. IsSeq(<<1, 0>>) /\ IsSeq(<<k>> \o body_) /\ IsSeq(<<76, k % 256>> \o body_)
    BY <2>3, TupleIsSeq, Concat
  <2>7. k = 0 \/ k \in 1 .. 75 \/ k > 75
    BY <2>4
  <2>8. build_tag_push_block(p, s) \in {<<1, 0>>, <<k>> \o body_, <<76, k % 256>> \o body_}
    BY <2>5, <2>7
  <2> QED
    BY <2>6, <2>8
<1>4. ASSUME NEW pot, NEW uid
      PROVE  IsSeq(build_uid_push_block(pot, uid)) /\ Len(build_uid_push_block(pot, uid)) = 4
  <2>1. IsSeq(Bytes(uid, 2)) /\ Len(Bytes(uid, 2)) = 2 /\ IsSeq(<<3, pot>>) /\ Len(<<3, pot>>) = 2
    BY BytesAre, TupleIsSeq
  <2> DEFINE front == <<3, pot>>
             back == Bytes(uid, 2)
  <2>2. build_uid_push_block(pot, uid) = front \o back
    BY DEF build_uid_push_block
  <2> HIDE DEF front, back
  <2>3. IsSeq(front \o back) /\ Len(front \o back) = Len(front) + Len(back)
    BY <2>1, Concat DEF front, back
  <2>4. Len(front) = 2 /\ Len(back) = 2
    BY <2>1 DEF front, back
  <2> QED
    BY <2>2, <2>3, <2>4
<1> QED
  BY <1>1, <1>2, <1>3, <1>4

\* The index of the difficulty's byte is an index of coinb1, the sixth from its
\* end, and it is where the placeholder is.
LEMMA PotIndexInside ==
  ASSUME NEW height, NEW s, NEW blob, IsSeq(s.primary), IsSeq(s.secondary)
  PROVE  LET split == build_split_coinbase_bin(height, s, blob)
         IN  /\ split.target_pot_index \in Nat
             /\ IsSeq(split.coinb1) /\ split.target_pot_index < Len(split.coinb1)
             /\ split.target_pot_index + 1 = Len(split.coinb1) - 5
             /\ split.coinb1[split.target_pot_index + 1] = s.pot
<1> DEFINE heightPush == bip34_height_script(height)
           tag_block == build_tag_push_block(s.primary, s.secondary)
           uid_block == build_uid_push_block(s.pot, s.uid)
           scriptsig_len == Len(heightPush) + Len(tag_block) + Len(uid_block) + 1
                              + ENPREFIX_LEN + EXTRANONCE_PLACEHOLDER_LEN
           head == Bytes(1, 4) \o <<1>> \o Rep(0, 32) \o Rep(255, 4)
                     \o push_varint(scriptsig_len) \o heightPush \o tag_block
           coinb1 == head \o uid_block \o <<14>> \o Bytes(s.enprefix, 2)
           split == build_split_coinbase_bin(height, s, blob)
<1>1. split.coinb1 = coinb1 /\ split.target_pot_index = Len(head) + 1
  BY DEF build_split_coinbase_bin
<1>2. IsSeq(heightPush) /\ IsSeq(tag_block) /\ IsSeq(uid_block) /\ Len(uid_block) = 4
  BY PartsAreSeqs
<1>0. uid_block[2] = s.pot
  <2>1. /\ IsSeq(<<3, s.pot>>) /\ Len(<<3, s.pot>>) = 2
        /\ IsSeq(Bytes(s.uid, 2)) /\ Len(Bytes(s.uid, 2)) = 2
    BY BytesAre, TupleIsSeq
  <2>2. uid_block = <<3, s.pot>> \o Bytes(s.uid, 2)
    BY DEF build_uid_push_block
  <2>3. <<3, s.pot>>[2] = s.pot
    OBVIOUS
  <2> HIDE DEF uid_block
  <2>4. uid_block[2] = <<3, s.pot>>[2]
    BY <2>1, <2>2, FromFirst
  <2> QED
    BY <2>3, <2>4
<1> HIDE DEF heightPush, tag_block, uid_block
<1>3. IsSeq(push_varint(scriptsig_len))
  BY PartsAreSeqs
<1> HIDE DEF scriptsig_len
<1>4. IsSeq(Bytes(1, 4)) /\ IsSeq(<<1>>) /\ IsSeq(Rep(0, 32)) /\ IsSeq(Rep(255, 4))
  BY BytesAre, TupleIsSeq
<1>5. IsSeq(head)
  <2>1. IsSeq(Bytes(1, 4) \o <<1>> \o Rep(0, 32) \o Rep(255, 4))
    BY <1>4, Concat
  <2> QED
    BY <1>2, <1>3, <2>1, Concat
<1> HIDE DEF head
<1>6. /\ IsSeq(<<14>>) /\ IsSeq(Bytes(s.enprefix, 2))
      /\ Len(<<14>>) = 1 /\ Len(Bytes(s.enprefix, 2)) = 2
  BY BytesAre, TupleIsSeq
<1>7. /\ IsSeq(head \o uid_block) /\ Len(head \o uid_block) = Len(head) + 4
      /\ Len(head) \in Nat
  BY <1>2, <1>5, Concat
<1>8. /\ IsSeq(head \o uid_block \o <<14>>)
      /\ Len(head \o uid_block \o <<14>>) = Len(head) + 4 + 1
  BY <1>6, <1>7, Concat
<1>9. IsSeq(coinb1) /\ Len(coinb1) = Len(head) + 4 + 1 + 2
  BY <1>6, <1>8, Concat
<1>11. coinb1[Len(head) + 2] = s.pot
  <2> DEFINE k == Len(head) + 2
  <2>1. (head \o uid_block)[k] = uid_block[2]
    BY <1>2, <1>5, <1>7, FromSecond
  <2>2. k \in 1 .. Len(head \o uid_block) /\ k \in 1 .. Len(head \o uid_block \o <<14>>)
    BY <1>7, <1>8
  <2> HIDE DEF k
  <2>3. (head \o uid_block \o <<14>>)[k] = (head \o uid_block)[k]
    BY <1>6, <1>7, <2>2, FromFirst
  <2>4. coinb1[k] = (head \o uid_block \o <<14>>)[k]
    BY <1>6, <1>8, <2>2, FromFirst
  <2> QED
    BY <1>0, <2>1, <2>3, <2>4 DEF k
<1> HIDE DEF coinb1, split
<1>10. /\ split.target_pot_index \in Nat /\ IsSeq(split.coinb1)
       /\ split.target_pot_index < Len(split.coinb1)
       /\ split.target_pot_index + 1 = Len(split.coinb1) - 5
       /\ split.coinb1[split.target_pot_index + 1] = s.pot
  <2>1. split.target_pot_index + 1 = Len(head) + 2
    BY <1>1, <1>7
  <2> QED
    BY <1>1, <1>7, <1>9, <1>11, <2>1
<1> QED
  BY <1>10 DEF split

\* The climbs of a short path.
LEMMA ShortClimbs ==
  ASSUME NEW coinbase, NEW path
  PROVE  /\ path = << >> => Climbed(coinbase, path) = TxHash(coinbase)
         /\ \A a : path = <<a>> => Climbed(coinbase, path) = PairHash(TxHash(coinbase), a)
         /\ \A a, b : path = <<a, b>> =>
              Climbed(coinbase, path) = PairHash(PairHash(TxHash(coinbase), a), b)
<1> DEFINE leaf == TxHash(coinbase)
<1>1. ASSUME path = << >> PROVE Climbed(coinbase, path) = leaf
  <2>1. Len(path) = 0 /\ Len(path) \in Nat
    BY <1>1
  <2>0. PICK f : IsClimb(f, coinbase, path)
    BY <2>1, ClimbedIs
  <2>2. f[0] = leaf /\ Climbed(coinbase, path) = f[Len(path)]
    BY <2>0 DEF IsClimb
  <2> QED
    BY <2>1, <2>2
<1>2. ASSUME NEW a, path = <<a>> PROVE Climbed(coinbase, path) = PairHash(leaf, a)
  <2>1. Len(path) = 1 /\ path[1] = a
    BY <1>2
  <2>0. PICK f : IsClimb(f, coinbase, path)
    BY <2>1, ClimbedIs
  <2>2. /\ f[0] = leaf /\ Climbed(coinbase, path) = f[Len(path)]
        /\ \A i \in 1 .. Len(path) : f[i] = PairHash(f[i - 1], path[i])
    BY <2>0 DEF IsClimb
  <2>3. f[1] = PairHash(f[0], path[1])
    BY <2>1, <2>2
  <2> QED
    BY <2>1, <2>2, <2>3
<1>3. ASSUME NEW a, NEW b, path = <<a, b>>
      PROVE  Climbed(coinbase, path) = PairHash(PairHash(leaf, a), b)
  <2>1. Len(path) = 2 /\ path[1] = a /\ path[2] = b
    BY <1>3
  <2>0. PICK f : IsClimb(f, coinbase, path)
    BY <2>1, ClimbedIs
  <2>2. /\ f[0] = leaf /\ Climbed(coinbase, path) = f[Len(path)]
        /\ \A i \in 1 .. Len(path) : f[i] = PairHash(f[i - 1], path[i])
    BY <2>0 DEF IsClimb
  <2>3. f[1] = PairHash(f[0], path[1]) /\ f[2] = PairHash(f[1], path[2])
    BY <2>1, <2>2
  <2> QED
    BY <2>1, <2>2, <2>3
<1> QED
  BY <1>1, <1>2, <1>3

\* The parent of the second and third leaf, the second one twice without a third.
SecondNode(level) ==
  PairHash(level[2], IF 3 <= Len(level) THEN level[3] ELSE level[2])

\* A round of the loop with up to four nodes left.
LEMMA ClimbEffect ==
  ASSUME NEW level, NEW size \in 2 .. 4, NEW branch
  PROVE  /\ size = 2 => /\ Climb(level, size, branch).size = 1
                        /\ Climb(level, size, branch).branch = branch
         /\ size # 2 => /\ Climb(level, size, branch).size = 2
                        /\ Climb(level, size, branch).branch
                             = Append(branch, SecondNode(level))
<1> DEFINE l == Climb(level, size, branch)
           x == SecondNode(level)
           next_size == (size + 1) \div 2
           pair(i) == LET left == level[2 * i]
                          right == IF 2 * i + 1 <= Len(level)
                                   THEN level[2 * i + 1] ELSE left
                      IN  PairHash(left, right)
           next == [i \in 1 .. next_size |-> IF i = 1 THEN Zero32 ELSE pair(i - 1)]
<1>1. l.size = next_size /\ l.branch = IF next_size > 1 THEN Append(branch, next[2]) ELSE branch
  BY DEF Climb
<1>2. next_size = IF size = 2 THEN 1 ELSE 2
  OBVIOUS
<1>3. next_size = 2 => next[2] = pair(1)
  OBVIOUS
<1>4. pair(1) = x
  BY DEF SecondNode
<1> HIDE DEF l, next, next_size, pair, x
<1>5. /\ size = 2 => l.size = 1 /\ l.branch = branch
      /\ size # 2 => l.size = 2 /\ l.branch = Append(branch, x)
  BY <1>1, <1>2, <1>3, <1>4
<1> QED
  BY <1>5 DEF l, x

LEMMA AppendSecond ==
  ASSUME NEW a, NEW b
  PROVE  Append(<<a>>, b) = <<a, b>>
<1> DEFINE s == Append(<<a>>, b)
           V == {a, b}
<1>1. <<a>> \in Seq(V) /\ b \in V /\ <<a, b>> \in Seq(V)
  OBVIOUS
<1>2. Len(<<a>>) = 1 /\ Len(<<a, b>>) = 2
  OBVIOUS
<1> HIDE DEF V
<1>3. s \in Seq(V) /\ Len(s) = 2 /\ s[1] = a /\ s[2] = b
  BY <1>1, <1>2
<1> HIDE DEF s
<1>4. s = <<a, b>>
  BY <1>1, <1>2, <1>3
<1> QED
  BY <1>4 DEF s

\* Up to three transactions: what the loop collects.
LEMMA ShortBranches ==
  ASSUME NEW txids, IsSeq(txids), Len(txids) \in 1 .. 3
  PROVE  /\ Len(txids) = 1 =>
              build_merkle_branches(txids) = Branches(<<Rev(txids[1])>>)
         /\ Len(txids) # 1 =>
              build_merkle_branches(txids)
                = Branches(<<Rev(txids[1]),
                             PairHash(Rev(txids[2]), IF Len(txids) = 3 THEN Rev(txids[3])
                                                     ELSE Rev(txids[2]))>>)
<1> DEFINE n == Len(txids)
           t(i) == Rev(txids[i])
           level == [i \in DOMAIN txids |-> t(i)]
<1>1. txids # << >> /\ DOMAIN txids = 1 .. n
  <2>1. PICK V : txids \in Seq(V)
    BY DEF IsSeq
  <2> QED
    BY <2>1
<1>2. n \in Nat
  OBVIOUS
<1>3. PICK f : /\ f[0] = FirstRound(txids)
               /\ \A r \in 1 .. n :
                    f[r] = IF f[r - 1].size <= 1 THEN f[r - 1]
                           ELSE Climb(f[r - 1].level, f[r - 1].size, f[r - 1].branch)
               /\ build_merkle_branches(txids) = Branches(f[n].branch)
  BY <1>1, <1>2, BranchesByRounds
<1>4. f[0].level = level /\ f[0].size = n + 1 /\ f[0].branch = <<t(1)>>
  <2>1. f[0].level = level /\ f[0].size = n + 1 /\ f[0].branch = <<level[1]>>
    BY <1>3 DEF FirstRound
  <2>2. level[1] = t(1)
    BY <1>1
  <2> QED
    BY <2>1, <2>2
<1>5. f[1] = Climb(level, n + 1, <<t(1)>>)
  <2>1. 1 \in 1 .. n
    OBVIOUS
  <2>2. f[1] = IF f[0].size <= 1 THEN f[0] ELSE Climb(f[0].level, f[0].size, f[0].branch)
    BY <1>3, <2>1
  <2> QED
    BY <1>4, <2>2
<1>6. Len(level) = n /\ \A i \in 1 .. n : level[i] = t(i)
  BY <1>1
<1> HIDE DEF level, t, n
<1> DEFINE size == n + 1
           one == <<t(1)>>
<1>7. f[1] = Climb(level, size, one)
  BY <1>5
<1>8. CASE n = 1
  <2>1. size \in 2 .. 4 /\ size = 2
    BY <1>8
  <2> HIDE DEF size, one
  <2>2. f[1].branch = one
    <3>1. Climb(level, size, one).branch = one
      BY <2>1, ClimbEffect
    <3> QED
      BY <1>7, <3>1
  <2> QED
    BY <1>3, <1>8, <2>2 DEF n, t, one
<1>9. CASE n \in {2, 3}
  <2> DEFINE x == SecondNode(level)
  <2>1. x = PairHash(t(2), IF n = 3 THEN t(3) ELSE t(2))
    BY <1>6, <1>9 DEF SecondNode
  <2>2. size \in 2 .. 4 /\ size # 2
    BY <1>9
  <2> HIDE DEF size
  <2>3. f[1].size = 2 /\ f[1].branch = <<t(1), x>>
    <3> HIDE DEF one
    <3>0. /\ Climb(level, size, one).size = 2
          /\ Climb(level, size, one).branch = Append(one, x)
      BY <2>2, ClimbEffect
    <3>1. f[1].size = 2 /\ f[1].branch = Append(one, x)
      BY <1>7, <3>0
    <3> HIDE DEF x
    <3> QED
      BY <3>1, AppendSecond DEF one
  <2> HIDE DEF x
  <2>4. f[2].size = 1 /\ f[2].branch = <<t(1), x>>
    <3> DEFINE l == f[1]
    <3>1. f[2] = Climb(l.level, l.size, l.branch)
      <4>1. 2 \in 1 .. n /\ 2 - 1 = 1
        BY <1>9
      <4>2. f[2] = IF f[2 - 1].size <= 1 THEN f[2 - 1]
                   ELSE Climb(f[2 - 1].level, f[2 - 1].size, f[2 - 1].branch)
        BY <1>3, <4>1
      <4> QED
        BY <2>3, <4>1, <4>2
    <3>2. l.size \in 2 .. 4 /\ l.size = 2
      BY <2>3
    <3> DEFINE ll == l.level
               sz == l.size
               br == l.branch
    <3> HIDE DEF ll, sz, br
    <3>4. Climb(ll, sz, br).size = 1 /\ Climb(ll, sz, br).branch = br
      BY <3>2, ClimbEffect DEF sz
    <3>3. f[2].size = 1 /\ f[2].branch = l.branch
      BY <3>1, <3>4 DEF ll, sz, br
    <3> QED
      BY <2>3, <3>3
  <2>5. ASSUME n = 3 PROVE f[3] = f[2]
    <3>1. 3 \in 1 .. n /\ 3 - 1 = 2
      BY <2>5
    <3>2. f[3] = IF f[3 - 1].size <= 1 THEN f[3 - 1]
                 ELSE Climb(f[3 - 1].level, f[3 - 1].size, f[3 - 1].branch)
      BY <1>3, <3>1
    <3> QED
      BY <2>4, <3>1, <3>2
  <2>6. f[n].branch = <<t(1), x>>
    BY <1>9, <2>4, <2>5
  <2>7. build_merkle_branches(txids) = Branches(<<t(1), x>>)
    BY <1>3, <2>6
  <2> QED
    BY <1>9, <2>1, <2>7 DEF n, t
<1> QED
  BY <1>8, <1>9 DEF n, t

\* Halving a level of two to four nodes.
LEMMA HalvedIs ==
  ASSUME NEW level, Len(level) \in 2 .. 4
  PROVE  /\ Len(level) = 2 => Len(Halved(level)) = 1
         /\ Len(level) # 2 => Len(Halved(level)) = 2
         /\ Halved(level)[1] = PairHash(level[1], level[2])
         /\ Len(level) = 3 => Halved(level)[2] = PairHash(level[3], level[3])
         /\ Len(level) = 4 => Halved(level)[2] = PairHash(level[3], level[4])
<1> DEFINE n == Len(level)
           m == (n + 1) \div 2
           pair(i) == PairHash(level[2 * i - 1], level[IF 2 * i <= n THEN 2 * i ELSE 2 * i - 1])
           h == [i \in 1 .. m |-> pair(i)]
<1>1. Halved(level) = h
  BY DEF Halved
<1>2. m = IF n = 2 THEN 1 ELSE 2
  <2>1. n \in {2, 3, 4}
    OBVIOUS
  <2> HIDE DEF n
  <2> QED
    BY <2>1
<1>3. pair(1) = PairHash(level[1], level[2])
  <2>1. 2 * 1 - 1 = 1 /\ (IF 2 * 1 <= n THEN 2 * 1 ELSE 2 * 1 - 1) = 2
    OBVIOUS
  <2> QED
    BY <2>1
<1>4. n = 3 => pair(2) = PairHash(level[3], level[3])
  <2> SUFFICES ASSUME n = 3 PROVE pair(2) = PairHash(level[3], level[3])
    OBVIOUS
  <2>1. 2 * 2 - 1 = 3 /\ (IF 2 * 2 <= n THEN 2 * 2 ELSE 2 * 2 - 1) = 3
    OBVIOUS
  <2> QED
    BY <2>1
<1>5. n = 4 => pair(2) = PairHash(level[3], level[4])
  <2> SUFFICES ASSUME n = 4 PROVE pair(2) = PairHash(level[3], level[4])
    OBVIOUS
  <2>1. 2 * 2 - 1 = 3 /\ (IF 2 * 2 <= n THEN 2 * 2 ELSE 2 * 2 - 1) = 4
    OBVIOUS
  <2> QED
    BY <2>1
<1> HIDE DEF pair, m
<1>6. Len(h) = m /\ h[1] = pair(1) /\ (m = 2 => h[2] = pair(2))
  BY <1>2
<1> HIDE DEF h
<1> QED
  BY <1>1, <1>2, <1>3, <1>4, <1>5, <1>6

IsRows(f, leaves) ==
  /\ f[0] = leaves /\ MerkleRoot(leaves) = f[Len(leaves)][1]
  /\ \A r \in 1 .. Len(leaves) :
       f[r] = IF Len(f[r - 1]) = 1 THEN f[r - 1] ELSE Halved(f[r - 1])

\* The rows of a tree lead to its root.
LEMMA RootByRows ==
  ASSUME NEW leaves, Len(leaves) \in Nat
  PROVE  \E f : IsRows(f, leaves)
<1> DEFINE n == Len(leaves)
           F(f) == f = [r \in 0 .. n |->
                          IF r = 0 THEN leaves
                          ELSE IF Len(f[r - 1]) = 1 THEN f[r - 1] ELSE Halved(f[r - 1])]
           row == CHOOSE f : F(f)
<1>1. MerkleRoot(leaves) = row[n][1]
  BY DEF MerkleRoot
<1> HIDE DEF n
<1>2. n \in Nat
  BY DEF n
<1>3. \E f : RowsFrom(f, n, leaves)
  BY <1>2, Rowing
<1>4. F(row)
  BY <1>3 DEF RowsFrom, NextRow
<1> HIDE DEF row
<1>5. /\ row[0] = leaves
      /\ \A r \in 1 .. n :
           row[r] = IF Len(row[r - 1]) = 1 THEN row[r - 1] ELSE Halved(row[r - 1])
  BY <1>2, <1>4
<1>6. IsRows(row, leaves)
  BY <1>1, <1>5 DEF n, IsRows
<1> QED
  BY <1>6

\* The roots of trees with up to four leaves.
LEMMA ShortRoots ==
  ASSUME NEW l, Len(l) \in 1 .. 4
  PROVE  /\ Len(l) = 1 => MerkleRoot(l) = l[1]
         /\ Len(l) = 2 => MerkleRoot(l) = PairHash(l[1], l[2])
         /\ Len(l) = 3 => MerkleRoot(l) = PairHash(PairHash(l[1], l[2]), PairHash(l[3], l[3]))
         /\ Len(l) = 4 => MerkleRoot(l) = PairHash(PairHash(l[1], l[2]), PairHash(l[3], l[4]))
<1> DEFINE n == Len(l)
<1>1. PICK f : IsRows(f, l)
  <2>1. Len(l) \in Nat
    OBVIOUS
  <2> QED
    BY <2>1, RootByRows
<1>2. f[0] = l /\ MerkleRoot(l) = f[n][1]
  BY <1>1 DEF IsRows
<1>3. ASSUME NEW r \in 1 .. n
      PROVE  f[r] = IF Len(f[r - 1]) = 1 THEN f[r - 1] ELSE Halved(f[r - 1])
  BY <1>1 DEF IsRows
<1>4. f[1] = IF n = 1 THEN l ELSE Halved(l)
  <2>1. 1 \in 1 .. n /\ 1 - 1 = 0
    OBVIOUS
  <2> QED
    BY <1>2, <1>3, <2>1
<1>5. CASE n = 1
  BY <1>2, <1>4, <1>5
<1> DEFINE a == f[1]
<1>6. CASE n = 2
  <2>1. a = Halved(l)
    BY <1>4, <1>6
  <2>2. Len(a) = 1 /\ a[1] = PairHash(l[1], l[2])
    <3>1. Len(Halved(l)) = 1 /\ Halved(l)[1] = PairHash(l[1], l[2])
      BY <1>6, HalvedIs
    <3> QED
      BY <2>1, <3>1
  <2>3. f[2] = f[1]
    <3>1. 2 \in 1 .. n /\ 2 - 1 = 1
      BY <1>6
    <3> QED
      BY <1>3, <2>2, <3>1
  <2> QED
    BY <1>2, <1>6, <2>2, <2>3
<1>7. CASE n \in {3, 4}
  <2> DEFINE x == PairHash(l[1], l[2])
             y == IF n = 3 THEN PairHash(l[3], l[3]) ELSE PairHash(l[3], l[4])
  <2>1. a = Halved(l)
    BY <1>4, <1>7
  <2>2. Len(a) = 2 /\ a[1] = x /\ a[2] = y
    <3>1. /\ Len(Halved(l)) = 2 /\ Halved(l)[1] = PairHash(l[1], l[2])
          /\ n = 3 => Halved(l)[2] = PairHash(l[3], l[3])
          /\ n = 4 => Halved(l)[2] = PairHash(l[3], l[4])
      BY <1>7, HalvedIs
    <3> QED
      BY <1>7, <2>1, <3>1
  <2> HIDE DEF x, y
  <2>3. f[2] = Halved(a)
    <3>1. 2 \in 1 .. n /\ 2 - 1 = 1
      BY <1>7
    <3> QED
      BY <1>3, <2>2, <3>1
  <2>4. Len(f[2]) = 1 /\ f[2][1] = PairHash(x, y)
    <3> HIDE DEF a
    <3>1. Len(Halved(a)) = 1 /\ Halved(a)[1] = PairHash(a[1], a[2])
      BY <2>2, HalvedIs
    <3> QED
      BY <2>2, <2>3, <3>1
  <2>5. f[3] = f[2]
    <3>1. 3 \in 1 .. n /\ 3 - 1 = 2
      BY <1>7
    <3> QED
      BY <1>3, <2>4, <3>1
  <2>6. n = 4 => f[4] = f[3]
    <3> SUFFICES ASSUME n = 4 PROVE f[4] = f[3]
      OBVIOUS
    <3>1. 4 \in 1 .. n /\ 4 - 1 = 3
      OBVIOUS
    <3> QED
      BY <1>3, <2>4, <2>5, <3>1
  <2>7. MerkleRoot(l) = PairHash(x, y)
    BY <1>2, <1>7, <2>4, <2>5, <2>6
  <2> QED
    BY <1>7, <2>7 DEF x, y
<1> QED
  BY <1>5, <1>6, <1>7

\* Branches turns a path of hashes around; twice, and it is the path again.
LEMMA BranchesTwice ==
  ASSUME NEW path, IsSeq(path), \A i \in DOMAIN path : IsHash(path[i])
  PROVE  Branches(Branches(path)) = path
<1>1. PICK V : path \in Seq(V)
  BY DEF IsSeq
<1> DEFINE n == Len(path)
<1>2. n \in Nat /\ DOMAIN path = 1 .. n /\ path = [i \in 1 .. n |-> path[i]]
  BY <1>1
<1> HIDE DEF n
<1>3. Branches(path) = [i \in 1 .. n |-> Rev(path[i])]
  BY <1>2 DEF Branches
<1>4. Branches(Branches(path)) = [i \in 1 .. n |-> Rev(Rev(path[i]))]
  BY <1>3 DEF Branches
<1>5. \A i \in 1 .. n : Rev(Rev(path[i])) = path[i]
  BY <1>2, RevTwice
<1> QED
  BY <1>2, <1>4, <1>5

\* Up to three transactions: the branches lead to the root of the block.
LEMMA ShortTrees ==
  ASSUME NEW coinbase, NEW txids, IsSeq(txids), Len(txids) \in 0 .. 3,
         \A i \in DOMAIN txids : IsHash(txids[i])
  PROVE  Climbed(coinbase, Branches(build_merkle_branches(txids))) = BlockRoot(coinbase, txids)
<1> DEFINE n == Len(txids)
           t(i) == Rev(txids[i])
           flipped == [i \in DOMAIN txids |-> t(i)]
           c == TxHash(coinbase)
           l == <<c>> \o flipped
           path == Branches(build_merkle_branches(txids))
<1>1. PICK V : txids \in Seq(V)
  BY DEF IsSeq
<1>2. DOMAIN txids = 1 .. n
  BY <1>1
<1>3. IsSeq(flipped) /\ Len(flipped) = n /\ \A i \in 1 .. n : flipped[i] = t(i)
  <2>1. DOMAIN flipped = 1 .. n /\ flipped = [i \in 1 .. n |-> flipped[i]]
        /\ \A i \in 1 .. n : flipped[i] = t(i)
    BY <1>2
  <2>2. n \in Nat
    OBVIOUS
  <2> HIDE DEF flipped
  <2> QED
    BY <2>1, <2>2, FunctionIsSeq
<1>4. \A i \in 1 .. n : IsHash(t(i))
  BY <1>2, RevTwice
<1>5. BlockRoot(coinbase, txids) = MerkleRoot(l)
  BY DEF BlockRoot
<1>6. Len(l) = n + 1 /\ l[1] = c /\ \A i \in 1 .. n : l[i + 1] = t(i)
  <2> HIDE DEF flipped, c, t
  <2>1. PICK W : flipped \in Seq(W)
    BY <1>3 DEF IsSeq
  <2> DEFINE U == W \cup {c}
  <2>2. flipped \in Seq(U) /\ <<c>> \in Seq(U) /\ Len(<<c>>) = 1 /\ <<c>>[1] = c
    BY <2>1
  <2> HIDE DEF U
  <2>3. Len(l) = 1 + n /\ l[1] = c
    BY <1>3, <2>2
  <2>4. ASSUME NEW i \in 1 .. n PROVE l[i + 1] = t(i)
    BY <1>3, <2>2
  <2> QED
    BY <2>3, <2>4
<1> HIDE DEF t, l, flipped
<1>7. ASSUME NEW p, IsSeq(p), \A i \in DOMAIN p : IsHash(p[i]),
             build_merkle_branches(txids) = Branches(p)
      PROVE  path = p
  BY <1>7, BranchesTwice
<1>8. CASE n = 0
  <2>1. build_merkle_branches(txids) = << >>
    BY <1>1, <1>8 DEF build_merkle_branches
  <2>2. path = << >>
    BY <2>1 DEF Branches
  <2> HIDE DEF path
  <2>3. Climbed(coinbase, path) = c
    BY <2>2, ShortClimbs
  <2>4. MerkleRoot(l) = c
    BY <1>6, <1>8, ShortRoots
  <2> QED
    BY <1>5, <2>3, <2>4 DEF path
<1>9. CASE n = 1
  <2> DEFINE p == <<t(1)>>
  <2>1. build_merkle_branches(txids) = Branches(p)
    <3>1. Len(txids) \in 1 .. 3 /\ Len(txids) = 1
      BY <1>9
    <3>2. build_merkle_branches(txids) = Branches(<<Rev(txids[1])>>)
      BY <3>1, ShortBranches
    <3> QED
      BY <3>2 DEF t
  <2>2. IsSeq(p) /\ \A i \in DOMAIN p : IsHash(p[i])
    BY <1>4, <1>9, TupleIsSeq
  <2>3. path = p
    <3> HIDE DEF p, path
    <3> QED
      BY <1>7, <2>1, <2>2
  <2> HIDE DEF path
  <2>4. Climbed(coinbase, path) = PairHash(c, t(1))
    BY <2>3, ShortClimbs
  <2>5. MerkleRoot(l) = PairHash(c, t(1))
    BY <1>6, <1>9, ShortRoots
  <2> QED
    BY <1>5, <2>4, <2>5 DEF path
<1>10. CASE n \in {2, 3}
  <2> DEFINE x == PairHash(t(2), IF n = 3 THEN t(3) ELSE t(2))
             p == <<t(1), x>>
  <2>1. build_merkle_branches(txids) = Branches(p)
    <3>1. Len(txids) \in 1 .. 3 /\ Len(txids) # 1
      BY <1>10
    <3>2. build_merkle_branches(txids)
            = Branches(<<Rev(txids[1]),
                         PairHash(Rev(txids[2]), IF Len(txids) = 3 THEN Rev(txids[3])
                                                 ELSE Rev(txids[2]))>>)
      BY <3>1, ShortBranches
    <3> QED
      BY <3>2 DEF t
  <2>2. IsSeq(p) /\ \A i \in DOMAIN p : IsHash(p[i])
    <3>1. IsHash(t(1)) /\ IsHash(x)
      BY <1>4, <1>10, HashesAre
    <3> HIDE DEF x
    <3> QED
      BY <3>1, TupleIsSeq
  <2>3. path = p
    <3> HIDE DEF p, path
    <3> QED
      BY <1>7, <2>1, <2>2
  <2> HIDE DEF path
  <2>4. Climbed(coinbase, path) = PairHash(PairHash(c, t(1)), x)
    <3> HIDE DEF x
    <3> QED
      BY <2>3, ShortClimbs
  <2>5. MerkleRoot(l) = PairHash(PairHash(c, t(1)), x)
    <3>1. CASE n = 2
      <4>1. Len(l) = 3 /\ l[2] = t(1) /\ l[3] = t(2)
        BY <1>6, <3>1
      <4> QED
        BY <1>6, <3>1, <4>1, ShortRoots
    <3>2. CASE n = 3
      <4>1. Len(l) = 4 /\ l[2] = t(1) /\ l[3] = t(2) /\ l[4] = t(3)
        BY <1>6, <3>2
      <4> QED
        BY <1>6, <3>2, <4>1, ShortRoots
    <3> QED
      BY <1>10, <3>1, <3>2
  <2> QED
    BY <1>5, <2>4, <2>5 DEF path
<1> QED
  BY <1>8, <1>9, <1>10

----------------------------------------------------------------------------
(* The inductive invariant of Work. *)

IsPower(d) == \E k \in 0 .. 63 : d = Power2[k]

\* A difficulty an SV1 miner may be told.
DiffSound(d) ==
  /\ IsU64(d) /\ d > 0 /\ d >= cfg.stratum.vardiff_min
  /\ RegularMin => IsPower(d)

\* The settings the work is made of have their types.
TypedConfig(c) ==
  /\ {"mining", "stratum"} \subseteq DOMAIN c
  /\ {"coinbase_tag_primary", "coinbase_tag_secondary"} \subseteq DOMAIN c.mining
  /\ "vardiff_min" \in DOMAIN c.stratum
  /\ c.mining.coinbase_tag_primary \in Nat /\ c.mining.coinbase_tag_secondary \in Nat
  /\ IsU64(c.stratum.vardiff_min)

\* Nothing runs with a configuration that has an error.
Validated == phase = "running" => validate(cfg) = {}

PoolSet ==
  /\ poolMin = 0 \/ poolMin \in PoolMins
  /\ poolTag = Nothing => poolMin = 0
  /\ poolTag # Nothing => poolTag.valid \in Nat /\ poolTag.invalid \in Nat

\* The state is what from_template_and_blob made of the recorded inputs.
StateMade ==
  state # Nothing =>
    /\ phase = "running" /\ made.template \in Templates
    /\ IsSeq(made.scriptsig.primary) /\ IsSeq(made.scriptsig.secondary)
    /\ made.scriptsig.pot = 255
    /\ state = from_template_and_blob(made.template, made.outputs, made.scriptsig, 0)

\* The job carries the state, in the order its protocol wants the bytes.
JobFollowsState ==
  job # Nothing =>
    /\ state # Nothing /\ job.proto \in {"sv1", "extended", "standard"}
    /\ job.meta = JobMeta(state)
    /\ job.proto = "sv1" =>
         /\ job.prev_hash = SwapWords(Rev(state.prev_hash))
         /\ job.coinb1 = Patch(state.coinb1, state.target_pot_index, job.diff)
         /\ job.coinb2 = state.coinb2 /\ job.merkle_branch = state.merkle_branches
         /\ job.nbits = state.nbits
         /\ DiffSound(job.diff)
    /\ job.proto # "sv1" =>
         job.prev_hash = state.prev_hash /\ job.nbits = Reverse(state.nbits)

\* The miner hashed the header of the job it was given.
ShareHashed ==
  share # Nothing =>
    /\ job # Nothing /\ share.ntime = job.ntime
    /\ share.hashed = MinerHeader(share.extranonce, share.version)

\* The block a body stands for, if its hash is low enough.
FoundBlock ==
  [header |-> Header, txn_count |-> job.meta.txn_count + 1,
   coinbase |-> PatchedCoinb1 \o FullExtranonce \o job.meta.coinb2_bin,
   txns |-> job.meta.txns]

\* The body is the share's, and the block the body's.
BodyComplete ==
  body # Nothing =>
    /\ share # Nothing /\ body.hash \in Hashes
    /\ body.header = Header /\ body.target_byte = floor_pot(job.diff)
    /\ body.version = share.version /\ body.ntime = share.ntime
    /\ body.extranonce = FullExtranonce
    /\ body.sub1 = Body0x01 /\ body.sub2 = Body0x02
    /\ blocks = IF hash_meets_target(body.hash, job.meta.block_target)
                THEN {FoundBlock} ELSE {}

WorkInv ==
  /\ TypedConfig(cfg) /\ Validated /\ PoolSet
  /\ StateMade /\ JobFollowsState /\ ShareHashed /\ BodyComplete

----------------------------------------------------------------------------
(* Difficulties. *)

LEMMA PowerForm ==
  ASSUME NEW n, IsU64(n), IsPowerOfTwo(n)
  PROVE  IsPower(n) /\ n \in Nat /\ n > 0
<1>1. n \in Nat /\ n > 0 /\ n = Power2[floor_pot(n)]
  BY DEF IsU64, IsPowerOfTwo
<1>2. \E k \in 0 .. 63 : Power2[k] <= n /\ n < Power2[k + 1]
  BY <1>1 DEF IsU64
<1>3. floor_pot(n) \in 0 .. 63
  BY <1>1, <1>2 DEF floor_pot
<1> QED
  BY <1>1, <1>3 DEF IsPower

LEMMA PowersOrdered ==
  ASSUME NEW a \in 0 .. 63, NEW b \in 0 .. 63, 2 * Power2[a] <= Power2[b]
  PROVE  a < b
<1>0. a \in 0 .. 64 /\ b \in 0 .. 64
  OBVIOUS
<1>1. Power2[a] \in Nat /\ Power2[a] > 0 /\ Power2[b] \in Nat
  BY <1>0, Power2Is
<1>2. ASSUME b < a PROVE FALSE
  <2>1. 2 * Power2[b] <= Power2[a]
    BY <1>0, <1>2, PowersGrow
  <2> QED
    BY <1>1, <2>1
<1>3. a # b
  BY <1>1
<1> QED
  BY <1>2, <1>3

\* Where the highest bit of a number is.
LEMMA FloorPotBounds ==
  ASSUME NEW n, IsU64(n), n > 0
  PROVE  /\ floor_pot(n) \in 0 .. 63 /\ Power2[floor_pot(n)] \in Nat
         /\ Power2[floor_pot(n)] <= n /\ n < 2 * Power2[floor_pot(n)]
<1>1. n \in Nat /\ n # 0 /\ \E k \in 0 .. 63 : Power2[k] <= n /\ n < Power2[k + 1]
  BY DEF IsU64
<1> DEFINE k == floor_pot(n)
<1>2. k \in 0 .. 63 /\ Power2[k] <= n /\ n < Power2[k + 1]
  BY <1>1 DEF floor_pot
<1> HIDE DEF k
<1>3. k \in 0 .. 64 /\ k + 1 \in 1 .. 64 /\ (k + 1) - 1 = k
  BY <1>2
<1>4. Power2[k + 1] = 2 * Power2[k] /\ Power2[k] \in Nat
  BY <1>3, Power2Is
<1> QED
  BY <1>2, <1>4 DEF k

\* Doubling below a power that is a u64 stays a u64.
LEMMA DoubleFits ==
  ASSUME NEW n, IsU64(n), n > 0, NEW b \in 0 .. 63, 2 * n <= Power2[b]
  PROVE  IsU64(2 * n)
<1>1. n \in Nat /\ n # 0
  BY DEF IsU64
<1>2. PICK a \in 0 .. 63 : Power2[a] <= n /\ n < Power2[a + 1]
  BY <1>1 DEF IsU64
<1>3. a \in 0 .. 64 /\ a + 1 \in 1 .. 64 /\ (a + 1) - 1 = a /\ b \in 0 .. 64 /\ a + 1 \in 0 .. 64
  OBVIOUS
<1>4. Power2[a + 1] = 2 * Power2[a] /\ Power2[a] \in Nat /\ Power2[b] \in Nat /\ Power2[b] > 0
  BY <1>3, Power2Is
<1>5. ASSUME b < a + 1 PROVE FALSE
  <2>1. 2 * Power2[b] <= Power2[a + 1]
    BY <1>3, <1>5, PowersGrow
  <2> QED
    BY <1>1, <1>2, <1>4, <2>1
<1>6. a + 1 \in 0 .. 63 /\ (a + 1) + 1 \in 1 .. 64 /\ ((a + 1) + 1) - 1 = a + 1
  BY <1>5
<1>7. Power2[(a + 1) + 1] = 2 * Power2[a + 1]
  BY <1>6, Power2Is
<1>8. 2 * n \in Nat /\ Power2[a + 1] <= 2 * n /\ 2 * n < Power2[(a + 1) + 1]
  BY <1>1, <1>2, <1>4, <1>7
<1> QED
  BY <1>6, <1>8 DEF IsU64

\* The floor, and what vardiff makes of it.
LEMMA DifficultiesSound ==
  ASSUME TypedConfig(cfg), validate(cfg) = {}, PoolSet
  PROVE  DiffSound(Floor) /\ DiffSound(Doubled)
<1> DEFINE v == cfg.stratum.vardiff_min
<1>1. IsU64(v) /\ v \in Nat
  BY DEF TypedConfig, IsU64
<1>2. v >= 1 /\ IsPowerOfTwo(v)
  <2>1. validate_stratum(cfg) = {}
    BY DEF validate
  <2>2. VardiffMin(cfg.stratum) = {}
    BY <2>1 DEF validate_stratum
  <2>3. ~ (v < 1)
    BY <2>2 DEF VardiffMin, Error
  <2>4. ~ (v >= 1 /\ ~IsPowerOfTwo(v))
    BY <2>2 DEF VardiffMin, Error
  <2>5. v >= 1
    BY <1>1, <2>3
  <2> QED
    BY <2>4, <2>5
<1>3. Floor = IF v >= poolMin THEN v ELSE poolMin
  BY DEF Floor
<1>4. /\ \A d : DiffSound(d) <=> IsU64(d) /\ d > 0 /\ d >= v /\ (RegularMin => IsPower(d))
      /\ RegularMin <=> (poolMin <= v \/ IsPowerOfTwo(poolMin))
  BY DEF DiffSound, RegularMin
<1> HIDE DEF v
<1>5. IsPower(v)
  BY <1>1, <1>2, PowerForm
<1>6. IsU64(poolMin) /\ poolMin \in Nat
  BY DifficultyAssumption DEF PoolSet, IsU64
<1>7. RegularMin => poolMin <= v \/ IsPower(poolMin)
  BY <1>4, <1>6, PowerForm
<1>8. PICK b \in 0 .. 63 : MaxDiff = Power2[b]
  BY DifficultyAssumption, PowerForm DEF IsPower
<1>9. IsU64(MaxDiff) /\ MaxDiff \in Nat /\ IsPower(MaxDiff)
  BY <1>8, DifficultyAssumption, PowerForm
<1>10. /\ IsU64(Floor) /\ Floor \in Nat /\ Floor > 0 /\ Floor >= v
       /\ RegularMin => IsPower(Floor)
  <2>1. CASE v >= poolMin
    BY <1>1, <1>2, <1>3, <1>5, <2>1
  <2>2. CASE ~ (v >= poolMin)
    <3>1. Floor = poolMin /\ poolMin > v /\ ~ (poolMin <= v)
      BY <1>1, <1>3, <1>6, <2>2
    <3> QED
      BY <1>1, <1>6, <1>7, <3>1
  <2> QED
    BY <2>1, <2>2
<1> DEFINE new_diff == IF 2 * Floor <= MaxDiff THEN 2 * Floor ELSE MaxDiff
<1>11. Doubled = IF new_diff < Floor THEN Floor ELSE new_diff
  BY DEF Doubled
<1>12. IsU64(new_diff) /\ new_diff \in Nat /\ (IsPower(Floor) => IsPower(new_diff))
  <2>1. CASE 2 * Floor <= MaxDiff
    <3>1. IsU64(2 * Floor)
      BY <1>8, <1>10, <2>1, DoubleFits
    <3>2. ASSUME IsPower(Floor) PROVE IsPower(2 * Floor)
      <4>1. PICK a \in 0 .. 63 : Floor = Power2[a]
        BY <3>2 DEF IsPower
      <4>2. a < b
        BY <1>8, <2>1, <4>1, PowersOrdered
      <4>3. a + 1 \in 0 .. 63 /\ a + 1 \in 1 .. 64 /\ (a + 1) - 1 = a
        BY <4>2
      <4>4. Power2[a + 1] = 2 * Power2[a]
        BY <4>3, Power2Is
      <4> QED
        BY <4>1, <4>3, <4>4 DEF IsPower
    <3> QED
      BY <1>10, <2>1, <3>1, <3>2
  <2>2. CASE ~ (2 * Floor <= MaxDiff)
    BY <1>9, <2>2
  <2> QED
    BY <2>1, <2>2
<1> HIDE DEF new_diff
<1>13. /\ IsU64(Doubled) /\ Doubled > 0 /\ Doubled >= v
       /\ RegularMin => IsPower(Doubled)
  <2>1. CASE new_diff < Floor
    BY <1>10, <1>11, <2>1
  <2>2. CASE ~ (new_diff < Floor)
    <3>1. Doubled = new_diff /\ new_diff >= Floor
      BY <1>10, <1>11, <1>12, <2>2
    <3> QED
      BY <1>1, <1>10, <1>12, <3>1
  <2> QED
    BY <2>1, <2>2
<1> QED
  BY <1>4, <1>10, <1>13

----------------------------------------------------------------------------
(* Steps. *)

\* What a step that leaves the work and the configuration alone keeps.
LEMMA WorkUntouched ==
  ASSUME WorkInv, UNCHANGED <<cfg, phase, state, job, share, body, blocks, made>>,
         poolMin' = poolMin \/ poolMin = 0
  PROVE  /\ TypedConfig(cfg)' /\ Validated' /\ StateMade' /\ JobFollowsState'
         /\ ShareHashed' /\ BodyComplete'
<1>1. TypedConfig(cfg)' /\ Validated'
  BY DEF WorkInv, TypedConfig, Validated
<1>2. StateMade'
  BY DEF WorkInv, StateMade
<1>3. JobFollowsState'
  <2>1. RegularMin' => RegularMin
    BY DEF WorkInv, TypedConfig, IsU64, RegularMin
  <2>2. \A d : DiffSound(d) => DiffSound(d)'
    BY <2>1 DEF DiffSound
  <2> QED
    BY <2>2 DEF WorkInv, JobFollowsState
<1>4. ShareHashed'
  BY DEF WorkInv, ShareHashed, MinerHeader, MinerRoot
<1>5. BodyComplete'
  BY DEF WorkInv, BodyComplete, Header, PatchedCoinb1, FullExtranonce, Body0x01,
         Body0x02, FoundBlock
<1> QED
  BY <1>1, <1>2, <1>3, <1>4, <1>5

\* Before the gateway runs there is no work.
LEMMA NoWorkYet ==
  ASSUME WorkInv, phase # "running"
  PROVE  state = Nothing /\ job = Nothing /\ share = Nothing /\ body = Nothing
BY DEF WorkInv, StateMade, JobFollowsState, ShareHashed, BodyComplete

LEMMA SetKeepsTypes ==
  ASSUME NEW c, TypedConfig(c), NEW key \in Keys
  PROVE  TypedConfig(Set(c, key))
<1> DEFINE s == key[1]
           f == key[2]
           v == key[3]
           inner == [c[s] EXCEPT ![f] = v]
           d == [c EXCEPT ![s] = inner]
<1>1. Set(c, key) = d
  BY DEF Set
<1>2. /\ f \in {"coinbase_tag_primary", "coinbase_tag_secondary"} => v \in Nat
      /\ f = "vardiff_min" => IsU64(v)
  BY KeysAssumption
<1> HIDE DEF s, f, v
<1>3. /\ {"mining", "stratum"} \subseteq DOMAIN c
      /\ {"coinbase_tag_primary", "coinbase_tag_secondary"} \subseteq DOMAIN c.mining
      /\ "vardiff_min" \in DOMAIN c.stratum
      /\ c.mining.coinbase_tag_primary \in Nat /\ c.mining.coinbase_tag_secondary \in Nat
      /\ IsU64(c.stratum.vardiff_min)
  BY DEF TypedConfig
<1>4. DOMAIN d = DOMAIN c /\ DOMAIN inner = DOMAIN c[s]
  OBVIOUS
<1>5. \A x \in DOMAIN c[s] : inner[x] = IF x = f THEN v ELSE c[s][x]
  OBVIOUS
<1>6. d.mining = IF s = "mining" THEN inner ELSE c.mining
  BY <1>3
<1>7. d.stratum = IF s = "stratum" THEN inner ELSE c.stratum
  BY <1>3
<1> HIDE DEF inner, d
<1>8. /\ {"coinbase_tag_primary", "coinbase_tag_secondary"} \subseteq DOMAIN d.mining
      /\ d.mining.coinbase_tag_primary \in Nat /\ d.mining.coinbase_tag_secondary \in Nat
  <2>1. CASE s = "mining"
    <3>1. d.mining = inner /\ DOMAIN inner = DOMAIN c.mining
      BY <1>4, <1>6, <2>1
    <3>2. /\ inner["coinbase_tag_primary"] \in Nat
          /\ inner["coinbase_tag_secondary"] \in Nat
      BY <1>2, <1>3, <1>5, <2>1
    <3> QED
      BY <1>3, <3>1, <3>2
  <2>2. CASE s # "mining"
    BY <1>3, <1>6, <2>2
  <2> QED
    BY <2>1, <2>2
<1>9. "vardiff_min" \in DOMAIN d.stratum /\ IsU64(d.stratum.vardiff_min)
  <2>1. CASE s = "stratum"
    <3>1. d.stratum = inner /\ DOMAIN inner = DOMAIN c.stratum
      BY <1>4, <1>7, <2>1
    <3>2. IsU64(inner["vardiff_min"])
      BY <1>2, <1>3, <1>5, <2>1
    <3> QED
      BY <1>3, <3>1, <3>2
  <2>2. CASE s # "stratum"
    BY <1>3, <1>7, <2>2
  <2> QED
    BY <2>1, <2>2
<1> QED
  BY <1>1, <1>3, <1>4, <1>8, <1>9 DEF TypedConfig

\* The steps before there is work.
LEMMA SettingsSteps ==
  ASSUME WorkInv,
         \/ \E key \in Keys : OperatorSets(key)
         \/ Start
         \/ \E tag \in PoolTags, min \in PoolMins : ClientConfig(tag, min)
  PROVE  WorkInv'
<1>1. ASSUME NEW key \in Keys, OperatorSets(key) PROVE WorkInv'
  <2>1. /\ phase = "config" /\ cfg' = Set(cfg, key)
        /\ UNCHANGED <<phase, poolTag, poolMin, state, job, share, body, blocks, made>>
    BY <1>1 DEF OperatorSets
  <2>2. state = Nothing /\ job = Nothing /\ share = Nothing /\ body = Nothing
    BY <2>1, NoWorkYet
  <2>3. TypedConfig(cfg')
    BY <2>1, SetKeepsTypes DEF WorkInv
  <2>4. Validated' /\ PoolSet'
    BY <2>1 DEF WorkInv, Validated, PoolSet
  <2>5. StateMade' /\ JobFollowsState' /\ ShareHashed' /\ BodyComplete'
    BY <2>1, <2>2 DEF StateMade, JobFollowsState, ShareHashed, BodyComplete
  <2> QED
    BY <2>3, <2>4, <2>5 DEF WorkInv, TypedConfig
<1>2. ASSUME Start PROVE WorkInv'
  <2>1. /\ phase = "config" /\ phase' = IF validate(cfg) = {} THEN "running" ELSE "exited"
        /\ UNCHANGED <<cfg, poolTag, poolMin, state, job, share, body, blocks, made>>
    BY <1>2 DEF Start
  <2>2. state = Nothing /\ job = Nothing /\ share = Nothing /\ body = Nothing
    BY <2>1, NoWorkYet
  <2>3. TypedConfig(cfg)' /\ PoolSet'
    BY <2>1 DEF WorkInv, TypedConfig, PoolSet
  <2>4. Validated'
    <3>1. phase' = "running" => validate(cfg) = {}
      BY <2>1
    <3>2. cfg' = cfg
      BY <2>1
    <3> QED
      BY <3>1, <3>2 DEF Validated
  <2>5. StateMade' /\ JobFollowsState' /\ ShareHashed' /\ BodyComplete'
    BY <2>1, <2>2 DEF StateMade, JobFollowsState, ShareHashed, BodyComplete
  <2> QED
    BY <2>3, <2>4, <2>5 DEF WorkInv
<1>3. ASSUME NEW tag \in PoolTags, NEW min \in PoolMins, ClientConfig(tag, min) PROVE WorkInv'
  <2> DEFINE cut == IF tag.valid >= 86 THEN [valid |-> 86, invalid |-> 0]
                    ELSE [tag EXCEPT !.invalid =
                            IF @ > 86 - tag.valid THEN 86 - tag.valid ELSE @]
  <2>1. /\ poolMin' = min /\ poolTag' = cut
        /\ UNCHANGED <<cfg, phase, state, job, share, body, blocks, made>>
    BY <1>3 DEF ClientConfig
  <2>2. tag \in [valid : Nat, invalid : Nat]
    BY InputsAssumption
  <2>3. cut.valid \in Nat /\ cut.invalid \in Nat
    BY <2>2
  <2>4. cut \in [valid : Nat, invalid : Nat]
    BY <2>2
  <2> HIDE DEF cut
  <2>5. PoolSet' /\ poolMin = 0
    BY <1>3, <2>1, <2>3, <2>4, InputsAssumption DEF ClientConfig, PoolSet, WorkInv
  <2> QED
    BY <2>1, <2>5, WorkUntouched DEF WorkInv
<1> QED
  BY <1>1, <1>2, <1>3

\* The tags are bytes.
LEMMA TagsAreSeqs ==
  ASSUME WorkInv
  PROVE  IsSeq(PrimaryTag) /\ IsSeq(SecondaryTag)
<1>1. /\ cfg.mining.coinbase_tag_primary \in Nat
      /\ cfg.mining.coinbase_tag_secondary \in Nat
  BY DEF WorkInv, TypedConfig
<1>2. poolTag # Nothing => poolTag.valid + 3 * poolTag.invalid \in Nat
  BY DEF WorkInv, PoolSet
<1>3. IsSeq(SecondaryTag)
  BY <1>1, BytesAre DEF SecondaryTag
<1>4. IsSeq(PrimaryTag)
  <2>1. CASE poolTag = Nothing
    BY <1>1, <2>1, BytesAre DEF PrimaryTag
  <2>2. CASE poolTag # Nothing
    <3> DEFINE n == poolTag.valid + 3 * poolTag.invalid
    <3>1. n \in Nat /\ PrimaryTag = Rep(67, n)
      BY <1>2, <2>2 DEF PrimaryTag
    <3> HIDE DEF n
    <3> QED
      BY <3>1, BytesAre
  <2> QED
    BY <2>1, <2>2
<1> QED
  BY <1>3, <1>4

LEMMA PublishStep ==
  ASSUME WorkInv, NEW t \in Templates, NEW outputs, PublishState(t, outputs)
  PROVE  WorkInv'
<1> DEFINE s == [primary |-> PrimaryTag, secondary |-> SecondaryTag, pot |-> 255,
                 uid |-> cfg.mining.coinbase_unique_id % 65536,
                 enprefix |-> FirstEnprefix]
<1>1. /\ phase = "running" /\ state = Nothing
      /\ state' = from_template_and_blob(t, outputs, s, 0)
      /\ made' = [template |-> t, outputs |-> outputs, scriptsig |-> s]
      /\ UNCHANGED <<cfg, keysSet, phase, poolTag, poolMin, job, share, body, blocks>>
  BY DEF PublishState, settings
<1>2. s.primary = PrimaryTag /\ s.secondary = SecondaryTag /\ s.pot = 255
  OBVIOUS
<1> HIDE DEF s
<1>3. made'.template = t /\ made'.outputs = outputs /\ made'.scriptsig = s
  BY <1>1
<1>4. StateMade'
  BY <1>1, <1>2, <1>3, TagsAreSeqs DEF StateMade
<1>5. job = Nothing /\ share = Nothing /\ body = Nothing
  BY <1>1 DEF WorkInv, JobFollowsState, ShareHashed, BodyComplete
<1>6. JobFollowsState' /\ ShareHashed' /\ BodyComplete'
  BY <1>1, <1>5 DEF JobFollowsState, ShareHashed, BodyComplete
<1>7. TypedConfig(cfg)' /\ Validated' /\ PoolSet'
  BY <1>1 DEF WorkInv, TypedConfig, Validated, PoolSet
<1> QED
  BY <1>4, <1>6, <1>7 DEF WorkInv

\* A step that hands out a job when there was none.
LEMMA EmitKeeps ==
  ASSUME WorkInv, job = Nothing, JobFollowsState',
         UNCHANGED <<settings, state, share, body, blocks, made>>
  PROVE  WorkInv'
<1>1. share = Nothing /\ body = Nothing
  BY DEF WorkInv, ShareHashed, BodyComplete
<1>2. ShareHashed' /\ BodyComplete'
  BY <1>1 DEF ShareHashed, BodyComplete
<1>3. TypedConfig(cfg)' /\ Validated' /\ PoolSet'
  BY DEF settings, WorkInv, TypedConfig, Validated, PoolSet
<1>4. StateMade'
  BY DEF settings, WorkInv, StateMade
<1> QED
  BY <1>2, <1>3, <1>4 DEF WorkInv

LEMMA EmitSteps ==
  ASSUME WorkInv,
         \/ \E diff \in {Floor, Doubled} : EmitSv1(diff)
         \/ \E prefix \in {<<0, 1>>} : EmitExtended(prefix) \/ EmitStandard(prefix)
  PROVE  WorkInv'
<1>1. ASSUME NEW diff \in {Floor, Doubled}, EmitSv1(diff) PROVE WorkInv'
  <2>1. /\ state # Nothing /\ job = Nothing
        /\ job'.proto = "sv1" /\ job'.meta = JobMeta(state) /\ job'.diff = diff
        /\ job'.prev_hash = SwapWords(Rev(state.prev_hash))
        /\ job'.coinb1 = Patch(state.coinb1, state.target_pot_index, diff)
        /\ job'.coinb2 = state.coinb2 /\ job'.merkle_branch = state.merkle_branches
        /\ job'.nbits = state.nbits
        /\ UNCHANGED <<settings, state, share, body, blocks, made>>
    BY <1>1 DEF EmitSv1
  <2>2. validate(cfg) = {} /\ TypedConfig(cfg) /\ PoolSet
    BY <2>1 DEF WorkInv, StateMade, Validated
  <2>3. DiffSound(diff)
    BY <2>2, DifficultiesSound
  <2>4. DiffSound(job.diff)'
    BY <2>1, <2>3 DEF DiffSound, RegularMin, settings
  <2>5. JobFollowsState'
    BY <2>1, <2>4 DEF JobFollowsState, JobMeta, settings
  <2> QED
    BY <2>1, <2>5, EmitKeeps
<1>2. ASSUME NEW prefix, EmitExtended(prefix) \/ EmitStandard(prefix) PROVE WorkInv'
  <2>1. /\ state # Nothing /\ job = Nothing
        /\ job'.proto \in {"extended", "standard"} /\ job'.meta = JobMeta(state)
        /\ job'.prev_hash = state.prev_hash /\ job'.nbits = Reverse(state.nbits)
        /\ UNCHANGED <<settings, state, share, body, blocks, made>>
    BY <1>2 DEF EmitExtended, EmitStandard
  <2>2. JobFollowsState'
    BY <2>1 DEF JobFollowsState, JobMeta
  <2> QED
    BY <2>1, <2>2, EmitKeeps
<1> QED
  BY <1>1, <1>2

LEMMA MineStep ==
  ASSUME WorkInv, NEW xn, NEW version, Mine(xn, version)
  PROVE  WorkInv'
<1>1. /\ job # Nothing /\ share = Nothing
      /\ share'.extranonce = xn /\ share'.version = version /\ share'.ntime = job.ntime
      /\ share'.hashed = MinerHeader(xn, version)
      /\ UNCHANGED <<settings, state, job, body, blocks, made>>
  BY DEF Mine
<1>2. body = Nothing
  BY <1>1 DEF WorkInv, BodyComplete
<1>3. ShareHashed'
  <2>1. MinerHeader(xn, version)' = MinerHeader(xn, version)
    BY <1>1 DEF MinerHeader, MinerRoot
  <2> QED
    BY <1>1, <2>1 DEF ShareHashed, MinerHeader, MinerRoot
<1>4. BodyComplete'
  BY <1>1, <1>2 DEF BodyComplete
<1>5. TypedConfig(cfg)' /\ Validated' /\ PoolSet'
  BY <1>1 DEF settings, WorkInv, TypedConfig, Validated, PoolSet
<1>6. StateMade' /\ JobFollowsState'
  BY <1>1 DEF settings, WorkInv, StateMade, JobFollowsState, JobMeta, DiffSound, RegularMin
<1> QED
  BY <1>3, <1>4, <1>5, <1>6 DEF WorkInv

LEMMA RejectStep ==
  ASSUME WorkInv, Reject
  PROVE  WorkInv'
<1>1. /\ body = Nothing /\ share' = Nothing /\ job' = Nothing
      /\ UNCHANGED <<settings, state, body, blocks, made>>
  BY DEF Reject
<1>2. ShareHashed' /\ BodyComplete' /\ JobFollowsState'
  BY <1>1 DEF ShareHashed, BodyComplete, JobFollowsState
<1>3. TypedConfig(cfg)' /\ Validated' /\ PoolSet' /\ StateMade'
  BY <1>1 DEF settings, WorkInv, TypedConfig, Validated, PoolSet, StateMade
<1> QED
  BY <1>2, <1>3 DEF WorkInv

LEMMA RelayStep ==
  ASSUME WorkInv, NEW hash \in Hashes, Relay(hash)
  PROVE  WorkInv'
<1>1. /\ share # Nothing
      /\ body'.hash = hash /\ body'.header = Header /\ body'.target_byte = floor_pot(job.diff)
      /\ body'.version = share.version /\ body'.ntime = share.ntime
      /\ body'.extranonce = FullExtranonce /\ body'.sub1 = Body0x01 /\ body'.sub2 = Body0x02
      /\ blocks' = IF hash_meets_target(hash, job.meta.block_target) THEN {FoundBlock} ELSE {}
      /\ UNCHANGED <<settings, state, job, share, made>>
  BY DEF Relay, FoundBlock
<1>2. /\ Header' = Header /\ FullExtranonce' = FullExtranonce /\ Body0x01' = Body0x01
      /\ Body0x02' = Body0x02 /\ FoundBlock' = FoundBlock
  BY <1>1 DEF Header, PatchedCoinb1, FullExtranonce, Body0x01, Body0x02, FoundBlock
<1>3. BodyComplete'
  BY <1>1, <1>2 DEF BodyComplete
<1>4. ShareHashed'
  BY <1>1 DEF WorkInv, ShareHashed, MinerHeader, MinerRoot
<1>5. JobFollowsState'
  BY <1>1 DEF settings, WorkInv, JobFollowsState, DiffSound, RegularMin
<1>6. TypedConfig(cfg)' /\ Validated' /\ PoolSet' /\ StateMade'
  BY <1>1 DEF settings, WorkInv, TypedConfig, Validated, PoolSet, StateMade
<1> QED
  BY <1>3, <1>4, <1>5, <1>6 DEF WorkInv

LEMMA WorkInitInv == WorkInit => WorkInv
<1> SUFFICES ASSUME WorkInit PROVE WorkInv
  OBVIOUS
<1>1. /\ cfg \in {Default, Required} /\ phase = "config" /\ poolTag = Nothing /\ poolMin = 0
      /\ state = Nothing /\ job = Nothing /\ share = Nothing /\ body = Nothing
  BY DEF WorkInit
<1>2. IsU64(16384)
  <2>1. Power2[14] = 16384 /\ Power2[15] = 32768
    <3>1. /\ Power2[0] = 1 /\ Power2[1] = 2 * Power2[0] /\ Power2[2] = 2 * Power2[1]
          /\ Power2[3] = 2 * Power2[2] /\ Power2[4] = 2 * Power2[3] /\ Power2[5] = 2 * Power2[4]
          /\ Power2[6] = 2 * Power2[5] /\ Power2[7] = 2 * Power2[6] /\ Power2[8] = 2 * Power2[7]
          /\ Power2[9] = 2 * Power2[8] /\ Power2[10] = 2 * Power2[9]
          /\ Power2[11] = 2 * Power2[10] /\ Power2[12] = 2 * Power2[11]
          /\ Power2[13] = 2 * Power2[12] /\ Power2[14] = 2 * Power2[13]
          /\ Power2[15] = 2 * Power2[14]
      BY Power2Is
    <3> QED
      BY <3>1
  <2>2. 14 \in 0 .. 63 /\ 14 + 1 = 15
    OBVIOUS
  <2> QED
    BY <2>1, <2>2 DEF IsU64
<1>3. TypedConfig(Default)
  BY <1>2 DEF TypedConfig, Default, MiningConfig, StratumConfig
<1>4. /\ Required.mining = [MiningConfig EXCEPT !.pool_address = TRUE]
      /\ Required.stratum = StratumConfig /\ DOMAIN Required = DOMAIN Default
  BY DEF Required, Set, Default
<1>5. TypedConfig(Required)
  BY <1>2, <1>3, <1>4 DEF TypedConfig, Default, MiningConfig, StratumConfig
<1>6. TypedConfig(cfg)
  BY <1>1, <1>3, <1>5
<1> QED
  BY <1>1, <1>6 DEF WorkInv, Validated, PoolSet, StateMade, JobFollowsState,
         ShareHashed, BodyComplete

LEMMA WorkNextInv == WorkInv /\ [WorkNext]_workVars => WorkInv'
<1> SUFFICES ASSUME WorkInv, [WorkNext]_workVars PROVE WorkInv'
  OBVIOUS
<1>1. CASE UNCHANGED workVars
  <2>1. /\ UNCHANGED <<cfg, phase, state, job, share, body, blocks, made>>
        /\ poolMin' = poolMin /\ PoolSet'
    BY <1>1 DEF workVars, settings, WorkInv, PoolSet
  <2> QED
    BY <2>1, WorkUntouched DEF WorkInv
<1>2. CASE WorkNext
  <2>1. CASE \/ \E key \in Keys : OperatorSets(key)
             \/ Start
             \/ \E tag \in PoolTags, min \in PoolMins : ClientConfig(tag, min)
    BY <2>1, SettingsSteps
  <2>2. CASE \E t \in Templates, o \in Outputs : PublishState(t, o)
    BY <2>2, PublishStep
  <2>3. CASE \/ \E diff \in {Floor, Doubled} : EmitSv1(diff)
             \/ \E prefix \in {<<0, 1>>} : EmitExtended(prefix) \/ EmitStandard(prefix)
    BY <2>3, EmitSteps
  <2>4. CASE \E xn \in Rolled, v \in {job.version, job.version + RollMask} : Mine(xn, v)
    BY <2>4, MineStep
  <2>5. CASE Reject
    BY <2>5, RejectStep
  <2>6. CASE \E hash \in Hashes : Relay(hash)
    BY <2>6, RelayStep
  <2> QED
    BY <1>2, <2>1, <2>2, <2>3, <2>4, <2>5, <2>6 DEF WorkNext
<1> QED
  BY <1>1, <1>2

LEMMA SpecWorkInv == WorkSpec => []WorkInv
<1> QED
  BY WorkInitInv, WorkNextInv, PTL DEF WorkSpec

----------------------------------------------------------------------------
(* What the state holds. *)

\* The target is 32 bytes, whether bitcoind sends it or nbits stand for it.
LEMMA TargetBytes ==
  ASSUME NEW t, t.bits \in [1 .. 4 -> 0 .. 255],
         t.target = << >> \/ t.target \in [1 .. 32 -> 0 .. 255]
  PROVE  /\ t.target # << >> => Reverse(t.target) \in [1 .. 32 -> Int]
         /\ nbits_to_target_le(t.bits) \in [1 .. 32 -> Int]
<1> DEFINE target == t.target
           bits == t.bits
<1>1. ASSUME target # << >> PROVE Reverse(target) \in [1 .. 32 -> Int]
  <2>1. target \in [1 .. 32 -> 0 .. 255]
    BY <1>1
  <2> HIDE DEF target
  <2>2. Len(target) = 32
    <3>1. DOMAIN target = 1 .. 32 /\ target = [i \in 1 .. 32 |-> target[i]]
      BY <2>1
    <3>2. 32 \in Nat
      OBVIOUS
    <3> QED
      BY <3>1, <3>2, FunctionIsSeq
  <2>3. Reverse(target) = [i \in 1 .. 32 |-> target[(32 - i) + 1]]
    BY <2>2 DEF Reverse
  <2>4. \A i \in 1 .. 32 : target[(32 - i) + 1] \in Int
    <3>1. \A i \in 1 .. 32 : (32 - i) + 1 \in 1 .. 32
      OBVIOUS
    <3>2. \A k \in 1 .. 32 : target[k] \in Int
      <4>1. \A k \in 1 .. 32 : target[k] \in 0 .. 255
        BY <2>1
      <4>2. \A b \in 0 .. 255 : b \in Int
        OBVIOUS
      <4> QED
        BY <4>1, <4>2
    <3> QED
      BY <3>1, <3>2
  <2> QED
    BY <2>3, <2>4
<1>2. nbits_to_target_le(bits) \in [1 .. 32 -> Int]
  <2>1. bits \in [1 .. 4 -> 0 .. 255]
    OBVIOUS
  <2> HIDE DEF bits
  <2> DEFINE exp == bits[1]
             byte(i) == IF i \in exp - 2 .. exp THEN bits[exp - i + 2] ELSE 0
  <2>2. exp \in 0 .. 255
    BY <2>1
  <2>3. nbits_to_target_le(bits) = IF exp \notin 3 .. 32 THEN Rep(0, 32)
                                   ELSE [i \in 1 .. 32 |-> byte(i)]
    BY DEF nbits_to_target_le
  <2>4. Rep(0, 32) \in [1 .. 32 -> Int]
    BY DEF Rep
  <2>5. \A i \in 1 .. 32 : byte(i) \in Int
    <3> SUFFICES ASSUME NEW i \in 1 .. 32 PROVE byte(i) \in Int
      OBVIOUS
    <3> HIDE DEF exp
    <3>1. CASE i \in exp - 2 .. exp
      <4>1. exp - i + 2 \in 1 .. 4
        BY <2>2, <3>1
      <4>2. bits[exp - i + 2] \in 0 .. 255
        BY <2>1, <4>1
      <4>3. \A b \in 0 .. 255 : b \in Int
        OBVIOUS
      <4>4. bits[exp - i + 2] \in Int
        BY <4>2, <4>3
      <4>5. byte(i) = bits[exp - i + 2]
        BY <3>1
      <4> HIDE DEF byte
      <4> QED
        BY <4>4, <4>5
    <3>2. CASE i \notin exp - 2 .. exp
      BY <3>2
    <3> QED
      BY <3>1, <3>2
  <2>6. [i \in 1 .. 32 |-> byte(i)] \in [1 .. 32 -> Int]
    <3> HIDE DEF byte
    <3> QED
      BY <2>5
  <2> QED
    BY <2>3, <2>4, <2>6
<1> QED
  BY <1>1, <1>2

LEMMA StateParts ==
  ASSUME WorkInv, state # Nothing
  PROVE  /\ IsHash(state.prev_hash)
         /\ state.target_pot_index \in Nat /\ IsSeq(state.coinb1)
         /\ state.target_pot_index < Len(state.coinb1)
         /\ state.target_pot_index + 1 = Len(state.coinb1) - 5
         /\ state.coinb1[state.target_pot_index + 1] = 255
         /\ Len(state.merkle_branches) \in Nat
         /\ DOMAIN state.merkle_branches = 1 .. Len(state.merkle_branches)
         /\ state.merkle_branches = build_merkle_branches(state.txns)
         /\ IsSeq(state.txns) /\ \A i \in DOMAIN state.txns : IsHash(state.txns[i])
         /\ state.txn_count = Len(state.txns)
         /\ state.block_target
              = (IF made.template.target # << >> THEN Reverse(made.template.target)
                 ELSE nbits_to_target_le(made.template.bits))
         /\ state.block_target \in [1 .. 32 -> Int]
<1> DEFINE t == made.template
           s == made.scriptsig
           blob == build_outputs(made.outputs, t.commitment)
           split == build_split_coinbase_bin(t.height, s, blob)
<1>1. /\ t \in Templates /\ IsSeq(s.primary) /\ IsSeq(s.secondary) /\ s.pot = 255
      /\ state = from_template_and_blob(t, made.outputs, s, 0)
  BY DEF WorkInv, StateMade
<1>2. /\ state.prev_hash = Rev(t.previous_block_hash) /\ state.coinb1 = split.coinb1
      /\ state.target_pot_index = split.target_pot_index
      /\ state.merkle_branches = build_merkle_branches(t.txids) /\ state.txns = t.txids
      /\ state.txn_count = Len(t.txids)
      /\ state.block_target = IF t.target # << >> THEN Reverse(t.target)
                              ELSE nbits_to_target_le(t.bits)
  BY <1>1 DEF from_template_and_blob
<1>3. /\ IsHash(t.previous_block_hash)
      /\ t.txids \in Seq({t.txids[i] : i \in DOMAIN t.txids})
      /\ \A i \in DOMAIN t.txids : IsHash(t.txids[i])
      /\ t.bits \in [1 .. 4 -> 0 .. 255]
      /\ t.target = << >> \/ t.target \in [1 .. 32 -> 0 .. 255]
  BY <1>1, InputsAssumption
<1> HIDE DEF t, s, blob
<1>4. IsHash(state.prev_hash)
  BY <1>2, <1>3, RevTwice
<1>5. /\ split.target_pot_index \in Nat
      /\ IsSeq(split.coinb1) /\ split.target_pot_index < Len(split.coinb1)
      /\ split.target_pot_index + 1 = Len(split.coinb1) - 5
      /\ split.coinb1[split.target_pot_index + 1] = s.pot
  BY <1>1, PotIndexInside
<1> HIDE DEF split
<1>6. Len(t.txids) \in Nat /\ IsSeq(t.txids)
  <2> DEFINE x == t.txids
             V == {x[i] : i \in DOMAIN x}
  <2>1. x \in Seq(V)
    BY <1>3
  <2> HIDE DEF x, V
  <2>2. Len(x) \in Nat /\ IsSeq(x)
    BY <2>1 DEF IsSeq
  <2> QED
    BY <2>2 DEF x
<1>7. /\ Len(build_merkle_branches(t.txids)) \in Nat
      /\ DOMAIN build_merkle_branches(t.txids) = 1 .. Len(build_merkle_branches(t.txids))
  BY <1>6, BranchesAreSequence
<1>8. /\ t.target # << >> => Reverse(t.target) \in [1 .. 32 -> Int]
      /\ nbits_to_target_le(t.bits) \in [1 .. 32 -> Int]
  BY <1>3, TargetBytes
<1>9. state.block_target \in [1 .. 32 -> Int]
  BY <1>2, <1>8
<1>10. /\ state.target_pot_index \in Nat /\ IsSeq(state.coinb1)
       /\ state.target_pot_index < Len(state.coinb1)
       /\ state.target_pot_index + 1 = Len(state.coinb1) - 5
       /\ state.coinb1[state.target_pot_index + 1] = 255
  BY <1>1, <1>2, <1>5
<1>11. /\ Len(state.merkle_branches) \in Nat
       /\ DOMAIN state.merkle_branches = 1 .. Len(state.merkle_branches)
       /\ state.merkle_branches = build_merkle_branches(state.txns)
  BY <1>2, <1>7
<1>12. /\ IsSeq(state.txns) /\ \A i \in DOMAIN state.txns : IsHash(state.txns[i])
       /\ state.txn_count = Len(state.txns)
  BY <1>2, <1>3, <1>6
<1> QED
  BY <1>2, <1>4, <1>9, <1>10, <1>11, <1>12 DEF t

\* The patched half differs from the state's in the byte of the difficulty.
LEMMA PatchedIs ==
  ASSUME NEW coinb1, NEW k \in Nat, NEW diff, IsSeq(coinb1), k < Len(coinb1)
  PROVE  /\ Patch(coinb1, k, diff) = [coinb1 EXCEPT ![k + 1] = floor_pot(diff)]
         /\ Patch(coinb1, k, diff)[k + 1] = floor_pot(diff)
<1>1. PICK V : coinb1 \in Seq(V)
  BY DEF IsSeq
<1>2. Patch(coinb1, k, diff) = [coinb1 EXCEPT ![k + 1] = floor_pot(diff)]
  BY DEF Patch
<1>3. k + 1 \in DOMAIN coinb1
  BY <1>1
<1> QED
  BY <1>2, <1>3

----------------------------------------------------------------------------
(* The difficulty's byte. *)

\* build_split_coinbase_bin: for every height, tag and unique id the index given
\* to the pool is that of the placeholder for the difficulty, and patching
\* (patch_coinb1, build_share_submission) changes that byte only.
THEOREM DifficultyByteInPlace == WorkSpec => []PotInPlace
<1>1. WorkInv => PotInPlace
  <2> SUFFICES ASSUME WorkInv, state # Nothing
               PROVE  /\ state.coinb1[state.target_pot_index + 1] = 255
                      /\ Patch(state.coinb1, state.target_pot_index, 1)
                           = [state.coinb1 EXCEPT ![Len(state.coinb1) - 5] = 0]
    BY DEF PotInPlace
  <2>1. /\ state.target_pot_index \in Nat /\ IsSeq(state.coinb1)
        /\ state.target_pot_index < Len(state.coinb1)
        /\ state.target_pot_index + 1 = Len(state.coinb1) - 5
        /\ state.coinb1[state.target_pot_index + 1] = 255
    BY StateParts
  <2>2. floor_pot(1) = 0
    <3>1. Power2[0] = 1 /\ 0 \in 0 .. 63
      BY Power2Is
    <3>2. floor_pot(Power2[0]) = 0
      BY <3>1, FloorPotOfPower
    <3> QED
      BY <3>1, <3>2
  <2>3. Patch(state.coinb1, state.target_pot_index, 1)
          = [state.coinb1 EXCEPT ![state.target_pot_index + 1] = floor_pot(1)]
    BY <2>1, PatchedIs
  <2> QED
    BY <2>1, <2>2, <2>3
<1> QED
  BY <1>1, SpecWorkInv, PTL

\* send_notify and patch_coinb1: for every configuration the validation
\* accepts and every u64 the pool may impose as its minimum, doubled by vardiff
\* or not, the byte in the coinbase of an SV1 job is the highest bit of the
\* difficulty the miner was told, which is not below the configured one; and it
\* is all of it unless the pool's minimum is in force and no power of two.
THEOREM DifficultiesExact == WorkSpec => []PotExact
<1>1. WorkInv => PotExact
  <2> DEFINE pot == Power2[job.coinb1[job.meta.target_pot_index + 1]]
  <2> SUFFICES ASSUME WorkInv, job # Nothing, job.proto = "sv1"
               PROVE  /\ pot <= job.diff /\ job.diff < 2 * pot
                      /\ job.diff >= cfg.stratum.vardiff_min
                      /\ RegularMin => pot = job.diff
    BY DEF PotExact
  <2>1. /\ state # Nothing /\ job.meta = JobMeta(state)
        /\ job.coinb1 = Patch(state.coinb1, state.target_pot_index, job.diff)
        /\ DiffSound(job.diff)
    BY DEF WorkInv, JobFollowsState
  <2>2. /\ state.target_pot_index \in Nat /\ IsSeq(state.coinb1)
        /\ state.target_pot_index < Len(state.coinb1)
    BY <2>1, StateParts
  <2>3. job.coinb1[state.target_pot_index + 1] = floor_pot(job.diff)
    BY <2>1, <2>2, PatchedIs
  <2>4. job.meta.target_pot_index = state.target_pot_index
    BY <2>1 DEF JobMeta
  <2>5. pot = Power2[floor_pot(job.diff)]
    BY <2>3, <2>4
  <2> HIDE DEF pot
  <2>6. /\ IsU64(job.diff) /\ job.diff > 0 /\ job.diff >= cfg.stratum.vardiff_min
        /\ RegularMin => IsPower(job.diff)
    BY <2>1 DEF DiffSound
  <2>7. pot <= job.diff /\ job.diff < 2 * pot
    BY <2>5, <2>6, FloorPotBounds
  <2>8. ASSUME RegularMin PROVE pot = job.diff
    <3>1. PICK k \in 0 .. 63 : job.diff = Power2[k]
      BY <2>6, <2>8 DEF IsPower
    <3>2. floor_pot(job.diff) = k
      BY <3>1, FloorPotOfPower
    <3> QED
      BY <2>5, <3>1, <3>2
  <2> QED
    BY <2>6, <2>7, <2>8
<1> QED
  BY <1>1, SpecWorkInv, PTL

----------------------------------------------------------------------------
(* The header. *)

\* The root the gateway hashes is the one climbed from the same coinbase.
LEMMA HeaderRoot ==
  ASSUME WorkInv, job # Nothing
  PROVE  Header.root = Climbed(PatchedCoinb1 \o FullExtranonce \o state.coinb2,
                               Branches(state.merkle_branches))
<1>1. state # Nothing /\ job.meta = JobMeta(state)
  BY DEF WorkInv, JobFollowsState
<1>2. /\ Len(state.merkle_branches) \in Nat
      /\ DOMAIN state.merkle_branches = 1 .. Len(state.merkle_branches)
  BY <1>1, StateParts
<1>3. Header.root = compute_merkle_root(PatchedCoinb1, FullExtranonce, state.coinb2,
                                        state.merkle_branches)
  BY <1>1 DEF Header, JobMeta
<1>4. compute_merkle_root(PatchedCoinb1, FullExtranonce, state.coinb2, state.merkle_branches)
        = Climbed(PatchedCoinb1 \o FullExtranonce \o state.coinb2,
                  [i \in DOMAIN state.merkle_branches |-> Rev(state.merkle_branches[i])])
  BY <1>2, RootIsClimbed
<1> QED
  BY <1>3, <1>4 DEF Branches

LEMMA PatchedCoinbase ==
  ASSUME WorkInv, job # Nothing
  PROVE  PatchedCoinb1 = [state.coinb1 EXCEPT ![state.target_pot_index + 1]
                                                = floor_pot(job.diff)]
<1>1. /\ state # Nothing /\ job.meta = JobMeta(state)
      /\ job.proto = "sv1" =>
           job.coinb1 = Patch(state.coinb1, state.target_pot_index, job.diff)
  BY DEF WorkInv, JobFollowsState
<1>2. /\ state.target_pot_index \in Nat /\ IsSeq(state.coinb1)
      /\ state.target_pot_index < Len(state.coinb1)
  BY <1>1, StateParts
<1>3. PatchedCoinb1 = Patch(state.coinb1, state.target_pot_index, job.diff)
  BY <1>1 DEF PatchedCoinb1, JobMeta
<1> QED
  BY <1>2, <1>3, PatchedIs

\* build_share_submission: whatever the protocol and the miner's roll, the pool
\* rebuilds from the 0x27 body the header the gateway hashed, which is the
\* header the SV1 miner hashed and, but for the root, the SV2 miner's.
THEOREM HeadersRebuilt == WorkSpec => []Reconstructs
<1>1. WorkInv => Reconstructs
  <2> SUFFICES ASSUME WorkInv, body # Nothing
               PROVE  /\ PoolHeader = body.header
                      /\ job.proto = "sv1" => share.hashed = body.header
                      /\ [share.hashed EXCEPT !.root = body.header.root] = body.header
    BY DEF Reconstructs
  <2>1. /\ share # Nothing /\ body.header = Header /\ body.target_byte = floor_pot(job.diff)
        /\ body.version = share.version /\ body.ntime = share.ntime
        /\ body.extranonce = FullExtranonce /\ body.sub1 = Body0x01 /\ body.sub2 = Body0x02
    BY DEF WorkInv, BodyComplete
  <2>2. /\ job # Nothing /\ share.ntime = job.ntime
        /\ share.hashed = MinerHeader(share.extranonce, share.version)
    BY <2>1 DEF WorkInv, ShareHashed
  <2>3. /\ state # Nothing /\ job.meta = JobMeta(state)
        /\ job.proto = "sv1" =>
             /\ job.prev_hash = SwapWords(Rev(state.prev_hash))
             /\ job.coinb2 = state.coinb2 /\ job.merkle_branch = state.merkle_branches
             /\ job.nbits = state.nbits
        /\ job.proto # "sv1" =>
             job.prev_hash = state.prev_hash /\ job.nbits = Reverse(state.nbits)
    BY <2>2 DEF WorkInv, JobFollowsState
  <2>4. IsHash(state.prev_hash)
    BY <2>3, StateParts
  <2> DEFINE root == Header.root
             prev == state.prev_hash
             nbits == Reverse(state.nbits)
             header == [version |-> share.version, prev |-> prev, root |-> root,
                        ntime |-> share.ntime, nbits |-> nbits]
  <2>5. Header = header
    BY <2>3 DEF Header, JobMeta
  <2>6. root = Climbed(PatchedCoinb1 \o FullExtranonce \o state.coinb2,
                       Branches(state.merkle_branches))
    BY <2>2, HeaderRoot
  <2> HIDE DEF root
  <2>7. PoolHeader = header
    <3> DEFINE coinb1 == [body.sub2.coinb1 EXCEPT
                            ![body.sub1.target_pot_index + 1] = body.target_byte]
    <3>1. /\ body.sub2.coinb1 = state.coinb1 /\ body.sub2.coinb2 = state.coinb2
          /\ body.sub1.target_pot_index = state.target_pot_index
          /\ body.sub1.prevhash = prev /\ body.sub1.nbits = nbits
          /\ body.sub1.branches = Branches(state.merkle_branches)
      BY <2>1, <2>3 DEF Body0x01, Body0x02, JobMeta, Branches
    <3>2. coinb1 = PatchedCoinb1
      BY <2>1, <2>2, <3>1, PatchedCoinbase
    <3>3. PoolHeader = [version |-> body.version, prev |-> body.sub1.prevhash,
                        root |-> Climbed(coinb1 \o body.extranonce \o body.sub2.coinb2,
                                         body.sub1.branches),
                        ntime |-> body.ntime, nbits |-> body.sub1.nbits]
      BY DEF PoolHeader
    <3> HIDE DEF coinb1, prev, nbits
    <3>4. Climbed(coinb1 \o body.extranonce \o body.sub2.coinb2, body.sub1.branches) = root
      BY <2>1, <2>6, <3>1, <3>2
    <3> QED
      BY <2>1, <3>1, <3>3, <3>4
  <2> DEFINE mroot == MinerRoot(share.extranonce)
             mprev == IF job.proto = "sv1" THEN Rev(SwapWords(job.prev_hash)) ELSE job.prev_hash
             mbits == IF job.proto = "sv1" THEN Reverse(job.nbits) ELSE job.nbits
  <2>8. share.hashed = [version |-> share.version, root |-> mroot, ntime |-> job.ntime,
                        prev |-> mprev, nbits |-> mbits]
    BY <2>2 DEF MinerHeader
  <2>9. mprev = prev
    <3>1. CASE job.proto = "sv1"
      <4>1. IsHash(Rev(prev)) /\ Rev(Rev(prev)) = prev
        BY <2>4, RevTwice
      <4> HIDE DEF prev
      <4>2. SwapWords(SwapWords(Rev(prev))) = Rev(prev)
        BY <4>1, RevTwice
      <4>3. job.prev_hash = SwapWords(Rev(prev))
        BY <2>3, <3>1 DEF prev
      <4> QED
        BY <3>1, <4>1, <4>2, <4>3
    <3>2. CASE job.proto # "sv1"
      BY <2>3, <3>2
    <3> QED
      BY <3>1, <3>2
  <2>10. mbits = nbits
    BY <2>3
  <2>11. job.proto = "sv1" => mroot = root
    <3> SUFFICES ASSUME job.proto = "sv1" PROVE mroot = root
      OBVIOUS
    <3>1. PatchedCoinb1 = job.coinb1 /\ FullExtranonce = share.extranonce
      BY DEF PatchedCoinb1, FullExtranonce
    <3>2. mroot = Climbed(job.coinb1 \o share.extranonce \o job.coinb2,
                          [i \in DOMAIN job.merkle_branch |-> Rev(job.merkle_branch[i])])
      BY DEF MinerRoot
    <3> HIDE DEF mroot
    <3> QED
      BY <2>3, <2>6, <3>1, <3>2 DEF Branches
  <2> HIDE DEF mroot, mprev, mbits, prev, nbits
  <2>12. job.proto = "sv1" => share.hashed = header
    BY <2>2, <2>8, <2>9, <2>10, <2>11
  <2>13. [share.hashed EXCEPT !.root = root] = header
    BY <2>2, <2>8, <2>9, <2>10
  <2>14. body.header = header /\ body.header.root = root
    BY <2>1, <2>5 DEF prev, nbits
  <2> HIDE DEF header
  <2> QED
    BY <2>7, <2>12, <2>13, <2>14
<1> QED
  BY <1>1, SpecWorkInv, PTL

----------------------------------------------------------------------------
(* Blocks. *)

\* The highest byte in which two hashes differ.
LEMMA HighestDiffers ==
  ASSUME NEW D, D \subseteq 1 .. 32, D # {}
  PROVE  \E high \in D : \A j \in D : high >= j
<1> DEFINE R == {ss \in Nat \X Nat : ss[1] < ss[2]}
           T == {n \in Nat : 32 - n \in D}
<1>1. IsWellFoundedOn(R, Nat)
  BY NatLessThanWellFounded DEF OpToRel
<1>2. \A x, y \in Nat : y < x => <<y, x>> \in R
  OBVIOUS
<1> HIDE DEF R
<1>3. \A j \in D : 32 - j \in T /\ j \in Int
  <2>1. \A j \in D : j \in 1 .. 32
    OBVIOUS
  <2>2. \A j \in 1 .. 32 : 32 - j \in Nat /\ 32 - (32 - j) = j /\ j \in Int
    OBVIOUS
  <2> QED
    BY <2>1, <2>2
<1>4. T # {} /\ T \subseteq Nat
  BY <1>3
<1>5. \A n \in T : n \in Nat /\ 32 - n \in D
  OBVIOUS
<1> HIDE DEF T
<1>6. PICK n \in T : \A y \in T : ~ (<<y, n>> \in R)
  BY <1>1, <1>4, WFMin
<1>7. \A y \in T : ~ (y < n)
  BY <1>2, <1>4, <1>6
<1>8. ASSUME NEW j \in D PROVE 32 - n >= j
  <2>1. 32 - j \in T /\ j \in Int /\ 32 - j \in Nat
    BY <1>3, <1>4
  <2>2. ~ (32 - j < n)
    BY <1>7, <2>1
  <2>3. n \in Nat
    BY <1>5
  <2> QED
    BY <2>1, <2>2, <2>3
<1> QED
  BY <1>5, <1>8

\* Comparing from the most significant byte down compares the numbers.
LEMMA TargetOrder ==
  ASSUME NEW h \in [1 .. 32 -> Int], NEW t \in [1 .. 32 -> Int]
  PROVE  hash_meets_target(h, t)
           <=> \/ h = t
               \/ \E i \in 1 .. 32 : h[i] < t[i] /\ \A j \in i + 1 .. 32 : h[j] = t[j]
<1> DEFINE D == {i \in 1 .. 32 : h[i] # t[i]}
           Highest(i) == \A j \in D : i >= j
           high == CHOOSE i \in D : Highest(i)
           Below == \E i \in 1 .. 32 : h[i] < t[i] /\ \A j \in i + 1 .. 32 : h[j] = t[j]
<1>1. hash_meets_target(h, t) <=> (D = {} \/ h[high] < t[high])
  BY DEF hash_meets_target
<1>2. CASE D = {}
  <2>1. h = t
    BY <1>2
  <2> QED
    BY <1>1, <1>2, <2>1
<1>3. CASE D # {}
  <2>1. \E i \in D : Highest(i)
    BY <1>3, HighestDiffers
  <2>2. high \in D /\ Highest(high)
    <3> HIDE DEF D, Highest
    <3> QED
      BY <2>1
  <2> HIDE DEF high
  <2>3. h # t
    BY <1>3
  <2>4. ASSUME h[high] < t[high] PROVE Below
    <3>1. \A j \in high + 1 .. 32 : h[j] = t[j]
      BY <2>2
    <3> QED
      BY <2>2, <2>4, <3>1
  <2>5. ASSUME Below PROVE h[high] < t[high]
    <3>1. PICK i \in 1 .. 32 : h[i] < t[i] /\ \A j \in i + 1 .. 32 : h[j] = t[j]
      BY <2>5
    <3>2. i \in D
      BY <3>1
    <3>3. high >= i
      BY <2>2, <3>2
    <3>4. ~ (high > i)
      BY <2>2, <3>1
    <3>5. high = i
      BY <2>2, <3>3, <3>4
    <3> QED
      BY <3>1, <3>5
  <2> QED
    BY <1>1, <1>3, <2>3, <2>4, <2>5
<1> QED
  BY <1>2, <1>3

\* hash_meets_target and build_merkle_branches: for every template, target and
\* hash, a share is handed to submitblock exactly when its hash is not above the
\* target as a number; the block has the header and the number of transactions
\* of the share's job, and with up to three transactions the header's root is
\* the merkle root of the block.
THEOREM BlocksCommit == WorkSpec => []BlockCommits
<1>1. WorkInv => BlockCommits
  <2> DEFINE h == body.hash
             t == IF made.template.target # << >> THEN Reverse(made.template.target)
                  ELSE nbits_to_target_le(made.template.bits)
             Low == \/ h = t
                    \/ \E i \in 1 .. 32 : /\ h[i] < t[i]
                                          /\ \A j \in i + 1 .. 32 : h[j] = t[j]
  <2> SUFFICES ASSUME WorkInv, body # Nothing
               PROVE  /\ (blocks # {}) = Low
                      /\ \A block \in blocks :
                           /\ block.header = body.header
                           /\ block.txn_count = 1 + Len(block.txns)
                           /\ Len(block.txns) <= 3 =>
                                block.header.root = BlockRoot(block.coinbase, block.txns)
    BY DEF BlockCommits
  <2>1. /\ share # Nothing /\ h \in Hashes /\ body.header = Header
        /\ blocks = IF hash_meets_target(h, job.meta.block_target) THEN {FoundBlock} ELSE {}
    BY DEF WorkInv, BodyComplete
  <2>2. job # Nothing
    BY <2>1 DEF WorkInv, ShareHashed
  <2>3. state # Nothing /\ job.meta = JobMeta(state)
    BY <2>2 DEF WorkInv, JobFollowsState
  <2>4. /\ job.meta.block_target = state.block_target /\ job.meta.txns = state.txns
        /\ job.meta.txn_count = state.txn_count /\ job.meta.coinb2_bin = state.coinb2
    BY <2>3 DEF JobMeta
  <2>5. /\ state.block_target = t /\ state.block_target \in [1 .. 32 -> Int]
        /\ IsSeq(state.txns) /\ \A i \in DOMAIN state.txns : IsHash(state.txns[i])
        /\ state.txn_count = Len(state.txns)
        /\ state.merkle_branches = build_merkle_branches(state.txns)
    BY <2>3, StateParts
  <2> HIDE DEF t
  <2>6. (blocks # {}) = Low
    <3>1. h \in [1 .. 32 -> Int] /\ t \in [1 .. 32 -> Int]
      <4>1. t \in [1 .. 32 -> Int]
        BY <2>5
      <4>2. h \in [1 .. 32 -> 0 .. 255]
        BY <2>1, InputsAssumption
      <4>3. \A b \in 0 .. 255 : b \in Int
        OBVIOUS
      <4> HIDE DEF h
      <4>4. h \in [1 .. 32 -> Int]
        BY <4>2, <4>3
      <4> QED
        BY <4>1, <4>4
    <3> HIDE DEF h
    <3>2. hash_meets_target(h, t) <=> Low
      BY <3>1, TargetOrder
    <3> HIDE DEF Low
    <3>3. blocks # {} <=> hash_meets_target(h, t)
      BY <2>1, <2>4, <2>5 DEF h
    <3>4. Low \in BOOLEAN
      BY DEF Low
    <3> QED
      BY <3>2, <3>3, <3>4
  <2>7. ASSUME NEW block \in blocks
        PROVE  /\ block.header = body.header
               /\ block.txn_count = 1 + Len(block.txns)
               /\ Len(block.txns) <= 3 =>
                    block.header.root = BlockRoot(block.coinbase, block.txns)
    <3>1. block = FoundBlock
      BY <2>1, <2>7
    <3>2. /\ block.header = Header /\ block.txn_count = state.txn_count + 1
          /\ block.txns = state.txns
          /\ block.coinbase = PatchedCoinb1 \o FullExtranonce \o state.coinb2
      BY <2>4, <3>1 DEF FoundBlock
    <3>3. Len(state.txns) \in Nat
      <4> DEFINE x == state.txns
      <4>1. PICK V : x \in Seq(V)
        BY <2>5 DEF IsSeq
      <4> HIDE DEF x
      <4>2. Len(x) \in Nat
        BY <4>1
      <4> QED
        BY <4>2 DEF x
    <3>4. Header.root = Climbed(block.coinbase, Branches(state.merkle_branches))
      BY <2>2, <3>2, HeaderRoot
    <3>5. ASSUME Len(state.txns) <= 3
          PROVE  Climbed(block.coinbase, Branches(build_merkle_branches(state.txns)))
                   = BlockRoot(block.coinbase, state.txns)
      <4> DEFINE x == state.txns
      <4>1. IsSeq(x) /\ \A i \in DOMAIN x : IsHash(x[i])
        BY <2>5
      <4>2. Len(x) \in 0 .. 3
        <5> DEFINE n == Len(x)
        <5>1. n \in Nat /\ n <= 3
          BY <3>3, <3>5
        <5> HIDE DEF n
        <5>2. n \in 0 .. 3
          BY <5>1
        <5> QED
          BY <5>2 DEF n
      <4> HIDE DEF x
      <4>3. Climbed(block.coinbase, Branches(build_merkle_branches(x)))
              = BlockRoot(block.coinbase, x)
        BY <4>1, <4>2, ShortTrees
      <4> QED
        BY <4>3 DEF x
    <3> QED
      BY <2>1, <2>5, <3>2, <3>3, <3>4, <3>5
  <2> QED
    BY <2>6, <2>7
<1> QED
  BY <1>1, SpecWorkInv, PTL
=============================================================================
