---------------------- MODULE GraphEngineFlight_proofs ----------------------
(***************************************************************************)
(* One attempt at a rule at a time, and at most three of them, for every   *)
(* graph, every number of tasks and every interleaving, evaluator crashes, *)
(* errors and lost requests included; and, in graphs without feedback,     *)
(* nothing is stranded and a closed run has nothing left to do.            *)
(*                                                                         *)
(* None of it is inductive.  The lock is what carries the attempts:        *)
(* whoever holds the permit to execute a rule does so under the lock, and  *)
(* a lock that is free has all of its rule's requests behind it, each with *)
(* a counted failure.  On top of that, a rule whose inputs are there is    *)
(* locked or still has a check coming to it (Awake).                       *)
(***************************************************************************)
EXTENDS GraphEngine_proofs, FiniteSetTheorems

Permitted(r) ==
    \/ \E t \in EvalTasks : EvalHolds(t, r)
    \/ Waiting(r) > 0
    \/ \E t \in PropTasks : PropHolds(t, r)

\* One permit at most, and under the lock.
Sound(r) == OneAttempt(r) /\ (Permitted(r) => lock[r])

\* No loop has gone round, and each permit is sound.
Calm ==
    /\ \A t \in PropTasks : pr[t].pc \notin Resetting
    /\ \A r \in Rules : Sound(r)

Flight == BudgetKept /\ (Undisturbed => Calm)

\* The propagator works for r and is at one of the steps pcs.
PropAt(r, pcs) == \E t \in PropTasks : pr[t].rule = r /\ pr[t].pc \in pcs

\* Before the next request for r, as many attempts have failed as were sent.
Settled(r) == ~lock[r] \/ (\E t \in EvalTasks : EvalHolds(t, r)) \/ PropAt(r, {"retryIdle", "unlock"})

\* One attempt at r has not been counted yet.
Uncounted(r) == Waiting(r) > 0 \/ PropAt(r, {"check", "count"})

Tried(r) ==
    /\ dispatches[r] <= MaxRuleRetries
    /\ Settled(r) => dispatches[r] <= attempts[r] /\ attempts[r] < MaxRuleRetries
    /\ Uncounted(r) => dispatches[r] <= attempts[r] + 1 /\ attempts[r] < MaxRuleRetries

Retries == Undisturbed => \A r \in Rules : Tried(r)

-----------------------------------------------------------------------------
(* The disturbances                                                        *)

\* A run that was disturbed stays so.
LEMMA DisturbedForGood ==
    ASSUME TypeInv, BudgetKept, Next, Undisturbed'
    PROVE  Undisturbed
<1>1. \A e \in Disturbances : budget[e] = Budget[e]
  <2> SUFFICES ASSUME NEW e \in Disturbances PROVE budget[e] = Budget[e]
      OBVIOUS
  <2>1. e \in Events /\ budget'[e] = Budget[e]
      BY BudgetType DEF Undisturbed, Disturbances
  <2>2. budget'[e] <= budget[e] /\ budget[e] <= Budget[e]
      BY <2>1, BudgetNext DEF BudgetKept
  <2> QED BY <2>1, <2>2, BudgetType
<1>2. ~CancelCleanup
    BY <1>1, BudgetType DEF CancelCleanup, BudgetKept, Disturbances
<1>3. iteration \in [Rules -> Nat] /\ Controllers \subseteq Rules
    BY TopologyAssumption DEF TypeInv, RedisOK
<1>4. \A c \in Rules : iteration[c] = 0
    BY <1>2, <1>3, Environment DEF Undisturbed
<1> QED BY <1>1, <1>4 DEF Undisturbed, Disturbances

\* None of these steps leaves a run undisturbed.
LEMMA Disturbing ==
    ASSUME TypeInv, BudgetKept,
           \/ \E e \in Disturbances : Spend(e)
           \/ CancelCleanup
           \/ \E t \in PropTasks : PropIterate(t)
    PROVE  ~Undisturbed'
<1>1. ASSUME NEW e \in Disturbances, Spend(e) PROVE ~Undisturbed'
  <2>1. budget'[e] = budget[e] - 1 /\ budget[e] <= Budget[e]
      BY <1>1, BudgetType DEF Spend, BudgetKept
  <2>2. budget'[e] # Budget[e]
      BY <2>1, BudgetType
  <2> QED BY <2>2 DEF Undisturbed, Disturbances
<1>2. CASE CancelCleanup
  <2>1. UNCHANGED budget /\ budget["cancel"] < Budget["cancel"] /\ "cancel" \in Events
      BY <1>2, BudgetType DEF CancelCleanup, BudgetKept, bounds, Disturbances
  <2> QED BY <2>1, BudgetType DEF Undisturbed
<1>3. ASSUME NEW t \in PropTasks, PropIterate(t) PROVE ~Undisturbed'
  <2>1. PICK c \in Controllers : iteration' = [iteration EXCEPT ![c] = @ + 1]
      BY <1>3 DEF PropIterate, ControllersOn
  <2>2. c \in Rules /\ iteration'[c] # 0
      BY <2>1, TopologyAssumption DEF TypeInv, RedisOK
  <2> QED BY <2>2 DEF Undisturbed
<1> QED BY <1>1, <1>2, <1>3

-----------------------------------------------------------------------------
(* Who holds the permit after a step                                       *)

EvalHolding == {"recheck", "render", "publish"}

PropHolding == {"check", "fan", "complete", "count", "retryIdle", "unlock", "fail"}

LEMMA EvalMoves ==
    ASSUME EvWell, NEW t \in EvalTasks, NEW x, ev' = [ev EXCEPT ![t] = x],
           NEW u \in EvalTasks, NEW q
    PROVE  EvalHolds(u, q)' <=> IF u = t THEN x.rule = q /\ x.pc \in EvalHolding
                                         ELSE EvalHolds(u, q)
BY DEF EvWell, EvalHolds, EvalHolding

LEMMA EvalGoes ==
    ASSUME EvWell, NEW t \in EvalTasks, NEW pc, EvalGoto(t, pc), NEW u \in EvalTasks, NEW q
    PROVE  EvalHolds(u, q)' <=> IF u = t THEN ev[t].rule = q /\ pc \in EvalHolding
                                         ELSE EvalHolds(u, q)
<1> DEFINE x == [ev[t] EXCEPT !.pc = pc]
<1>1. x.pc = pc /\ x.rule = ev[t].rule
    BY DEF EvWell, EvalLocal
<1>2. ev' = [ev EXCEPT ![t] = x]
    BY DEF EvalGoto
<1> HIDE DEF x
<1> QED BY <1>1, <1>2, EvalMoves

LEMMA EvalLeaves ==
    ASSUME EvWell, NEW t \in EvalTasks, EvalAck(t), NEW u \in EvalTasks, NEW q
    PROVE  EvalHolds(u, q)' <=> u # t /\ EvalHolds(u, q)
<1>1. EvalIdle.pc \notin EvalHolding
    BY DEF EvalIdle, EvalHolding
<1> QED BY <1>1, EvalMoves DEF EvalAck

LEMMA PropMoves ==
    ASSUME PrWell, NEW t \in PropTasks, NEW x, pr' = [pr EXCEPT ![t] = x],
           NEW u \in PropTasks
    PROVE  IF u = t THEN pr'[u] = x ELSE pr'[u] = pr[u]
BY DEF PrWell

LEMMA PropGoes ==
    ASSUME PrWell, NEW t \in PropTasks, NEW pc, PropGoto(t, pc), NEW u \in PropTasks
    PROVE  /\ pr'[u].rule = pr[u].rule
           /\ IF u = t THEN pr'[u].pc = pc ELSE pr'[u].pc = pr[u].pc
<1> DEFINE x == [pr[t] EXCEPT !.pc = pc]
<1>1. x.pc = pc /\ x.rule = pr[t].rule
    BY DEF PrWell, PropLocal
<1>2. pr' = [pr EXCEPT ![t] = x]
    BY DEF PropGoto
<1> HIDE DEF x
<1> QED BY <1>1, <1>2, PropMoves

LEMMA PropLeaves ==
    ASSUME PrWell, NEW t \in PropTasks, PropAck(t), NEW u \in PropTasks
    PROVE  IF u = t THEN pr'[u].pc = "idle" ELSE pr'[u] = pr[u]
BY IdleLocals, PropMoves DEF PropAck

LEMMA WaitingType ==
    ASSUME QueuesOK, NEW r \in Rules
    PROVE  /\ Waiting(r) \in Nat /\ requests[r] \in Nat
           /\ results[<<r, "success">>] \in Nat /\ results[<<r, "error">>] \in Nat
<1>1. \A o \in Outcomes : <<r, o>> \in Rules \X Outcomes
    OBVIOUS
<1>2. \A o \in Outcomes : results[<<r, o>>] \in Nat
    BY <1>1 DEF QueuesOK
<1>3. requests[r] \in Nat
    BY DEF QueuesOK
<1>4. results[<<r, "success">>] \in Nat /\ results[<<r, "error">>] \in Nat
    BY <1>2 DEF Outcomes
<1> QED BY <1>2, <1>3, <1>4 DEF Waiting

\* The number of one kind of answer to r changes to n.
LEMMA WaitingChange ==
    ASSUME QueuesOK, NEW r \in Rules, NEW o \in Outcomes, NEW n,
           results' = [results EXCEPT ![<<r, o>>] = n], NEW q \in Rules
    PROVE  results'[<<q, "success">>] = (IF q = r /\ o = "success" THEN n ELSE results[<<q, "success">>])
           /\ results'[<<q, "error">>] = (IF q = r /\ o = "error" THEN n ELSE results[<<q, "error">>])
<1>1. \A u \in Outcomes : <<q, u>> \in Rules \X Outcomes
    OBVIOUS
<1>2. \A u \in Outcomes : results'[<<q, u>>] = IF <<q, u>> = <<r, o>> THEN n ELSE results[<<q, u>>]
    BY <1>1 DEF QueuesOK
<1>3. \A u \in Outcomes : <<q, u>> = <<r, o>> <=> q = r /\ u = o
    OBVIOUS
<1> QED BY <1>2, <1>3 DEF Outcomes

TakeAnswer(r, o) == results' = [results EXCEPT ![<<r, o>>] = @ - 1]

\* Whoever takes an answer leaves one less.
LEMMA WaitingLess ==
    ASSUME QueuesOK, NEW r \in Rules, NEW o \in Outcomes, TakeAnswer(r, o), UNCHANGED requests,
           NEW q \in Rules
    PROVE  Waiting(q)' = IF q = r THEN Waiting(q) - 1 ELSE Waiting(q)
<1> DEFINE n == results[<<r, o>>] - 1
<1>1. results' = [results EXCEPT ![<<r, o>>] = n]
    BY DEF TakeAnswer
<1> HIDE DEF n
<1>2. /\ results'[<<q, "success">>] = (IF q = r /\ o = "success" THEN n ELSE results[<<q, "success">>])
      /\ results'[<<q, "error">>] = (IF q = r /\ o = "error" THEN n ELSE results[<<q, "error">>])
    BY <1>1, WaitingChange
<1>3. requests[q] \in Nat /\ results[<<q, "success">>] \in Nat /\ results[<<q, "error">>] \in Nat
    BY WaitingType
<1>4. o \in {"success", "error"}
    BY DEF Outcomes
<1> QED BY <1>2, <1>3, <1>4 DEF Waiting, n

LEMMA WaitingAnswered ==
    ASSUME QueuesOK, NEW r \in Rules, NEW o \in Outcomes, TakeRequest(r), Answer(r, o),
           NEW q \in Rules
    PROVE  Waiting(q)' = Waiting(q)
<1> DEFINE n == results[<<r, o>>] + 1
<1>1. results' = [results EXCEPT ![<<r, o>>] = n]
    BY DEF Answer
<1> HIDE DEF n
<1>2. /\ results'[<<q, "success">>] = (IF q = r /\ o = "success" THEN n ELSE results[<<q, "success">>])
      /\ results'[<<q, "error">>] = (IF q = r /\ o = "error" THEN n ELSE results[<<q, "error">>])
    BY <1>1, WaitingChange
<1>3. requests'[q] = IF q = r THEN requests[q] - 1 ELSE requests[q]
    BY DEF TakeRequest, QueuesOK
<1>4. requests[q] \in Nat /\ results[<<q, "success">>] \in Nat /\ results[<<q, "error">>] \in Nat
    BY WaitingType
<1>5. o \in {"success", "error"}
    BY DEF Outcomes
<1> QED BY <1>2, <1>3, <1>4, <1>5 DEF Waiting, n

LEMMA WaitingLost ==
    ASSUME QueuesOK, NEW r \in Rules, TakeRequest(r), UNCHANGED results, NEW q \in Rules
    PROVE  Waiting(q)' <= Waiting(q)
<1>1. requests'[q] = IF q = r THEN requests[q] - 1 ELSE requests[q]
    BY DEF TakeRequest, QueuesOK
<1>2. requests[q] \in Nat /\ results[<<q, "success">>] \in Nat /\ results[<<q, "error">>] \in Nat
    BY WaitingType
<1> QED BY <1>1, <1>2 DEF Waiting

-----------------------------------------------------------------------------
(* Every step of an undisturbed run keeps the permits sound                *)

\* Permits that are kept, handed on by the task that had them or dropped.
LEMMA Fewer ==
    ASSUME QueuesOK, QueuesOK', NEW r \in Rules, Sound(r),
           \A t \in EvalTasks : EvalHolds(t, r)' => EvalHolds(t, r),
           \A t \in PropTasks : PropHolds(t, r)' => PropHolds(t, r),
           Waiting(r)' <= Waiting(r),
           lock'[r] = lock[r]
    PROVE  Sound(r)'
<1>1. Waiting(r) \in Nat /\ Waiting(r)' \in Nat
  <2>1. <<r, "success">> \in Rules \X Outcomes /\ <<r, "error">> \in Rules \X Outcomes
      BY DEF Outcomes
  <2>2. requests'[r] \in Nat /\ results'[<<r, "success">>] \in Nat /\ results'[<<r, "error">>] \in Nat
      BY <2>1 DEF QueuesOK
  <2> QED BY <2>2, WaitingType DEF Waiting
<1>2. OneAttempt(r)'
    BY <1>1 DEF Sound, OneAttempt
<1>3. Permitted(r)' => Permitted(r)
    BY <1>1 DEF Permitted
<1> QED BY <1>2, <1>3 DEF Sound

\* Of the evaluator's steps only the lock, when it is free, creates a permit.
LEMMA EvalPermits ==
    ASSUME EvWell, NEW t \in EvalTasks, EvalTake(t) \/ EvalStep(t) \/ EvalCrash(t),
           NEW r, EvalLock(t) => lock[r] \/ ev[t].rule # r,
           NEW u \in EvalTasks, EvalHolds(u, r)'
    PROVE  EvalHolds(u, r)
<1>1. CASE EvalStatus(t) \/ EvalGate(t) \/ EvalPublish(t) \/ EvalDispatch(t) \/ EvalCrash(t)
    BY <1>1, EvalLeaves, EvalGoes
    DEF EvalStatus, EvalGate, EvalPublish, EvalDispatch, EvalCrash, EvalHolding
<1>2. CASE EvalRecheck(t) \/ EvalRender(t)
  <2>1. EvalHolds(t, ev[t].rule)
      BY <1>2 DEF EvalRecheck, EvalRender, EvalHolds
  <2>2. EvalAck(t) \/ \E pc \in EvalHolding : EvalGoto(t, pc)
      BY <1>2 DEF EvalRecheck, EvalRender, EvalHolding
  <2> QED BY <2>1, <2>2, EvalLeaves, EvalGoes
<1>3. CASE EvalScan(t)
  <2> DEFINE i == ev[t].next
             a == IF Inputs[ev[t].rule][i] \in filled
                  THEN ev[t].avail \cup {Inputs[ev[t].rule][i]} ELSE ev[t].avail
             pc == IF i = Len(Inputs[ev[t].rule]) THEN "gate" ELSE "scan"
             x == [ev[t] EXCEPT !.avail = a, !.next = i + 1, !.pc = pc]
  <2>1. ev' = [ev EXCEPT ![t] = x]
      BY <1>3 DEF EvalScan
  <2>2. pc \notin EvalHolding
      BY DEF EvalHolding
  <2> HIDE DEF a, pc
  <2>3. x.pc = pc
      BY DEF EvWell, EvalLocal
  <2> HIDE DEF x
  <2> QED BY <2>1, <2>2, <2>3, EvalMoves
<1>4. ASSUME NEW q \in Rules, EvalReceive(t, q) PROVE EvalHolds(u, r)
  <2> DEFINE x == [EvalIdle EXCEPT !.pc = "status", !.rule = q]
  <2>1. UNCHANGED ev \/ ev' = [ev EXCEPT ![t] = x]
      BY <1>4 DEF EvalReceive
  <2>2. x.pc \notin EvalHolding
      BY DEF EvalIdle, EvalHolding
  <2> HIDE DEF x
  <2>3. CASE UNCHANGED ev
      BY <2>3 DEF EvalHolds
  <2>4. CASE ev' = [ev EXCEPT ![t] = x]
      BY <2>2, <2>4, EvalMoves
  <2> QED BY <2>1, <2>3, <2>4
<1>5. CASE EvalLock(t)
  <2>1. EvalAck(t) \/ (ev[t].rule # r /\ EvalGoto(t, "recheck"))
      BY <1>5, Zenon DEF EvalLock
  <2>2. CASE EvalAck(t)
      BY <2>2, EvalLeaves
  <2>3. CASE ev[t].rule # r /\ EvalGoto(t, "recheck")
      BY <2>3, EvalGoes DEF EvalHolds
  <2> QED BY <2>1, <2>2, <2>3
<1> QED
    BY <1>1, <1>2, <1>3, <1>4, <1>5 DEF EvalTake, EvalStep

LEMMA SoundEval ==
    ASSUME TypeInv, TypeInv', NEW t \in EvalTasks, NEW r \in Rules, Sound(r),
           EvalTake(t) \/ EvalStep(t) \/ EvalCrash(t)
    PROVE  Sound(r)'
<1>1. EvWell /\ QueuesOK /\ QueuesOK' /\ lock \in [Rules -> BOOLEAN]
    BY DEF TypeInv, RedisOK
<1>2. UNCHANGED <<pr, results>>
    BY DEF EvalTake, EvalReceive, EvalStep, EvalStatus, EvalScan, EvalGate, EvalLock,
           EvalRecheck, EvalRender, EvalPublish, EvalDispatch, EvalCrash, queues
<1>3. \A u \in PropTasks : PropHolds(u, r)' <=> PropHolds(u, r)
    BY <1>2 DEF PropHolds
<1>4. CASE EvalLock(t)
  <2>1. Waiting(r)' = Waiting(r) /\ Waiting(r) \in Nat
      BY <1>1, <1>4, WaitingType DEF EvalLock, queues, Waiting
  <2>2. CASE lock[ev[t].rule]
    <3>1. EvalAck(t) /\ UNCHANGED lock
        BY <1>4, <2>2 DEF EvalLock
    <3> QED BY <1>1, <1>3, <2>1, <3>1, EvalLeaves, Fewer
  <2>3. CASE ~lock[ev[t].rule]
    <3>1. EvalGoto(t, "recheck") /\ lock' = [lock EXCEPT ![ev[t].rule] = TRUE]
        BY <1>4, <2>3 DEF EvalLock
    <3>2. \A u \in EvalTasks : EvalHolds(u, r)' <=> IF u = t THEN ev[t].rule = r ELSE EvalHolds(u, r)
        BY <1>1, <3>1, EvalGoes DEF EvalHolding
    <3>3. CASE ev[t].rule = r
      <4>1. ~Permitted(r) /\ lock'[r]
          BY <1>1, <2>3, <3>1, <3>3 DEF Sound
      <4>2. OneAttempt(r)'
          BY <1>3, <2>1, <3>2, <4>1 DEF OneAttempt, Permitted
      <4> QED BY <4>1, <4>2 DEF Sound
    <3>4. CASE ev[t].rule # r
      <4>1. lock'[r] = lock[r]
          BY <1>1, <3>1, <3>4
      <4>2. ~EvalHolds(t, r)
          BY <3>4 DEF EvalHolds
      <4> QED BY <1>1, <1>3, <2>1, <3>2, <3>4, <4>1, Fewer
    <3> QED BY <3>3, <3>4
  <2> QED BY <2>2, <2>3
<1>5. CASE EvalPublish(t)
  <2>1. /\ EvalGoto(t, "dispatch") /\ UNCHANGED lock
        /\ requests' = [requests EXCEPT ![ev[t].rule] = @ + 1]
      BY <1>5 DEF EvalPublish, redis
  <2>2. \A u \in EvalTasks : EvalHolds(u, r)' <=> u # t /\ EvalHolds(u, r)
      BY <1>1, <2>1, EvalGoes DEF EvalHolding
  <2>3. /\ Waiting(r) \in Nat /\ requests[r] \in Nat
        /\ results[<<r, "success">>] \in Nat /\ results[<<r, "error">>] \in Nat
      BY <1>1, WaitingType
  <2>4. CASE ev[t].rule = r
    <3>1. EvalHolds(t, r)
        BY <1>5, <2>4 DEF EvalPublish, EvalHolds
    <3>2. requests'[r] = requests[r] + 1
        BY <1>1, <2>1, <2>4 DEF QueuesOK
    <3>3. Waiting(r)' = Waiting(r) + 1
        BY <1>2, <2>3, <3>2 DEF Waiting
    <3>4. Waiting(r) = 0 /\ \A u \in PropTasks : ~PropHolds(u, r)
        BY <3>1 DEF Sound, OneAttempt
    <3>5. \A u \in EvalTasks : ~EvalHolds(u, r)'
        BY <2>2, <3>1 DEF Sound, OneAttempt
    <3>6. OneAttempt(r)'
        BY <1>3, <3>3, <3>4, <3>5 DEF OneAttempt
    <3>7. lock'[r]
        BY <2>1, <3>1 DEF Sound, Permitted
    <3> QED BY <3>6, <3>7 DEF Sound
  <2>5. CASE ev[t].rule # r
    <3>1. Waiting(r)' = Waiting(r)
        BY <1>1, <1>2, <2>1, <2>5 DEF Waiting, QueuesOK
    <3> QED BY <1>1, <1>3, <2>1, <2>2, <2>3, <3>1, Fewer
  <2> QED BY <2>4, <2>5
<1>6. CASE ~EvalLock(t) /\ ~EvalPublish(t)
  <2>1. UNCHANGED <<lock, requests>>
      BY <1>6 DEF EvalTake, EvalReceive, EvalStep, EvalStatus, EvalScan, EvalGate,
                  EvalRecheck, EvalRender, EvalDispatch, EvalCrash, redis, queues
  <2>2. Waiting(r)' = Waiting(r) /\ Waiting(r) \in Nat
      BY <1>1, <1>2, <2>1, WaitingType DEF Waiting
  <2>3. \A u \in EvalTasks : EvalHolds(u, r)' => EvalHolds(u, r)
      BY <1>1, <1>6, EvalPermits
  <2> QED BY <1>1, <1>3, <2>1, <2>2, <2>3, Fewer
<1> QED BY <1>4, <1>5, <1>6

\* The propagator t goes on as x, along the order of its steps outside a reset.
PropFollows(t, x) ==
    /\ pr' = [pr EXCEPT ![t] = x]
    /\ x.pc \notin Resetting \cup {"check"}
    /\ x.pc \in PropHolding => x.rule = pr[t].rule
    /\ x.pc \in {"fan", "complete", "count"} => PropCheck(t) \/ PropFan(t)
    /\ x.pc \in {"retryIdle", "fail"} => PropCount(t)
    /\ x.pc = "count" => PropCheck(t)
    /\ x.pc = "unlock" => PropRetryIdle(t)

LEMMA PropFollowsGoto ==
    ASSUME PrWell, NEW t \in PropTasks, NEW pc, PropGoto(t, pc),
           pc \notin Resetting \cup {"check"},
           pc \in {"fan", "complete", "count"} => PropCheck(t) \/ PropFan(t),
           pc \in {"retryIdle", "fail"} => PropCount(t),
           pc = "count" => PropCheck(t),
           pc = "unlock" => PropRetryIdle(t)
    PROVE  \E x : PropFollows(t, x)
<1> DEFINE x == [pr[t] EXCEPT !.pc = pc]
<1>1. x.pc = pc /\ x.rule = pr[t].rule
    BY DEF PrWell, PropLocal
<1>2. pr' = [pr EXCEPT ![t] = x]
    BY DEF PropGoto
<1> HIDE DEF x
<1>3. PropFollows(t, x)
    BY <1>1, <1>2 DEF PropFollows
<1> QED BY <1>3

LEMMA PropFollowsAck ==
    ASSUME NEW t \in PropTasks, PropAck(t)
    PROVE  \E x : PropFollows(t, x)
<1>1. PropFollows(t, PropIdle)
    BY DEF PropFollows, PropAck, PropIdle, Resetting, PropHolding
<1> QED BY <1>1

\* To a step after the rule is done with.
After == {"anchor", "home", "iterate", "close", "scan", "finish", "retryEval"}

LEMMA PropFollowsAfter ==
    ASSUME NEW t \in PropTasks, NEW x, pr' = [pr EXCEPT ![t] = x], x.pc \in After
    PROVE  \E y : PropFollows(t, y)
<1>1. PropFollows(t, x)
    BY DEF PropFollows, After, Resetting, PropHolding
<1> QED BY <1>1

LEMMA PropOrder ==
    ASSUME PrWell, NEW t \in PropTasks, PropStep(t), ~PropIterate(t), pr[t].pc \notin Resetting
    PROVE  \E x : PropFollows(t, x)
<1>1. CASE PropCheck(t)
  <2> DEFINE pc == IF Route[pr[t].rule] = {} THEN "complete" ELSE "fan"
             x == [pr[t] EXCEPT !.todo = Route[pr[t].rule], !.pc = pc]
  <2>1. PropAck(t) \/ PropGoto(t, "count") \/ pr' = [pr EXCEPT ![t] = x]
      BY <1>1 DEF PropCheck
  <2>2. x.rule = pr[t].rule /\ x.pc \in {"complete", "fan"}
      BY DEF PrWell, PropLocal
  <2> HIDE DEF x
  <2>3. ASSUME pr' = [pr EXCEPT ![t] = x] PROVE PropFollows(t, x)
      BY <1>1, <2>2, <2>3 DEF PropFollows, Resetting
  <2> QED BY <1>1, <2>1, <2>3, PropFollowsAck, PropFollowsGoto DEF Resetting
<1>2. CASE PropFan(t)
  <2>1. PICK p \in pr[t].todo :
          pr' = [pr EXCEPT ![t].todo = pr[t].todo \ {p},
                           ![t].pc = IF pr[t].todo \ {p} = {} THEN "complete" ELSE "fan"]
      BY <1>2 DEF PropFan
  <2> DEFINE rest == pr[t].todo \ {p}
             pc == IF rest = {} THEN "complete" ELSE "fan"
             x == [pr[t] EXCEPT !.todo = rest, !.pc = pc]
  <2>2. pr' = [pr EXCEPT ![t] = x]
      BY <2>1
  <2>3. x.rule = pr[t].rule /\ x.pc \in {"complete", "fan"}
      BY DEF PrWell, PropLocal
  <2> HIDE DEF x
  <2>4. PropFollows(t, x)
      BY <1>2, <2>2, <2>3 DEF PropFollows, Resetting
  <2> QED BY <2>4
<1>3. CASE PropHome(t) \/ PropClose(t)
  <2> DEFINE x == [pr[t] EXCEPT !.todo = HomeTargets(pr[t].rule), !.pc = "iterate"]
             y == [pr[t] EXCEPT !.scan = Rules, !.pc = "scan"]
  <2>1. \/ PropGoto(t, "close") \/ PropAck(t)
        \/ pr' = [pr EXCEPT ![t] = x] \/ pr' = [pr EXCEPT ![t] = y]
      BY <1>3 DEF PropHome, PropClose
  <2>2. x.pc \in After /\ y.pc \in After
      BY DEF After, PrWell, PropLocal
  <2> HIDE DEF x, y
  <2> QED BY <2>1, <2>2, PropFollowsAck, PropFollowsGoto, PropFollowsAfter DEF Resetting
<1>4. CASE PropScan(t)
  <2>1. PICK q \in pr[t].scan :
          LET done == status[q] \in {"Completed", "Failed"}
              looping == status[q] = "Idle" /\ q \in Controllers /\ iteration[q] > 0
              v == [pr[t] EXCEPT !.scan = @ \ {q},
                                 !.termsDone = @ /\ (q \in Terminal => done),
                                 !.running = @ \/ status[q] = "Dispatched" \/ looping,
                                 !.settled = @ /\ done]
          IN  pr' = [pr EXCEPT ![t] =
                       IF v.scan # {} THEN v
                       ELSE IF Finished(v) THEN [v EXCEPT !.pc = "finish"]
                       ELSE PropIdle]
      BY <1>4 DEF PropScan
  <2> DEFINE done == status[q] \in {"Completed", "Failed"}
             looping == status[q] = "Idle" /\ q \in Controllers /\ iteration[q] > 0
             rest == pr[t].scan \ {q}
             terms == pr[t].termsDone /\ (q \in Terminal => done)
             runs == pr[t].running \/ status[q] = "Dispatched" \/ looping
             ends == pr[t].settled /\ done
             v == [pr[t] EXCEPT !.scan = rest, !.termsDone = terms,
                                !.running = runs, !.settled = ends]
             w == [v EXCEPT !.pc = "finish"]
  <2>2. pr' = [pr EXCEPT ![t] = v] \/ pr' = [pr EXCEPT ![t] = w] \/ PropAck(t)
      BY <2>1, Zenon DEF PropAck
  <2>3. pr[t] \in PropLocal /\ pr[t].pc = "scan"
      BY <1>4 DEF PropScan, PrWell
  <2> HIDE DEF rest, terms, runs, ends
  <2>4. v.pc \in After /\ w.pc \in After
      BY <2>3 DEF PropLocal, After
  <2> HIDE DEF v, w
  <2> QED BY <2>2, <2>4, PropFollowsAck, PropFollowsAfter
<1>5. CASE PropComplete(t) \/ PropAnchor(t) \/ PropFail(t)
    BY <1>5, PropFollowsGoto DEF PropComplete, PropAnchor, PropFail, AfterAnchor, Resetting
<1>6. CASE PropCount(t)
  <2>1. PropGoto(t, "retryIdle") \/ PropGoto(t, "fail")
      BY <1>6 DEF PropCount
  <2> QED BY <1>6, <2>1, PropFollowsGoto DEF Resetting
<1>7. CASE PropRetryIdle(t) \/ PropUnlock(t)
  <2>1. (PropGoto(t, "unlock") /\ PropRetryIdle(t)) \/ PropGoto(t, "retryEval")
      BY <1>7 DEF PropRetryIdle, PropUnlock
  <2> QED BY <2>1, PropFollowsGoto DEF Resetting
<1>8. CASE PropFinish(t) \/ PropRetryEval(t)
    BY <1>8, PropFollowsAck DEF PropFinish, PropRetryEval
<1>9. ~PropResetStatus(t) /\ ~PropResetLock(t) /\ ~PropRefire(t)
    BY DEF PropResetStatus, PropResetLock, PropRefire, Resetting
<1> QED
    BY <1>1, <1>2, <1>3, <1>4, <1>5, <1>6, <1>7, <1>8, <1>9 DEF PropStep

\* Of the propagator's steps only the take hands on a permit, and only the unlock
\* gives one up with its lock.
LEMMA PropPermits ==
    ASSUME PrWell, NEW t \in PropTasks, PropStep(t), ~PropIterate(t),
           pr[t].pc \notin Resetting, NEW r, NEW u \in PropTasks, PropHolds(u, r)'
    PROVE  PropHolds(u, r)
<1>1. PICK x : PropFollows(t, x)
    BY PropOrder
<1>2. pr' = [pr EXCEPT ![t] = x]
    BY <1>1 DEF PropFollows
<1>3. CASE u = t
  <2>1. x.pc \in PropHolding /\ x.rule = r /\ x.pc # "check"
      BY <1>1, <1>2, <1>3, PropMoves DEF PropHolds, PropHolding, PropFollows
  <2>2. pr[t].rule = r /\ pr[t].pc \in PropHolding
      BY <1>1, <2>1
      DEF PropFollows, PropHolding, PropCheck, PropFan, PropCount, PropRetryIdle
  <2> QED BY <1>3, <2>2 DEF PropHolds, PropHolding
<1>4. CASE u # t
    BY <1>2, <1>4, PropMoves DEF PropHolds
<1> QED BY <1>3, <1>4

LEMMA SoundProp ==
    ASSUME TypeInv, TypeInv', NEW t \in PropTasks, NEW r \in Rules, Sound(r),
           PropTake(t) \/ PropStep(t), ~PropIterate(t), pr[t].pc \notin Resetting
    PROVE  Sound(r)'
<1>1. PrWell /\ QueuesOK /\ QueuesOK' /\ lock \in [Rules -> BOOLEAN]
    BY DEF TypeInv, RedisOK
<1>2. UNCHANGED <<ev, requests>>
    BY DEF PropTake, PropReceive, PropStep, PropCheck, PropFan, PropComplete, PropAnchor,
           PropHome, PropIterate, PropResetStatus, PropResetLock, PropRefire, PropClose,
           PropScan, PropFinish, PropCount, PropRetryIdle, PropUnlock, PropRetryEval,
           PropFail, queues
<1>3. \A u \in EvalTasks : EvalHolds(u, r)' <=> EvalHolds(u, r)
    BY <1>2 DEF EvalHolds
<1>4. Waiting(r) \in Nat
    BY <1>1, WaitingType
<1>5. ASSUME NEW q \in Rules, NEW o \in Outcomes, PropReceive(t, q, o) PROVE Sound(r)'
  <2> DEFINE x == [PropIdle EXCEPT !.pc = "check", !.rule = q, !.outcome = o]
  <2>1. /\ TakeAnswer(q, o) /\ UNCHANGED lock /\ pr[t].pc = "idle" /\ results[<<q, o>>] > 0
        /\ UNCHANGED pr \/ pr' = [pr EXCEPT ![t] = x]
      BY <1>5 DEF PropReceive, TakeAnswer, redis
  <2>2. x.pc = "check" /\ x.rule = q
      BY DEF PropIdle
  <2> HIDE DEF x
  <2>3. Waiting(r)' = IF r = q THEN Waiting(r) - 1 ELSE Waiting(r)
      BY <1>1, <1>2, <2>1, WaitingLess
  <2>4. Waiting(r)' <= Waiting(r)
      BY <1>4, <2>3
  <2>5. CASE UNCHANGED pr
    <3>1. \A u \in PropTasks : PropHolds(u, r)' => PropHolds(u, r)
        BY <2>5 DEF PropHolds
    <3> QED BY <1>1, <1>3, <2>1, <2>4, <3>1, Fewer
  <2>6. CASE pr' = [pr EXCEPT ![t] = x] /\ q # r
    <3>1. \A u \in PropTasks : PropHolds(u, r)' => PropHolds(u, r)
        BY <1>1, <2>2, <2>6, PropMoves DEF PropHolds
    <3> QED BY <1>1, <1>3, <2>1, <2>4, <3>1, Fewer
  <2>7. CASE pr' = [pr EXCEPT ![t] = x] /\ q = r
    <3>1. Waiting(r) > 0
      <4>1. /\ requests[r] \in Nat
            /\ results[<<r, "success">>] \in Nat /\ results[<<r, "error">>] \in Nat
          BY <1>1, WaitingType
      <4>2. results[<<r, "success">>] > 0 \/ results[<<r, "error">>] > 0
          BY <2>1, <2>7 DEF Outcomes
      <4> QED BY <4>1, <4>2 DEF Waiting
    <3>2. /\ Waiting(r) = 1 /\ lock[r]
          /\ \A u \in EvalTasks : ~EvalHolds(u, r)
          /\ \A u \in PropTasks : ~PropHolds(u, r)
        BY <1>4, <3>1 DEF Sound, OneAttempt, Permitted
    <3>3. \A u \in PropTasks : PropHolds(u, r)' => u = t
        BY <1>1, <2>7, <3>2, PropMoves DEF PropHolds
    <3>4. Waiting(r)' = 0
        BY <2>3, <2>7, <3>2
    <3>5. OneAttempt(r)'
        BY <1>3, <3>2, <3>3, <3>4 DEF OneAttempt
    <3> QED BY <2>1, <3>2, <3>5 DEF Sound
  <2> QED BY <2>1, <2>5, <2>6, <2>7
<1>6. CASE PropStep(t)
  <2>1. UNCHANGED results
      BY <1>6 DEF PropStep, PropCheck, PropFan, PropComplete, PropAnchor,
           PropHome, PropIterate, PropResetStatus, PropResetLock, PropRefire, PropClose,
           PropScan, PropFinish, PropCount, PropRetryIdle, PropUnlock, PropRetryEval,
           PropFail, queues
  <2>2. Waiting(r)' = Waiting(r)
      BY <1>2, <2>1 DEF Waiting
  <2>3. \A u \in PropTasks : PropHolds(u, r)' => PropHolds(u, r)
      BY <1>1, <1>6, PropPermits
  <2>4. CASE ~PropUnlock(t) \/ pr[t].rule # r
    <3>1. lock'[r] = lock[r]
      <4>1. CASE PropUnlock(t)
          BY <1>1, <2>4, <4>1 DEF PropUnlock
      <4>2. CASE ~PropUnlock(t)
        <5>1. UNCHANGED lock
            BY <1>6, <4>2 DEF PropStep, PropCheck, PropFan, PropComplete, PropAnchor,
               PropHome, PropResetStatus, PropResetLock, PropRefire, PropClose,
               PropScan, PropFinish, PropCount, PropRetryIdle, PropRetryEval,
               PropFail, Resetting, redis
        <5> QED BY <5>1
      <4> QED BY <4>1, <4>2
    <3> QED BY <1>1, <1>3, <1>4, <2>2, <2>3, <3>1, Fewer
  <2>5. CASE PropUnlock(t) /\ pr[t].rule = r
    <3>1. PropHolds(t, r) /\ ~PropHolds(t, r)'
        BY <1>1, <2>5, PropGoes DEF PropUnlock, PropHolds
    <3>2. /\ Waiting(r) = 0
          /\ \A u \in EvalTasks : ~EvalHolds(u, r)
          /\ \A u \in PropTasks : PropHolds(u, r) => u = t
        BY <3>1 DEF Sound, OneAttempt
    <3>3. ~Permitted(r)'
        BY <1>3, <2>2, <2>3, <3>1, <3>2 DEF Permitted
    <3>4. OneAttempt(r)'
        BY <1>3, <2>2, <2>3, <3>1, <3>2 DEF OneAttempt
    <3> QED BY <3>3, <3>4 DEF Sound
  <2> QED BY <2>4, <2>5
<1> QED BY <1>5, <1>6 DEF PropTake

LEMMA SoundInfer ==
    ASSUME TypeInv, TypeInv', NEW q \in Rules, Infer(q) \/ InferLose(q), NEW r \in Rules, Sound(r)
    PROVE  Sound(r)'
<1>1. QueuesOK /\ QueuesOK'
    BY DEF TypeInv
<1>2. UNCHANGED <<lock, ev, pr>>
    BY DEF Infer, InferSuccess, InferError, InferLose, redis, handlers
<1>3. Waiting(r)' <= Waiting(r)
  <2>1. Waiting(r) \in Nat
      BY <1>1, WaitingType
  <2>2. CASE InferLose(q)
      BY <1>1, <2>2, WaitingLost DEF InferLose
  <2>3. CASE Infer(q)
    <3>1. TakeRequest(q) /\ \E o \in Outcomes : Answer(q, o)
        BY <2>3 DEF Infer, InferSuccess, InferError, Outcomes
    <3>2. Waiting(r)' = Waiting(r)
        BY <1>1, <3>1, WaitingAnswered
    <3> QED BY <2>1, <3>2
  <2> QED BY <2>2, <2>3
<1>4. /\ \A u \in EvalTasks : EvalHolds(u, r)' => EvalHolds(u, r)
      /\ \A u \in PropTasks : PropHolds(u, r)' => PropHolds(u, r)
    BY <1>2 DEF EvalHolds, PropHolds
<1> QED BY <1>1, <1>2, <1>3, <1>4, Fewer

\* What does not touch tasks, messages or locks touches no permit.
LEMMA SoundKept ==
    ASSUME UNCHANGED <<ev, pr, requests, results, lock>>, NEW r \in Rules, Sound(r)
    PROVE  Sound(r)'
BY DEF Sound, OneAttempt, Permitted, EvalHolds, PropHolds, Waiting

LEMMA CalmInit == Init => Flight
<1> SUFFICES ASSUME Init PROVE Flight
    OBVIOUS
<1>1. BudgetKept
    BY EngineAssumption DEF Init, BudgetKept
<1>2. \A t \in PropTasks : pr[t].pc = "idle"
    BY IdleLocals DEF Init
<1>3. \A t \in EvalTasks : ev[t].pc = "idle"
    BY IdleLocals DEF Init
<1>4. ASSUME NEW r \in Rules PROVE Sound(r)
  <2>1. /\ \A t \in EvalTasks : ~EvalHolds(t, r)
        /\ \A t \in PropTasks : ~PropHolds(t, r)
      BY <1>2, <1>3 DEF EvalHolds, PropHolds
  <2>2. Waiting(r) = 0
    <3>1. <<r, "success">> \in Rules \X Outcomes /\ <<r, "error">> \in Rules \X Outcomes
        BY DEF Outcomes
    <3> QED BY <3>1 DEF Init, Waiting
  <2> QED BY <2>1, <2>2 DEF Sound, OneAttempt, Permitted
<1> QED BY <1>1, <1>2, <1>4 DEF Flight, Calm, Resetting

\* An undisturbed step is none that repeats a result or takes a lock away.
LEMMA UndisturbedStep ==
    ASSUME TypeInv, Flight, Next, Undisturbed'
    PROVE  /\ BudgetKept /\ Undisturbed /\ Calm
           /\ ~CancelMark /\ ~CancelCleanup
           /\ \A t \in PropTasks : ~PropIterate(t) /\ ~PropCrash(t) /\ pr[t].pc \notin Resetting
           /\ \A r \in Rules : ~LockExpire(r) /\ \A o \in Outcomes : ~InferAgain(r, o)
<1>1. BudgetKept /\ Undisturbed /\ Calm
    BY DisturbedForGood DEF Flight
<1>2. \A e \in Disturbances : ~Spend(e)
    BY <1>1, Disturbing
<1>3. ~CancelCleanup /\ \A t \in PropTasks : ~PropIterate(t)
    BY <1>1, Disturbing
<1>4. "cancel" \in Disturbances /\ "propCrash" \in Disturbances
      /\ "lockExpiry" \in Disturbances /\ "duplicate" \in Disturbances
    BY DEF Disturbances
<1> QED BY <1>1, <1>2, <1>3, <1>4 DEF CancelMark, PropCrash, LockExpire, InferAgain, Calm

LEMMA FlightNext == TypeInv /\ TypeInv' /\ Flight /\ [Next]_vars => Flight'
<1> SUFFICES ASSUME TypeInv, TypeInv', Flight, [Next]_vars PROVE Flight'
    OBVIOUS
<1>1. CASE UNCHANGED vars
  <2>1. BudgetKept' /\ (Undisturbed' => Undisturbed)
      BY <1>1 DEF Flight, BudgetKept, Undisturbed, vars, bounds, handlers, redis
  <2>2. Calm => Calm'
      BY <1>1, SoundKept DEF Calm, vars, handlers, queues, redis
  <2> QED BY <2>1, <2>2 DEF Flight
<1>2. CASE Next
  <2>1. BudgetKept'
      BY <1>2, BudgetNext DEF Flight
  <2> SUFFICES ASSUME Undisturbed' PROVE Calm'
      BY <2>1 DEF Flight
  <2>2. /\ Calm /\ ~CancelMark /\ ~CancelCleanup
        /\ \A t \in PropTasks : ~PropIterate(t) /\ ~PropCrash(t) /\ pr[t].pc \notin Resetting
        /\ \A r \in Rules : ~LockExpire(r) /\ \A o \in Outcomes : ~InferAgain(r, o)
      BY <1>2, UndisturbedStep
  <2>3. ASSUME UNCHANGED pr, \A r \in Rules : Sound(r)' PROVE Calm'
      BY <2>2, <2>3 DEF Calm
  <2>4. CASE Trigger
    <3>1. UNCHANGED <<ev, pr, requests, results, lock>>
        BY <2>4 DEF Trigger, TriggerSave, TriggerSeed, TriggerRun, queues
    <3> QED BY <2>2, <2>3, <3>1, SoundKept DEF Calm
  <2>5. ASSUME NEW t \in EvalTasks, EvalTake(t) \/ EvalStep(t) \/ EvalCrash(t) PROVE Calm'
    <3>1. UNCHANGED pr
        BY <2>5 DEF EvalTake, EvalReceive, EvalStep, EvalStatus, EvalScan, EvalGate, EvalLock,
             EvalRecheck, EvalRender, EvalPublish, EvalDispatch, EvalCrash
    <3> QED BY <2>2, <2>3, <2>5, <3>1, SoundEval DEF Calm
  <2>6. ASSUME NEW t \in PropTasks, PropTake(t) \/ PropStep(t) PROVE Calm'
    <3>1. \A r \in Rules : Sound(r)'
        BY <2>2, <2>6, SoundProp DEF Calm
    <3>2. PrWell
        BY DEF TypeInv
    <3>3. CASE PropStep(t)
      <4>1. PICK x : PropFollows(t, x)
          BY <2>2, <3>2, <3>3, PropOrder
      <4>2. \A u \in PropTasks : pr'[u].pc \notin Resetting
          BY <2>2, <3>2, <4>1, PropMoves DEF PropFollows
      <4> QED BY <3>1, <4>2 DEF Calm
    <3>4. ASSUME NEW q \in Rules, NEW o \in Outcomes, PropReceive(t, q, o) PROVE Calm'
      <4> DEFINE x == [PropIdle EXCEPT !.pc = "check", !.rule = q, !.outcome = o]
      <4>1. UNCHANGED pr \/ pr' = [pr EXCEPT ![t] = x]
          BY <3>4 DEF PropReceive
      <4>2. x.pc \notin Resetting
          BY DEF PropIdle, Resetting
      <4> HIDE DEF x
      <4>3. \A u \in PropTasks : pr'[u].pc \notin Resetting
          BY <2>2, <3>2, <4>1, <4>2, PropMoves
      <4> QED BY <3>1, <4>3 DEF Calm
    <3> QED BY <2>6, <3>3, <3>4 DEF PropTake
  <2>7. ASSUME NEW q \in Rules, Infer(q) \/ InferLose(q) PROVE Calm'
    <3>1. UNCHANGED pr
        BY <2>7 DEF Infer, InferSuccess, InferError, InferLose, handlers
    <3> QED BY <2>2, <2>3, <2>7, <3>1, SoundInfer DEF Calm
  <2> QED BY <1>2, <2>2, <2>4, <2>5, <2>6, <2>7 DEF Next
<1> QED BY <1>1, <1>2

LEMMA FlightInvariance == Spec => [](TypeInv /\ Flight)
<1>1. TypeInv /\ Flight /\ [Next]_vars => TypeInv' /\ Flight'
    BY TypeNext, FlightNext
<1> QED BY <1>1, TypeInit, CalmInit, PTL DEF Spec

\* A rule never has two attempts under way, although any number of eval checks
\* race for it, evaluators crash between any two of their calls and its status is
\* overwritten by a late Dispatched: the lock alone ensures it (lock_rule).
THEOREM OneFlight == Spec => []SingleFlight
<1>1. Flight => SingleFlight
    BY DEF Flight, Calm, Sound, SingleFlight
<1> QED BY <1>1, FlightInvariance, PTL

-----------------------------------------------------------------------------
(* The retry budget                                                        *)

LEMMA TriedKept ==
    ASSUME NEW r \in Rules, Tried(r), Settled(r)' => Settled(r), Uncounted(r)' => Uncounted(r),
           dispatches'[r] = dispatches[r], attempts'[r] = attempts[r]
    PROVE  Tried(r)'
BY DEF Tried, MaxRuleRetries

LEMMA TriedEval ==
    ASSUME TypeInv, NEW t \in EvalTasks, EvalTake(t) \/ EvalStep(t) \/ EvalCrash(t),
           NEW r \in Rules, Sound(r), Sound(r)', Tried(r)
    PROVE  Tried(r)'
<1>1. EvWell /\ QueuesOK /\ lock \in [Rules -> BOOLEAN] /\ dispatches \in [Rules -> Nat]
      /\ attempts \in [Rules -> Nat]
    BY DEF TypeInv, RedisOK, HistoryOK
<1>2. UNCHANGED <<pr, results, attempts>>
    BY DEF EvalTake, EvalReceive, EvalStep, EvalStatus, EvalScan, EvalGate, EvalLock,
           EvalRecheck, EvalRender, EvalPublish, EvalDispatch, EvalCrash, queues, redis
<1>3. \A pcs : PropAt(r, pcs)' <=> PropAt(r, pcs)
    BY <1>2 DEF PropAt
<1>4. CASE EvalPublish(t)
  <2>1. /\ EvalGoto(t, "dispatch") /\ UNCHANGED lock
        /\ requests' = [requests EXCEPT ![ev[t].rule] = @ + 1]
        /\ dispatches' = [dispatches EXCEPT ![ev[t].rule] = @ + 1]
      BY <1>4 DEF EvalPublish, redis
  <2>2. \A u \in EvalTasks : EvalHolds(u, r)' <=> u # t /\ EvalHolds(u, r)
      BY <1>1, <2>1, EvalGoes DEF EvalHolding
  <2>3. CASE ev[t].rule = r
    <3>1. EvalHolds(t, r)
        BY <1>4, <2>3 DEF EvalPublish, EvalHolds
    <3>2. dispatches[r] <= attempts[r] /\ attempts[r] < MaxRuleRetries
        BY <3>1 DEF Tried, Settled
    <3>3. lock'[r] /\ (\A u \in EvalTasks : ~EvalHolds(u, r)')
        BY <2>1, <2>2, <3>1 DEF Sound, OneAttempt, Permitted
    <3>4. ~PropAt(r, {"retryIdle", "unlock"})
        BY <3>1 DEF Sound, OneAttempt, PropAt, PropHolds
    <3>5. ~Settled(r)'
        BY <1>3, <3>3, <3>4 DEF Settled
    <3>6. dispatches'[r] = dispatches[r] + 1 /\ attempts'[r] = attempts[r]
        BY <1>1, <1>2, <2>1, <2>3
    <3>7. dispatches[r] \in Nat /\ attempts[r] \in Nat
        BY <1>1
    <3> QED BY <3>2, <3>5, <3>6, <3>7 DEF Tried, MaxRuleRetries
  <2>4. CASE ev[t].rule # r
    <3>1. dispatches'[r] = dispatches[r] /\ Waiting(r)' = Waiting(r)
        BY <1>1, <1>2, <2>1, <2>4 DEF QueuesOK, Waiting
    <3>2. Settled(r)' => Settled(r)
        BY <1>3, <2>1, <2>2 DEF Settled
    <3>3. Uncounted(r)' => Uncounted(r)
        BY <1>3, <3>1 DEF Uncounted
    <3> QED BY <1>2, <3>1, <3>2, <3>3, TriedKept
  <2> QED BY <2>3, <2>4
<1>5. CASE ~EvalPublish(t)
  <2>1. UNCHANGED <<dispatches, requests>>
      BY <1>5 DEF EvalTake, EvalReceive, EvalStep, EvalStatus, EvalScan, EvalGate, EvalLock,
                  EvalRecheck, EvalRender, EvalDispatch, EvalCrash, queues, history
  <2>2. Uncounted(r)' => Uncounted(r)
      BY <1>2, <1>3, <2>1 DEF Uncounted, Waiting
  <2>3. Settled(r)' => Settled(r)
    <3>1. CASE ~lock[r]
        BY <3>1 DEF Settled
    <3>2. CASE lock[r]
      <4>1. UNCHANGED lock \/ lock' = [lock EXCEPT ![ev[t].rule] = TRUE]
          BY <1>5 DEF EvalTake, EvalReceive, EvalStep, EvalStatus, EvalScan, EvalGate, EvalLock,
                      EvalRecheck, EvalRender, EvalDispatch, EvalCrash, redis
      <4>2. lock'[r]
          BY <1>1, <3>2, <4>1
      <4>3. \A u \in EvalTasks : EvalHolds(u, r)' => EvalHolds(u, r)
          BY <1>1, <1>5, <3>2, EvalPermits
      <4> QED BY <1>3, <4>2, <4>3 DEF Settled
    <3> QED BY <3>1, <3>2
  <2> QED BY <1>2, <2>1, <2>2, <2>3, TriedKept
<1> QED BY <1>4, <1>5

LEMMA TriedProp ==
    ASSUME TypeInv, NEW t \in PropTasks, PropTake(t) \/ PropStep(t),
           ~PropIterate(t), pr[t].pc \notin Resetting,
           NEW r \in Rules, Sound(r), Sound(r)', Tried(r)
    PROVE  Tried(r)'
<1>1. /\ PrWell /\ QueuesOK /\ lock \in [Rules -> BOOLEAN]
      /\ dispatches \in [Rules -> Nat] /\ attempts \in [Rules -> Nat]
    BY DEF TypeInv, RedisOK, HistoryOK
<1>2. UNCHANGED <<ev, requests, dispatches>>
    BY DEF PropTake, PropReceive, PropStep, PropCheck, PropFan, PropComplete, PropAnchor,
           PropHome, PropIterate, PropResetStatus, PropResetLock, PropRefire, PropClose,
           PropScan, PropFinish, PropCount, PropRetryIdle, PropUnlock, PropRetryEval,
           PropFail, queues, history
<1>3. \A u \in EvalTasks : EvalHolds(u, r)' <=> EvalHolds(u, r)
    BY <1>2 DEF EvalHolds
<1>4. Waiting(r) \in Nat
    BY <1>1, WaitingType
<1>5. ASSUME NEW q \in Rules, NEW o \in Outcomes, PropReceive(t, q, o) PROVE Tried(r)'
  <2> DEFINE x == [PropIdle EXCEPT !.pc = "check", !.rule = q, !.outcome = o]
  <2>1. /\ TakeAnswer(q, o) /\ UNCHANGED <<lock, attempts>> /\ results[<<q, o>>] > 0
        /\ UNCHANGED pr \/ pr' = [pr EXCEPT ![t] = x]
      BY <1>5 DEF PropReceive, TakeAnswer, redis
  <2>2. x.pc = "check" /\ x.rule = q
      BY DEF PropIdle
  <2> HIDE DEF x
  <2>3. Waiting(r)' <= Waiting(r)
    <3>1. Waiting(r)' = IF r = q THEN Waiting(r) - 1 ELSE Waiting(r)
        BY <1>1, <1>2, <2>1, WaitingLess
    <3> QED BY <1>4, <3>1
  <2>4. q = r => Waiting(r) > 0
    <3>1. /\ requests[r] \in Nat
          /\ results[<<r, "success">>] \in Nat /\ results[<<r, "error">>] \in Nat
        BY <1>1, WaitingType
    <3>2. ASSUME q = r PROVE results[<<r, "success">>] > 0 \/ results[<<r, "error">>] > 0
        BY <2>1, <3>2 DEF Outcomes
    <3> QED BY <3>1, <3>2 DEF Waiting
  <2>5. \A u \in PropTasks : \/ pr'[u] = pr[u]
                              \/ (pr'[u].pc = "check" /\ pr'[u].rule = q)
    <3>1. CASE UNCHANGED pr
        BY <3>1
    <3>2. CASE pr' = [pr EXCEPT ![t] = x]
        BY <1>1, <2>2, <3>2, PropMoves
    <3> QED BY <2>1, <3>1, <3>2
  <2>6. /\ PropAt(r, {"retryIdle", "unlock"})' => PropAt(r, {"retryIdle", "unlock"})
        /\ PropAt(r, {"check", "count"})' => q = r \/ PropAt(r, {"check", "count"})
      BY <2>5 DEF PropAt
  <2>7. Settled(r)' => Settled(r)
      BY <1>3, <2>1, <2>6 DEF Settled
  <2>8. Waiting(r)' > 0 => Waiting(r) > 0
    <3>1. Waiting(r)' \in Nat
      <4>1. Waiting(r)' = IF r = q THEN Waiting(r) - 1 ELSE Waiting(r)
          BY <1>1, <1>2, <2>1, WaitingLess
      <4> QED BY <1>4, <2>4, <4>1
    <3> QED BY <1>4, <2>3, <3>1
  <2>9. Uncounted(r)' => Uncounted(r)
      BY <2>4, <2>6, <2>8 DEF Uncounted
  <2> QED BY <1>2, <2>1, <2>7, <2>9, TriedKept
<1>6. CASE PropStep(t)
  <2>1. UNCHANGED results
      BY <1>6 DEF PropStep, PropCheck, PropFan, PropComplete, PropAnchor,
           PropHome, PropIterate, PropResetStatus, PropResetLock, PropRefire, PropClose,
           PropScan, PropFinish, PropCount, PropRetryIdle, PropUnlock, PropRetryEval,
           PropFail, queues
  <2>2. Waiting(r)' = Waiting(r)
      BY <1>2, <2>1 DEF Waiting
  <2>3. PICK x : PropFollows(t, x)
      BY <1>1, <1>6, PropOrder
  <2>4. \A u \in PropTasks : IF u = t THEN pr'[u] = x ELSE pr'[u] = pr[u]
      BY <1>1, <2>3, PropMoves DEF PropFollows
  <2>5. PropAt(r, {"check", "count"})' => PropAt(r, {"check", "count"})
    <3>1. x.pc \in {"check", "count"} => x.rule = pr[t].rule /\ pr[t].pc = "check"
        BY <2>3 DEF PropFollows, PropHolding, PropCheck
    <3> QED BY <2>4, <3>1 DEF PropAt
  <2>6. CASE PropCount(t) /\ pr[t].rule = r
    <3>1. PropHolds(t, r) /\ PropAt(r, {"check", "count"})
        BY <2>6 DEF PropCount, PropHolds, PropAt
    <3>2. dispatches[r] <= attempts[r] + 1 /\ attempts[r] < MaxRuleRetries
        BY <3>1 DEF Tried, Uncounted
    <3>3. /\ attempts' = [attempts EXCEPT ![r] = attempts[r] + 1] /\ UNCHANGED lock
          /\ PropGoto(t, IF attempts[r] + 1 < MaxRuleRetries THEN "retryIdle" ELSE "fail")
        BY <2>6 DEF PropCount
    <3>4. /\ Waiting(r) = 0 /\ lock[r]
          /\ \A u \in EvalTasks : ~EvalHolds(u, r)
          /\ \A u \in PropTasks : PropHolds(u, r) => u = t
        BY <3>1 DEF Sound, OneAttempt, Permitted
    <3>5. /\ dispatches[r] \in Nat /\ attempts[r] \in Nat
          /\ attempts'[r] = attempts[r] + 1 /\ dispatches'[r] = dispatches[r]
        BY <1>1, <1>2, <3>3
    <3>6. \A u \in PropTasks : pr'[u].rule = r /\ pr'[u].pc \in PropHolding => u = t
        BY <2>4, <3>4 DEF PropHolds, PropHolding
    <3>7. pr'[t].pc = IF attempts[r] + 1 < MaxRuleRetries THEN "retryIdle" ELSE "fail"
        BY <1>1, <3>3, PropGoes
    <3>8. ~Uncounted(r)'
        BY <2>2, <3>4, <3>6, <3>7 DEF Uncounted, PropAt, PropHolding
    <3>9. Settled(r)' => attempts'[r] < MaxRuleRetries
        BY <1>3, <3>3, <3>4, <3>5, <3>6, <3>7 DEF Settled, PropAt, PropHolding
    <3> QED BY <3>2, <3>5, <3>8, <3>9 DEF Tried, MaxRuleRetries
  <2>7. CASE ~(PropCount(t) /\ pr[t].rule = r)
    <3>1. attempts'[r] = attempts[r]
      <4>1. CASE PropCount(t)
          BY <1>1, <2>7, <4>1 DEF PropCount
      <4>2. CASE ~PropCount(t)
        <5>1. UNCHANGED attempts
            BY <1>6, <4>2 DEF PropStep, PropCheck, PropFan, PropComplete, PropAnchor, PropHome,
               PropIterate, PropResetStatus, PropResetLock, PropRefire, PropClose, PropScan,
               PropFinish, PropRetryIdle, PropUnlock, PropRetryEval, PropFail, Resetting, redis
        <5> QED BY <5>1
      <4> QED BY <4>1, <4>2
    <3>2. PropAt(r, {"retryIdle", "unlock"})' => PropAt(r, {"retryIdle", "unlock"})
      <4>1. x.pc \in {"retryIdle", "unlock"} => x.rule = pr[t].rule
          BY <2>3 DEF PropFollows, PropHolding
      <4>2. x.pc \in {"retryIdle", "unlock"} /\ x.rule = r => pr[t].pc = "retryIdle"
          BY <2>3, <2>7, <4>1 DEF PropFollows, PropRetryIdle
      <4> QED BY <2>4, <4>1, <4>2 DEF PropAt
    <3>3. ~lock'[r] => ~lock[r] \/ PropAt(r, {"retryIdle", "unlock"})
      <4>1. CASE PropUnlock(t)
          BY <1>1, <4>1 DEF PropUnlock, PropAt
      <4>2. CASE ~PropUnlock(t)
        <5>1. UNCHANGED lock
            BY <1>6, <4>2 DEF PropStep, PropCheck, PropFan, PropComplete, PropAnchor, PropHome,
               PropIterate, PropResetStatus, PropResetLock, PropRefire, PropClose, PropScan,
               PropFinish, PropCount, PropRetryIdle, PropRetryEval, PropFail, Resetting, redis
        <5> QED BY <5>1
      <4> QED BY <4>1, <4>2
    <3>4. Settled(r)' => Settled(r)
        BY <1>3, <3>2, <3>3 DEF Settled
    <3>5. Uncounted(r)' => Uncounted(r)
        BY <2>2, <2>5 DEF Uncounted
    <3> QED BY <1>2, <3>1, <3>4, <3>5, TriedKept
  <2> QED BY <2>6, <2>7
<1> QED BY <1>5, <1>6 DEF PropTake

LEMMA TriedInfer ==
    ASSUME TypeInv, TypeInv', NEW q \in Rules, Infer(q) \/ InferLose(q), NEW r \in Rules, Tried(r)
    PROVE  Tried(r)'
<1>1. QueuesOK /\ QueuesOK'
    BY DEF TypeInv
<1>2. UNCHANGED <<lock, attempts, ev, pr, dispatches>>
    BY DEF Infer, InferSuccess, InferError, InferLose, redis, handlers, history
<1>3. Waiting(r)' > 0 => Waiting(r) > 0
  <2>1. CASE InferLose(q)
    <3>1. UNCHANGED results /\ requests' = [requests EXCEPT ![q] = requests[q] - 1]
          /\ requests[q] > 0
        BY <2>1 DEF InferLose, TakeRequest
    <3>2. requests'[r] \in Nat /\ requests'[r] <= requests[r]
        BY <1>1, <3>1 DEF QueuesOK
    <3>3. /\ requests[r] \in Nat
          /\ results[<<r, "success">>] \in Nat /\ results[<<r, "error">>] \in Nat
        BY <1>1, WaitingType
    <3> QED BY <3>1, <3>2, <3>3 DEF Waiting
  <2>2. CASE Infer(q)
    <3>1. TakeRequest(q) /\ \E o \in Outcomes : Answer(q, o)
        BY <2>2 DEF Infer, InferSuccess, InferError, Outcomes
    <3> QED BY <1>1, <3>1, WaitingAnswered
  <2> QED BY <2>1, <2>2
<1>4. Settled(r)' => Settled(r)
    BY <1>2 DEF Settled, EvalHolds, PropAt
<1>5. Uncounted(r)' => Uncounted(r)
    BY <1>2, <1>3 DEF Uncounted, PropAt
<1> QED BY <1>2, <1>4, <1>5, TriedKept

LEMMA RetriesInit == Init => Retries
<1> SUFFICES ASSUME Init, NEW r \in Rules PROVE Tried(r)
    BY DEF Retries
<1>1. \A t \in PropTasks : pr[t].pc = "idle"
    BY IdleLocals DEF Init
<1>2. <<r, "success">> \in Rules \X Outcomes /\ <<r, "error">> \in Rules \X Outcomes
    BY DEF Outcomes
<1>3. Waiting(r) = 0
    BY <1>2 DEF Init, Waiting
<1>4. ~Uncounted(r)
    BY <1>1, <1>3 DEF Uncounted, PropAt
<1> QED BY <1>4 DEF Init, Tried, MaxRuleRetries

LEMMA RetriesNext ==
    TypeInv /\ TypeInv' /\ Flight /\ Flight' /\ Retries /\ [Next]_vars => Retries'
<1> SUFFICES ASSUME TypeInv, TypeInv', Flight, Flight', Retries, [Next]_vars,
                    Undisturbed', NEW r \in Rules
             PROVE  Tried(r)'
    BY DEF Retries
<1>1. CASE UNCHANGED vars
  <2>1. Undisturbed
      BY <1>1 DEF Undisturbed, vars, bounds, redis
  <2>2. Tried(r)
      BY <2>1 DEF Retries
  <2>3. (Settled(r)' => Settled(r)) /\ (Uncounted(r)' => Uncounted(r))
      BY <1>1 DEF Settled, Uncounted, EvalHolds, PropAt, Waiting, vars, handlers, queues, redis
  <2> QED BY <1>1, <2>2, <2>3, TriedKept DEF vars, redis, history
<1>2. CASE Next
  <2>1. /\ Undisturbed /\ Calm /\ ~CancelMark /\ ~CancelCleanup
        /\ \A t \in PropTasks : ~PropIterate(t) /\ ~PropCrash(t) /\ pr[t].pc \notin Resetting
        /\ \A q \in Rules : ~LockExpire(q) /\ \A o \in Outcomes : ~InferAgain(q, o)
      BY <1>2, UndisturbedStep
  <2>2. Tried(r) /\ Sound(r) /\ Sound(r)'
      BY <2>1 DEF Retries, Calm, Flight
  <2>3. CASE Trigger
    <3>1. UNCHANGED <<ev, pr, requests, results, lock, attempts, dispatches>>
        BY <2>3 DEF Trigger, TriggerSave, TriggerSeed, TriggerRun, queues, history
    <3>2. (Settled(r)' => Settled(r)) /\ (Uncounted(r)' => Uncounted(r))
        BY <3>1 DEF Settled, Uncounted, EvalHolds, PropAt, Waiting
    <3> QED BY <2>2, <3>1, <3>2, TriedKept
  <2>4. ASSUME NEW t \in EvalTasks, EvalTake(t) \/ EvalStep(t) \/ EvalCrash(t) PROVE Tried(r)'
      BY <2>2, <2>4, TriedEval
  <2>5. ASSUME NEW t \in PropTasks, PropTake(t) \/ PropStep(t) PROVE Tried(r)'
      BY <2>1, <2>2, <2>5, TriedProp
  <2>6. ASSUME NEW q \in Rules, Infer(q) \/ InferLose(q) PROVE Tried(r)'
      BY <2>2, <2>6, TriedInfer
  <2> QED BY <1>2, <2>1, <2>3, <2>4, <2>5, <2>6 DEF Next
<1> QED BY <1>1, <1>2

\* Outside loops a rule is sent to inference at most three times, however its
\* retries interleave with eval checks, crashes and lost requests
\* (MAX_RULE_RETRIES, propagator.rs:10-12).
THEOREM ThreeAttempts == Spec => []RetryBudget
<1>1. Init => TypeInv /\ Flight /\ Retries
    BY TypeInit, CalmInit, RetriesInit
<1>2. TypeInv /\ Flight /\ Retries /\ [Next]_vars => TypeInv' /\ Flight' /\ Retries'
    BY TypeNext, FlightNext, RetriesNext
<1>3. Retries => RetryBudget
    BY DEF Retries, RetryBudget, Tried
<1> QED BY <1>1, <1>2, <1>3, PTL DEF Spec

-----------------------------------------------------------------------------
(* Nothing is stranded.                                                    *)
(*                                                                         *)
(* No wake-up is lost and no run is left open, for every graph without     *)
(* feedback whose rules need all of their inputs, at a pace at which       *)
(* inference is slower than one Redis write, and whatever errors happen.   *)

\* No rule has a feedback output.
ForwardGraph == \A p \in Projections : FbiSource[p] = {}

\* Each input is seeded or routed to by a rule further up.
Supplied ==
    \E rank \in [Rules -> Nat] : \A r \in Rules : \A p \in InputSet(r) :
        \/ Seeded(p)
        \/ \E q \in Rules \ Terminal : p \in Route[q] /\ rank[q] < rank[r]

Over(r) == status[r] \in {"Completed", "Failed"}

\* The trigger stores the snapshot before it sends a check, and has sent all of
\* them before anything is answered.
StartInOrder ==
    /\ cancel = "idle" /\ runStatus # "Canceled"
    /\ snapshot <=> trigger.pc # "save"
    /\ trigger.pc # "save" => Rules # {}
    /\ trigger.pc = "save" =>
         /\ \A r \in Rules : evals[r] = 0
         /\ \A t \in EvalTasks : ev[t].pc = "idle"
    /\ trigger.pc # "done" =>
         /\ \A m \in Rules \X Outcomes : results[m] = 0
         /\ \A t \in PropTasks : pr[t].pc = "idle"
         /\ \A r \in Rules : ~Over(r)
    /\ trigger.pc \in {"run", "done"} => trigger.todo = {}
    /\ trigger.pc # "save" =>
         \A n \in UserInputs \ trigger.todo : SeedsOf(n) # {} => SeedsOf(n) \cap filled # {}

\* What the completion scan has seen so far lets the run be closed.
Fresh(x) == x.termsDone /\ ~x.running /\ x.settled

\* No loop goes round, and a scan starts afresh.
Straight ==
    /\ \A c \in Rules : iteration[c] = 0
    /\ \A t \in PropTasks :
         /\ pr[t].pc \notin Resetting \cup {"iterate"}
         /\ pr[t].pc \notin {"scan", "finish"} => Fresh(pr[t])

\* What an evaluator has read is there, and what it is about to send has been read.
ReadsFilled ==
    \A t \in EvalTasks :
        /\ ev[t].avail \subseteq filled
        /\ ev[t].pc = "status" => ev[t].next = 1
        /\ ev[t].pc = "scan" => ev[t].next \in DOMAIN Inputs[ev[t].rule]
        /\ ev[t].pc \in {"lock", "recheck", "render"} =>
              InputSet(ev[t].rule) \subseteq ev[t].avail

\* Lock, permit and status of a rule agree.
Phase(r) ==
    /\ Permitted(r) => ~Over(r)
    /\ lock[r] => Permitted(r) \/ Over(r)
    /\ ~lock[r] => status[r] = "Idle"
    /\ (\E t \in EvalTasks : EvalHolds(t, r)) \/ PropAt(r, {"unlock"}) => status[r] = "Idle"
    /\ \A t \in EvalTasks : ev[t].rule = r /\ ev[t].pc = "dispatch" => requests[r] > 0

\* A completed rule has written its result everywhere.
Written(r) ==
    /\ status[r] = "Failed" => r \in abandoned
    /\ status[r] = "Completed" => Route[r] \subseteq filled
    /\ \A t \in PropTasks : pr[t].rule = r =>
          /\ pr[t].pc = "complete" => Route[r] \subseteq filled
          /\ pr[t].pc = "fan" => Route[r] \ pr[t].todo \subseteq filled

\* An evaluator that may still send r: it has missed no input so far.
Chance(t, r) ==
    /\ ev[t].rule = r
    /\ \/ ev[t].pc \in {"status", "lock"}
       \/ /\ ev[t].pc = "scan"
          /\ \A i \in DOMAIN Inputs[r] : i < ev[t].next => Inputs[r][i] \in ev[t].avail
       \/ ev[t].pc = "gate" /\ InputSet(r) \subseteq ev[t].avail

\* A rule that has all of its inputs is locked, which is to say under way or
\* over, or it will be looked at.
Woken(r) ==
    \/ lock[r]
    \/ evals[r] > 0
    \/ \E t \in EvalTasks : Chance(t, r)
    \/ PropAt(r, {"retryEval"})
    \/ ~(InputSet(r) \subseteq filled)

Closing(x) ==
    \/ x.pc \in {"anchor", "home", "close", "finish"}
    \/ x.pc = "scan" /\ Fresh(x)

\* When the last rule has ended, someone closes the run.
ClosedInTheEnd ==
    Rules # {} /\ (\A r \in Rules : Over(r)) =>
        runStatus = "Completed" \/ \E t \in PropTasks : Closing(pr[t])

Awake ==
    /\ StartInOrder
    /\ Straight
    /\ ReadsFilled
    /\ \A r \in Rules : Phase(r) /\ Written(r) /\ Woken(r)
    /\ ClosedInTheEnd

AwakeInv == OnlyErrors => Awake

-----------------------------------------------------------------------------
(* Facts                                                                   *)

\* A set that has 0, and the successor of each natural it has, has all naturals: an infinite
\* descent would go down through the intervals from 0, which are finite sets.
LEMMA NatSetInduction ==
    ASSUME NEW S, 0 \in S, \A n \in Nat : n \in S => n + 1 \in S
    PROVE  Nat \subseteq S
<1> DEFINE T == Nat \ S
           Q == {0..k : k \in T}
<1>1. SUFFICES ASSUME T # {} PROVE FALSE
  OBVIOUS
<1>2. Q \subseteq FiniteSubsetsOf(Nat)
  <2>1. ASSUME NEW k \in T PROVE 0..k \in SUBSET Nat /\ IsFiniteSet(0..k)
    BY FS_Interval
  <2>2. QED BY <2>1 DEF FiniteSubsetsOf
<1>3. Q # {} BY <1>1
<1>4. PICK x \in Q : \A y \in Q : <<y, x>> \notin StrictSubsetOrdering(Nat)
  <2> HIDE DEF Q
  <2>1. IsWellFoundedOn(StrictSubsetOrdering(Nat), FiniteSubsetsOf(Nat))
    BY FS_StrictSubsetOrderingWellFounded
  <2> QED BY <1>2, <1>3, <2>1, WFMin
<1>5. PICK m \in T : x = 0..m OBVIOUS
<1>6. m # 0 /\ m - 1 \in T OBVIOUS
<1>7. 0..(m-1) \in Q BY <1>6
<1>8. <<0..(m-1), 0..m>> \in StrictSubsetOrdering(Nat)
  <2>1. 0..(m-1) \in SUBSET Nat /\ 0..m \in SUBSET Nat OBVIOUS
  <2>2. 0..(m-1) \subseteq 0..m  OBVIOUS
  <2>3. m \in 0..m /\ m \notin 0..(m-1) OBVIOUS
  <2> QED BY <2>1, <2>2, <2>3 DEF StrictSubsetOrdering
<1> QED BY <1>4, <1>5, <1>7, <1>8

LEMMA NoHomes ==
    ASSUME ForwardGraph, NEW r \in Rules
    PROVE  HomeTargets(r) = {} /\ IsForwardFamily(r)
<1>1. {p \in Projections : FbiSource[p] # {}} = {}
    BY DEF ForwardGraph
<1>2. ClosedUnderDerivation({})
    BY DEF ClosedUnderDerivation
<1>3. {} \in SUBSET Projections
    OBVIOUS
<1>4. DerivedFrom({}) = {}
    BY <1>2, <1>3 DEF DerivedFrom
<1>5. FeedbackFamily = {}
    BY <1>1, <1>4 DEF FeedbackFamily
<1> QED BY <1>5 DEF HomeTargets, IsForwardFamily

\* Ready means that all inputs are there.
LEMMA ReadyWhole ==
    ASSUME WholeRules, NEW r \in Rules, NEW A
    PROVE  Ready(r, A) <=> InputSet(r) \subseteq A
<1>1. Inputs[r] \in Seq(Projections) /\ Inputs[r] # <<>> /\ Mode[r] \in Modes
    BY TopologyAssumption DEF WholeRules
<1>2. CASE Mode[r] = "AND"
    BY <1>1, <1>2 DEF Ready
<1>3. CASE Len(Inputs[r]) = 1
  <2>1. DOMAIN Inputs[r] = {1}
      BY <1>1, <1>3
  <2>2. InputSet(r) = {Inputs[r][1]}
      BY <2>1 DEF InputSet
  <2> QED BY <1>1, <2>2 DEF Ready, Modes
<1> QED BY <1>2, <1>3 DEF WholeRules

\* In a run in which only errors happen, no step is another mishap.
LEMMA OnlyErrorsStep ==
    ASSUME TypeInv, Flight, Straight, Next, OnlyErrors'
    PROVE  /\ OnlyErrors /\ Undisturbed' /\ Calm
           /\ ~CancelMark /\ ~CancelCleanup
           /\ \A t \in EvalTasks : ~EvalCrash(t)
           /\ \A t \in PropTasks : ~PropIterate(t) /\ ~PropCrash(t)
           /\ \A r \in Rules : ~InferLose(r) /\ ~LockExpire(r) /\ \A o \in Outcomes : ~InferAgain(r, o)
<1>1. Disturbances \subseteq Events \ {"error"} /\ {"evalCrash", "lost"} \subseteq Events \ {"error"}
    BY DEF Disturbances, Events
<1>2. ASSUME NEW e \in Events \ {"error"} PROVE budget[e] = Budget[e] /\ ~Spend(e)
  <2>1. budget[e] \in Nat /\ Budget[e] \in Nat /\ budget'[e] = Budget[e]
      BY BudgetType DEF OnlyErrors
  <2>2. budget'[e] <= budget[e] /\ budget[e] <= Budget[e]
      BY BudgetNext DEF Flight, BudgetKept
  <2>3. budget[e] = Budget[e]
      BY <2>1, <2>2
  <2>4. ~Spend(e)
    <3> SUFFICES ASSUME Spend(e) PROVE FALSE
        OBVIOUS
    <3>1. budget'[e] = budget[e] - 1
        BY BudgetType DEF Spend
    <3> QED BY <2>1, <2>3, <3>1
  <2> QED BY <2>3, <2>4
<1>3. ASSUME NEW t \in PropTasks PROVE ~PropIterate(t)
    BY DEF Straight, PropIterate
<1>4. \A c \in Rules : iteration'[c] = 0
  <2>1. CASE CancelCleanup
      BY <2>1 DEF CancelCleanup
  <2>2. CASE ~CancelCleanup
    <3>1. UNCHANGED iteration
      <4>1. CASE Trigger \/ CancelMark
          BY <4>1 DEF Trigger, TriggerSave, TriggerSeed, TriggerRun, CancelMark
      <4>2. ASSUME NEW t \in EvalTasks, EvalTake(t) \/ EvalStep(t) \/ EvalCrash(t)
            PROVE  UNCHANGED iteration
          BY <4>2 DEF EvalTake, EvalReceive, EvalStep, EvalStatus, EvalScan, EvalGate, EvalLock,
                EvalRecheck, EvalRender, EvalPublish, EvalDispatch, EvalCrash, redis
      <4>3. ASSUME NEW t \in PropTasks, PropTake(t) \/ PropStep(t) \/ PropCrash(t)
            PROVE  UNCHANGED iteration
          BY <1>3, <4>3
          DEF PropTake, PropReceive, PropStep, PropCheck, PropFan, PropComplete, PropAnchor,
              PropHome, PropResetStatus, PropResetLock, PropRefire, PropClose, PropScan,
              PropFinish, PropCount, PropRetryIdle, PropUnlock, PropRetryEval, PropFail,
              PropCrash, redis
      <4>4. ASSUME NEW r \in Rules,
                   \/ Infer(r) \/ InferLose(r) \/ LockExpire(r)
                   \/ \E o \in Outcomes : InferAgain(r, o)
            PROVE  UNCHANGED iteration
          BY <4>4 DEF Infer, InferSuccess, InferError, InferLose, InferAgain, LockExpire, redis
      <4> QED BY <2>2, <4>1, <4>2, <4>3, <4>4 DEF Next
    <3> QED BY <3>1 DEF Straight
  <2> QED BY <2>1, <2>2
<1>5. Undisturbed'
    BY <1>1, <1>4 DEF OnlyErrors, Undisturbed, Disturbances
<1>6. OnlyErrors
    BY <1>2 DEF OnlyErrors
<1>7. \A t \in EvalTasks : ~EvalCrash(t)
    BY <1>1, <1>2 DEF EvalCrash
<1>8. \A r \in Rules : ~InferLose(r)
    BY <1>1, <1>2 DEF InferLose
<1> QED BY <1>5, <1>6, <1>7, <1>8, UndisturbedStep

-----------------------------------------------------------------------------
(* The paths of the tasks                                                  *)

EvalPaths ==
    {<<"status", "scan">>, <<"status", "idle">>, <<"scan", "scan">>, <<"scan", "gate">>,
     <<"gate", "lock">>, <<"gate", "idle">>, <<"lock", "recheck">>, <<"lock", "idle">>,
     <<"recheck", "render">>, <<"render", "publish">>, <<"publish", "dispatch">>,
     <<"dispatch", "idle">>}

PropPaths ==
    {<<"check", "count">>, <<"check", "fan">>, <<"check", "complete">>, <<"fan", "fan">>,
     <<"fan", "complete">>, <<"complete", "anchor">>, <<"anchor", "home">>,
     <<"anchor", "close">>, <<"home", "close">>, <<"close", "scan">>, <<"close", "idle">>,
     <<"scan", "scan">>, <<"scan", "finish">>, <<"scan", "idle">>, <<"finish", "idle">>,
     <<"count", "retryIdle">>, <<"count", "fail">>, <<"retryIdle", "unlock">>,
     <<"unlock", "retryEval">>, <<"retryEval", "idle">>, <<"fail", "close">>}

\* How an evaluator goes on.
EvalOnward(t, x) ==
    /\ EvalTo(t, x)
    /\ <<ev[t].pc, x.pc>> \in EvalPaths
    /\ x.pc = "idle" => x = EvalIdle
    /\ x.pc # "idle" => x.rule = ev[t].rule
    /\ x.pc \notin {"idle", "scan", "gate"} => x.avail = ev[t].avail
    /\ ev[t].pc # "scan" /\ x.pc # "idle" => x.avail = ev[t].avail /\ x.next = ev[t].next

LEMMA EvalPath ==
    ASSUME TypeInv, WholeRules, ForwardGraph, StartInOrder, ReadsFilled, NEW t \in EvalTasks,
           EvalStep(t), \A r \in Rules : Phase(r)
    PROVE  \E x : EvalOnward(t, x)
<1> DEFINE r == ev[t].rule
<1>1. EvWell /\ ev[t].pc # "idle"
    BY DEF TypeInv, EvalStep, EvalStatus, EvalScan, EvalGate, EvalLock, EvalRecheck, EvalRender,
           EvalPublish, EvalDispatch
<1>2. r \in Rules /\ ev[t] \in EvalLocal
    BY <1>1 DEF EvWell
<1>3. ASSUME EvalAck(t), <<ev[t].pc, "idle">> \in EvalPaths PROVE \E x : EvalOnward(t, x)
  <2>1. EvalOnward(t, EvalIdle)
      BY <1>3, IdleLocals DEF EvalAck, EvalTo, EvalOnward
  <2> QED BY <2>1
<1>4. ASSUME NEW pc, EvalGoto(t, pc), <<ev[t].pc, pc>> \in EvalPaths, pc # "idle"
      PROVE  \E x : EvalOnward(t, x)
    BY <1>1, <1>4, EvalGotoTo DEF EvalOnward
<1>5. CASE EvalStatus(t)
  <2>1. Inputs[r] # <<>>
      BY <1>2 DEF WholeRules
  <2>2. EvalAck(t) \/ EvalGoto(t, "scan")
      BY <1>5, <2>1 DEF EvalStatus
  <2>3. ev[t].pc = "status"
      BY <1>5 DEF EvalStatus
  <2>4. <<ev[t].pc, "idle">> \in EvalPaths /\ <<ev[t].pc, "scan">> \in EvalPaths
      BY <2>3 DEF EvalPaths
  <2> QED BY <1>3, <1>4, <2>2, <2>4
<1>6. CASE EvalScan(t)
  <2> DEFINE i == ev[t].next
             a == IF Inputs[r][i] \in filled THEN ev[t].avail \cup {Inputs[r][i]} ELSE ev[t].avail
             pc == IF i = Len(Inputs[r]) THEN "gate" ELSE "scan"
             x == [ev[t] EXCEPT !.avail = a, !.next = i + 1, !.pc = pc]
  <2>1. EvalTo(t, x) /\ ev[t].pc = "scan"
      BY <1>6 DEF EvalScan, EvalTo
  <2>2. x.rule = r /\ x.pc = pc
      BY <1>2 DEF EvalLocal
  <2>3. pc \in {"scan", "gate"} /\ <<"scan", pc>> \in EvalPaths
      BY DEF EvalPaths
  <2> HIDE DEF x, pc
  <2>4. EvalOnward(t, x)
      BY <2>1, <2>2, <2>3 DEF EvalOnward
  <2> QED BY <2>4
<1>7. CASE EvalGate(t) \/ EvalLock(t)
  <2>1. \/ ev[t].pc = "gate" /\ (EvalAck(t) \/ EvalGoto(t, "lock"))
        \/ ev[t].pc = "lock" /\ (EvalAck(t) \/ EvalGoto(t, "recheck"))
      BY <1>7, Zenon DEF EvalGate, EvalLock
  <2>2. /\ <<"gate", "idle">> \in EvalPaths /\ <<"gate", "lock">> \in EvalPaths
        /\ <<"lock", "idle">> \in EvalPaths /\ <<"lock", "recheck">> \in EvalPaths
      BY DEF EvalPaths
  <2>3. CASE EvalAck(t)
      BY <1>3, <2>1, <2>2, <2>3
  <2>4. CASE ev[t].pc = "gate" /\ EvalGoto(t, "lock")
      BY <1>4, <2>2, <2>4
  <2>5. CASE ev[t].pc = "lock" /\ EvalGoto(t, "recheck")
      BY <1>4, <2>2, <2>5
  <2> QED BY <2>1, <2>3, <2>4, <2>5
<1>8. CASE EvalRecheck(t)
  <2>1. EvalHolds(t, r) /\ ev[t].pc = "recheck"
      BY <1>8 DEF EvalRecheck, EvalHolds
  <2>2. status[r] = "Idle"
      BY <1>2, <2>1 DEF Phase
  <2>3. EvalGoto(t, "render")
      BY <1>8, <2>2 DEF EvalRecheck
  <2>4. <<"recheck", "render">> \in EvalPaths
      BY DEF EvalPaths
  <2> QED BY <1>4, <2>1, <2>3, <2>4
<1>9. CASE EvalRender(t)
  <2>1. ev[t].pc = "render"
      BY <1>9 DEF EvalRender
  <2>2. Placeholders(r) \subseteq ev[t].avail \cap filled
      BY <2>1 DEF ReadsFilled, Placeholders
  <2>3. EvalGoto(t, "publish")
      BY <1>9, <2>2 DEF EvalRender
  <2>4. <<"render", "publish">> \in EvalPaths
      BY DEF EvalPaths
  <2> QED BY <1>4, <2>1, <2>3, <2>4
<1>10. CASE EvalPublish(t)
  <2>1. ev[t].pc = "publish" /\ EvalGoto(t, "dispatch")
      BY <1>10 DEF EvalPublish
  <2>2. <<"publish", "dispatch">> \in EvalPaths
      BY DEF EvalPaths
  <2> QED BY <1>4, <2>1, <2>2
<1>11. CASE EvalDispatch(t)
  <2>1. ev[t].pc = "dispatch" /\ EvalAck(t)
      BY <1>11 DEF EvalDispatch
  <2>2. <<"dispatch", "idle">> \in EvalPaths
      BY DEF EvalPaths
  <2> QED BY <1>3, <2>1, <2>2
<1> QED BY <1>5, <1>6, <1>7, <1>8, <1>9, <1>10, <1>11 DEF EvalStep

LEMMA EvalTaken ==
    ASSUME TypeInv, StartInOrder, NEW t \in EvalTasks, NEW r \in Rules, EvalReceive(t, r)
    PROVE  \E x : /\ EvalTo(t, x)
                  /\ x.pc = "status" /\ x.rule = r /\ x.next = 1 /\ x.avail = {}
<1> DEFINE x == [EvalIdle EXCEPT !.pc = "status", !.rule = r]
<1>1. EvalTo(t, x)
    BY DEF EvalReceive, StartInOrder, EvalTo
<1>2. x.pc = "status" /\ x.rule = r /\ x.next = 1 /\ x.avail = {}
    BY DEF EvalIdle
<1> HIDE DEF x
<1> QED BY <1>1, <1>2

-----------------------------------------------------------------------------
\* How a propagator goes on.
PropOnward(t, x) ==
    /\ PropTo(t, x)
    /\ <<pr[t].pc, x.pc>> \in PropPaths
    /\ x.pc # "idle" => x.rule = pr[t].rule
    /\ x.pc \notin {"scan", "finish"} => Fresh(x)
    /\ pr[t].pc = "close" /\ x.pc = "scan" => Fresh(x)

LEMMA IdleFresh == Fresh(PropIdle)
BY DEF Fresh, PropIdle

\* A propagator that has come to its check works for a rule that has not ended.
LEMMA PropChecks ==
    ASSUME TypeInv, StartInOrder, NEW t \in PropTasks, PropCheck(t), Phase(pr[t].rule)
    PROVE  /\ status[pr[t].rule] # "Completed" /\ snapshot
           /\ \/ PropGoto(t, "count") /\ UNCHANGED accepted
              \/ pr' = [pr EXCEPT ![t].todo = Route[pr[t].rule],
                                  ![t].pc = IF Route[pr[t].rule] = {} THEN "complete" ELSE "fan"]
<1>1. pr[t].pc = "check"
    BY DEF PropCheck
<1>2. Permitted(pr[t].rule)
    BY <1>1 DEF Permitted, PropHolds
<1>3. status[pr[t].rule] # "Completed"
    BY <1>2 DEF Phase, Over
<1>4. snapshot
    BY <1>1 DEF StartInOrder
<1> QED BY <1>3, <1>4 DEF PropCheck

LEMMA PropPath ==
    ASSUME TypeInv, ForwardGraph, StartInOrder, Straight, NEW t \in PropTasks,
           PropStep(t), \A r \in Rules : Phase(r)
    PROVE  \E x : PropOnward(t, x)
<1> DEFINE r == pr[t].rule
<1>1. PrWell /\ pr[t].pc # "idle" /\ pr[t].pc \notin Resetting \cup {"iterate"}
    BY DEF TypeInv, Straight, PropStep, PropCheck, PropFan, PropComplete, PropAnchor,
           PropHome, PropIterate, PropResetStatus, PropResetLock, PropRefire, PropClose,
           PropScan, PropFinish, PropCount, PropRetryIdle, PropUnlock, PropRetryEval,
           PropFail
<1>2. r \in Rules /\ pr[t] \in PropLocal
    BY <1>1 DEF PrWell, PropLocalWell
<1>3. ASSUME PropAck(t), <<pr[t].pc, "idle">> \in PropPaths PROVE \E x : PropOnward(t, x)
  <2>1. PropOnward(t, PropIdle)
      BY <1>3, IdleLocals, IdleFresh DEF PropAck, PropTo, PropOnward
  <2> QED BY <2>1
<1>4. ASSUME NEW pc, PropGoto(t, pc), <<pr[t].pc, pc>> \in PropPaths,
             pc \notin {"idle", "scan", "finish"}, pr[t].pc \notin {"scan", "finish"}
      PROVE  \E x : PropOnward(t, x)
  <2>1. Fresh(pr[t])
      BY <1>4 DEF Straight
  <2>2. PICK x : /\ PropTo(t, x) /\ x.pc = pc /\ x.rule = pr[t].rule
                 /\ x.termsDone = pr[t].termsDone /\ x.running = pr[t].running
                 /\ x.settled = pr[t].settled
      BY <1>1, <1>4, PropGotoTo
  <2>3. Fresh(x)
      BY <2>1, <2>2, Zenon DEF Fresh
  <2> QED BY <1>4, <2>2, <2>3 DEF PropOnward
<1>5. CASE PropCheck(t)
  <2> DEFINE pc == IF Route[r] = {} THEN "complete" ELSE "fan"
             x == [pr[t] EXCEPT !.todo = Route[r], !.pc = pc]
  <2>1. PropGoto(t, "count") \/ PropTo(t, x)
      BY <1>2, <1>5, PropChecks DEF PropTo
  <2>2. pr[t].pc = "check" /\ <<"check", "count">> \in PropPaths /\ <<"check", pc>> \in PropPaths
      BY <1>5 DEF PropCheck, PropPaths
  <2>3. x.pc = pc /\ x.rule = r /\ x.termsDone = pr[t].termsDone
        /\ x.running = pr[t].running /\ x.settled = pr[t].settled
      BY <1>2 DEF PropLocal
  <2>4. Fresh(pr[t])
      BY <2>2 DEF Straight
  <2> HIDE DEF x
  <2>5. Fresh(x)
      BY <2>3, <2>4, Zenon DEF Fresh
  <2>6. PropTo(t, x) => PropOnward(t, x)
      BY <2>2, <2>3, <2>5 DEF PropOnward
  <2> QED BY <1>4, <2>1, <2>2, <2>6
<1>6. CASE PropFan(t)
  <2>1. PICK p \in pr[t].todo :
          pr' = [pr EXCEPT ![t].todo = pr[t].todo \ {p},
                           ![t].pc = IF pr[t].todo \ {p} = {} THEN "complete" ELSE "fan"]
      BY <1>6 DEF PropFan
  <2> DEFINE rest == pr[t].todo \ {p}
             pc == IF rest = {} THEN "complete" ELSE "fan"
             x == [pr[t] EXCEPT !.todo = rest, !.pc = pc]
  <2>2. PropTo(t, x)
      BY <2>1 DEF PropTo
  <2>3. pr[t].pc = "fan" /\ <<"fan", pc>> \in PropPaths
      BY <1>6 DEF PropFan, PropPaths
  <2>4. x.pc = pc /\ x.rule = r /\ x.termsDone = pr[t].termsDone
        /\ x.running = pr[t].running /\ x.settled = pr[t].settled
      BY <1>2 DEF PropLocal
  <2>5. Fresh(pr[t])
      BY <2>3 DEF Straight
  <2> HIDE DEF x, rest
  <2>6. Fresh(x)
      BY <2>4, <2>5, Zenon DEF Fresh
  <2>7. PropOnward(t, x)
      BY <2>2, <2>3, <2>4, <2>6 DEF PropOnward
  <2> QED BY <2>7
<1>7. CASE PropComplete(t) \/ PropAnchor(t) \/ PropHome(t) \/ PropFail(t) \/ PropCount(t)
           \/ PropRetryIdle(t) \/ PropUnlock(t)
  <2>1. HomeTargets(r) = {} /\ IsForwardFamily(r)
      BY <1>2, NoHomes
  <2>2. \E pc : PropGoto(t, pc) /\ <<pr[t].pc, pc>> \in PropPaths
                /\ pc \notin {"idle", "scan", "finish"} /\ pr[t].pc \notin {"scan", "finish"}
      BY <1>7, <2>1 DEF PropComplete, PropAnchor, PropHome, PropFail, PropCount, PropRetryIdle,
                        PropUnlock, AfterAnchor, PropPaths
  <2> QED BY <1>4, <2>2
<1>8. CASE PropClose(t)
  <2> DEFINE x == [pr[t] EXCEPT !.scan = Rules, !.pc = "scan"]
  <2>1. PropAck(t) \/ PropTo(t, x)
      BY <1>8 DEF PropClose, PropTo
  <2>2. pr[t].pc = "close" /\ <<"close", "idle">> \in PropPaths /\ <<"close", "scan">> \in PropPaths
      BY <1>8 DEF PropClose, PropPaths
  <2>3. x.pc = "scan" /\ x.rule = r /\ x.termsDone = pr[t].termsDone
        /\ x.running = pr[t].running /\ x.settled = pr[t].settled
      BY <1>2 DEF PropLocal
  <2>4. Fresh(pr[t])
      BY <2>2 DEF Straight
  <2> HIDE DEF x
  <2>5. Fresh(x)
      BY <2>3, <2>4, Zenon DEF Fresh
  <2>6. PropTo(t, x) => PropOnward(t, x)
      BY <2>2, <2>3, <2>5 DEF PropOnward
  <2> QED BY <1>3, <2>1, <2>2, <2>6
<1>9. CASE PropScan(t)
  <2>1. PICK q \in pr[t].scan :
          LET done == status[q] \in {"Completed", "Failed"}
              looping == status[q] = "Idle" /\ q \in Controllers /\ iteration[q] > 0
              v == [pr[t] EXCEPT !.scan = @ \ {q},
                                 !.termsDone = @ /\ (q \in Terminal => done),
                                 !.running = @ \/ status[q] = "Dispatched" \/ looping,
                                 !.settled = @ /\ done]
          IN  pr' = [pr EXCEPT ![t] =
                       IF v.scan # {} THEN v
                       ELSE IF Finished(v) THEN [v EXCEPT !.pc = "finish"]
                       ELSE PropIdle]
      BY <1>9 DEF PropScan
  <2> DEFINE done == status[q] \in {"Completed", "Failed"}
             looping == status[q] = "Idle" /\ q \in Controllers /\ iteration[q] > 0
             rest == pr[t].scan \ {q}
             terms == pr[t].termsDone /\ (q \in Terminal => done)
             runs == pr[t].running \/ status[q] = "Dispatched" \/ looping
             ends == pr[t].settled /\ done
             v == [pr[t] EXCEPT !.scan = rest, !.termsDone = terms,
                                !.running = runs, !.settled = ends]
             w == [v EXCEPT !.pc = "finish"]
  <2>2. PropTo(t, v) \/ PropTo(t, w) \/ PropAck(t)
      BY <2>1, Zenon DEF PropAck, PropTo
  <2>3. pr[t].pc = "scan"
      BY <1>9 DEF PropScan
  <2> HIDE DEF rest, terms, runs, ends
  <2>4. v.pc = "scan" /\ w.pc = "finish" /\ v.rule = r /\ w.rule = r
      BY <1>2, <2>3 DEF PropLocal
  <2> HIDE DEF v, w
  <2>5. /\ <<"scan", "scan">> \in PropPaths /\ <<"scan", "finish">> \in PropPaths
        /\ <<"scan", "idle">> \in PropPaths
      BY DEF PropPaths
  <2>6. (PropTo(t, v) => PropOnward(t, v)) /\ (PropTo(t, w) => PropOnward(t, w))
      BY <2>3, <2>4, <2>5 DEF PropOnward
  <2> QED BY <1>3, <2>2, <2>3, <2>5, <2>6
<1>10. CASE PropFinish(t) \/ PropRetryEval(t)
  <2>1. PropAck(t) /\ <<pr[t].pc, "idle">> \in PropPaths
      BY <1>10 DEF PropFinish, PropRetryEval, PropPaths
  <2> QED BY <1>3, <2>1
<1> QED BY <1>1, <1>5, <1>6, <1>7, <1>8, <1>9, <1>10
        DEF PropStep, PropIterate, PropResetStatus, PropResetLock, PropRefire, Resetting

LEMMA PropTaken ==
    ASSUME TypeInv, StartInOrder, NEW t \in PropTasks, NEW r \in Rules, NEW o \in Outcomes,
           PropReceive(t, r, o)
    PROVE  \E x : /\ PropTo(t, x)
                  /\ x.pc = "check" /\ x.rule = r /\ Fresh(x)
<1> DEFINE x == [PropIdle EXCEPT !.pc = "check", !.rule = r, !.outcome = o]
<1>1. PropTo(t, x)
    BY DEF PropReceive, StartInOrder, PropTo
<1>2. x.pc = "check" /\ x.rule = r /\ x.termsDone = TRUE /\ x.running = FALSE /\ x.settled = TRUE
    BY DEF PropIdle
<1> HIDE DEF x
<1> QED BY <1>1, <1>2 DEF Fresh

-----------------------------------------------------------------------------
(* Lock, permit and status go together.                                    *)

\* An evaluator has published a request for r and not yet marked it.
Marking(t, r) == ev[t].rule = r /\ ev[t].pc = "dispatch"

LEMMA PhaseKept ==
    ASSUME NEW r \in Rules, Phase(r), Permitted(r)' <=> Permitted(r),
           status'[r] = status[r], lock'[r] <=> lock[r],
           (\E t \in EvalTasks : EvalHolds(t, r)') => \E t \in EvalTasks : EvalHolds(t, r),
           PropAt(r, {"unlock"})' => PropAt(r, {"unlock"}),
           \A t \in EvalTasks : Marking(t, r)' => requests'[r] > 0
    PROVE  Phase(r)'
<1>1. Over(r)' <=> Over(r)
    BY DEF Over
<1>2. (Permitted(r) => ~Over(r)) /\ (lock[r] => Permitted(r) \/ Over(r)) /\ (~lock[r] => status[r] = "Idle")
      /\ ((\E t \in EvalTasks : EvalHolds(t, r)) \/ PropAt(r, {"unlock"}) => status[r] = "Idle")
    BY DEF Phase
<1>3. /\ (Permitted(r) => ~Over(r))'
      /\ (lock[r] => Permitted(r) \/ Over(r))'
      /\ (~lock[r] => status[r] = "Idle")'
    BY <1>1, <1>2
<1>4. ((\E t \in EvalTasks : EvalHolds(t, r)) \/ PropAt(r, {"unlock"}) => status[r] = "Idle")'
    BY <1>2
<1> QED BY <1>3, <1>4 DEF Phase, Marking

LEMMA PhaseEval ==
    ASSUME TypeInv, TypeInv', WholeRules, ForwardGraph, StartInOrder, ReadsFilled,
           \A q \in Rules : Phase(q), NEW t \in EvalTasks, EvalTake(t) \/ EvalStep(t),
           NEW r \in Rules, Sound(r), Sound(r)'
    PROVE  Phase(r)'
<1>1. EvWell /\ QueuesOK /\ QueuesOK' /\ lock \in [Rules -> BOOLEAN] /\ Phase(r)
      /\ status \in [Rules -> {"Idle", "Dispatched", "Completed", "Failed"}]
    BY DEF TypeInv, RedisOK
<1>2. UNCHANGED <<pr, results>>
    BY DEF EvalTake, EvalReceive, EvalStep, EvalStatus, EvalScan, EvalGate, EvalLock,
           EvalRecheck, EvalRender, EvalPublish, EvalDispatch, queues
<1>3. /\ \A u \in PropTasks : PropHolds(u, r)' <=> PropHolds(u, r)
      /\ PropAt(r, {"unlock"})' <=> PropAt(r, {"unlock"})
    BY <1>2 DEF PropHolds, PropAt
<1>4. \A u \in EvalTasks : Marking(u, r) => requests[r] > 0
    BY <1>1 DEF Phase, Marking
<1>5. Waiting(r) \in Nat /\ requests[r] \in Nat
      /\ results[<<r, "success">>] \in Nat /\ results[<<r, "error">>] \in Nat
    BY <1>1, WaitingType
<1>6. ASSUME NEW x, EvalTo(t, x), x.pc \notin EvalHolding \cup {"dispatch"},
             ev[t].pc \notin EvalHolding, UNCHANGED <<status, lock, requests>>
      PROVE  Phase(r)'
  <2>1. \A u \in EvalTasks : EvalHolds(u, r)' <=> EvalHolds(u, r)
      BY <1>1, <1>6, EvalToOthers DEF EvalHolds, EvalHolding
  <2>2. \A u \in EvalTasks : Marking(u, r)' => Marking(u, r)
      BY <1>1, <1>6, EvalToOthers DEF Marking
  <2>3. Permitted(r)' <=> Permitted(r)
      BY <1>2, <1>3, <1>6, <2>1 DEF Permitted, Waiting
  <2> QED BY <1>1, <1>3, <1>4, <1>6, <2>1, <2>2, <2>3, PhaseKept
<1>7. CASE EvalTake(t)
  <2>1. PICK q \in Rules : EvalReceive(t, q)
      BY <1>7 DEF EvalTake
  <2>2. PICK x : EvalTo(t, x) /\ x.pc = "status"
      BY <2>1, EvalTaken
  <2>3. UNCHANGED <<status, lock, requests>> /\ ev[t].pc = "idle"
      BY <2>1 DEF EvalReceive, redis
  <2> QED BY <1>6, <2>2, <2>3 DEF EvalHolding
<1>8. CASE EvalStep(t)
  <2>1. PICK x : EvalOnward(t, x)
      BY <1>8, EvalPath
  <2>2. EvalTo(t, x) /\ <<ev[t].pc, x.pc>> \in EvalPaths /\ (x.pc # "idle" => x.rule = ev[t].rule)
      BY <2>1 DEF EvalOnward
  <2>3. ev'[t] = x /\ \A u \in EvalTasks : u # t => ev'[u] = ev[u]
      BY <1>1, <2>2, EvalToOthers
  <2>4. CASE EvalStatus(t) \/ EvalScan(t) \/ EvalGate(t)
    <3>1. UNCHANGED <<status, lock, requests>> /\ ev[t].pc \in {"status", "scan", "gate"}
        BY <2>4 DEF EvalStatus, EvalScan, EvalGate, redis, queues
    <3>2. x.pc \notin EvalHolding \cup {"dispatch"} /\ ev[t].pc \notin EvalHolding
        BY <2>2, <3>1 DEF EvalPaths, EvalHolding
    <3> QED BY <1>6, <2>2, <3>1, <3>2
  <2>5. CASE EvalLock(t)
    <3>1. ev[t].pc = "lock" /\ UNCHANGED <<status, requests>>
        BY <2>5 DEF EvalLock, queues
    <3>2. CASE lock[ev[t].rule]
      <4>1. EvalAck(t) /\ UNCHANGED lock
          BY <2>5, <3>2 DEF EvalLock
      <4>2. EvalTo(t, EvalIdle) /\ EvalIdle.pc \notin EvalHolding \cup {"dispatch"}
          BY <4>1, IdleLocals DEF EvalAck, EvalTo, EvalHolding
      <4> QED BY <1>6, <3>1, <4>1, <4>2 DEF EvalHolding
    <3>3. CASE ~lock[ev[t].rule]
      <4>1. EvalGoto(t, "recheck") /\ lock' = [lock EXCEPT ![ev[t].rule] = TRUE]
          BY <2>5, <3>3 DEF EvalLock
      <4>2. \A u \in EvalTasks : EvalHolds(u, r)' <=> IF u = t THEN ev[t].rule = r ELSE EvalHolds(u, r)
          BY <1>1, <4>1, EvalGoes DEF EvalHolding
      <4>3. x.pc = "recheck"
          BY <1>1, <2>3, <4>1, EvalGotoTo, EvalToOthers
      <4>4. \A u \in EvalTasks : Marking(u, r)' => Marking(u, r)
          BY <2>3, <4>3 DEF Marking
      <4>5. CASE ev[t].rule = r
        <5>1. lock'[r] /\ status'[r] = "Idle"
            BY <1>1, <3>1, <3>3, <4>1, <4>5 DEF Phase
        <5>2. Permitted(r)' /\ ~Over(r)'
            BY <4>2, <4>5, <5>1 DEF Permitted, Over
        <5> QED BY <1>4, <3>1, <4>4, <5>1, <5>2 DEF Phase, Marking
      <4>6. CASE ev[t].rule # r
        <5>1. lock'[r] = lock[r]
            BY <1>1, <4>1, <4>6
        <5>2. \A u \in EvalTasks : EvalHolds(u, r)' <=> EvalHolds(u, r)
            BY <4>2, <4>6 DEF EvalHolds
        <5>3. Permitted(r)' <=> Permitted(r)
            BY <1>2, <1>3, <3>1, <5>2 DEF Permitted, Waiting
        <5> QED BY <1>1, <1>3, <1>4, <3>1, <4>4, <5>1, <5>2, <5>3, PhaseKept
      <4> QED BY <4>5, <4>6
    <3> QED BY <3>2, <3>3
  <2>6. CASE EvalRecheck(t) \/ EvalRender(t)
    <3>1. UNCHANGED <<status, lock, requests>> /\ ev[t].pc \in {"recheck", "render"}
        BY <2>6 DEF EvalRecheck, EvalRender, redis, queues
    <3>2. x.pc \in {"render", "publish"} /\ x.rule = ev[t].rule
        BY <2>2, <3>1 DEF EvalPaths
    <3>3. \A u \in EvalTasks : EvalHolds(u, r)' <=> EvalHolds(u, r)
        BY <2>3, <3>1, <3>2 DEF EvalHolds
    <3>4. \A u \in EvalTasks : Marking(u, r)' => Marking(u, r)
        BY <2>3, <3>2 DEF Marking
    <3>5. Permitted(r)' <=> Permitted(r)
        BY <1>2, <1>3, <3>1, <3>3 DEF Permitted, Waiting
    <3> QED BY <1>1, <1>3, <1>4, <3>1, <3>3, <3>4, <3>5, PhaseKept
  <2>7. CASE EvalPublish(t)
    <3>1. /\ ev[t].pc = "publish" /\ UNCHANGED <<status, lock>>
          /\ requests' = [requests EXCEPT ![ev[t].rule] = @ + 1]
        BY <2>7 DEF EvalPublish, redis
    <3>2. x.pc = "dispatch" /\ x.rule = ev[t].rule
        BY <2>2, <3>1 DEF EvalPaths
    <3>3. \A u \in EvalTasks : EvalHolds(u, r)' => EvalHolds(u, r)
        BY <2>3, <3>2 DEF EvalHolds
    <3>4. CASE ev[t].rule = r
      <4>1. EvalHolds(t, r)
          BY <3>1, <3>4 DEF EvalHolds
      <4>2. requests'[r] = requests[r] + 1
          BY <1>1, <3>1, <3>4 DEF QueuesOK
      <4>3. Waiting(r)' > 0 /\ requests'[r] > 0
          BY <1>2, <1>5, <4>2 DEF Waiting
      <4>4. Permitted(r) /\ Permitted(r)'
          BY <4>1, <4>3 DEF Permitted
      <4> QED BY <1>1, <1>3, <3>1, <3>3, <4>3, <4>4, PhaseKept
    <3>5. CASE ev[t].rule # r
      <4>1. requests'[r] = requests[r]
          BY <1>1, <3>1, <3>5 DEF QueuesOK
      <4>2. \A u \in EvalTasks : EvalHolds(u, r) => EvalHolds(u, r)'
          BY <2>3, <3>5 DEF EvalHolds
      <4>3. Permitted(r)' <=> Permitted(r)
          BY <1>2, <1>3, <3>3, <4>1, <4>2 DEF Permitted, Waiting
      <4>4. \A u \in EvalTasks : Marking(u, r)' => Marking(u, r)
          BY <2>3, <3>2, <3>5 DEF Marking
      <4> QED BY <1>1, <1>3, <1>4, <3>1, <3>3, <4>1, <4>3, <4>4, PhaseKept
    <3> QED BY <3>4, <3>5
  <2>8. CASE EvalDispatch(t)
    <3>1. /\ ev[t].pc = "dispatch" /\ UNCHANGED <<lock, requests>>
          /\ status' = [status EXCEPT ![ev[t].rule] = "Dispatched"]
        BY <2>8 DEF EvalDispatch, queues
    <3>2. x.pc = "idle"
        BY <2>2, <3>1 DEF EvalPaths
    <3>3. \A u \in EvalTasks : EvalHolds(u, r)' <=> EvalHolds(u, r)
        BY <2>3, <3>1, <3>2 DEF EvalHolds
    <3>4. \A u \in EvalTasks : Marking(u, r)' => Marking(u, r)
        BY <2>3, <3>2 DEF Marking
    <3>5. Permitted(r)' <=> Permitted(r)
        BY <1>2, <1>3, <3>1, <3>3 DEF Permitted, Waiting
    <3>6. CASE ev[t].rule = r
      <4>1. requests[r] > 0
          BY <1>4, <3>1, <3>6 DEF Marking
      <4>2. Waiting(r) > 0
          BY <1>5, <4>1 DEF Waiting
      <4>3. Permitted(r) /\ lock[r]
          BY <4>2 DEF Permitted, Sound
      <4>4. status'[r] = "Dispatched"
          BY <1>1, <3>1, <3>6
      <4>5. /\ \A u \in EvalTasks : ~EvalHolds(u, r)
            /\ \A u \in PropTasks : ~PropHolds(u, r)
          BY <4>2 DEF Sound, OneAttempt
      <4>6. ~PropAt(r, {"unlock"})
          BY <4>5 DEF PropAt, PropHolds
      <4>7. ~Over(r)' /\ Permitted(r)' /\ lock'[r]
          BY <3>1, <3>5, <4>3, <4>4 DEF Over
      <4>8. \A u \in EvalTasks : Marking(u, r)' => requests'[r] > 0
          BY <3>1, <4>1
      <4> QED BY <1>3, <3>3, <4>5, <4>6, <4>7, <4>8 DEF Phase, Marking
    <3>7. CASE ev[t].rule # r
      <4>1. status'[r] = status[r]
          BY <1>1, <3>1, <3>7
      <4> QED BY <1>1, <1>3, <1>4, <3>1, <3>3, <3>4, <3>5, <4>1, PhaseKept
    <3> QED BY <3>6, <3>7
  <2> QED BY <1>8, <2>4, <2>5, <2>6, <2>7, <2>8 DEF EvalStep
<1> QED BY <1>7, <1>8

LEMMA PhaseTake ==
    ASSUME TypeInv, TypeInv', StartInOrder, NEW t \in PropTasks, PropTake(t),
           NEW r \in Rules, Phase(r), Sound(r)
    PROVE  Phase(r)'
<1>1. PICK q \in Rules, o \in Outcomes : PropReceive(t, q, o)
    BY DEF PropTake
<1>2. /\ pr[t].pc = "idle" /\ results[<<q, o>>] > 0 /\ TakeAnswer(q, o)
      /\ UNCHANGED <<status, lock, requests, ev>>
    BY <1>1 DEF PropReceive, TakeAnswer, redis
<1>3. PICK x : PropTo(t, x) /\ x.pc = "check" /\ x.rule = q
    BY <1>1, PropTaken
<1>4. PrWell /\ QueuesOK /\ QueuesOK'
    BY DEF TypeInv
<1>5. pr'[t] = x /\ \A u \in PropTasks : u # t => pr'[u] = pr[u]
    BY <1>3, <1>4, PropToOthers
<1>6. \A u \in EvalTasks : (EvalHolds(u, r)' <=> EvalHolds(u, r)) /\ (Marking(u, r)' <=> Marking(u, r))
    BY <1>2 DEF EvalHolds, Marking
<1>7. PropAt(r, {"unlock"})' => PropAt(r, {"unlock"})
    BY <1>3, <1>5 DEF PropAt
<1>8. Permitted(r)' <=> Permitted(r)
  <2>1. Waiting(r)' = IF r = q THEN Waiting(r) - 1 ELSE Waiting(r)
      BY <1>2, <1>4, WaitingLess
  <2>2. CASE r = q
    <3>1. /\ requests[r] \in Nat
          /\ results[<<r, "success">>] \in Nat /\ results[<<r, "error">>] \in Nat
        BY <1>4, WaitingType
    <3>2. Waiting(r) > 0
        BY <1>2, <2>2, <3>1 DEF Waiting, Outcomes
    <3>3. PropHolds(t, r)'
        BY <1>3, <1>5, <2>2 DEF PropHolds
    <3> QED BY <3>2, <3>3 DEF Permitted
  <2>3. CASE r # q
    <3>1. \A u \in PropTasks : PropHolds(u, r)' <=> PropHolds(u, r)
        BY <1>2, <1>3, <1>5, <2>3 DEF PropHolds
    <3> QED BY <1>6, <2>1, <2>3, <3>1 DEF Permitted
  <2> QED BY <2>2, <2>3
<1>9. \A u \in EvalTasks : Marking(u, r)' => requests'[r] > 0
    BY <1>2, <1>6 DEF Phase, Marking
<1> QED BY <1>2, <1>6, <1>7, <1>8, <1>9, PhaseKept

\* Which steps of a propagator write the status of its rule, or free it.
LEMMA PropStatus ==
    ASSUME TypeInv, Straight, NEW t \in PropTasks, PropStep(t)
    PROVE  /\ \/ pr[t].pc \notin {"complete", "retryIdle", "fail"} /\ UNCHANGED status
              \/ pr[t].pc = "complete" /\ status' = [status EXCEPT ![pr[t].rule] = "Completed"]
              \/ pr[t].pc = "retryIdle" /\ status' = [status EXCEPT ![pr[t].rule] = "Idle"]
              \/ pr[t].pc = "fail" /\ status' = [status EXCEPT ![pr[t].rule] = "Failed"]
           /\ \/ pr[t].pc # "unlock" /\ UNCHANGED lock
              \/ pr[t].pc = "unlock" /\ lock' = [lock EXCEPT ![pr[t].rule] = FALSE]
           /\ UNCHANGED <<snapshot, iteration, requests, results, trigger, cancel, ev>>
<1>1. pr[t].pc \notin Resetting \cup {"iterate"}
    BY DEF Straight
<1>2. ~PropIterate(t) /\ ~PropResetStatus(t) /\ ~PropResetLock(t) /\ ~PropRefire(t)
    BY <1>1 DEF PropIterate, PropResetStatus, PropResetLock, PropRefire, Resetting
<1>3. CASE PropComplete(t) \/ PropRetryIdle(t) \/ PropFail(t) \/ PropUnlock(t)
    BY <1>3 DEF PropComplete, PropRetryIdle, PropFail, PropUnlock, queues
<1>4. CASE PropCheck(t) \/ PropFan(t) \/ PropAnchor(t) \/ PropHome(t) \/ PropClose(t)
           \/ PropScan(t) \/ PropFinish(t) \/ PropCount(t) \/ PropRetryEval(t)
    BY <1>4 DEF PropCheck, PropFan, PropAnchor, PropHome, PropClose, PropScan, PropFinish,
                PropCount, PropRetryEval, redis, queues
<1> QED BY <1>2, <1>3, <1>4 DEF PropStep

LEMMA PhaseProp ==
    ASSUME TypeInv, TypeInv', ForwardGraph, StartInOrder, Straight,
           \A q \in Rules : Phase(q), NEW t \in PropTasks, PropStep(t),
           NEW r \in Rules, Sound(r), Sound(r)'
    PROVE  Phase(r)'
<1>1. PrWell /\ lock \in [Rules -> BOOLEAN] /\ Phase(r)
      /\ status \in [Rules -> {"Idle", "Dispatched", "Completed", "Failed"}]
    BY DEF TypeInv, RedisOK
<1>2. PICK x : PropOnward(t, x)
    BY PropPath
<1>3. PropTo(t, x) /\ <<pr[t].pc, x.pc>> \in PropPaths /\ (x.pc # "idle" => x.rule = pr[t].rule)
    BY <1>2 DEF PropOnward
<1>4. pr'[t] = x /\ \A u \in PropTasks : u # t => pr'[u] = pr[u]
    BY <1>1, <1>3, PropToOthers
<1>5. UNCHANGED <<requests, results, ev>>
    BY PropStatus
<1>6. \A u \in EvalTasks : (EvalHolds(u, r)' <=> EvalHolds(u, r)) /\ (Marking(u, r)' <=> Marking(u, r))
    BY <1>5 DEF EvalHolds, Marking
<1>7. Waiting(r)' = Waiting(r)
    BY <1>5 DEF Waiting
<1>8. \A u \in EvalTasks : Marking(u, r)' => requests'[r] > 0
    BY <1>1, <1>5, <1>6 DEF Phase, Marking
<1>9. CASE ~PropHolds(t, r)
  <2>1. x.rule # r \/ x.pc \notin PropHolding
      BY <1>3, <1>9 DEF PropHolds, PropHolding, PropPaths
  <2>2. \A u \in PropTasks : PropHolds(u, r)' <=> PropHolds(u, r)
      BY <1>4, <1>9, <2>1 DEF PropHolds, PropHolding
  <2>3. PropAt(r, {"unlock"})' => PropAt(r, {"unlock"})
      BY <1>4, <2>1 DEF PropAt, PropHolding
  <2>4. status'[r] = status[r] /\ (lock'[r] <=> lock[r])
      BY <1>1, <1>9, PropStatus DEF PropHolds
  <2>5. Permitted(r)' <=> Permitted(r)
      BY <1>6, <1>7, <2>2 DEF Permitted
  <2> QED BY <1>1, <1>6, <1>8, <2>3, <2>4, <2>5, PhaseKept
<1>10. CASE PropHolds(t, r)
  <2>1. /\ pr[t].rule = r /\ pr[t].pc \in PropHolding
        /\ Waiting(r) = 0 /\ \A u \in EvalTasks : ~EvalHolds(u, r)
        /\ \A u \in PropTasks : PropHolds(u, r) => u = t
        /\ lock[r] /\ ~Over(r) /\ Permitted(r)
      BY <1>1, <1>10 DEF PropHolds, PropHolding, Sound, OneAttempt, Phase, Permitted
  <2>2. \A u \in PropTasks : u # t => ~PropHolds(u, r)'
      BY <1>4, <2>1 DEF PropHolds
  <2>3. \A u \in PropTasks : u # t => ~(pr'[u].rule = r /\ pr'[u].pc = "unlock")
      BY <2>2 DEF PropHolds
  <2>4. CASE pr[t].pc \in {"check", "fan", "count"}
    <3>1. x.pc \in {"count", "fan", "complete", "retryIdle", "fail"} /\ x.rule = r
        BY <1>3, <2>1, <2>4 DEF PropPaths
    <3>2. PropHolds(t, r)'
        BY <1>4, <3>1 DEF PropHolds
    <3>3. Permitted(r)'
        BY <3>2 DEF Permitted
    <3>4. status'[r] = status[r] /\ (lock'[r] <=> lock[r])
        BY <2>4, PropStatus
    <3>5. ~PropAt(r, {"unlock"})'
        BY <1>4, <2>3, <3>1 DEF PropAt
    <3> QED BY <1>1, <1>6, <1>8, <2>1, <3>3, <3>4, <3>5, PhaseKept
  <2>5. CASE pr[t].pc = "retryIdle"
    <3>1. x.pc = "unlock" /\ x.rule = r
        BY <1>3, <2>1, <2>5 DEF PropPaths
    <3>2. PropHolds(t, r)'
        BY <1>4, <3>1 DEF PropHolds
    <3>3. Permitted(r)'
        BY <3>2 DEF Permitted
    <3>4. status'[r] = "Idle" /\ lock'[r]
        BY <1>1, <2>1, <2>5, PropStatus
    <3> QED BY <1>8, <3>3, <3>4 DEF Phase, Over, Marking
  <2>6. CASE pr[t].pc \in {"complete", "fail", "unlock"}
    <3>1. x.pc \in {"anchor", "close", "retryEval"}
        BY <1>3, <2>6 DEF PropPaths
    <3>2. ~PropHolds(t, r)'
        BY <1>4, <3>1 DEF PropHolds
    <3>3. ~Permitted(r)'
        BY <1>6, <1>7, <2>1, <2>2, <3>2 DEF Permitted
    <3>4. ~PropAt(r, {"unlock"})'
        BY <1>4, <2>3, <3>1 DEF PropAt
    <3>5. CASE pr[t].pc = "unlock"
      <4>1. PropAt(r, {"unlock"})
          BY <2>1, <3>5 DEF PropAt
      <4>2. status'[r] = "Idle" /\ ~lock'[r]
          BY <1>1, <2>1, <3>5, <4>1, PropStatus DEF Phase
      <4> QED BY <1>6, <1>8, <2>1, <3>3, <3>4, <4>2 DEF Phase, Marking
    <3>6. CASE pr[t].pc \in {"complete", "fail"}
      <4>1. status'[r] \in {"Completed", "Failed"} /\ lock'[r]
          BY <1>1, <2>1, <3>6, PropStatus
      <4> QED BY <1>6, <1>8, <2>1, <3>3, <3>4, <4>1 DEF Phase, Marking, Over
    <3> QED BY <2>6, <3>5, <3>6
  <2> QED BY <2>1, <2>4, <2>5, <2>6 DEF PropHolding
<1> QED BY <1>9, <1>10

LEMMA PhaseInfer ==
    ASSUME TypeInv, Pace # "racing", NEW q \in Rules, Infer(q), NEW r \in Rules, Phase(r)
    PROVE  Phase(r)'
<1>1. QueuesOK
    BY DEF TypeInv
<1>2. /\ UNCHANGED <<status, lock, ev, pr>>
      /\ TakeRequest(q) /\ FollowUpsDone(q) /\ \E o \in Outcomes : Answer(q, o)
    BY DEF Infer, InferSuccess, InferError, MayReply, redis, handlers, Outcomes
<1>3. Waiting(r)' = Waiting(r)
    BY <1>1, <1>2, WaitingAnswered
<1>4. /\ \A u \in EvalTasks : (EvalHolds(u, r)' <=> EvalHolds(u, r)) /\ (Marking(u, r)' <=> Marking(u, r))
      /\ \A u \in PropTasks : PropHolds(u, r)' <=> PropHolds(u, r)
      /\ PropAt(r, {"unlock"})' <=> PropAt(r, {"unlock"})
    BY <1>2 DEF EvalHolds, Marking, PropHolds, PropAt
<1>5. Permitted(r)' <=> Permitted(r)
    BY <1>3, <1>4 DEF Permitted
<1>6. \A u \in EvalTasks : Marking(u, r)' => requests'[r] > 0
  <2>1. CASE r = q
      BY <1>2, <1>4, <2>1 DEF FollowUpsDone, Marking
  <2>2. CASE r # q
    <3>1. requests'[r] = requests[r]
        BY <1>1, <1>2, <2>2 DEF TakeRequest, QueuesOK
    <3> QED BY <1>4, <3>1 DEF Phase, Marking
  <2> QED BY <2>1, <2>2
<1> QED BY <1>2, <1>4, <1>5, <1>6, PhaseKept

-----------------------------------------------------------------------------
(* The start, the readings and the writings keep their order.              *)

LEMMA StartTrigger ==
    ASSUME TypeInv, StartInOrder, Trigger
    PROVE  StartInOrder'
<1>1. /\ UNCHANGED <<cancel, results, ev, pr, status>>
      /\ trigger \in [pc : {"save", "seed", "run", "done"}, todo : SUBSET Nodes]
    BY DEF Trigger, TriggerSave, TriggerSeed, TriggerRun, queues, TypeInv, ApiOK
<1>2. CASE TriggerSave
  <2>1. trigger.pc = "save" /\ Rules # {} /\ snapshot' = TRUE /\ UNCHANGED <<runStatus, filled, evals>>
        /\ trigger' = [pc |-> IF UserInputs = {} THEN "run" ELSE "seed", todo |-> UserInputs]
      BY <1>2 DEF TriggerSave, queues
  <2>2. trigger'.pc \in {"run", "seed"} /\ trigger'.todo = UserInputs
        /\ (trigger'.pc = "run" => UserInputs = {})
      BY <2>1
  <2> QED BY <1>1, <2>1, <2>2 DEF StartInOrder, Over
<1>3. ASSUME NEW n \in Nodes, TriggerSeed(n) PROVE StartInOrder'
  <2>1. /\ trigger.pc = "seed" /\ n \in trigger.todo /\ UNCHANGED <<runStatus, snapshot>>
        /\ \/ SeedsOf(n) = {} /\ UNCHANGED <<filled, evals>>
           \/ \E p \in SeedsOf(n) : filled' = filled \cup {p}
        /\ LET rest == trigger.todo \ {n}
           IN  trigger' = [pc |-> IF rest = {} THEN "run" ELSE "seed", todo |-> rest]
      BY <1>3 DEF TriggerSeed
  <2>2. trigger'.pc \in {"run", "seed"} /\ trigger'.todo = trigger.todo \ {n}
        /\ (trigger'.pc = "run" => trigger'.todo = {})
      BY <2>1
  <2>3. filled \subseteq filled' /\ (SeedsOf(n) # {} => SeedsOf(n) \cap filled' # {})
      BY <2>1
  <2>4. \A m \in UserInputs \ trigger'.todo : SeedsOf(m) # {} => SeedsOf(m) \cap filled' # {}
    <3> SUFFICES ASSUME NEW m \in UserInputs \ trigger'.todo, SeedsOf(m) # {}
                 PROVE  SeedsOf(m) \cap filled' # {}
        OBVIOUS
    <3>1. CASE m = n
        BY <2>3, <3>1
    <3>2. CASE m # n
      <4>1. SeedsOf(m) \cap filled # {}
          BY <2>1, <2>2, <3>2 DEF StartInOrder
      <4> QED BY <2>3, <4>1
    <3> QED BY <3>1, <3>2
  <2> QED BY <1>1, <2>1, <2>2, <2>4 DEF StartInOrder, Over
<1>4. CASE TriggerRun
  <2>1. /\ trigger.pc = "run" /\ runStatus' = "Running" /\ UNCHANGED <<snapshot, filled>>
        /\ trigger'.pc = "done" /\ trigger'.todo = trigger.todo
      BY <1>1, <1>4 DEF TriggerRun
  <2> QED BY <1>1, <2>1 DEF StartInOrder
<1> QED BY <1>2, <1>3, <1>4 DEF Trigger

LEMMA StartEval ==
    ASSUME TypeInv, StartInOrder, NEW t \in EvalTasks, EvalTake(t) \/ EvalStep(t)
    PROVE  StartInOrder'
<1>1. UNCHANGED <<cancel, runStatus, snapshot, trigger, results, pr, filled>>
    BY DEF EvalTake, EvalReceive, EvalStep, EvalStatus, EvalScan, EvalGate, EvalLock,
           EvalRecheck, EvalRender, EvalPublish, EvalDispatch, redis, queues
<1>2. trigger.pc # "save"
  <2> SUFFICES ASSUME trigger.pc = "save" PROVE FALSE
      OBVIOUS
  <2>1. ev[t].pc = "idle" /\ \A r \in Rules : evals[r] = 0
      BY DEF StartInOrder
  <2>2. ASSUME NEW r \in Rules PROVE ~EvalReceive(t, r)
    <3>1. evals[r] = 0
        BY <2>1
    <3> QED BY <3>1 DEF EvalReceive
  <2>3. ~EvalStep(t)
      BY <2>1 DEF EvalStep, EvalStatus, EvalScan, EvalGate, EvalLock, EvalRecheck, EvalRender,
                  EvalPublish, EvalDispatch
  <2> QED BY <2>2, <2>3 DEF EvalTake
<1>3. \A r \in Rules : Over(r)' => Over(r)
  <2>1. UNCHANGED status \/ status' = [status EXCEPT ![ev[t].rule] = "Dispatched"]
      BY DEF EvalTake, EvalReceive, EvalStep, EvalStatus, EvalScan, EvalGate, EvalLock,
           EvalRecheck, EvalRender, EvalPublish, EvalDispatch, redis
  <2> QED BY <2>1 DEF Over, TypeInv, RedisOK
<1> QED BY <1>1, <1>2, <1>3 DEF StartInOrder

LEMMA StartProp ==
    ASSUME TypeInv, StartInOrder, Straight, NEW t \in PropTasks, PropTake(t) \/ PropStep(t)
    PROVE  StartInOrder'
<1>1. /\ UNCHANGED <<cancel, snapshot, trigger>>
      /\ filled \subseteq filled'
      /\ UNCHANGED runStatus \/ runStatus' = "Completed"
  <2>1. pr[t].pc \notin Resetting \cup {"iterate"}
      BY DEF Straight
  <2>2. ~PropIterate(t) /\ ~PropResetStatus(t) /\ ~PropResetLock(t) /\ ~PropRefire(t)
      BY <2>1 DEF PropIterate, PropResetStatus, PropResetLock, PropRefire, Resetting
  <2> QED BY <2>2 DEF PropTake, PropReceive, PropStep, PropCheck, PropFan, PropComplete,
        PropAnchor, PropHome, PropClose, PropScan, PropFinish, PropCount, PropRetryIdle,
        PropUnlock, PropRetryEval, PropFail, redis
<1>2. trigger.pc = "done"
  <2> SUFFICES ASSUME trigger.pc # "done" PROVE FALSE
      OBVIOUS
  <2>1. pr[t].pc = "idle" /\ \A m \in Rules \X Outcomes : results[m] = 0
      BY DEF StartInOrder
  <2>2. ASSUME NEW r \in Rules, NEW o \in Outcomes PROVE ~PropReceive(t, r, o)
    <3>1. <<r, o>> \in Rules \X Outcomes
        BY <2>2
    <3>2. results[<<r, o>>] = 0
        BY <2>1, <3>1
    <3> QED BY <3>2 DEF PropReceive
  <2> QED BY <2>1, <2>2 DEF PropTake, PropStep, PropCheck, PropFan, PropComplete,
        PropAnchor, PropHome, PropIterate, PropResetStatus, PropResetLock, PropRefire,
        PropClose, PropScan, PropFinish, PropCount, PropRetryIdle,
        PropUnlock, PropRetryEval, PropFail
<1> QED BY <1>1, <1>2 DEF StartInOrder

LEMMA StartInfer ==
    ASSUME Pace # "racing", StartInOrder, NEW r \in Rules, Infer(r)
    PROVE  StartInOrder'
<1>1. trigger.pc = "done" /\ UNCHANGED <<redis, trigger, cancel>>
    BY DEF Infer, InferSuccess, InferError, MayReply, FollowUpsDone, handlers
<1> QED BY <1>1 DEF StartInOrder, redis

LEMMA StraightProp ==
    ASSUME TypeInv, ForwardGraph, StartInOrder, Straight, NEW t \in PropTasks,
           PropTake(t) \/ PropStep(t), \A r \in Rules : Phase(r)
    PROVE  Straight'
<1>1. \E x : PropTo(t, x) /\ x.pc \notin Resetting \cup {"iterate"}
             /\ (x.pc \notin {"scan", "finish"} => Fresh(x))
  <2>1. CASE PropTake(t)
    <3>1. PICK r \in Rules, o \in Outcomes : PropReceive(t, r, o)
        BY <2>1 DEF PropTake
    <3> QED BY <3>1, PropTaken DEF Resetting
  <2>2. CASE PropStep(t)
    <3>1. PICK x : PropOnward(t, x)
        BY <2>2, PropPath
    <3>2. x.pc \notin Resetting \cup {"iterate"}
        BY <3>1 DEF PropOnward, PropPaths, Resetting
    <3> QED BY <3>1, <3>2 DEF PropOnward
  <2> QED BY <2>1, <2>2
<1>2. PICK x : PropTo(t, x) /\ x.pc \notin Resetting \cup {"iterate"}
               /\ (x.pc \notin {"scan", "finish"} => Fresh(x))
    BY <1>1
<1>3. pr'[t] = x /\ \A u \in PropTasks : u # t => pr'[u] = pr[u]
    BY <1>2, PropToOthers DEF TypeInv
<1>4. UNCHANGED iteration
  <2>1. CASE PropTake(t)
      BY <2>1 DEF PropTake, PropReceive, redis
  <2>2. CASE PropStep(t)
      BY <2>2, PropStatus
  <2> QED BY <2>1, <2>2
<1>5. ASSUME NEW u \in PropTasks
      PROVE  /\ pr'[u].pc \notin Resetting \cup {"iterate"}
             /\ pr'[u].pc \notin {"scan", "finish"} => Fresh(pr'[u])
    BY <1>2, <1>3, Zenon DEF Straight
<1>6. \A u \in PropTasks : Fresh(pr[u])' <=> Fresh(pr'[u])
    BY DEF Fresh
<1> QED BY <1>4, <1>5, <1>6 DEF Straight

LEMMA StraightKept ==
    ASSUME Straight, UNCHANGED <<pr, iteration>>
    PROVE  Straight'
BY DEF Straight, Fresh

LEMMA ReadsKept ==
    ASSUME ReadsFilled, UNCHANGED ev, filled \subseteq filled'
    PROVE  ReadsFilled'
BY DEF ReadsFilled

\* How one step of the scan reads.
LEMMA EvalScans ==
    ASSUME EvWell, NEW t \in EvalTasks, EvalScan(t), NEW x, EvalTo(t, x)
    PROVE  LET r == ev[t].rule
               i == ev[t].next
               p == Inputs[r][i]
           IN  /\ x.rule = r /\ x.next = i + 1
               /\ x.pc = IF i = Len(Inputs[r]) THEN "gate" ELSE "scan"
               /\ x.avail = IF p \in filled THEN ev[t].avail \cup {p} ELSE ev[t].avail
<1> DEFINE r == ev[t].rule
           i == ev[t].next
           a == IF Inputs[r][i] \in filled THEN ev[t].avail \cup {Inputs[r][i]} ELSE ev[t].avail
           pc == IF i = Len(Inputs[r]) THEN "gate" ELSE "scan"
           y == [ev[t] EXCEPT !.avail = a, !.next = i + 1, !.pc = pc]
<1>1. EvalTo(t, y)
    BY DEF EvalScan, EvalTo
<1>2. x = y
    BY <1>1, EvalToOthers
<1>3. ev[t] \in EvalLocal
    BY DEF EvWell
<1>4. y.rule = r /\ y.next = i + 1 /\ y.pc = pc /\ y.avail = a
    BY <1>3 DEF EvalLocal
<1> HIDE DEF y
<1> QED BY <1>2, <1>4

LEMMA ReadsEval ==
    ASSUME TypeInv, WholeRules, ForwardGraph, StartInOrder, ReadsFilled,
           \A q \in Rules : Phase(q), NEW t \in EvalTasks, EvalTake(t) \/ EvalStep(t)
    PROVE  ReadsFilled'
<1> DEFINE Good(x) == /\ x.avail \subseteq filled
                      /\ x.pc = "status" => x.next = 1
                      /\ x.pc = "scan" => x.next \in DOMAIN Inputs[x.rule]
                      /\ x.pc \in {"lock", "recheck", "render"} => InputSet(x.rule) \subseteq x.avail
<1>1. UNCHANGED filled
    BY DEF EvalTake, EvalReceive, EvalStep, EvalStatus, EvalScan, EvalGate, EvalLock,
           EvalRecheck, EvalRender, EvalPublish, EvalDispatch, redis
<1>2. EvWell
    BY DEF TypeInv
<1>3. \E x : EvalTo(t, x) /\ Good(x)
  <2>1. CASE EvalTake(t)
    <3>1. PICK r \in Rules : EvalReceive(t, r)
        BY <2>1 DEF EvalTake
    <3>2. PICK x : EvalTo(t, x) /\ x.pc = "status" /\ x.next = 1 /\ x.avail = {}
        BY <3>1, EvalTaken
    <3> QED BY <3>2
  <2>2. CASE EvalStep(t)
    <3>1. PICK x : EvalOnward(t, x)
        BY <2>2, EvalPath
    <3>2. /\ EvalTo(t, x) /\ <<ev[t].pc, x.pc>> \in EvalPaths
          /\ x.pc = "idle" => x = EvalIdle
          /\ x.pc # "idle" => x.rule = ev[t].rule
          /\ ev[t].pc # "scan" /\ x.pc # "idle" => x.avail = ev[t].avail /\ x.next = ev[t].next
        BY <3>1 DEF EvalOnward
    <3>3. x.pc # "status"
        BY <3>2 DEF EvalPaths
    <3>4. Good(ev[t])
        BY DEF ReadsFilled
    <3>5. CASE x.pc = "idle"
        BY <3>2, <3>5 DEF EvalIdle
    <3>6. CASE EvalScan(t)
      <4> DEFINE p == Inputs[ev[t].rule][ev[t].next]
      <4>1. x.avail = (IF p \in filled THEN ev[t].avail \cup {p} ELSE ev[t].avail)
            /\ x.pc = (IF ev[t].next = Len(Inputs[ev[t].rule]) THEN "gate" ELSE "scan")
            /\ x.rule = ev[t].rule /\ x.next = ev[t].next + 1
          BY <1>2, <3>2, <3>6, EvalScans
      <4> HIDE DEF p
      <4>2. x.avail \subseteq filled /\ x.pc \in {"gate", "scan"}
          BY <3>4, <4>1
      <4>3. ev[t].rule \in Rules /\ ev[t].pc = "scan"
          BY <1>2, <3>6 DEF EvalScan, EvWell
      <4>4. Inputs[ev[t].rule] \in Seq(Projections)
          BY <4>3, TopologyAssumption
      <4>5. x.pc = "scan" => x.next \in DOMAIN Inputs[x.rule]
        <5>1. ev[t].next \in 1..Len(Inputs[ev[t].rule]) /\ Len(Inputs[ev[t].rule]) \in Nat
            BY <3>4, <4>3, <4>4
        <5> QED BY <4>1, <4>4, <5>1
      <4> QED BY <3>2, <3>3, <4>2, <4>5
    <3>7. CASE EvalGate(t) /\ x.pc # "idle"
      <4>1. ev[t].pc = "gate" /\ x.pc = "lock" /\ ev[t].rule \in Rules
          BY <1>2, <3>2, <3>7 DEF EvalGate, EvalPaths, EvWell
      <4>2. EvalGoto(t, "lock") \/ EvalAck(t)
          BY <3>7, Zenon DEF EvalGate
      <4>3. ~EvalAck(t)
        <5> SUFFICES ASSUME EvalAck(t) PROVE FALSE
            OBVIOUS
        <5>1. EvalTo(t, EvalIdle)
            BY DEF EvalAck, EvalTo
        <5>2. x = EvalIdle
            BY <1>2, <3>2, <5>1, EvalToOthers
        <5> QED BY <4>1, <5>2, IdleLocals
      <4>4. Ready(ev[t].rule, ev[t].avail)
          BY <3>7, <4>3, Zenon DEF EvalGate
      <4>5. InputSet(ev[t].rule) \subseteq ev[t].avail
          BY <4>1, <4>4, ReadyWhole
      <4> QED BY <3>2, <3>4, <4>1, <4>5
    <3>8. CASE EvalStatus(t) /\ x.pc # "idle"
      <4>1. ev[t].pc = "status" /\ x.pc = "scan" /\ ev[t].rule \in Rules
          BY <1>2, <3>2, <3>8 DEF EvalStatus, EvalPaths, EvWell
      <4>2. Inputs[ev[t].rule] \in Seq(Projections) /\ Inputs[ev[t].rule] # <<>>
          BY <4>1, TopologyAssumption DEF WholeRules
      <4>3. 1 \in DOMAIN Inputs[ev[t].rule]
          BY <4>2
      <4> QED BY <3>2, <3>4, <4>1, <4>3
    <3>9. CASE ~EvalScan(t) /\ ~EvalGate(t) /\ ~EvalStatus(t) /\ x.pc # "idle"
      <4>1. ev[t].pc \notin {"scan", "gate", "status"}
          BY <2>2, <3>9 DEF EvalStep, EvalLock, EvalRecheck, EvalRender, EvalPublish, EvalDispatch
      <4>2. /\ x.pc \in {"lock", "recheck", "render"} => ev[t].pc \in {"lock", "recheck", "render"}
            /\ x.pc # "scan"
          BY <3>2, <4>1 DEF EvalPaths
      <4> QED BY <3>2, <3>3, <3>4, <3>9, <4>1, <4>2
    <3> QED BY <3>5, <3>6, <3>7, <3>8, <3>9
  <2> QED BY <2>1, <2>2
<1>4. PICK x : EvalTo(t, x) /\ Good(x)
    BY <1>3
<1>5. ev'[t] = x /\ \A u \in EvalTasks : u # t => ev'[u] = ev[u]
    BY <1>2, <1>4, EvalToOthers
<1> QED BY <1>1, <1>4, <1>5 DEF ReadsFilled

LEMMA WrittenKept ==
    ASSUME NEW r \in Rules, Written(r), UNCHANGED <<pr, abandoned>>,
           status'[r] \in {status[r], "Dispatched"}, filled \subseteq filled'
    PROVE  Written(r)'
BY DEF Written

LEMMA WrittenProp ==
    ASSUME TypeInv, ForwardGraph, StartInOrder, Straight, NEW t \in PropTasks, PropStep(t),
           \A q \in Rules : Phase(q), NEW r \in Rules, Written(r)
    PROVE  Written(r)'
<1>1. PrWell /\ status \in [Rules -> {"Idle", "Dispatched", "Completed", "Failed"}]
    BY DEF TypeInv, RedisOK
<1>2. PICK x : PropOnward(t, x)
    BY PropPath
<1>3. PropTo(t, x) /\ <<pr[t].pc, x.pc>> \in PropPaths /\ (x.pc # "idle" => x.rule = pr[t].rule)
    BY <1>2 DEF PropOnward
<1>4. pr'[t] = x /\ \A u \in PropTasks : u # t => pr'[u] = pr[u]
    BY <1>1, <1>3, PropToOthers
<1>5. pr[t].rule \in Rules /\ pr[t] \in PropLocal
    BY <1>1, <1>3 DEF PrWell, PropLocalWell, PropPaths
<1>6. filled \subseteq filled' /\ abandoned \subseteq abandoned'
      /\ (pr[t].pc = "fail" => pr[t].rule \in abandoned')
  <2>1. pr[t].pc \notin Resetting \cup {"iterate"}
      BY DEF Straight
  <2>2. ~PropIterate(t) /\ ~PropResetStatus(t) /\ ~PropResetLock(t) /\ ~PropRefire(t)
      BY <2>1 DEF PropIterate, PropResetStatus, PropResetLock, PropRefire, Resetting
  <2> QED BY <2>2 DEF PropStep, PropCheck, PropFan, PropComplete,
        PropAnchor, PropHome, PropClose, PropScan, PropFinish, PropCount, PropRetryIdle,
        PropUnlock, PropRetryEval, PropFail, redis, history
<1>7. status'[r] = "Failed" => r \in abandoned'
    BY <1>1, <1>6, PropStatus DEF Written
<1>8. status'[r] = "Completed" => Route[r] \subseteq filled'
    BY <1>1, <1>6, PropStatus DEF Written
<1>9. x.rule = r => /\ x.pc = "complete" => Route[r] \subseteq filled'
                    /\ x.pc = "fan" => Route[r] \ x.todo \subseteq filled'
  <2> SUFFICES ASSUME x.rule = r, x.pc \in {"complete", "fan"}
               PROVE  /\ x.pc = "complete" => Route[r] \subseteq filled'
                      /\ x.pc = "fan" => Route[r] \ x.todo \subseteq filled'
      OBVIOUS
  <2>1. pr[t].pc \in {"check", "fan"} /\ pr[t].rule = r
      BY <1>3 DEF PropPaths
  <2>2. CASE pr[t].pc = "check"
    <3>1. PropCheck(t)
        BY <2>2 DEF PropStep, PropCheck, PropFan, PropComplete, PropAnchor,
           PropHome, PropIterate, PropResetStatus, PropResetLock, PropRefire, PropClose,
           PropScan, PropFinish, PropCount, PropRetryIdle, PropUnlock, PropRetryEval, PropFail
    <3> DEFINE y == [pr[t] EXCEPT !.todo = Route[pr[t].rule],
                                  !.pc = IF Route[pr[t].rule] = {} THEN "complete" ELSE "fan"]
    <3>2. PropGoto(t, "count") \/ PropTo(t, y)
        BY <1>5, <3>1, PropChecks DEF PropTo
    <3>3. ~PropGoto(t, "count")
      <4> SUFFICES ASSUME PropGoto(t, "count") PROVE FALSE
          OBVIOUS
      <4>1. pr'[t].pc = "count"
          BY <1>1, PropGoes
      <4> QED BY <1>4, <4>1
    <3>4. x = y
        BY <1>1, <1>4, <3>2, <3>3, PropToOthers
    <3>5. x.todo = Route[r] /\ (x.pc = "complete" => Route[r] = {})
        BY <1>5, <2>1, <3>4 DEF PropLocal
    <3> QED BY <3>5
  <2>3. CASE pr[t].pc = "fan"
    <3>1. PropFan(t)
        BY <2>3 DEF PropStep, PropCheck, PropFan, PropComplete, PropAnchor,
           PropHome, PropIterate, PropResetStatus, PropResetLock, PropRefire, PropClose,
           PropScan, PropFinish, PropCount, PropRetryIdle, PropUnlock, PropRetryEval, PropFail
    <3>2. PICK p \in pr[t].todo :
            /\ filled' = filled \cup {p}
            /\ pr' = [pr EXCEPT ![t].todo = pr[t].todo \ {p},
                                ![t].pc = IF pr[t].todo \ {p} = {} THEN "complete" ELSE "fan"]
        BY <3>1 DEF PropFan
    <3> DEFINE y == [pr[t] EXCEPT !.todo = pr[t].todo \ {p},
                                  !.pc = IF pr[t].todo \ {p} = {} THEN "complete" ELSE "fan"]
    <3>3. PropTo(t, y)
        BY <3>2 DEF PropTo
    <3>4. x = y
        BY <1>1, <1>4, <3>3, PropToOthers
    <3>5. x.todo = pr[t].todo \ {p} /\ (x.pc = "complete" => x.todo = {})
        BY <1>5, <3>4 DEF PropLocal
    <3>6. Route[r] \ pr[t].todo \subseteq filled
        BY <2>1, <2>3 DEF Written
    <3>7. Route[r] \ x.todo \subseteq filled'
        BY <3>2, <3>5, <3>6
    <3> QED BY <3>5, <3>7
  <2> QED BY <2>1, <2>2, <2>3
<1>10. ASSUME NEW u \in PropTasks, pr'[u].rule = r
       PROVE  /\ pr'[u].pc = "complete" => Route[r] \subseteq filled'
              /\ pr'[u].pc = "fan" => Route[r] \ pr'[u].todo \subseteq filled'
  <2>1. CASE u = t
      BY <1>4, <1>9, <1>10, <2>1
  <2>2. CASE u # t
      BY <1>4, <1>6, <1>10, <2>2 DEF Written
  <2> QED BY <2>1, <2>2
<1> QED BY <1>7, <1>8, <1>10 DEF Written

LEMMA WrittenTake ==
    ASSUME TypeInv, StartInOrder, NEW t \in PropTasks, PropTake(t), NEW r \in Rules, Written(r)
    PROVE  Written(r)'
<1>1. PICK q \in Rules, o \in Outcomes : PropReceive(t, q, o)
    BY DEF PropTake
<1>2. UNCHANGED <<status, filled, abandoned>>
    BY <1>1 DEF PropReceive, redis, history
<1>3. PICK x : PropTo(t, x) /\ x.pc = "check"
    BY <1>1, PropTaken
<1>4. pr'[t] = x /\ \A u \in PropTasks : u # t => pr'[u] = pr[u]
    BY <1>3, PropToOthers DEF TypeInv
<1>5. \A u \in PropTasks : pr'[u].pc \in {"complete", "fan"} => pr'[u] = pr[u]
    BY <1>3, <1>4
<1> QED BY <1>2, <1>5 DEF Written

-----------------------------------------------------------------------------
(* No wake-up is lost.                                                     *)

LEMMA PublishMore ==
    ASSUME evals \in [Rules -> Nat], NEW S, PublishEvals(S), NEW r \in Rules
    PROVE  /\ evals[r] > 0 => evals'[r] > 0
           /\ r \in S => evals'[r] > 0
BY DEF PublishEvals

\* A rule stays woken when nothing is taken from it and no input of it is filled.
LEMMA WokenKept ==
    ASSUME NEW r \in Rules, Woken(r),
           lock[r] => lock'[r],
           evals[r] > 0 => evals'[r] > 0,
           \A t \in EvalTasks : Chance(t, r) => Woken(r)',
           PropAt(r, {"retryEval"}) => Woken(r)',
           ~(InputSet(r) \subseteq filled) => Woken(r)'
    PROVE  Woken(r)'
BY DEF Woken

LEMMA ChanceKept ==
    ASSUME NEW r \in Rules, NEW t \in EvalTasks, ev'[t] = ev[t], Chance(t, r)
    PROVE  Woken(r)'
<1>1. Chance(t, r)'
    BY DEF Chance
<1> QED BY <1>1 DEF Woken

LEMMA WokenTrigger ==
    ASSUME TypeInv, WholeRules, Trigger, NEW r \in Rules, Woken(r)
    PROVE  Woken(r)'
<1>1. UNCHANGED <<lock, ev, pr>>
    BY DEF Trigger, TriggerSave, TriggerSeed, TriggerRun
<1>2. (\A t \in EvalTasks : Chance(t, r) => Woken(r)') /\ (PropAt(r, {"retryEval"}) => Woken(r)')
  <2>1. PropAt(r, {"retryEval"})' <=> PropAt(r, {"retryEval"})
      BY <1>1 DEF PropAt
  <2>2. \A t \in EvalTasks : ev'[t] = ev[t]
      BY <1>1
  <2> QED BY <2>1, <2>2, ChanceKept DEF Woken
<1>3. CASE TriggerSave \/ TriggerRun
  <2>1. UNCHANGED <<evals, filled>>
      BY <1>3 DEF TriggerSave, TriggerRun, queues
  <2>2. ~(InputSet(r) \subseteq filled) => Woken(r)'
      BY <2>1 DEF Woken
  <2> QED BY <1>1, <1>2, <2>1, <2>2, WokenKept
<1>4. ASSUME NEW n \in Nodes, TriggerSeed(n) PROVE Woken(r)'
  <2>1. \/ UNCHANGED <<filled, evals>>
        \/ \E p \in SeedsOf(n) : filled' = filled \cup {p} /\ PublishEvals(RulesOn(n))
      BY <1>4 DEF TriggerSeed
  <2>2. evals \in [Rules -> Nat]
      BY DEF TypeInv, QueuesOK
  <2>3. evals[r] > 0 => evals'[r] > 0
      BY <2>1, <2>2, PublishMore
  <2>4. ~(InputSet(r) \subseteq filled) => Woken(r)'
    <3> SUFFICES ASSUME ~(InputSet(r) \subseteq filled), InputSet(r) \subseteq filled'
                 PROVE  evals'[r] > 0
        BY DEF Woken
    <3>1. PICK p \in SeedsOf(n) : filled' = filled \cup {p} /\ PublishEvals(RulesOn(n))
        BY <2>1
    <3>2. p \in InputSet(r)
        BY <3>1
    <3>3. Owner[r] = n
        BY <3>1, <3>2 DEF WholeRules, SeedsOf
    <3>4. r \in RulesOn(n)
        BY <3>3 DEF RulesOn
    <3> QED BY <2>2, <3>1, <3>4, PublishMore
  <2> QED BY <1>1, <1>2, <2>3, <2>4, WokenKept
<1> QED BY <1>3, <1>4 DEF Trigger

LEMMA WokenEval ==
    ASSUME TypeInv, WholeRules, ForwardGraph, StartInOrder, ReadsFilled,
           \A q \in Rules : Phase(q), NEW t \in EvalTasks, EvalTake(t) \/ EvalStep(t),
           NEW r \in Rules, Woken(r)
    PROVE  Woken(r)'
<1>1. UNCHANGED <<pr, filled>>
    BY DEF EvalTake, EvalReceive, EvalStep, EvalStatus, EvalScan, EvalGate, EvalLock,
           EvalRecheck, EvalRender, EvalPublish, EvalDispatch, redis
<1>2. EvWell /\ lock \in [Rules -> BOOLEAN] /\ evals \in [Rules -> Nat] /\ Phase(r)
    BY DEF TypeInv, RedisOK, QueuesOK
<1>3. PropAt(r, {"retryEval"}) => Woken(r)'
  <2>1. PropAt(r, {"retryEval"})' <=> PropAt(r, {"retryEval"})
      BY <1>1 DEF PropAt
  <2> QED BY <2>1 DEF Woken
<1>4. ~(InputSet(r) \subseteq filled) => Woken(r)'
    BY <1>1 DEF Woken
<1>5. CASE EvalTake(t)
  <2>1. PICK q \in Rules : EvalReceive(t, q)
      BY <1>5 DEF EvalTake
  <2>2. PICK x : EvalTo(t, x) /\ x.pc = "status" /\ x.rule = q
      BY <2>1, EvalTaken
  <2>3. ev'[t] = x /\ \A u \in EvalTasks : u # t => ev'[u] = ev[u]
      BY <1>2, <2>2, EvalToOthers
  <2>4. UNCHANGED lock /\ ev[t].pc = "idle" /\ evals' = [evals EXCEPT ![q] = @ - 1]
      BY <2>1 DEF EvalReceive, redis
  <2>5. CASE q = r
    <3>1. Chance(t, r)'
        BY <2>2, <2>3, <2>5 DEF Chance
    <3> QED BY <3>1 DEF Woken
  <2>6. CASE q # r
    <3>1. evals'[r] = evals[r]
        BY <1>2, <2>4, <2>6
    <3>2. \A u \in EvalTasks : Chance(u, r) => u # t
        BY <2>4 DEF Chance
    <3>3. \A u \in EvalTasks : Chance(u, r) => Woken(r)'
        BY <2>3, <3>2, ChanceKept
    <3> QED BY <1>3, <1>4, <2>4, <3>1, <3>3, WokenKept
  <2> QED BY <2>5, <2>6
<1>6. CASE EvalStep(t)
  <2>1. PICK x : EvalOnward(t, x)
      BY <1>6, EvalPath
  <2>2. /\ EvalTo(t, x) /\ <<ev[t].pc, x.pc>> \in EvalPaths
        /\ x.pc # "idle" => x.rule = ev[t].rule
        /\ ev[t].pc # "scan" /\ x.pc # "idle" => x.avail = ev[t].avail /\ x.next = ev[t].next
      BY <2>1 DEF EvalOnward
  <2>3. ev'[t] = x /\ \A u \in EvalTasks : u # t => ev'[u] = ev[u]
      BY <1>2, <2>2, EvalToOthers
  <2>4. UNCHANGED evals /\ (lock[r] => lock'[r])
    <3>1. CASE EvalLock(t)
      <4>1. UNCHANGED lock \/ lock' = [lock EXCEPT ![ev[t].rule] = TRUE]
          BY <3>1, Zenon DEF EvalLock
      <4> QED BY <1>2, <3>1, <4>1 DEF EvalLock, queues
    <3>2. CASE ~EvalLock(t)
        BY <1>6, <3>2 DEF EvalStep, EvalStatus, EvalScan, EvalGate,
             EvalRecheck, EvalRender, EvalPublish, EvalDispatch, redis, queues
    <3> QED BY <3>1, <3>2
  <2>5. ASSUME Chance(t, r) PROVE Woken(r)'
    <3>1. ev[t].rule = r
        BY <2>5 DEF Chance
    <3>2. CASE EvalStatus(t)
      <4>1. ev[t].pc = "status" /\ UNCHANGED lock /\ snapshot
          BY <3>2 DEF EvalStatus, redis, StartInOrder
      <4>2. CASE x.pc = "scan"
        <5>1. x.next = 1 /\ x.rule = r
            BY <2>2, <3>1, <4>1, <4>2 DEF ReadsFilled
        <5>2. \A i \in DOMAIN Inputs[r] : ~(i < 1)
            BY TopologyAssumption
        <5>3. Chance(t, r)'
            BY <2>3, <4>2, <5>1, <5>2 DEF Chance
        <5> QED BY <5>3 DEF Woken
      <4>3. CASE x.pc # "scan"
        <5>1. EvalAck(t) \/ EvalGoto(t, "scan")
            BY <3>1, <3>2 DEF EvalStatus, WholeRules
        <5>2. ~EvalGoto(t, "scan")
            BY <1>2, <2>3, <4>3, EvalGotoTo, EvalToOthers
        <5>3. status[r] \in {"Dispatched", "Completed"}
          <6> SUFFICES ASSUME status[r] \notin {"Dispatched", "Completed"} PROVE FALSE
              OBVIOUS
          <6>1. EvalGoto(t, "scan")
              BY <3>1, <3>2, <4>1 DEF EvalStatus, WholeRules
          <6> QED BY <5>2, <6>1
        <5>4. lock[r]
            BY <1>2, <5>3 DEF Phase
        <5> QED BY <4>1, <5>4 DEF Woken
      <4> QED BY <4>2, <4>3
    <3>3. CASE EvalScan(t)
      <4> DEFINE i == ev[t].next
                 p == Inputs[r][i]
      <4>1. /\ ev[t].pc = "scan"
            /\ \A j \in DOMAIN Inputs[r] : j < i => Inputs[r][j] \in ev[t].avail
            /\ i \in DOMAIN Inputs[r]
          BY <2>5, <3>1, <3>3 DEF EvalScan, Chance, ReadsFilled
      <4>2. /\ x.rule = r /\ x.next = i + 1
            /\ x.pc = (IF i = Len(Inputs[r]) THEN "gate" ELSE "scan")
            /\ x.avail = (IF p \in filled THEN ev[t].avail \cup {p} ELSE ev[t].avail)
          BY <1>2, <2>2, <3>1, <3>3, EvalScans
      <4>3. Inputs[r] \in Seq(Projections) /\ DOMAIN Inputs[r] = 1..Len(Inputs[r])
            /\ Len(Inputs[r]) \in Nat
          BY TopologyAssumption
      <4>4. CASE p \notin filled
        <5>1. p \in InputSet(r)
            BY <4>1 DEF InputSet
        <5> QED BY <1>4, <4>4, <5>1
      <4>5. CASE p \in filled
        <5>1. \A j \in DOMAIN Inputs[r] : j < i + 1 => Inputs[r][j] \in x.avail
          <6> SUFFICES ASSUME NEW j \in DOMAIN Inputs[r], j < i + 1 PROVE Inputs[r][j] \in x.avail
              OBVIOUS
          <6>1. j < i \/ j = i
              BY <4>1, <4>3
          <6> QED BY <4>1, <4>2, <4>5, <6>1
        <5>2. CASE i = Len(Inputs[r])
          <6>1. \A j \in DOMAIN Inputs[r] : Inputs[r][j] \in x.avail
              BY <4>3, <5>1, <5>2
          <6>2. InputSet(r) \subseteq x.avail
              BY <6>1 DEF InputSet
          <6>3. Chance(t, r)'
              BY <2>3, <4>2, <5>2, <6>2 DEF Chance
          <6> QED BY <6>3 DEF Woken
        <5>3. CASE i # Len(Inputs[r])
          <6>1. Chance(t, r)'
              BY <2>3, <4>2, <5>1, <5>3 DEF Chance
          <6> QED BY <6>1 DEF Woken
        <5> QED BY <5>2, <5>3
      <4> QED BY <4>4, <4>5
    <3>4. CASE EvalGate(t)
      <4>1. InputSet(r) \subseteq ev[t].avail
          BY <2>5, <3>4 DEF EvalGate, Chance
      <4>2. Ready(r, ev[t].avail) /\ IsForwardFamily(r)
          BY <4>1, ReadyWhole, NoHomes
      <4>3. EvalGoto(t, "lock")
          BY <3>1, <3>4, <4>2, Zenon DEF EvalGate
      <4>4. x.pc = "lock" /\ x.rule = r
          BY <1>2, <2>3, <3>1, <4>3, EvalGotoTo, EvalToOthers
      <4>5. Chance(t, r)'
          BY <2>3, <4>4 DEF Chance
      <4> QED BY <4>5 DEF Woken
    <3>5. CASE EvalLock(t)
      <4>1. lock'[r]
          BY <1>2, <3>1, <3>5 DEF EvalLock
      <4> QED BY <4>1 DEF Woken
    <3> QED BY <1>6, <2>5, <3>2, <3>3, <3>4, <3>5
            DEF EvalStep, EvalRecheck, EvalRender, EvalPublish, EvalDispatch, Chance
  <2>6. \A u \in EvalTasks : Chance(u, r) => Woken(r)'
    <3> SUFFICES ASSUME NEW u \in EvalTasks, Chance(u, r) PROVE Woken(r)'
        OBVIOUS
    <3>1. CASE u = t
        BY <2>5, <3>1
    <3>2. CASE u # t
        BY <2>3, <3>2, ChanceKept
    <3> QED BY <3>1, <3>2
  <2> QED BY <1>3, <1>4, <2>4, <2>6, WokenKept
<1> QED BY <1>5, <1>6

LEMMA WokenTake ==
    ASSUME TypeInv, StartInOrder, NEW t \in PropTasks, PropTake(t), NEW r \in Rules, Woken(r)
    PROVE  Woken(r)'
<1>1. PICK q \in Rules, o \in Outcomes : PropReceive(t, q, o)
    BY DEF PropTake
<1>2. UNCHANGED <<lock, evals, ev, filled>> /\ pr[t].pc = "idle"
    BY <1>1 DEF PropReceive, redis
<1>3. PICK x : PropTo(t, x)
    BY <1>1, PropTaken
<1>4. \A u \in PropTasks : u # t => pr'[u] = pr[u]
    BY <1>3, PropToOthers DEF TypeInv
<1>5. PropAt(r, {"retryEval"}) => PropAt(r, {"retryEval"})'
  <2> SUFFICES ASSUME NEW u \in PropTasks, pr[u].rule = r, pr[u].pc = "retryEval"
               PROVE  PropAt(r, {"retryEval"})'
      BY DEF PropAt
  <2>1. pr'[u] = pr[u]
      BY <1>2, <1>4
  <2> QED BY <2>1 DEF PropAt
<1>6. \A u \in EvalTasks : Chance(u, r) => Woken(r)'
    BY <1>2, ChanceKept
<1>7. PropAt(r, {"retryEval"}) => Woken(r)'
    BY <1>5 DEF Woken
<1>8. ~(InputSet(r) \subseteq filled) => Woken(r)'
    BY <1>2 DEF Woken
<1> QED BY <1>2, <1>6, <1>7, <1>8, WokenKept

LEMMA WokenProp ==
    ASSUME TypeInv, WholeRules, ForwardGraph, StartInOrder, Straight, NEW t \in PropTasks,
           PropStep(t), \A q \in Rules : Phase(q), NEW r \in Rules, Woken(r)
    PROVE  Woken(r)'
<1>1. PrWell /\ lock \in [Rules -> BOOLEAN] /\ evals \in [Rules -> Nat]
    BY DEF TypeInv, RedisOK, QueuesOK
<1>2. PICK x : PropOnward(t, x)
    BY PropPath
<1>3. PropTo(t, x) /\ <<pr[t].pc, x.pc>> \in PropPaths /\ (x.pc # "idle" => x.rule = pr[t].rule)
    BY <1>2 DEF PropOnward
<1>4. pr'[t] = x /\ \A u \in PropTasks : u # t => pr'[u] = pr[u]
    BY <1>1, <1>3, PropToOthers
<1>5. UNCHANGED ev
    BY PropStatus
<1>6. \/ UNCHANGED <<filled, evals>> /\ pr[t].pc # "retryEval"
      \/ \E p \in pr[t].todo : filled' = filled \cup {p} /\ PublishEvals(Affected(p))
      \/ UNCHANGED filled /\ PublishEvals({pr[t].rule})
  <2>1. pr[t].pc \notin Resetting \cup {"iterate"}
      BY DEF Straight
  <2>2. ~PropIterate(t) /\ ~PropResetStatus(t) /\ ~PropResetLock(t) /\ ~PropRefire(t)
      BY <2>1 DEF PropIterate, PropResetStatus, PropResetLock, PropRefire, Resetting
  <2>3. CASE PropFan(t)
      BY <2>3 DEF PropFan
  <2>4. CASE PropRetryEval(t)
      BY <2>4 DEF PropRetryEval, redis
  <2>5. CASE ~PropFan(t) /\ ~PropRetryEval(t)
      BY <2>2, <2>5 DEF PropStep, PropCheck, PropComplete,
        PropAnchor, PropHome, PropClose, PropScan, PropFinish, PropCount, PropRetryIdle,
        PropUnlock, PropFail, redis, queues
  <2> QED BY <2>3, <2>4, <2>5
<1>7. evals[r] > 0 => evals'[r] > 0
    BY <1>1, <1>6, PublishMore
<1>8. \A u \in EvalTasks : Chance(u, r) => Woken(r)'
    BY <1>5, ChanceKept
<1>9. ~(InputSet(r) \subseteq filled) => Woken(r)'
  <2> SUFFICES ASSUME ~(InputSet(r) \subseteq filled), InputSet(r) \subseteq filled'
               PROVE  evals'[r] > 0
      BY DEF Woken
  <2>1. PICK p \in pr[t].todo : filled' = filled \cup {p} /\ PublishEvals(Affected(p))
      BY <1>6
  <2>2. r \in Affected(p)
      BY <2>1 DEF Affected
  <2> QED BY <1>1, <2>1, <2>2, PublishMore
<1>10. PropAt(r, {"retryEval"}) => Woken(r)'
  <2> SUFFICES ASSUME NEW u \in PropTasks, pr[u].rule = r, pr[u].pc = "retryEval"
               PROVE  Woken(r)'
      BY DEF PropAt
  <2>1. CASE u # t
    <3>1. PropAt(r, {"retryEval"})'
        BY <1>4, <2>1 DEF PropAt
    <3> QED BY <3>1 DEF Woken
  <2>2. CASE u = t
    <3>1. PropRetryEval(t)
        BY <2>2 DEF PropStep, PropCheck, PropFan, PropComplete, PropAnchor,
           PropHome, PropIterate, PropResetStatus, PropResetLock, PropRefire, PropClose,
           PropScan, PropFinish, PropCount, PropRetryIdle, PropUnlock, PropRetryEval, PropFail
    <3>2. PublishEvals({pr[t].rule})
        BY <3>1 DEF PropRetryEval
    <3>3. evals'[r] > 0
        BY <1>1, <2>2, <3>2, PublishMore
    <3> QED BY <3>3 DEF Woken
  <2> QED BY <2>1, <2>2
<1>11. CASE lock[r] => lock'[r]
    BY <1>7, <1>8, <1>9, <1>10, <1>11, WokenKept
<1>12. CASE lock[r] /\ ~lock'[r]
  <2>1. pr[t].pc = "unlock" /\ pr[t].rule = r
      BY <1>1, <1>12, PropStatus
  <2>2. x.pc = "retryEval" /\ x.rule = r
      BY <1>3, <2>1 DEF PropPaths
  <2>3. PropAt(r, {"retryEval"})'
      BY <1>4, <2>2 DEF PropAt
  <2> QED BY <2>3 DEF Woken
<1> QED BY <1>11, <1>12

LEMMA WokenInfer ==
    ASSUME NEW q \in Rules, Infer(q), NEW r \in Rules, Woken(r)
    PROVE  Woken(r)'
<1>1. UNCHANGED <<lock, evals, ev, pr, filled>>
    BY DEF Infer, InferSuccess, InferError, redis, handlers
<1>2. \A u \in EvalTasks : Chance(u, r) => Woken(r)'
    BY <1>1, ChanceKept
<1>3. PropAt(r, {"retryEval"})' <=> PropAt(r, {"retryEval"})
    BY <1>1 DEF PropAt
<1> QED BY <1>1, <1>2, <1>3 DEF Woken

-----------------------------------------------------------------------------
(* The last rule to end closes the run.                                    *)

LEMMA OverStays ==
    ASSUME TypeInv, WholeRules, Straight, NEW t \in PropTasks, PropStep(t),
           pr[t].pc \notin {"complete", "fail"}, \A q \in Rules : Phase(q), NEW r \in Rules
    PROVE  Over(r)' => Over(r)
<1>1. status \in [Rules -> {"Idle", "Dispatched", "Completed", "Failed"}]
    BY DEF TypeInv, RedisOK
<1>2. UNCHANGED status \/ status' = [status EXCEPT ![pr[t].rule] = "Idle"]
    BY PropStatus
<1> QED BY <1>1, <1>2 DEF Over

LEMMA ClosedProp ==
    ASSUME TypeInv, WholeRules, ForwardGraph, StartInOrder, Straight, ClosedInTheEnd,
           NEW t \in PropTasks, PropStep(t), \A q \in Rules : Phase(q)
    PROVE  ClosedInTheEnd'
<1> SUFFICES ASSUME Rules # {}, \A r \in Rules : Over(r)', runStatus' # "Completed"
             PROVE  \E u \in PropTasks : Closing(pr'[u])
    BY DEF ClosedInTheEnd, Closing, Fresh
<1>1. PrWell
    BY DEF TypeInv
<1>2. PICK x : PropOnward(t, x)
    BY PropPath
<1>3. /\ PropTo(t, x) /\ <<pr[t].pc, x.pc>> \in PropPaths
      /\ pr[t].pc = "close" /\ x.pc = "scan" => Fresh(x)
    BY <1>2 DEF PropOnward
<1>4. pr'[t] = x /\ \A u \in PropTasks : u # t => pr'[u] = pr[u]
    BY <1>1, <1>3, PropToOthers
<1>5. CASE pr[t].pc \in {"complete", "fail"}
  <2>1. x.pc \in {"anchor", "close"}
      BY <1>3, <1>5 DEF PropPaths
  <2> QED BY <1>4, <2>1 DEF Closing
<1>6. CASE pr[t].pc \notin {"complete", "fail"}
  <2>1. \A r \in Rules : Over(r)
      BY <1>6, OverStays
  <2>2. ~PropFinish(t)
      BY DEF PropFinish
  <2>3. runStatus # "Completed"
    <3>1. pr[t].pc \notin Resetting \cup {"iterate"}
        BY DEF Straight
    <3>2. ~PropIterate(t) /\ ~PropResetStatus(t) /\ ~PropResetLock(t) /\ ~PropRefire(t)
        BY <3>1 DEF PropIterate, PropResetStatus, PropResetLock, PropRefire, Resetting
    <3>3. UNCHANGED runStatus
        BY <2>2, <3>2 DEF PropStep, PropCheck, PropFan, PropComplete,
          PropAnchor, PropHome, PropClose, PropScan, PropCount, PropRetryIdle,
          PropUnlock, PropRetryEval, PropFail, redis
    <3> QED BY <3>3
  <2>4. PICK u \in PropTasks : Closing(pr[u])
      BY <2>1, <2>3 DEF ClosedInTheEnd
  <2>5. CASE u # t
      BY <1>4, <2>4, <2>5
  <2>6. CASE u = t
    <3>1. pr[t].pc \in {"anchor", "home", "close", "finish", "scan"}
          /\ (pr[t].pc = "scan" => Fresh(pr[t]))
        BY <2>4, <2>6 DEF Closing
    <3>2. CASE pr[t].pc \in {"anchor", "home"}
      <4>1. x.pc \in {"home", "close"}
          BY <1>3, <3>2 DEF PropPaths
      <4> QED BY <1>4, <4>1 DEF Closing
    <3>3. CASE pr[t].pc = "close"
      <4>1. PropClose(t)
          BY <3>3 DEF PropStep, PropCheck, PropFan, PropComplete, PropAnchor,
           PropHome, PropIterate, PropResetStatus, PropResetLock, PropRefire, PropClose,
           PropScan, PropFinish, PropCount, PropRetryIdle, PropUnlock, PropRetryEval, PropFail
      <4> DEFINE y == [pr[t] EXCEPT !.scan = Rules, !.pc = "scan"]
      <4>2. PropTo(t, y)
          BY <2>3, <4>1 DEF PropClose, PropTo, StartInOrder
      <4>3. x = y
          BY <1>1, <1>4, <4>2, PropToOthers
      <4>4. y.pc = "scan"
          BY <1>1 DEF PrWell, PropLocal
      <4> QED BY <1>3, <1>4, <3>3, <4>3, <4>4 DEF Closing
    <3>4. CASE pr[t].pc = "finish"
      <4>1. PropFinish(t)
          BY <3>4 DEF PropStep, PropCheck, PropFan, PropComplete, PropAnchor,
           PropHome, PropIterate, PropResetStatus, PropResetLock, PropRefire, PropClose,
           PropScan, PropFinish, PropCount, PropRetryIdle, PropUnlock, PropRetryEval, PropFail
      <4> QED BY <2>2, <4>1
    <3>5. CASE pr[t].pc = "scan"
      <4>1. PropScan(t)
          BY <3>5 DEF PropStep, PropCheck, PropFan, PropComplete, PropAnchor,
           PropHome, PropIterate, PropResetStatus, PropResetLock, PropRefire, PropClose,
           PropScan, PropFinish, PropCount, PropRetryIdle, PropUnlock, PropRetryEval, PropFail
      <4>2. PICK q \in pr[t].scan :
              LET done == status[q] \in {"Completed", "Failed"}
                  looping == status[q] = "Idle" /\ q \in Controllers /\ iteration[q] > 0
                  v == [pr[t] EXCEPT !.scan = @ \ {q},
                                     !.termsDone = @ /\ (q \in Terminal => done),
                                     !.running = @ \/ status[q] = "Dispatched" \/ looping,
                                     !.settled = @ /\ done]
              IN  pr' = [pr EXCEPT ![t] =
                           IF v.scan # {} THEN v
                           ELSE IF Finished(v) THEN [v EXCEPT !.pc = "finish"]
                           ELSE PropIdle]
          BY <4>1 DEF PropScan
      <4> DEFINE done == status[q] \in {"Completed", "Failed"}
                 looping == status[q] = "Idle" /\ q \in Controllers /\ iteration[q] > 0
                 rest == pr[t].scan \ {q}
                 terms == pr[t].termsDone /\ (q \in Terminal => done)
                 runs == pr[t].running \/ status[q] = "Dispatched" \/ looping
                 ends == pr[t].settled /\ done
                 v == [pr[t] EXCEPT !.scan = rest, !.termsDone = terms,
                                    !.running = runs, !.settled = ends]
                 w == [v EXCEPT !.pc = "finish"]
                 y == IF v.scan # {} THEN v ELSE IF Finished(v) THEN w ELSE PropIdle
      <4>3. PropTo(t, y)
          BY <4>2, Zenon DEF PropTo
      <4>4. x = y
          BY <1>1, <1>4, <4>3, PropToOthers
      <4>5. pr[t] \in PropLocal
          BY <1>1 DEF PrWell
      <4>6. q \in Rules
          BY <4>5 DEF PropLocal
      <4>7. done /\ status[q] # "Idle" /\ status[q] # "Dispatched"
          BY <2>1, <4>6 DEF Over
      <4>8. terms /\ ~runs /\ ends
          BY <3>1, <3>5, <4>7 DEF Fresh
      <4> HIDE DEF done, looping, rest, terms, runs, ends
      <4>9. /\ v.pc = "scan" /\ w.pc = "finish" /\ v.scan = rest
            /\ (v.termsDone <=> terms) /\ (v.running <=> runs) /\ (v.settled <=> ends)
          BY <3>5, <4>5 DEF PropLocal
      <4> HIDE DEF v, w
      <4>10. Fresh(v)
          BY <4>8, <4>9 DEF Fresh
      <4>11. Finished(v)
          BY <4>10 DEF Fresh, Finished
      <4>12. y = v \/ y = w
          BY <4>11
      <4>13. Closing(v) /\ Closing(w)
          BY <4>9, <4>10 DEF Closing
      <4> HIDE DEF y
      <4>14. Closing(x)
          BY <4>4, <4>12, <4>13
      <4> QED BY <1>4, <4>14
    <3> QED BY <3>1, <3>2, <3>3, <3>4, <3>5
  <2> QED BY <2>5, <2>6
<1> QED BY <1>5, <1>6

\* Whatever else a step does, a rule that has ended is left alone.
LEMMA ClosedKept ==
    ASSUME ClosedInTheEnd, \A r \in Rules : Over(r)' => Over(r),
           runStatus = "Completed" => runStatus' = "Completed",
           \A u \in PropTasks : Closing(pr[u]) => pr'[u] = pr[u]
    PROVE  ClosedInTheEnd'
<1> SUFFICES ASSUME Rules # {}, \A r \in Rules : Over(r)', runStatus' # "Completed"
             PROVE  \E u \in PropTasks : Closing(pr'[u])
    BY DEF ClosedInTheEnd, Closing, Fresh
<1>1. PICK u \in PropTasks : Closing(pr[u])
    BY DEF ClosedInTheEnd
<1> QED BY <1>1

LEMMA ClosedEval ==
    ASSUME TypeInv, ClosedInTheEnd, NEW t \in EvalTasks, EvalTake(t) \/ EvalStep(t)
    PROVE  ClosedInTheEnd'
<1>1. /\ UNCHANGED <<runStatus, pr>>
      /\ UNCHANGED status \/ status' = [status EXCEPT ![ev[t].rule] = "Dispatched"]
    BY DEF EvalTake, EvalReceive, EvalStep, EvalStatus, EvalScan, EvalGate, EvalLock,
         EvalRecheck, EvalRender, EvalPublish, EvalDispatch, redis
<1>2. \A r \in Rules : Over(r)' => Over(r)
    BY <1>1 DEF Over, TypeInv, RedisOK
<1> QED BY <1>1, <1>2, ClosedKept

LEMMA ClosedTake ==
    ASSUME TypeInv, StartInOrder, ClosedInTheEnd, NEW t \in PropTasks, PropTake(t)
    PROVE  ClosedInTheEnd'
<1>1. PICK q \in Rules, o \in Outcomes : PropReceive(t, q, o)
    BY DEF PropTake
<1>2. UNCHANGED <<status, runStatus>> /\ pr[t].pc = "idle"
    BY <1>1 DEF PropReceive, redis
<1>3. PICK x : PropTo(t, x)
    BY <1>1, PropTaken
<1>4. \A u \in PropTasks : u # t => pr'[u] = pr[u]
    BY <1>3, PropToOthers DEF TypeInv
<1>5. ~Closing(pr[t])
    BY <1>2 DEF Closing
<1>6. \A r \in Rules : Over(r)' => Over(r)
    BY <1>2 DEF Over
<1> QED BY <1>2, <1>4, <1>5, <1>6, ClosedKept

LEMMA ClosedTrigger ==
    ASSUME StartInOrder, Trigger
    PROVE  ClosedInTheEnd'
<1>1. trigger.pc # "done" /\ UNCHANGED status
    BY DEF Trigger, TriggerSave, TriggerSeed, TriggerRun
<1>2. \A r \in Rules : ~Over(r)'
    BY <1>1 DEF StartInOrder, Over
<1> QED BY <1>2 DEF ClosedInTheEnd

LEMMA ClosedInfer ==
    ASSUME ClosedInTheEnd, NEW q \in Rules, Infer(q)
    PROVE  ClosedInTheEnd'
<1>1. UNCHANGED <<status, runStatus, pr>>
    BY DEF Infer, InferSuccess, InferError, redis, handlers
<1>2. \A r \in Rules : Over(r)' => Over(r)
    BY <1>1 DEF Over
<1> QED BY <1>1, <1>2, ClosedKept

-----------------------------------------------------------------------------
(* All together                                                            *)

LEMMA AwakeInit ==
    ASSUME WholeRules, Init
    PROVE  Awake
<1>1. /\ \A t \in EvalTasks : ev[t] = EvalIdle
      /\ \A t \in PropTasks : pr[t] = PropIdle
      /\ \A r \in Rules : status[r] = "Idle" /\ ~lock[r] /\ evals[r] = 0 /\ iteration[r] = 0
      /\ \A r \in Rules : requests[r] = 0
      /\ \A m \in Rules \X Outcomes : results[m] = 0
      /\ trigger.pc = "save" /\ ~snapshot /\ filled = {}
      /\ cancel = "idle" /\ runStatus = "Absent"
    BY DEF Init
<1>2. EvalIdle.avail = {}
    BY DEF EvalIdle
<1>3. StartInOrder
    BY <1>1, IdleLocals DEF StartInOrder, Over
<1>4. Straight
    BY <1>1, IdleLocals, IdleFresh DEF Straight, Resetting
<1>5. ReadsFilled
    BY <1>1, <1>2, IdleLocals DEF ReadsFilled
<1>6. ASSUME NEW r \in Rules PROVE Phase(r) /\ Written(r) /\ ~Over(r)
  <2>1. (\A t \in EvalTasks : ~EvalHolds(t, r)) /\ (\A t \in PropTasks : ~PropHolds(t, r))
      BY <1>1, IdleLocals DEF EvalHolds, PropHolds
  <2>2. Waiting(r) = 0
    <3>1. <<r, "success">> \in Rules \X Outcomes /\ <<r, "error">> \in Rules \X Outcomes
        BY DEF Outcomes
    <3> QED BY <1>1, <3>1 DEF Waiting
  <2>3. ~Permitted(r)
      BY <2>1, <2>2 DEF Permitted
  <2>4. ~PropAt(r, {"unlock"}) /\ \A t \in EvalTasks : ev[t].pc # "dispatch"
      BY <1>1, IdleLocals DEF PropAt
  <2> QED BY <1>1, <2>1, <2>3, <2>4, IdleLocals DEF Phase, Written, Over
<1>7. ASSUME NEW r \in Rules PROVE Woken(r)
  <2>1. Inputs[r] \in Seq(Projections) /\ Inputs[r] # <<>>
      BY TopologyAssumption DEF WholeRules
  <2>2. 1 \in DOMAIN Inputs[r]
      BY <2>1
  <2>3. Inputs[r][1] \in InputSet(r)
      BY <2>2 DEF InputSet
  <2> QED BY <1>1, <2>3 DEF Woken
<1>8. ClosedInTheEnd
    BY <1>6 DEF ClosedInTheEnd
<1> QED BY <1>3, <1>4, <1>5, <1>6, <1>7, <1>8 DEF Awake

\* Inference takes its time, nothing goes round, and rules need all of their inputs.
Favourable == Pace # "racing" /\ ForwardGraph /\ WholeRules

LEMMA AwakeNext ==
    ASSUME Favourable, TypeInv, TypeInv', Flight, Flight', AwakeInv, [Next]_vars
    PROVE  AwakeInv'
<1> SUFFICES ASSUME OnlyErrors' PROVE Awake'
    BY DEF AwakeInv
<1>1. CASE UNCHANGED vars
  <2>1. OnlyErrors
      BY <1>1 DEF OnlyErrors, vars, bounds
  <2>2. Awake
      BY <2>1 DEF AwakeInv
  <2>3. /\ UNCHANGED <<runStatus, snapshot, status, lock, filled, iteration>>
        /\ UNCHANGED <<evals, requests, results, trigger, cancel, ev, pr, abandoned>>
      BY <1>1 DEF vars, redis, queues, handlers, history
  <2>4. \A r \in Rules : Waiting(r)' = Waiting(r) /\ (Over(r)' <=> Over(r))
      BY <2>3 DEF Waiting, Over
  <2>5. StartInOrder'
      BY <2>2, <2>3, <2>4 DEF Awake, StartInOrder
  <2>6. Straight' /\ ReadsFilled'
      BY <2>2, <2>3, StraightKept, ReadsKept DEF Awake
  <2>7. ASSUME NEW r \in Rules PROVE Phase(r)' /\ Written(r)' /\ Woken(r)'
    <3>1. /\ \A u \in EvalTasks : (EvalHolds(u, r)' <=> EvalHolds(u, r))
                                   /\ (Marking(u, r)' <=> Marking(u, r))
          /\ \A u \in PropTasks : PropHolds(u, r)' <=> PropHolds(u, r)
          /\ PropAt(r, {"unlock"})' <=> PropAt(r, {"unlock"})
          /\ PropAt(r, {"retryEval"})' <=> PropAt(r, {"retryEval"})
        BY <2>3 DEF EvalHolds, Marking, PropHolds, PropAt
    <3>2. Permitted(r)' <=> Permitted(r)
        BY <2>4, <3>1 DEF Permitted
    <3>3. Phase(r) /\ Written(r) /\ Woken(r)
        BY <2>2 DEF Awake
    <3>4. \A u \in EvalTasks : Marking(u, r)' => requests'[r] > 0
        BY <2>3, <3>1, <3>3 DEF Phase, Marking
    <3>5. Phase(r)'
        BY <2>3, <3>1, <3>2, <3>3, <3>4, PhaseKept
    <3>6. Written(r)'
        BY <2>3, <3>3, WrittenKept
    <3>7. \A u \in EvalTasks : Chance(u, r) => Woken(r)'
        BY <2>3, ChanceKept
    <3>8. Woken(r)'
        BY <2>3, <3>1, <3>3, <3>7 DEF Woken
    <3> QED BY <3>5, <3>6, <3>8
  <2>8. ClosedInTheEnd'
      BY <2>2, <2>3, <2>4, ClosedKept DEF Awake
  <2> QED BY <2>5, <2>6, <2>7, <2>8 DEF Awake
<1>2. CASE Next
  <2>1. OnlyErrors
    <3>1. \A e \in Events \ {"error"} : budget[e] = Budget[e]
      <4> SUFFICES ASSUME NEW e \in Events \ {"error"} PROVE budget[e] = Budget[e]
          OBVIOUS
      <4>1. budget[e] \in Nat /\ Budget[e] \in Nat /\ budget'[e] = Budget[e]
          BY BudgetType DEF OnlyErrors
      <4>2. budget'[e] <= budget[e] /\ budget[e] <= Budget[e]
          BY <1>2, BudgetNext DEF Flight, BudgetKept
      <4> QED BY <4>1, <4>2
    <3> QED BY <3>1 DEF OnlyErrors
  <2>2. Awake
      BY <2>1 DEF AwakeInv
  <2>3. StartInOrder /\ Straight /\ ReadsFilled /\ ClosedInTheEnd
        /\ \A r \in Rules : Phase(r) /\ Written(r) /\ Woken(r)
      BY <2>2 DEF Awake
  <2>4. /\ Undisturbed' /\ Calm
        /\ ~CancelMark /\ ~CancelCleanup
        /\ \A t \in EvalTasks : ~EvalCrash(t)
        /\ \A t \in PropTasks : ~PropIterate(t) /\ ~PropCrash(t)
        /\ \A r \in Rules : ~InferLose(r) /\ ~LockExpire(r) /\ \A o \in Outcomes : ~InferAgain(r, o)
      BY <1>2, <2>3, OnlyErrorsStep
  <2>5. \A r \in Rules : Sound(r) /\ Sound(r)'
      BY <2>4 DEF Flight, Calm
  <2>6. Pace # "racing" /\ ForwardGraph /\ WholeRules
      BY DEF Favourable
  <2>7. CASE Trigger
    <3>1. /\ UNCHANGED <<status, lock, iteration, requests, results, ev, pr, abandoned>>
          /\ filled \subseteq filled'
        BY <2>7 DEF Trigger, TriggerSave, TriggerSeed, TriggerRun, queues, history
    <3>2. ASSUME NEW r \in Rules PROVE Phase(r)' /\ Written(r)' /\ Woken(r)'
      <4>1. Phase(r) /\ Written(r) /\ Woken(r)
          BY <2>3
      <4>2. /\ \A u \in EvalTasks : (EvalHolds(u, r)' <=> EvalHolds(u, r))
                                     /\ (Marking(u, r)' <=> Marking(u, r))
            /\ \A u \in PropTasks : PropHolds(u, r)' <=> PropHolds(u, r)
            /\ PropAt(r, {"unlock"})' <=> PropAt(r, {"unlock"})
          BY <3>1 DEF EvalHolds, Marking, PropHolds, PropAt
      <4>3. Permitted(r)' <=> Permitted(r)
          BY <3>1, <4>2 DEF Permitted, Waiting
      <4>4. \A u \in EvalTasks : Marking(u, r)' => requests'[r] > 0
          BY <3>1, <4>1, <4>2 DEF Phase, Marking
      <4>5. Phase(r)'
          BY <3>1, <4>1, <4>2, <4>3, <4>4, PhaseKept
      <4>6. Written(r)'
          BY <3>1, <4>1, WrittenKept
      <4> QED BY <2>6, <2>7, <4>1, <4>5, <4>6, WokenTrigger
    <3>3. StartInOrder' /\ ClosedInTheEnd'
        BY <2>3, <2>7, StartTrigger, ClosedTrigger
    <3> QED BY <2>3, <3>1, <3>2, <3>3, StraightKept, ReadsKept DEF Awake
  <2>8. ASSUME NEW t \in EvalTasks, EvalTake(t) \/ EvalStep(t) PROVE Awake'
    <3>1. UNCHANGED <<pr, iteration, filled, abandoned>>
          /\ (UNCHANGED status \/ status' = [status EXCEPT ![ev[t].rule] = "Dispatched"])
        BY <2>8 DEF EvalTake, EvalReceive, EvalStep, EvalStatus, EvalScan, EvalGate, EvalLock,
           EvalRecheck, EvalRender, EvalPublish, EvalDispatch, redis, history
    <3>2. ASSUME NEW r \in Rules PROVE Phase(r)' /\ Written(r)' /\ Woken(r)'
      <4>1. status'[r] \in {status[r], "Dispatched"}
          BY <3>1 DEF TypeInv, RedisOK
      <4>2. Written(r)'
          BY <2>3, <3>1, <4>1, WrittenKept
      <4>3. Phase(r)'
          BY <2>3, <2>5, <2>6, <2>8, PhaseEval
      <4> QED BY <2>3, <2>6, <2>8, <4>2, <4>3, WokenEval
    <3>3. StartInOrder' /\ ClosedInTheEnd' /\ Straight'
        BY <2>3, <2>8, <3>1, StartEval, ClosedEval, StraightKept
    <3>4. ReadsFilled'
        BY <2>3, <2>6, <2>8, ReadsEval
    <3> QED BY <3>2, <3>3, <3>4 DEF Awake
  <2>9. ASSUME NEW t \in PropTasks, PropTake(t) PROVE Awake'
    <3>1. UNCHANGED <<ev, filled>>
        BY <2>9 DEF PropTake, PropReceive, redis
    <3>2. ASSUME NEW r \in Rules PROVE Phase(r)' /\ Written(r)' /\ Woken(r)'
        BY <2>3, <2>5, <2>9, PhaseTake, WrittenTake, WokenTake
    <3>3. StartInOrder' /\ ClosedInTheEnd'
        BY <2>3, <2>9, StartProp, ClosedTake
    <3>4. Straight' /\ ReadsFilled'
        BY <2>3, <2>6, <2>9, <3>1, StraightProp, ReadsKept
    <3> QED BY <3>2, <3>3, <3>4 DEF Awake
  <2>10. ASSUME NEW t \in PropTasks, PropStep(t) PROVE Awake'
    <3>1. UNCHANGED ev
        BY <2>3, <2>10, PropStatus
    <3>2. filled \subseteq filled'
      <4>1. pr[t].pc \notin Resetting
          BY <2>3 DEF Straight
      <4> QED BY <2>4, <2>10, <4>1 DEF PropStep, PropCheck, PropFan, PropComplete, PropAnchor,
            PropHome, PropResetStatus, PropResetLock, PropRefire, PropClose, PropScan,
            PropFinish, PropCount, PropRetryIdle, PropUnlock, PropRetryEval, PropFail,
            Resetting, redis
    <3>3. ASSUME NEW r \in Rules PROVE Phase(r)' /\ Written(r)' /\ Woken(r)'
        BY <2>3, <2>5, <2>6, <2>10, PhaseProp, WrittenProp, WokenProp
    <3>4. StartInOrder' /\ ClosedInTheEnd'
        BY <2>3, <2>6, <2>10, StartProp, ClosedProp
    <3>5. Straight' /\ ReadsFilled'
        BY <2>3, <2>6, <2>10, <3>1, <3>2, StraightProp, ReadsKept
    <3> QED BY <3>3, <3>4, <3>5 DEF Awake
  <2>11. ASSUME NEW q \in Rules, Infer(q) PROVE Awake'
    <3>1. UNCHANGED <<status, iteration, filled, ev, pr, abandoned>>
        BY <2>11 DEF Infer, InferSuccess, InferError, redis, handlers, history
    <3>2. ASSUME NEW r \in Rules PROVE Phase(r)' /\ Written(r)' /\ Woken(r)'
        BY <2>3, <2>6, <2>11, <3>1, PhaseInfer, WrittenKept, WokenInfer
    <3>3. StartInOrder' /\ ClosedInTheEnd'
        BY <2>3, <2>6, <2>11, StartInfer, ClosedInfer
    <3> QED BY <2>3, <3>1, <3>2, <3>3, StraightKept, ReadsKept DEF Awake
  <2> QED BY <1>2, <2>4, <2>7, <2>8, <2>9, <2>10, <2>11 DEF Next
<1> QED BY <1>1, <1>2

\* When all is quiet, a rule whose suppliers have ended has ended too: going up
\* the ranks, all of them have.
LEMMA AllOver ==
    ASSUME Favourable, Supplied, TypeInv, Awake, Quiet, ~Blocked
    PROVE  \A r \in Rules : Over(r)
<1>1. PICK rank \in [Rules -> Nat] :
        \A r \in Rules : \A p \in InputSet(r) :
            \/ Seeded(p)
            \/ \E q \in Rules \ Terminal : p \in Route[q] /\ rank[q] < rank[r]
    BY DEF Supplied
<1>2. ASSUME NEW r \in Rules, \A q \in Rules : rank[q] < rank[r] => Over(q)
      PROVE  Over(r)
  <2>1. ASSUME NEW p \in InputSet(r) PROVE p \in filled
    <3>1. CASE Seeded(p)
      <4>1. PICK n \in UserInputs : SeedsOf(n) = {p}
          BY <3>1 DEF Seeded
      <4>2. trigger.pc = "done" /\ trigger.todo = {}
          BY DEF Quiet, Awake, StartInOrder
      <4>3. SeedsOf(n) \cap filled # {}
          BY <4>1, <4>2 DEF Awake, StartInOrder
      <4> QED BY <4>1, <4>3
    <3>2. CASE \E q \in Rules \ Terminal : p \in Route[q] /\ rank[q] < rank[r]
      <4>1. PICK q \in Rules \ Terminal : p \in Route[q] /\ rank[q] < rank[r]
          BY <3>2
      <4>2. Over(q) /\ Written(q)
          BY <1>2, <4>1 DEF Awake
      <4>3. status[q] # "Failed"
          BY <4>1, <4>2 DEF Written, Blocked
      <4> QED BY <4>1, <4>2, <4>3 DEF Over, Written
    <3> QED BY <1>1, <3>1, <3>2
  <2>2. Woken(r) /\ Phase(r)
      BY DEF Awake
  <2>3. /\ \A t \in EvalTasks : ev[t].pc = "idle"
        /\ \A t \in PropTasks : pr[t].pc = "idle"
        /\ evals[r] = 0 /\ requests[r] = 0
      BY DEF Quiet
  <2>4. Waiting(r) = 0
    <3>1. <<r, "success">> \in Rules \X Outcomes /\ <<r, "error">> \in Rules \X Outcomes
        BY DEF Outcomes
    <3> QED BY <2>3, <3>1 DEF Waiting, Quiet
  <2>5. ~Permitted(r)
      BY <2>3, <2>4 DEF Permitted, EvalHolds, PropHolds
  <2>6. lock[r]
      BY <2>1, <2>2, <2>3 DEF Woken, Chance, PropAt
  <2> QED BY <2>2, <2>5, <2>6 DEF Phase
<1> DEFINE S == {n \in Nat : \A q \in Rules : rank[q] < n => Over(q)}
<1>3. 0 \in S
    OBVIOUS
<1>4. ASSUME NEW n \in Nat, n \in S PROVE n + 1 \in S
  <2> SUFFICES ASSUME NEW q \in Rules, rank[q] < n + 1 PROVE Over(q)
      OBVIOUS
  <2>1. \A u \in Rules : rank[u] < rank[q] => Over(u)
    <3> SUFFICES ASSUME NEW u \in Rules, rank[u] < rank[q] PROVE Over(u)
        OBVIOUS
    <3>1. rank[u] < n
      <4>1. rank[u] \in Nat /\ rank[q] \in Nat
          BY <1>1
      <4>2. n \in Nat
          BY <1>4
      <4>3. rank[u] < rank[q] /\ rank[q] < n + 1
          OBVIOUS
      <4> HIDE DEF S
      <4> QED BY <4>1, <4>2, <4>3
    <3> QED BY <1>4, <3>1
  <2> QED BY <1>2, <2>1
<1>5. Nat \subseteq S
    BY <1>3, <1>4, NatSetInduction
<1> SUFFICES ASSUME NEW r \in Rules PROVE Over(r)
    OBVIOUS
<1>6. rank[r] + 1 \in S /\ rank[r] < rank[r] + 1
    BY <1>5
<1> QED BY <1>6

\* No wake-up and no completion check is lost: a run that has gone quiet, in
\* which errors were all that went wrong and no rule that others wait for was
\* given up, is closed and all of its rules have ended (process_check,
\* process_result, check_and_close_run), in every graph without feedback whose
\* rules need all of their inputs and can get them.
THEOREM NothingLeftBehind ==
    ASSUME Favourable, Supplied
    PROVE  Spec => [](OnlyErrors => NothingStranded)
<1>1. Init => TypeInv /\ Flight /\ AwakeInv
    BY TypeInit, CalmInit, AwakeInit DEF AwakeInv, Favourable
<1>2. TypeInv /\ Flight /\ AwakeInv /\ [Next]_vars => TypeInv' /\ Flight' /\ AwakeInv'
    BY TypeNext, FlightNext, AwakeNext
<1>3. TypeInv /\ AwakeInv => (OnlyErrors => NothingStranded)
  <2> SUFFICES ASSUME TypeInv, Awake, Quiet, ~Blocked
               PROVE  runStatus = "Completed" /\ \A r \in Rules : Over(r)
      BY DEF AwakeInv, NothingStranded, Over
  <2>1. \A r \in Rules : Over(r)
      BY AllOver
  <2>2. Rules # {}
      BY DEF Quiet, Awake, StartInOrder
  <2>3. \A t \in PropTasks : ~Closing(pr[t])
      BY DEF Quiet, Closing
  <2> QED BY <2>1, <2>2, <2>3 DEF Awake, ClosedInTheEnd
<1> QED BY <1>1, <1>2, <1>3, PTL DEF Spec

-----------------------------------------------------------------------------
(* Closed is final.                                                        *)
(*                                                                         *)
(* The run is closed once the terminal rules have ended, whatever the      *)
(* others do.  Nothing is left to do for those when each of them leads to  *)
(* a terminal rule: a rule is answered only after the rules it reads from  *)
(* have been completed.                                                    *)

\* A projection has one source, and each rule leads to one the run waits for.
Gathered ==
    /\ \A q, u \in Rules : Route[q] \cap Route[u] # {} => q = u
    /\ \A q \in Rules : Route[q] \cap Seeds = {}
    /\ \E rank \in [Rules -> Nat] : \A q \in Rules \ MustEnd :
          \E r \in Rules : Route[q] \cap InputSet(r) # {} /\ rank[r] < rank[q]

Begun(r) == Permitted(r) \/ Over(r)

Reported(r) ==
    \/ \E o \in Outcomes : results[<<r, o>>] > 0
    \/ \E t \in PropTasks : PropHolds(t, r)
    \/ Over(r)

\* Whatever r reads from has been completed.
Behind(r) == \A q \in Rules : Route[q] \cap InputSet(r) # {} => status[q] = "Completed"

Causal ==
    /\ \A r \in Rules : Begun(r) => InputSet(r) \subseteq filled
    /\ \A r \in Rules : Reported(r) => Behind(r)
    /\ \A r \in accepted : status[r] = "Completed" \/ PropAt(r, {"fan", "complete"})
    /\ \A r \in abandoned : status[r] = "Failed"
    /\ runStatus = "Completed" => MustEnd \subseteq Ended

CausalInv == OnlyErrors => Causal

\* A step without a mishap.
PlainNext ==
    \/ Trigger
    \/ \E t \in EvalTasks : EvalTake(t) \/ EvalStep(t)
    \/ \E t \in PropTasks : PropTake(t) \/ PropStep(t)
    \/ \E r \in Rules : Infer(r)

LEMMA PlainStep ==
    ASSUME TypeInv, Flight, Straight, Next, OnlyErrors'
    PROVE  OnlyErrors /\ PlainNext /\ \A r \in Rules : Sound(r)
<1>1. /\ OnlyErrors /\ Calm
      /\ ~CancelMark /\ ~CancelCleanup
      /\ \A t \in EvalTasks : ~EvalCrash(t)
      /\ \A t \in PropTasks : ~PropIterate(t) /\ ~PropCrash(t)
      /\ \A r \in Rules : ~InferLose(r) /\ ~LockExpire(r) /\ \A o \in Outcomes : ~InferAgain(r, o)
    BY OnlyErrorsStep
<1>2. PlainNext
    BY <1>1 DEF Next, PlainNext
<1> QED BY <1>1, <1>2 DEF Calm

\* What evaluators and inference leave alone.
LEMMA EvalFrame ==
    ASSUME NEW t \in EvalTasks, EvalTake(t) \/ EvalStep(t)
    PROVE  /\ UNCHANGED <<runStatus, filled, results, pr, accepted, abandoned>>
           /\ \/ UNCHANGED status
              \/ ev[t].pc = "dispatch" /\ status' = [status EXCEPT ![ev[t].rule] = "Dispatched"]
BY DEF EvalTake, EvalReceive, EvalStep, EvalStatus, EvalScan, EvalGate, EvalLock,
       EvalRecheck, EvalRender, EvalPublish, EvalDispatch, redis, queues, history

LEMMA TriggerFrame ==
    ASSUME Trigger
    PROVE  UNCHANGED <<status, requests, results, ev, pr, dispatches, accepted, abandoned>>
           /\ filled \subseteq filled'
BY DEF Trigger, TriggerSave, TriggerSeed, TriggerRun, queues, history

LEMMA InferFrame ==
    ASSUME NEW r \in Rules, Infer(r)
    PROVE  UNCHANGED <<runStatus, status, filled, ev, pr, dispatches, accepted, abandoned>>
BY DEF Infer, InferSuccess, InferError, redis, handlers, history

LEMMA TakeFrame ==
    ASSUME NEW t \in PropTasks, PropTake(t)
    PROVE  UNCHANGED <<runStatus, status, filled, ev, requests, dispatches, accepted, abandoned>>
BY DEF PropTake, PropReceive, redis, history

LEMMA PropFrame ==
    ASSUME Straight, NEW t \in PropTasks, PropStep(t)
    PROVE  /\ UNCHANGED dispatches /\ filled \subseteq filled'
           /\ \/ pr[t].pc # "finish" /\ UNCHANGED runStatus
              \/ pr[t].pc = "finish" /\ runStatus' = "Completed"
           /\ \/ pr[t].pc # "check" /\ UNCHANGED accepted
              \/ pr[t].pc = "check" /\ accepted' \in {accepted, accepted \cup {pr[t].rule}}
           /\ \/ pr[t].pc # "fail" /\ UNCHANGED abandoned
              \/ pr[t].pc = "fail" /\ abandoned' = abandoned \cup {pr[t].rule}
<1>1. pr[t].pc \notin Resetting \cup {"iterate"}
    BY DEF Straight
<1>2. ~PropIterate(t) /\ ~PropResetStatus(t) /\ ~PropResetLock(t) /\ ~PropRefire(t)
    BY <1>1 DEF PropIterate, PropResetStatus, PropResetLock, PropRefire, Resetting
<1>3. CASE PropCheck(t) \/ PropFail(t)
    BY <1>3 DEF PropCheck, PropFail, redis
<1>4. CASE \/ PropFan(t) \/ PropComplete(t) \/ PropAnchor(t) \/ PropHome(t) \/ PropClose(t)
           \/ PropScan(t) \/ PropFinish(t) \/ PropCount(t) \/ PropRetryIdle(t)
           \/ PropUnlock(t) \/ PropRetryEval(t)
    BY <1>4 DEF PropFan, PropComplete, PropAnchor, PropHome, PropClose, PropScan, PropFinish,
                PropCount, PropRetryIdle, PropUnlock, PropRetryEval, redis, history
<1> QED BY <1>2, <1>3, <1>4 DEF PropStep

LEMMA Grows ==
    ASSUME Straight, PlainNext
    PROVE  filled \subseteq filled' /\ accepted \subseteq accepted' /\ abandoned \subseteq abandoned'
<1>1. ASSUME NEW t \in PropTasks, PropStep(t)
      PROVE  filled \subseteq filled' /\ accepted \subseteq accepted' /\ abandoned \subseteq abandoned'
    BY <1>1, PropFrame
<1>2. CASE ~\E t \in PropTasks : PropStep(t)
    BY <1>2, EvalFrame, TriggerFrame, InferFrame, TakeFrame DEF PlainNext
<1> QED BY <1>1, <1>2

\* A rule that has ended keeps its status.
LEMMA OverKept ==
    ASSUME TypeInv, Awake, PlainNext, NEW r \in Rules, Over(r)
    PROVE  status'[r] = status[r]
<1>1. QueuesOK /\ status \in [Rules -> {"Idle", "Dispatched", "Completed", "Failed"}]
    BY DEF TypeInv, RedisOK
<1>2. Straight /\ Phase(r)
    BY DEF Awake
<1>3. ~Permitted(r)
    BY <1>2 DEF Phase
<1>4. ASSUME NEW t \in EvalTasks, EvalTake(t) \/ EvalStep(t) PROVE status'[r] = status[r]
  <2>1. CASE UNCHANGED status
      BY <2>1
  <2>2. CASE ev[t].pc = "dispatch" /\ status' = [status EXCEPT ![ev[t].rule] = "Dispatched"]
    <3>1. CASE ev[t].rule = r
      <4>1. requests[r] > 0
          BY <1>2, <2>2, <3>1 DEF Phase
      <4>2. Waiting(r) > 0
          BY <1>1, <4>1, WaitingType DEF Waiting
      <4> QED BY <1>3, <4>2 DEF Permitted
    <3>2. CASE ev[t].rule # r
        BY <1>1, <2>2, <3>2
    <3> QED BY <3>1, <3>2
  <2> QED BY <1>4, <2>1, <2>2, EvalFrame
<1>5. ASSUME NEW t \in PropTasks, PropStep(t) PROVE status'[r] = status[r]
  <2>1. ~PropHolds(t, r)
      BY <1>3 DEF Permitted
  <2> QED BY <1>1, <1>2, <1>5, <2>1, PropStatus DEF PropHolds
<1> QED BY <1>4, <1>5, TriggerFrame, InferFrame, TakeFrame DEF PlainNext

\* What is under way has been let through by an evaluator that had its inputs.
LEMMA Beginning ==
    ASSUME TypeInv, Favourable, Awake, PlainNext, NEW r \in Rules, Begun(r)'
    PROVE  Begun(r) \/ InputSet(r) \subseteq filled
<1>1. EvWell /\ PrWell /\ QueuesOK
      /\ status \in [Rules -> {"Idle", "Dispatched", "Completed", "Failed"}]
    BY DEF TypeInv, RedisOK
<1>2. StartInOrder /\ Straight /\ ReadsFilled /\ \A q \in Rules : Phase(q)
    BY DEF Awake
<1>3. WholeRules /\ ForwardGraph
    BY DEF Favourable
<1>4. Waiting(r) \in Nat /\ requests[r] \in Nat
      /\ results[<<r, "success">>] \in Nat /\ results[<<r, "error">>] \in Nat
    BY <1>1, WaitingType
<1>5. \A m \in Rules \X Outcomes : results[m] \in Nat
    BY <1>1 DEF QueuesOK
<1>6. CASE Trigger
  <2>1. UNCHANGED <<status, requests, results, ev, pr>>
      BY <1>6, TriggerFrame
  <2>2. Waiting(r)' = Waiting(r) /\ (Over(r)' <=> Over(r))
        /\ (\A t \in EvalTasks : EvalHolds(t, r)' <=> EvalHolds(t, r))
        /\ (\A t \in PropTasks : PropHolds(t, r)' <=> PropHolds(t, r))
      BY <2>1 DEF Waiting, Over, EvalHolds, PropHolds
  <2> QED BY <2>2 DEF Begun, Permitted
<1>7. ASSUME NEW t \in EvalTasks, EvalTake(t) \/ EvalStep(t)
      PROVE  Begun(r) \/ InputSet(r) \subseteq filled
  <2>1. UNCHANGED <<results, pr>> /\ (Over(r)' => Over(r))
      BY <1>1, <1>7, EvalFrame DEF Over
  <2>2. \A u \in PropTasks : PropHolds(u, r)' <=> PropHolds(u, r)
      BY <2>1 DEF PropHolds
  <2>3. requests'[r] = requests[r] \/ EvalHolds(t, r)
    <3>1. UNCHANGED requests \/ EvalPublish(t)
        BY <1>7 DEF EvalTake, EvalReceive, EvalStep, EvalStatus, EvalScan, EvalGate, EvalLock,
             EvalRecheck, EvalRender, EvalDispatch, queues
    <3> QED BY <1>1, <3>1 DEF EvalPublish, EvalHolds, QueuesOK
  <2>4. CASE requests'[r] = requests[r] /\ ~\E u \in EvalTasks : EvalHolds(u, r)'
    <3>1. Waiting(r)' = Waiting(r)
        BY <2>1, <2>4 DEF Waiting
    <3> QED BY <2>1, <2>2, <2>4, <3>1 DEF Begun, Permitted
  <2>5. CASE EvalHolds(t, r)
      BY <2>5 DEF Begun, Permitted
  <2>6. ASSUME NEW u \in EvalTasks, EvalHolds(u, r)'
        PROVE  Begun(r) \/ InputSet(r) \subseteq filled
    <3>1. CASE EvalHolds(u, r)
        BY <3>1 DEF Begun, Permitted
    <3>2. CASE ~EvalHolds(u, r)
      <4>1. PICK x : EvalTo(t, x) /\ (EvalStep(t) => EvalOnward(t, x)) /\ (EvalTake(t) => x.pc = "status")
        <5>1. CASE EvalTake(t)
          <6>1. PICK q \in Rules : EvalReceive(t, q)
              BY <5>1 DEF EvalTake
          <6>2. ~EvalStep(t)
              BY <6>1 DEF EvalReceive, EvalStep, EvalStatus, EvalScan, EvalGate, EvalLock,
                   EvalRecheck, EvalRender, EvalPublish, EvalDispatch
          <6> QED BY <1>2, <6>1, <6>2, EvalTaken
        <5>2. CASE ~EvalTake(t)
            BY <1>2, <1>3, <1>7, <5>2, EvalPath DEF EvalOnward
        <5> QED BY <5>1, <5>2
      <4>2. ev'[t] = x /\ \A w \in EvalTasks : w # t => ev'[w] = ev[w]
          BY <1>1, <4>1, EvalToOthers
      <4>3. u = t
          BY <2>6, <3>2, <4>2 DEF EvalHolds
      <4>4. x.rule = r /\ x.pc \in {"recheck", "render", "publish"}
          BY <2>6, <4>2, <4>3 DEF EvalHolds
      <4>5. EvalOnward(t, x)
          BY <1>7, <4>1, <4>4
      <4>6. ev[t].rule = r /\ ev[t].pc = "lock"
          BY <3>2, <4>3, <4>4, <4>5 DEF EvalOnward, EvalPaths, EvalHolds
      <4> QED BY <1>2, <4>6 DEF ReadsFilled
    <3> QED BY <3>1, <3>2
  <2> QED BY <2>3, <2>4, <2>5, <2>6
<1>8. ASSUME NEW t \in PropTasks, PropTake(t) PROVE Begun(r)
  <2>1. PICK q \in Rules, o \in Outcomes : PropReceive(t, q, o)
      BY <1>8 DEF PropTake
  <2>2. PICK x : PropTo(t, x) /\ x.pc = "check" /\ x.rule = q
      BY <1>2, <2>1, PropTaken
  <2>3. pr'[t] = x /\ \A w \in PropTasks : w # t => pr'[w] = pr[w]
      BY <1>1, <2>2, PropToOthers
  <2>4. UNCHANGED <<status, ev, requests>>
      BY <1>8, TakeFrame
  <2>5. results[<<q, o>>] > 0 /\ results' = [results EXCEPT ![<<q, o>>] = @ - 1]
      BY <2>1 DEF PropReceive
  <2>6. (Over(r)' <=> Over(r)) /\ \A u \in EvalTasks : EvalHolds(u, r)' <=> EvalHolds(u, r)
      BY <2>4 DEF Over, EvalHolds
  <2>7. CASE q = r
    <3>1. o = "success" \/ o = "error"
        BY DEF Outcomes
    <3>2. Waiting(r) > 0
        BY <1>4, <2>5, <2>7, <3>1 DEF Waiting
    <3> QED BY <3>2 DEF Begun, Permitted
  <2>8. CASE q # r
    <3>1. Waiting(r)' = Waiting(r)
        BY <2>4, <2>5, <2>8, <1>1 DEF Waiting, QueuesOK
    <3>2. \A u \in PropTasks : PropHolds(u, r)' => PropHolds(u, r)
        BY <2>2, <2>3, <2>8 DEF PropHolds
    <3> QED BY <2>6, <3>1, <3>2 DEF Begun, Permitted
  <2> QED BY <2>7, <2>8
<1>9. ASSUME NEW t \in PropTasks, PropStep(t) PROVE Begun(r)
  <2>1. PICK x : PropOnward(t, x)
      BY <1>2, <1>3, <1>9, PropPath
  <2>2. PropTo(t, x) /\ <<pr[t].pc, x.pc>> \in PropPaths /\ (x.pc # "idle" => x.rule = pr[t].rule)
      BY <2>1 DEF PropOnward
  <2>3. pr'[t] = x /\ \A w \in PropTasks : w # t => pr'[w] = pr[w]
      BY <1>1, <2>2, PropToOthers
  <2>4. \A u \in PropTasks : PropHolds(u, r)' => PropHolds(u, r)
      BY <2>2, <2>3 DEF PropHolds, PropPaths
  <2>5. UNCHANGED <<requests, results, ev>>
      BY <1>2, <1>9, PropStatus
  <2>6. Waiting(r)' = Waiting(r) /\ \A u \in EvalTasks : EvalHolds(u, r)' <=> EvalHolds(u, r)
      BY <2>5 DEF Waiting, EvalHolds
  <2>7. Over(r)' => Over(r) \/ PropHolds(t, r)
      BY <1>1, <1>2, <1>9, PropStatus DEF Over, PropHolds
  <2> QED BY <2>4, <2>6, <2>7 DEF Begun, Permitted
<1>10. ASSUME NEW q \in Rules, Infer(q) PROVE Begun(r)
  <2>1. UNCHANGED <<status, ev, pr>>
      BY <1>10, InferFrame
  <2>2. TakeRequest(q) /\ \E o \in Outcomes : Answer(q, o)
      BY <1>10 DEF Infer, InferSuccess, InferError, Outcomes
  <2>3. (Over(r)' <=> Over(r))
        /\ (\A u \in EvalTasks : EvalHolds(u, r)' <=> EvalHolds(u, r))
        /\ (\A u \in PropTasks : PropHolds(u, r)' <=> PropHolds(u, r))
      BY <2>1 DEF Over, EvalHolds, PropHolds
  <2>4. CASE q = r
    <3>1. Waiting(r) > 0
        BY <1>4, <2>2, <2>4 DEF TakeRequest, Waiting
    <3> QED BY <3>1 DEF Begun, Permitted
  <2>5. CASE q # r
    <3>1. Waiting(r)' = Waiting(r)
        BY <2>2, <2>5, <1>1 DEF TakeRequest, Answer, Waiting, QueuesOK
    <3> QED BY <2>3, <3>1 DEF Begun, Permitted
  <2> QED BY <2>4, <2>5
<1> QED BY <1>6, <1>7, <1>8, <1>9, <1>10 DEF PlainNext

\* A rule is answered once, when the followers of every success have been told.
LEMMA Reporting ==
    ASSUME TypeInv, Favourable, Awake, PlainNext, NEW r \in Rules, Reported(r)'
    PROVE  Reported(r) \/ (Infer(r) /\ requests[r] > 0 /\ FollowUpsDone(r))
<1>1. PrWell /\ QueuesOK
      /\ status \in [Rules -> {"Idle", "Dispatched", "Completed", "Failed"}]
    BY DEF TypeInv, RedisOK
<1>2. StartInOrder /\ Straight /\ \A q \in Rules : Phase(q)
    BY DEF Awake
<1>3. Pace # "racing" /\ ForwardGraph
    BY DEF Favourable
<1>4. ASSUME UNCHANGED <<results, pr>>, Over(r)' => Over(r)
      PROVE  Reported(r)
  <2>1. \A u \in PropTasks : PropHolds(u, r)' <=> PropHolds(u, r)
      BY <1>4 DEF PropHolds
  <2> QED BY <1>4, <2>1 DEF Reported
<1>5. CASE Trigger
  <2>1. Over(r)' => Over(r)
      BY <1>5, TriggerFrame DEF Over
  <2> QED BY <1>4, <1>5, <2>1, TriggerFrame
<1>6. ASSUME NEW t \in EvalTasks, EvalTake(t) \/ EvalStep(t) PROVE Reported(r)
  <2>1. Over(r)' => Over(r)
      BY <1>1, <1>6, EvalFrame DEF Over
  <2> QED BY <1>4, <1>6, <2>1, EvalFrame
<1>7. ASSUME NEW t \in PropTasks, PropTake(t) PROVE Reported(r)
  <2>1. PICK q \in Rules, o \in Outcomes : PropReceive(t, q, o)
      BY <1>7 DEF PropTake
  <2>2. PICK x : PropTo(t, x) /\ x.pc = "check" /\ x.rule = q
      BY <1>2, <2>1, PropTaken
  <2>3. pr'[t] = x /\ \A w \in PropTasks : w # t => pr'[w] = pr[w]
      BY <1>1, <2>2, PropToOthers
  <2>4. results[<<q, o>>] > 0 /\ results' = [results EXCEPT ![<<q, o>>] = @ - 1]
      BY <2>1 DEF PropReceive
  <2>5. CASE q = r
      BY <2>4, <2>5 DEF Reported
  <2>6. CASE q # r
    <3>1. \A p \in Outcomes : results'[<<r, p>>] = results[<<r, p>>]
        BY <1>1, <2>4, <2>6 DEF QueuesOK
    <3>2. \A u \in PropTasks : PropHolds(u, r)' => PropHolds(u, r)
        BY <2>2, <2>3, <2>6 DEF PropHolds
    <3>3. Over(r)' <=> Over(r)
        BY <1>7, TakeFrame DEF Over
    <3> QED BY <3>1, <3>2, <3>3 DEF Reported
  <2> QED BY <2>5, <2>6
<1>8. ASSUME NEW t \in PropTasks, PropStep(t) PROVE Reported(r)
  <2>1. PICK x : PropOnward(t, x)
      BY <1>2, <1>3, <1>8, PropPath
  <2>2. PropTo(t, x) /\ <<pr[t].pc, x.pc>> \in PropPaths /\ (x.pc # "idle" => x.rule = pr[t].rule)
      BY <2>1 DEF PropOnward
  <2>3. pr'[t] = x /\ \A w \in PropTasks : w # t => pr'[w] = pr[w]
      BY <1>1, <2>2, PropToOthers
  <2>4. \A u \in PropTasks : PropHolds(u, r)' => PropHolds(u, r)
      BY <2>2, <2>3 DEF PropHolds, PropPaths
  <2>5. UNCHANGED results
      BY <1>2, <1>8, PropStatus
  <2>6. Over(r)' => Over(r) \/ PropHolds(t, r)
      BY <1>1, <1>2, <1>8, PropStatus DEF Over, PropHolds
  <2> QED BY <2>4, <2>5, <2>6 DEF Reported
<1>9. ASSUME NEW q \in Rules, Infer(q)
      PROVE  Reported(r) \/ (Infer(r) /\ requests[r] > 0 /\ FollowUpsDone(r))
  <2>1. CASE q = r
      BY <1>3, <1>9, <2>1 DEF Infer, InferSuccess, InferError, MayReply, TakeRequest
  <2>2. CASE q # r
    <3>1. UNCHANGED <<status, pr>>
        BY <1>9, InferFrame
    <3>2. \E o \in Outcomes : Answer(q, o)
        BY <1>9 DEF Infer, InferSuccess, InferError, Outcomes
    <3>3. \A p \in Outcomes : results'[<<r, p>>] = results[<<r, p>>]
        BY <1>1, <2>2, <3>2 DEF Answer, QueuesOK
    <3>4. (Over(r)' <=> Over(r)) /\ \A u \in PropTasks : PropHolds(u, r)' <=> PropHolds(u, r)
        BY <3>1 DEF Over, PropHolds
    <3> QED BY <3>3, <3>4 DEF Reported
  <2> QED BY <2>1, <2>2
<1> QED BY <1>5, <1>6, <1>7, <1>8, <1>9 DEF PlainNext

\* Data in a projection that q writes is there because q succeeded.
LEMMA FilledFrom ==
    ASSUME TypeInv, Lineage, ForwardGraph, Gathered, NEW q \in Rules, NEW p \in Route[q], p \in filled
    PROVE  q \in accepted
<1>1. AvailableFrom(accepted, p)
    BY DEF Lineage, DataFrom
<1>2. accepted \subseteq Rules
    BY DEF TypeInv, HistoryOK
<1>3. ASSUME NEW n \in UserInputs PROVE p \notin SeedsOf(n)
    BY DEF Gathered, SeedsOf
<1>4. PICK u \in accepted : Feeds(u, p)
    BY <1>1, <1>3 DEF AvailableFrom
<1>5. HomeTargets(u) = {}
    BY <1>2, <1>4, NoHomes
<1>6. p \in Route[u]
    BY <1>4, <1>5 DEF Feeds
<1> QED BY <1>2, <1>6 DEF Gathered

LEMMA AcceptedKept ==
    ASSUME TypeInv, Favourable, Awake, Causal, PlainNext, NEW r \in accepted'
    PROVE  status'[r] = "Completed" \/ PropAt(r, {"fan", "complete"})'
<1>1. PrWell /\ status \in [Rules -> {"Idle", "Dispatched", "Completed", "Failed"}]
      /\ accepted \subseteq Rules
    BY DEF TypeInv, RedisOK, HistoryOK
<1>2. StartInOrder /\ Straight /\ ForwardGraph /\ \A q \in Rules : Phase(q)
    BY DEF Awake, Favourable
<1>3. CASE r \in accepted /\ status[r] = "Completed"
    BY <1>1, <1>3, OverKept DEF Over
<1>4. CASE r \in accepted /\ status[r] # "Completed"
  <2>1. PICK t \in PropTasks : pr[t].rule = r /\ pr[t].pc \in {"fan", "complete"}
      BY <1>4 DEF Causal, PropAt
  <2>2. CASE pr'[t] = pr[t]
      BY <2>1, <2>2 DEF PropAt
  <2>3. CASE pr'[t] # pr[t]
    <3>1. PropStep(t)
      <4>1. ASSUME NEW u \in PropTasks, PropTake(u) PROVE FALSE
        <5>1. PICK q \in Rules, o \in Outcomes : PropReceive(u, q, o)
            BY <4>1 DEF PropTake
        <5>2. PICK x : PropTo(u, x)
            BY <1>2, <5>1, PropTaken
        <5>3. u # t
            BY <2>1, <5>1 DEF PropReceive
        <5> QED BY <1>1, <2>3, <5>2, <5>3, PropToOthers
      <4>2. ASSUME NEW u \in PropTasks, PropStep(u), u # t PROVE FALSE
        <5>1. PICK x : PropOnward(u, x)
            BY <1>2, <4>2, PropPath
        <5> QED BY <1>1, <2>3, <4>2, <5>1, PropToOthers DEF PropOnward
      <4> QED BY <2>3, <4>1, <4>2, TriggerFrame, EvalFrame, InferFrame DEF PlainNext
    <3>2. PICK x : PropOnward(t, x)
        BY <1>2, <3>1, PropPath
    <3>3. pr'[t] = x /\ <<pr[t].pc, x.pc>> \in PropPaths /\ (x.pc # "idle" => x.rule = r)
        BY <1>1, <2>1, <3>2, PropToOthers DEF PropOnward
    <3>4. CASE pr[t].pc = "fan"
      <4>1. x.pc \in {"fan", "complete"} /\ x.rule = r
          BY <3>3, <3>4 DEF PropPaths
      <4> QED BY <3>3, <4>1 DEF PropAt
    <3>5. CASE pr[t].pc = "complete"
        BY <1>1, <1>2, <1>4, <2>1, <3>1, <3>5, PropStatus
    <3> QED BY <2>1, <3>4, <3>5
  <2> QED BY <2>2, <2>3
<1>5. CASE r \notin accepted
  <2>1. PICK t \in PropTasks : PropStep(t)
      BY <1>5, TriggerFrame, EvalFrame, TakeFrame, InferFrame DEF PlainNext
  <2>2. pr[t].pc = "check" /\ r = pr[t].rule
      BY <1>2, <1>5, <2>1, PropFrame
  <2>3. PropCheck(t)
      BY <2>1, <2>2 DEF PropStep, PropCheck, PropFan, PropComplete, PropAnchor,
           PropHome, PropIterate, PropResetStatus, PropResetLock, PropRefire, PropClose,
           PropScan, PropFinish, PropCount, PropRetryIdle, PropUnlock, PropRetryEval, PropFail
  <2>4. r \in Rules
      BY <2>2, <2>3, <1>1 DEF PropCheck, PrWell, PropLocal, TypeInv, HistoryOK
  <2> DEFINE pc == IF Route[r] = {} THEN "complete" ELSE "fan"
             x == [pr[t] EXCEPT !.todo = Route[r], !.pc = pc]
  <2>5. PropTo(t, x)
      BY <1>2, <1>5, <2>2, <2>3, <2>4, PropChecks DEF PropTo
  <2>6. x.rule = r /\ x.pc \in {"fan", "complete"}
      BY <1>1, <2>2 DEF PrWell, PropLocal
  <2> HIDE DEF x
  <2>7. pr'[t] = x
      BY <1>1, <2>5, PropToOthers
  <2> QED BY <2>6, <2>7 DEF PropAt
<1> QED BY <1>3, <1>4, <1>5

LEMMA AbandonedKept ==
    ASSUME TypeInv, Awake, Causal, PlainNext, NEW r \in abandoned'
    PROVE  status'[r] = "Failed"
<1>1. status \in [Rules -> {"Idle", "Dispatched", "Completed", "Failed"}] /\ PrWell
      /\ abandoned \subseteq Rules
    BY DEF TypeInv, RedisOK, HistoryOK
<1>2. Straight
    BY DEF Awake
<1>3. CASE r \in abandoned
    BY <1>1, <1>3, OverKept DEF Over, Causal
<1>4. CASE r \notin abandoned
  <2>1. PICK t \in PropTasks : PropStep(t)
      BY <1>4, TriggerFrame, EvalFrame, TakeFrame, InferFrame DEF PlainNext
  <2>2. pr[t].pc = "fail" /\ r = pr[t].rule
      BY <1>2, <1>4, <2>1, PropFrame
  <2>3. status' = [status EXCEPT ![r] = "Failed"]
      BY <1>2, <2>1, <2>2, PropStatus
  <2>4. r \in Rules
      BY <1>1, <2>2 DEF PrWell, PropLocalWell
  <2> QED BY <1>1, <2>3, <2>4
<1> QED BY <1>3, <1>4

\* When the rules the run waits for have ended, so have all the others.
LEMMA AllEnded ==
    ASSUME TypeInv, Lineage, Gathered, Causal, MustEnd \subseteq Ended
    PROVE  Rules \subseteq Ended
<1>1. PICK rank \in [Rules -> Nat] : \A q \in Rules \ MustEnd :
          \E r \in Rules : Route[q] \cap InputSet(r) # {} /\ rank[r] < rank[q]
    BY DEF Gathered
<1>2. ASSUME NEW q \in Rules, \A r \in Rules : rank[r] < rank[q] => r \in Ended
      PROVE  q \in Ended
  <2>1. CASE q \in MustEnd
      BY <2>1
  <2>2. CASE q \notin MustEnd
    <3>1. PICK r \in Rules : Route[q] \cap InputSet(r) # {} /\ rank[r] < rank[q]
        BY <1>1, <2>2
    <3>2. r \in accepted \/ r \in abandoned
        BY <1>2, <3>1 DEF Ended
    <3>3. Reported(r)
        BY <3>2 DEF Causal, Reported, Over, PropAt, PropHolds
    <3>4. status[q] = "Completed"
        BY <3>1, <3>3 DEF Causal, Behind
    <3> QED BY <3>4 DEF Lineage, DataFrom, Ended
  <2> QED BY <2>1, <2>2
<1> DEFINE S == {n \in Nat : \A q \in Rules : rank[q] < n => q \in Ended}
<1>3. 0 \in S
    OBVIOUS
<1>4. ASSUME NEW n \in Nat, n \in S PROVE n + 1 \in S
  <2> SUFFICES ASSUME NEW q \in Rules, rank[q] < n + 1 PROVE q \in Ended
      OBVIOUS
  <2>1. ASSUME NEW u \in Rules, rank[u] < rank[q] PROVE u \in Ended
    <3>1. rank[u] \in Nat /\ rank[q] \in Nat
        BY <1>1
    <3>2. rank[u] < n
        BY <1>4, <2>1, <3>1
    <3> QED BY <1>4, <3>2
  <2> QED BY <1>2, <2>1
<1>5. Nat \subseteq S
    BY <1>3, <1>4, NatSetInduction
<1> SUFFICES ASSUME NEW r \in Rules PROVE r \in Ended
    OBVIOUS
<1>6. rank[r] + 1 \in S /\ rank[r] < rank[r] + 1
    BY <1>5
<1> QED BY <1>6

LEMMA CausalNext ==
    ASSUME Favourable, Gathered, TypeInv, Flight, AwakeInv, Lineage, CausalInv, Next
    PROVE  CausalInv'
<1> SUFFICES ASSUME OnlyErrors' PROVE Causal'
    BY DEF CausalInv
<1>1. OnlyErrors
  <2> SUFFICES ASSUME NEW e \in Events \ {"error"} PROVE budget[e] = Budget[e]
      BY DEF OnlyErrors
  <2>1. budget[e] \in Nat /\ Budget[e] \in Nat /\ budget'[e] = Budget[e]
      BY BudgetType DEF OnlyErrors
  <2>2. budget'[e] <= budget[e] /\ budget[e] <= Budget[e]
      BY BudgetNext DEF Flight, BudgetKept
  <2> QED BY <2>1, <2>2
<1>2. Awake /\ Causal
    BY <1>1 DEF AwakeInv, CausalInv
<1>3. Straight /\ ForwardGraph
    BY <1>2 DEF Awake, Favourable
<1>4. PlainNext
    BY <1>3, PlainStep
<1>5. filled \subseteq filled' /\ accepted \subseteq accepted' /\ abandoned \subseteq abandoned'
    BY <1>3, <1>4, Grows
<1>6. ASSUME NEW r \in Rules, Begun(r)' PROVE InputSet(r) \subseteq filled'
    BY <1>2, <1>4, <1>5, <1>6, Beginning DEF Causal
<1>7. ASSUME NEW r \in Rules, Reported(r)', NEW q \in Rules, Route[q] \cap InputSet(r) # {}
      PROVE  status'[q] = "Completed"
  <2>1. CASE Reported(r)
    <3>1. status[q] = "Completed"
        BY <1>2, <1>7, <2>1 DEF Causal, Behind
    <3> QED BY <1>2, <1>4, <3>1, OverKept DEF Over
  <2>2. CASE Infer(r) /\ requests[r] > 0 /\ FollowUpsDone(r)
    <3>1. Waiting(r) > 0
      <4>1. QueuesOK
          BY DEF TypeInv
      <4> QED BY <2>2, <4>1, WaitingType DEF Waiting
    <3>2. InputSet(r) \subseteq filled
        BY <1>2, <3>1 DEF Causal, Begun, Permitted
    <3>3. q \in accepted
        BY <1>3, <1>7, <3>2, FilledFrom
    <3>4. status[q] = "Completed"
        BY <1>2, <2>2, <3>3 DEF Causal, PropAt, FollowUpsDone
    <3> QED BY <1>2, <1>4, <3>4, OverKept DEF Over
  <2> QED BY <1>2, <1>4, <1>7, <2>1, <2>2, Reporting
<1>8. runStatus' = "Completed" => MustEnd \subseteq Ended'
  <2>1. runStatus' = "Completed" => MustEnd \subseteq Ended
    <3>1. ASSUME NEW t \in PropTasks, PropStep(t)
          PROVE  runStatus' = "Completed" => MustEnd \subseteq Ended
        BY <1>2, <1>3, <3>1, PropFrame DEF Causal, Lineage, PrLineage, PrFrom
    <3>2. CASE Trigger
        BY <1>2, <3>2 DEF Causal, Trigger, TriggerSave, TriggerSeed, TriggerRun
    <3>3. CASE runStatus' = runStatus
        BY <1>2, <3>3 DEF Causal
    <3> QED BY <1>4, <3>1, <3>2, <3>3, EvalFrame, TakeFrame, InferFrame DEF PlainNext
  <2> QED BY <1>5, <2>1 DEF Ended
<1>9. \A r \in accepted' : status'[r] = "Completed" \/ PropAt(r, {"fan", "complete"})'
    BY <1>2, <1>4, AcceptedKept
<1>10. \A r \in abandoned' : status'[r] = "Failed"
    BY <1>2, <1>4, AbandonedKept
<1> QED BY <1>6, <1>7, <1>8, <1>9, <1>10 DEF Causal, Behind

LEMMA CausalStays ==
    ASSUME Favourable, Gathered, TypeInv, Flight, AwakeInv, Lineage, CausalInv, [Next]_vars
    PROVE  CausalInv'
<1>1. CASE UNCHANGED vars
  <2>1. /\ UNCHANGED <<runStatus, status, filled, requests, results, ev, pr, accepted, abandoned>>
        /\ (OnlyErrors' => OnlyErrors)
      BY <1>1 DEF vars, redis, queues, handlers, bounds, history, OnlyErrors
  <2>2. ASSUME NEW r \in Rules
        PROVE  /\ (Begun(r)' <=> Begun(r)) /\ (Reported(r)' <=> Reported(r))
               /\ (Behind(r)' <=> Behind(r))
    <3>1. /\ \A u \in EvalTasks : EvalHolds(u, r)' <=> EvalHolds(u, r)
          /\ \A u \in PropTasks : PropHolds(u, r)' <=> PropHolds(u, r)
          /\ Waiting(r)' = Waiting(r) /\ (Over(r)' <=> Over(r)) /\ (Behind(r)' <=> Behind(r))
        BY <2>1 DEF EvalHolds, PropHolds, Waiting, Over, Behind
    <3> QED BY <2>1, <3>1 DEF Begun, Permitted, Reported
  <2>3. \A r : PropAt(r, {"fan", "complete"})' <=> PropAt(r, {"fan", "complete"})
      BY <2>1 DEF PropAt
  <2>4. Ended' = Ended
      BY <2>1 DEF Ended
  <2> QED BY <2>1, <2>2, <2>3, <2>4 DEF CausalInv, Causal
<1> QED BY <1>1, CausalNext

LEMMA CausalInit ==
    ASSUME Favourable, Init, Awake
    PROVE  Causal
<1>1. /\ \A t \in EvalTasks : ev[t] = EvalIdle
      /\ \A t \in PropTasks : pr[t] = PropIdle
      /\ \A r \in Rules : status[r] = "Idle" /\ requests[r] = 0
      /\ \A m \in Rules \X Outcomes : results[m] = 0
      /\ runStatus = "Absent" /\ accepted = {} /\ abandoned = {}
    BY DEF Init
<1>2. EvalIdle.pc = "idle" /\ PropIdle.pc = "idle"
    BY DEF EvalIdle, PropIdle
<1>3. ASSUME NEW r \in Rules PROVE ~Permitted(r) /\ ~Reported(r) /\ ~Over(r)
  <2>1. \A o \in Outcomes : results[<<r, o>>] = 0
      BY <1>1
  <2>2. Waiting(r) = 0
      BY <1>1, <2>1 DEF Waiting, Outcomes
  <2>3. /\ \A u \in EvalTasks : ~EvalHolds(u, r)
        /\ \A u \in PropTasks : ~PropHolds(u, r)
        /\ ~Over(r)
      BY <1>1, <1>2 DEF EvalHolds, PropHolds, Over
  <2>4. ~Permitted(r)
      BY <2>2, <2>3 DEF Permitted
  <2>5. ~Reported(r)
    <3>1. \A o \in Outcomes : ~(results[<<r, o>>] > 0)
        BY <2>1
    <3> QED BY <2>3, <3>1, Zenon DEF Reported
  <2> QED BY <2>3, <2>4, <2>5
<1> QED BY <1>1, <1>3 DEF Causal, Begun

\* A closed run has nothing left to do, so it stays closed and sends nothing.
LEMMA ClosedStays ==
    ASSUME Favourable, Gathered, TypeInv, Flight, AwakeInv, Lineage, CausalInv,
           OnlyErrors', [Next]_vars, runStatus = "Completed"
    PROVE  runStatus' = "Completed" /\ dispatches' = dispatches
<1>1. CASE UNCHANGED vars
    BY <1>1 DEF vars, redis, history
<1>2. CASE Next
  <2>1. OnlyErrors
    <3> SUFFICES ASSUME NEW e \in Events \ {"error"} PROVE budget[e] = Budget[e]
        BY DEF OnlyErrors
    <3>1. budget[e] \in Nat /\ Budget[e] \in Nat /\ budget'[e] = Budget[e]
        BY BudgetType DEF OnlyErrors
    <3>2. budget'[e] <= budget[e] /\ budget[e] <= Budget[e]
        BY <1>2, BudgetNext DEF Flight, BudgetKept
    <3> QED BY <3>1, <3>2
  <2>2. Awake /\ Causal
      BY <2>1 DEF AwakeInv, CausalInv
  <2>3. StartInOrder /\ Straight
      BY <2>2 DEF Awake
  <2>4. PlainNext /\ \A r \in Rules : Sound(r)
      BY <1>2, <2>3, PlainStep
  <2>5. Rules \subseteq Ended
      BY <2>2, AllEnded DEF Causal
  <2>6. ASSUME NEW r \in Rules PROVE Over(r) \/ \E t \in PropTasks : PropHolds(t, r)
      BY <2>2, <2>5 DEF Ended, Causal, Over, PropAt, PropHolds
  <2>7. CASE Trigger
    <3>1. trigger.pc # "done"
        BY <2>7 DEF Trigger, TriggerSave, TriggerSeed, TriggerRun
    <3>2. CASE trigger.pc = "save"
      <4>1. UNCHANGED runStatus
          BY <2>7, <3>2 DEF Trigger, TriggerSave, TriggerSeed, TriggerRun
      <4> QED BY <2>7, <4>1, TriggerFrame
    <3>3. CASE trigger.pc # "save"
      <4>1. PICK r \in Rules : TRUE
          BY <2>3, <3>3 DEF StartInOrder
      <4> QED BY <2>3, <2>6, <3>1, <4>1 DEF StartInOrder, PropHolds
    <3> QED BY <3>2, <3>3
  <2>8. ASSUME NEW t \in EvalTasks, EvalTake(t) \/ EvalStep(t)
        PROVE  runStatus' = "Completed" /\ dispatches' = dispatches
    <3>1. ~EvalPublish(t)
      <4> SUFFICES ASSUME EvalPublish(t) PROVE FALSE
          OBVIOUS
      <4>1. ev[t].pc = "publish" /\ ev[t].rule \in Rules
          BY <2>8 DEF EvalPublish, TypeInv, EvWell, EvalLocal, StartInOrder
      <4>2. EvalHolds(t, ev[t].rule)
          BY <4>1 DEF EvalHolds
      <4>3. ~Over(ev[t].rule)
          BY <2>2, <4>1, <4>2 DEF Awake, Phase, Permitted
      <4>4. \A u \in PropTasks : ~PropHolds(u, ev[t].rule)
          BY <2>4, <4>1, <4>2 DEF Sound, OneAttempt
      <4> QED BY <2>6, <4>1, <4>3, <4>4
    <3>2. UNCHANGED dispatches
        BY <2>8, <3>1 DEF EvalTake, EvalReceive, EvalStep, EvalStatus, EvalScan, EvalGate,
             EvalLock, EvalRecheck, EvalRender, EvalDispatch, history
    <3> QED BY <2>8, <3>2, EvalFrame
  <2>9. ASSUME NEW t \in PropTasks, PropTake(t) \/ PropStep(t)
        PROVE  runStatus' = "Completed" /\ dispatches' = dispatches
      BY <2>3, <2>9, TakeFrame, PropFrame
  <2> QED BY <2>4, <2>7, <2>8, <2>9, InferFrame DEF PlainNext
<1> QED BY <1>1, <1>2

\* A closed run stays closed and sends nothing more, as long as errors are all
\* that goes wrong (check_and_close_run): in every graph without feedback whose
\* rules all lead to terminal ones, or none of whose rules is terminal.
THEOREM ClosedStaysClosed ==
    ASSUME Favourable, Gathered
    PROVE  Spec /\ []OnlyErrors => ClosedIsFinal
<1> DEFINE All == TypeInv /\ Flight /\ AwakeInv /\ CausalInv
<1>1. Init => All
    BY TypeInit, CalmInit, AwakeInit, CausalInit DEF AwakeInv, CausalInv, Favourable
<1>2. All /\ Lineage /\ [Next]_vars => All'
    BY TypeNext, FlightNext, AwakeNext, CausalStays
<1>3. All /\ Lineage /\ OnlyErrors' /\ [Next]_vars =>
        [runStatus = "Completed" => runStatus' = "Completed" /\ dispatches' = dispatches]_vars
    BY ClosedStays
<1>4. Spec => []Lineage
    BY LineageInvariance
<1> QED BY <1>1, <1>2, <1>3, <1>4, PTL DEF Spec, ClosedIsFinal
=============================================================================
