---------------------- MODULE WebhookDeliveryProofs ----------------------
(***************************************************************************)
(* Theorems about WebhookDelivery for every set of events and subscriptions *)
(* and every number of retries and crashes.                                  *)
(***************************************************************************)
EXTENDS WebhookDelivery, FiniteSetTheorems, TLAPS

\* Every attempt on record came back without an answer.
AllFailed(l) == \A i \in 1..Len(l) : l[i] = "unreachable"

\* Where a task is tells how many attempts are on record and how many requests the
\* receiver can have got.
Consistent(t, l, r) ==
    /\ t.pc \in {"none", "fanout"} => t.retries = 0 /\ Len(l) = 0 /\ r = 0
    /\ t.pc \in {"queued", "post"} =>
          t.retries <= MaxRetries /\ Len(l) = t.retries /\ AllFailed(l) /\ r <= t.retries
    /\ t.pc = "record" =>
          /\ t.outcome \in Outcome
          /\ t.retries <= MaxRetries /\ Len(l) = t.retries /\ AllFailed(l) /\ r <= t.retries + 1
    /\ t.pc = "retry" =>
          t.retries < MaxRetries /\ Len(l) = t.retries + 1 /\ AllFailed(l) /\ r <= t.retries + 1
    /\ t.pc \in {"ended", "lost"} =>
          /\ Len(l) <= MaxRetries + 1
          /\ \A i \in 1..(Len(l) - 1) : l[i] = "unreachable"
          /\ r <= Len(l) \/ (AllFailed(l) /\ r <= Len(l) + 1)

IInv == /\ TypeOK
        /\ \A e \in Event, s \in Subscription : Consistent(task[e][s], log[e][s], received[e][s])

--------------------------------------------------------------------------
(* Steps of one task *)

\* Only the delivery of e to s moves, from one consistent state to another.
LEMMA OneTask ==
    ASSUME IInv, NEW e \in Event, NEW s \in Subscription,
           NEW t \in TaskState, NEW l \in Seq(Outcome), NEW r \in Nat,
           Consistent(t, l, r),
           task' = [task EXCEPT ![e][s] = t],
           log' = [log EXCEPT ![e][s] = l],
           received' = [received EXCEPT ![e][s] = r]
    PROVE  /\ task' \in [Event -> [Subscription -> TaskState]]
           /\ log' \in [Event -> [Subscription -> Seq(Outcome)]]
           /\ received' \in [Event -> [Subscription -> Nat]]
           /\ \A f \in Event, u \in Subscription :
                 Consistent(task'[f][u], log'[f][u], received'[f][u])
<1>1. /\ task \in [Event -> [Subscription -> TaskState]]
      /\ log \in [Event -> [Subscription -> Seq(Outcome)]]
      /\ received \in [Event -> [Subscription -> Nat]]
  BY DEF IInv, TypeOK
<1>2. /\ task' \in [Event -> [Subscription -> TaskState]]
      /\ log' \in [Event -> [Subscription -> Seq(Outcome)]]
      /\ received' \in [Event -> [Subscription -> Nat]]
  BY <1>1
<1>3. ASSUME NEW f \in Event, NEW u \in Subscription
      PROVE  Consistent(task'[f][u], log'[f][u], received'[f][u])
  <2>1. CASE f = e /\ u = s
    <3>1. task'[f][u] = t /\ log'[f][u] = l /\ received'[f][u] = r
      BY <2>1, <1>1
    <3> QED
      BY <3>1
  <2>2. CASE ~(f = e /\ u = s)
    <3>1. task'[f][u] = task[f][u] /\ log'[f][u] = log[f][u] /\ received'[f][u] = received[f][u]
      BY <2>2, <1>1
    <3> QED
      BY <3>1 DEF IInv
  <2> QED
    BY <2>1, <2>2
<1> QED
  BY <1>2, <1>3

\* The parts of a task, typed.
LEMMA TaskParts ==
    ASSUME IInv, NEW e \in Event, NEW s \in Subscription
    PROVE  /\ task[e][s] \in TaskState /\ task[e][s].retries \in Nat
           /\ log[e][s] \in Seq(Outcome) /\ Len(log[e][s]) \in Nat
           /\ received[e][s] \in Nat
           /\ Consistent(task[e][s], log[e][s], received[e][s])
<1>1. /\ task[e][s] \in TaskState /\ log[e][s] \in Seq(Outcome) /\ received[e][s] \in Nat
  BY DEF IInv, TypeOK
<1>2. task[e][s].retries \in Nat
  BY <1>1 DEF TaskState
<1> QED
  BY <1>1, <1>2 DEF IInv

\* A step that only moves the task along.
LEMMA MoveTask ==
    ASSUME IInv, NEW e \in Event, NEW s \in Subscription, NEW t \in TaskState,
           Consistent(t, log[e][s], received[e][s]),
           task' = [task EXCEPT ![e][s] = t], UNCHANGED <<subs, log, received>>,
           crashes' \in 0..MaxCrashes
    PROVE  IInv'
<1>1. log' = [log EXCEPT ![e][s] = log[e][s]] /\ received' = [received EXCEPT ![e][s] = received[e][s]]
  BY DEF IInv, TypeOK
<1>2. log[e][s] \in Seq(Outcome) /\ received[e][s] \in Nat
  BY TaskParts
<1>3. /\ task' \in [Event -> [Subscription -> TaskState]]
      /\ log' \in [Event -> [Subscription -> Seq(Outcome)]]
      /\ received' \in [Event -> [Subscription -> Nat]]
      /\ \A f \in Event, u \in Subscription : Consistent(task'[f][u], log'[f][u], received'[f][u])
  BY <1>1, <1>2, OneTask
<1> QED
  BY <1>3 DEF IInv, TypeOK

\* The record that Goto leaves.
LEMMA GotoMoves ==
    ASSUME IInv, NEW e \in Event, NEW s \in Subscription, NEW pc, Goto(e, s, pc)
    PROVE  /\ task' = [task EXCEPT ![e][s] = [task[e][s] EXCEPT !.pc = pc]]
           /\ LET t == [task[e][s] EXCEPT !.pc = pc]
              IN  t.pc = pc /\ t.retries = task[e][s].retries /\ t.outcome = task[e][s].outcome
<1>1. task[e][s] \in TaskState
  BY TaskParts
<1> QED
  BY <1>1 DEF Goto, TaskState

--------------------------------------------------------------------------
(* The invariant is inductive: one lemma per action *)

LEMMA InitInv ==
    ASSUME Init
    PROVE  IInv
<1>1. NoTask \in TaskState /\ <<>> \in Seq(Outcome) /\ 0 \in 0..MaxCrashes
  BY DeliveryAssumption DEF NoTask, TaskState
<1>2. TypeOK
  BY <1>1 DEF Init, TypeOK, SubState, NoRow
<1>3. ASSUME NEW e \in Event, NEW s \in Subscription
      PROVE  Consistent(task[e][s], log[e][s], received[e][s])
  BY <1>3 DEF Init, Consistent, NoTask
<1> QED
  BY <1>2, <1>3 DEF IInv

\* The steps that only touch subscriptions.
LEMMA SubscriptionsKeep ==
    ASSUME IInv, UNCHANGED <<task, log, received, crashes>>,
           subs' \in [Subscription -> SubState]
    PROVE  IInv'
<1>1. TypeOK'
  BY DEF IInv, TypeOK
<1> QED
  BY <1>1 DEF IInv

LEMMA SubscriptionsInv ==
    ASSUME IInv, NEW s \in Subscription,
           CreateSubscription(s) \/ UpdateSubscription(s) \/ DeleteSubscription(s)
    PROVE  IInv'
<1>1. subs \in [Subscription -> SubState]
  BY DEF IInv, TypeOK
<1>2. CASE CreateSubscription(s)
  <2>1. subs' \in [Subscription -> SubState]
    BY <1>1, <1>2 DEF CreateSubscription, SubState
  <2> QED
    BY <1>2, <2>1, SubscriptionsKeep DEF CreateSubscription
<1>3. CASE UpdateSubscription(s)
  <2>1. subs' \in [Subscription -> SubState]
    BY <1>1, <1>3 DEF UpdateSubscription, SubState
  <2> QED
    BY <1>3, <2>1, SubscriptionsKeep DEF UpdateSubscription
<1>4. CASE DeleteSubscription(s)
  <2>1. subs' \in [Subscription -> SubState]
    BY <1>1, <1>4 DEF DeleteSubscription, SubState, NoRow
  <2> QED
    BY <1>4, <2>1, SubscriptionsKeep DEF DeleteSubscription
<1> QED
  BY <1>2, <1>3, <1>4

\* The steps that move the tasks of every subscription: each moves consistently.
LEMMA FanoutKeeps ==
    ASSUME IInv, NEW e \in Event, NEW ts \in [Subscription -> TaskState],
           \A s \in Subscription : Consistent(ts[s], log[e][s], received[e][s]),
           task' = [task EXCEPT ![e] = ts], UNCHANGED <<subs, log, received>>,
           crashes' \in 0..MaxCrashes
    PROVE  IInv'
<1>1. task \in [Event -> [Subscription -> TaskState]]
  BY DEF IInv, TypeOK
<1>2. TypeOK'
  BY <1>1 DEF IInv, TypeOK
<1>3. ASSUME NEW f \in Event, NEW u \in Subscription
      PROVE  Consistent(task'[f][u], log'[f][u], received'[f][u])
  <2>1. CASE f = e
    <3>1. task'[f][u] = ts[u]
      BY <2>1, <1>1
    <3> QED
      BY <3>1, <2>1
  <2>2. CASE f # e
    <3>1. task'[f][u] = task[f][u]
      BY <2>2, <1>1
    <3> QED
      BY <3>1 DEF IInv
  <2> QED
    BY <2>1, <2>2
<1> QED
  BY <1>2, <1>3 DEF IInv

LEMMA DispatchInv ==
    ASSUME IInv, NEW e \in Event, Dispatch(e)
    PROVE  IInv'
<1> DEFINE ts == [s \in Subscription |->
                    [NoTask EXCEPT !.pc = IF s \in Interested(e) THEN "fanout" ELSE "ended"]]
<1>1. ts \in [Subscription -> TaskState]
  BY DEF NoTask, TaskState
<1>2. ASSUME NEW s \in Subscription
      PROVE  Consistent(ts[s], log[e][s], received[e][s])
  <2>1. log[e][s] \in Seq(Outcome) /\ Len(log[e][s]) = 0 /\ received[e][s] = 0
    BY TaskParts DEF Dispatch, Consistent
  <2>2. ts[s].pc \in {"fanout", "ended"} /\ ts[s].retries = 0
    BY DEF NoTask
  <2> QED
    BY <2>1, <2>2, DeliveryAssumption DEF Consistent, AllFailed
<1>3. crashes' \in 0..MaxCrashes
  BY DEF IInv, TypeOK, Dispatch
<1>4. task' = [task EXCEPT ![e] = ts] /\ UNCHANGED <<subs, log, received>>
  BY DEF Dispatch
<1> HIDE DEF ts
<1> QED
  BY <1>1, <1>2, <1>3, <1>4, FanoutKeeps

LEMMA AbortFanoutInv ==
    ASSUME IInv, NEW e \in Event, AbortFanout(e)
    PROVE  IInv'
<1> DEFINE ts == [s \in Subscription |->
                    IF task[e][s].pc = "fanout" THEN [task[e][s] EXCEPT !.pc = "lost"]
                    ELSE task[e][s]]
<1>1. ts \in [Subscription -> TaskState]
  BY TaskParts DEF TaskState
<1>2. ASSUME NEW s \in Subscription
      PROVE  Consistent(ts[s], log[e][s], received[e][s])
  <2>1. CASE task[e][s].pc = "fanout"
    <3>1. log[e][s] \in Seq(Outcome) /\ Len(log[e][s]) = 0 /\ received[e][s] = 0
      BY <2>1, TaskParts DEF Consistent
    <3>2. ts[s].pc = "lost"
      BY <2>1, TaskParts DEF TaskState
    <3> QED
      BY <3>1, <3>2, DeliveryAssumption DEF Consistent, AllFailed
  <2>2. CASE task[e][s].pc # "fanout"
    BY <2>2, TaskParts
  <2> QED
    BY <2>1, <2>2
<1>3. crashes' \in 0..MaxCrashes
  BY DeliveryAssumption DEF IInv, TypeOK, AbortFanout
<1>4. task' = [task EXCEPT ![e] = ts] /\ UNCHANGED <<subs, log, received>>
  BY DEF AbortFanout
<1> HIDE DEF ts
<1> QED
  BY <1>1, <1>2, <1>3, <1>4, FanoutKeeps

\* The steps of one task that record nothing.
LEMMA GotoKeeps ==
    ASSUME IInv, NEW e \in Event, NEW s \in Subscription,
           NEW pc \in {"queued", "post", "ended", "lost"}, Goto(e, s, pc),
           UNCHANGED <<subs, log, received>>, crashes' \in 0..MaxCrashes,
           \/ task[e][s].pc = "fanout" /\ pc = "queued"
           \/ task[e][s].pc = "queued" /\ pc \in {"post", "ended"}
           \/ task[e][s].pc \in {"post", "record", "retry"} /\ pc \in {"ended", "lost"}
    PROVE  IInv'
<1> DEFINE t == [task[e][s] EXCEPT !.pc = pc]
<1>1. t \in TaskState
  BY TaskParts DEF TaskState
<1>2. t.pc = pc /\ t.retries = task[e][s].retries
  BY TaskParts DEF TaskState
<1>3. Consistent(t, log[e][s], received[e][s])
  <2>1. /\ log[e][s] \in Seq(Outcome) /\ Len(log[e][s]) \in Nat /\ received[e][s] \in Nat
        /\ task[e][s].retries \in Nat /\ MaxRetries \in Nat
        /\ Consistent(task[e][s], log[e][s], received[e][s])
    BY TaskParts, DeliveryAssumption
  <2>2. CASE pc \in {"queued", "post"}
    BY <1>2, <2>1, <2>2 DEF Consistent, AllFailed
  <2>3. CASE pc \in {"ended", "lost"}
    <3>1. /\ AllFailed(log[e][s])
          /\ Len(log[e][s]) <= MaxRetries + 1
          /\ received[e][s] <= Len(log[e][s]) + 1
      <4>1. task[e][s].pc \in {"queued", "post", "record", "retry"}
        BY <2>3
      <4>2. CASE task[e][s].pc \in {"queued", "post"}
        BY <2>1, <4>2 DEF Consistent
      <4>3. CASE task[e][s].pc = "record"
        BY <2>1, <4>3 DEF Consistent
      <4>4. CASE task[e][s].pc = "retry"
        BY <2>1, <4>4 DEF Consistent
      <4> QED
        BY <4>1, <4>2, <4>3, <4>4
    <3>2. \A i \in 1..(Len(log[e][s]) - 1) : log[e][s][i] = "unreachable"
      BY <2>1, <3>1 DEF AllFailed
    <3> QED
      BY <1>2, <2>3, <3>1, <3>2 DEF Consistent
  <2> QED
    BY <2>2, <2>3
<1>4. task' = [task EXCEPT ![e][s] = t]
  BY GotoMoves
<1> HIDE DEF t
<1> QED
  BY <1>1, <1>3, <1>4, MoveTask

LEMMA EnqueueInv ==
    ASSUME IInv, NEW e \in Event, NEW s \in Subscription, Enqueue(e, s)
    PROVE  IInv'
BY GotoKeeps DEF Enqueue, IInv, TypeOK

LEMMA TakeInv ==
    ASSUME IInv, NEW e \in Event, NEW s \in Subscription, Take(e, s)
    PROVE  IInv'
<1>1. CASE Active(s) /\ Parsable(s)
  BY <1>1, GotoKeeps DEF Take, IInv, TypeOK
<1>2. CASE ~(Active(s) /\ Parsable(s))
  BY <1>2, GotoKeeps DEF Take, IInv, TypeOK
<1> QED
  BY <1>1, <1>2

LEMMA WorkerCrashInv ==
    ASSUME IInv, NEW e \in Event, NEW s \in Subscription, WorkerCrash(e, s)
    PROVE  IInv'
<1>1. crashes' \in 0..MaxCrashes
  BY DeliveryAssumption DEF IInv, TypeOK, WorkerCrash
<1> QED
  BY <1>1, GotoKeeps DEF WorkerCrash, AfterCrash

LEMMA RetryInv ==
    ASSUME IInv, NEW e \in Event, NEW s \in Subscription, Retry(e, s)
    PROVE  IInv'
<1> DEFINE t == [pc |-> "queued", retries |-> task[e][s].retries + 1, outcome |-> "unknown"]
<1>1. /\ log[e][s] \in Seq(Outcome) /\ Len(log[e][s]) \in Nat /\ received[e][s] \in Nat
      /\ task[e][s].retries \in Nat /\ MaxRetries \in Nat
      /\ Consistent(task[e][s], log[e][s], received[e][s])
  BY TaskParts, DeliveryAssumption
<1>2. t \in TaskState
  BY <1>1 DEF TaskState
<1>3. Consistent(t, log[e][s], received[e][s])
  BY <1>1 DEF Consistent, Retry
<1>4. task' = [task EXCEPT ![e][s] = t] /\ crashes' \in 0..MaxCrashes
  BY DEF Retry, IInv, TypeOK
<1> HIDE DEF t
<1> QED
  BY <1>2, <1>3, <1>4, MoveTask DEF Retry

LEMMA PostInv ==
    ASSUME IInv, NEW e \in Event, NEW s \in Subscription, Post(e, s)
    PROVE  IInv'
<1>1. /\ log[e][s] \in Seq(Outcome) /\ Len(log[e][s]) \in Nat /\ received[e][s] \in Nat
      /\ task[e][s] \in TaskState /\ task[e][s].retries \in Nat /\ MaxRetries \in Nat
      /\ Consistent(task[e][s], log[e][s], received[e][s])
  BY TaskParts, DeliveryAssumption
<1>2. PICK outcome \in Outcome :
        /\ task' = [task EXCEPT ![e][s].pc = "record", ![e][s].outcome = outcome]
        /\ \/ received' = [received EXCEPT ![e][s] = @ + 1]
           \/ outcome = "unreachable" /\ UNCHANGED received
  BY DEF Post
<1> DEFINE t == [task[e][s] EXCEPT !.pc = "record", !.outcome = outcome]
<1>3. t \in TaskState /\ t.pc = "record" /\ t.outcome = outcome /\ t.retries = task[e][s].retries
  BY <1>1 DEF TaskState
<1>4. PICK r \in Nat :
        /\ received' = [received EXCEPT ![e][s] = r]
        /\ r <= received[e][s] + 1
  <2>1. received = [received EXCEPT ![e][s] = received[e][s]]
    BY DEF IInv, TypeOK
  <2>2. CASE received' = [received EXCEPT ![e][s] = @ + 1]
    <3>1. received' = [received EXCEPT ![e][s] = received[e][s] + 1]
      BY <2>2
    <3>2. received[e][s] + 1 \in Nat /\ received[e][s] + 1 <= received[e][s] + 1
      BY <1>1
    <3> QED
      BY <3>1, <3>2
  <2>3. CASE UNCHANGED received
    <3>1. received' = [received EXCEPT ![e][s] = received[e][s]]
      BY <2>1, <2>3
    <3>2. received[e][s] <= received[e][s] + 1
      BY <1>1
    <3> QED
      BY <1>1, <3>1, <3>2
  <2> QED
    BY <1>2, <2>2, <2>3
<1>5. Consistent(t, log[e][s], r)
  BY <1>1, <1>3, <1>4 DEF Consistent, Post
<1>6. task' = [task EXCEPT ![e][s] = t]
  BY <1>2 DEF IInv, TypeOK
<1>7. log' = [log EXCEPT ![e][s] = log[e][s]]
  BY DEF Post, IInv, TypeOK
<1> HIDE DEF t
<1>8. /\ task' \in [Event -> [Subscription -> TaskState]]
      /\ log' \in [Event -> [Subscription -> Seq(Outcome)]]
      /\ received' \in [Event -> [Subscription -> Nat]]
      /\ \A f \in Event, u \in Subscription : Consistent(task'[f][u], log'[f][u], received'[f][u])
  BY <1>1, <1>3, <1>4, <1>5, <1>6, <1>7, OneTask
<1> QED
  BY <1>8 DEF IInv, TypeOK, Post

LEMMA RecordInv ==
    ASSUME IInv, NEW e \in Event, NEW s \in Subscription, Record(e, s)
    PROVE  IInv'
<1>1. /\ log[e][s] \in Seq(Outcome) /\ Len(log[e][s]) \in Nat /\ received[e][s] \in Nat
      /\ task[e][s] \in TaskState /\ task[e][s].retries \in Nat /\ MaxRetries \in Nat
      /\ Consistent(task[e][s], log[e][s], received[e][s])
  BY TaskParts, DeliveryAssumption
<1>2. CASE Registered(s)
  <2> DEFINE o == task[e][s].outcome
             l == Append(log[e][s], o)
             pc == IF Retryable(task[e][s]) THEN "retry" ELSE "ended"
             t == [task[e][s] EXCEPT !.pc = pc]
  <2>1. o \in Outcome /\ AllFailed(log[e][s])
    BY <1>1 DEF Record, Consistent
  <2>2. l \in Seq(Outcome) /\ Len(l) = Len(log[e][s]) + 1
    BY <1>1, <2>1
  <2>3. /\ l[Len(l)] = o
        /\ \A i \in 1..(Len(l) - 1) : l[i] = "unreachable"
    BY <1>1, <2>1, <2>2 DEF AllFailed
  <2>4. t \in TaskState /\ t.pc = pc /\ t.retries = task[e][s].retries
    BY <1>1 DEF TaskState
  <2>5. Consistent(t, l, received[e][s])
    <3>1. /\ task[e][s].retries <= MaxRetries
          /\ Len(l) = task[e][s].retries + 1
          /\ received[e][s] <= task[e][s].retries + 1
      BY <1>1, <2>2 DEF Record, Consistent
    <3>2. CASE Retryable(task[e][s])
      <4>1. AllFailed(l)
        BY <1>1, <2>2, <2>3, <3>2 DEF AllFailed, Retryable
      <4> HIDE DEF l, t
      <4> QED
        BY <1>1, <2>4, <3>1, <3>2, <4>1 DEF Consistent, Retryable
    <3>3. CASE ~Retryable(task[e][s])
      <4> HIDE DEF l, t
      <4> QED
        BY <1>1, <2>3, <2>4, <3>1, <3>3 DEF Consistent
    <3> QED
      BY <3>2, <3>3
  <2>6. task' = [task EXCEPT ![e][s] = t]
    BY <1>2, GotoMoves DEF Record
  <2>7. /\ log' = [log EXCEPT ![e][s] = l]
        /\ received' = [received EXCEPT ![e][s] = received[e][s]]
    BY <1>2 DEF Record, IInv, TypeOK
  <2> HIDE DEF t, l
  <2>8. /\ task' \in [Event -> [Subscription -> TaskState]]
        /\ log' \in [Event -> [Subscription -> Seq(Outcome)]]
        /\ received' \in [Event -> [Subscription -> Nat]]
        /\ \A f \in Event, u \in Subscription : Consistent(task'[f][u], log'[f][u], received'[f][u])
    BY <1>1, <2>2, <2>4, <2>5, <2>6, <2>7, OneTask
  <2> QED
    BY <2>8 DEF IInv, TypeOK, Record
<1>3. CASE ~Registered(s)
  BY <1>3, GotoKeeps DEF Record, IInv, TypeOK
<1> QED
  BY <1>2, <1>3

LEMMA NextInv ==
    ASSUME IInv, [Next]_vars
    PROVE  IInv'
<1>1. CASE Next
  <2>1. ASSUME NEW s \in Subscription,
               CreateSubscription(s) \/ UpdateSubscription(s) \/ DeleteSubscription(s)
        PROVE  IInv'
    BY <2>1, SubscriptionsInv
  <2>2. ASSUME NEW e \in Event, Dispatch(e) \/ AbortFanout(e)
        PROVE  IInv'
    BY <2>2, DispatchInv, AbortFanoutInv
  <2>3. ASSUME NEW e \in Event, NEW s \in Subscription, Deliver(e, s) \/ WorkerCrash(e, s)
        PROVE  IInv'
    BY <2>3, EnqueueInv, TakeInv, PostInv, RecordInv, RetryInv, WorkerCrashInv DEF Deliver
  <2> QED
    BY <1>1, <2>1, <2>2, <2>3 DEF Next
<1>2. CASE UNCHANGED vars
  BY <1>2 DEF vars, IInv, TypeOK
<1> QED
  BY <1>1, <1>2

--------------------------------------------------------------------------
(* What the invariant says about the log *)

\* A log whose first n attempts failed has at least n failures.
LEMMA FailuresAtLeast ==
    ASSUME NEW e \in Event, NEW s \in Subscription, log[e][s] \in Seq(Outcome),
           NEW n \in Nat, n <= Len(log[e][s]),
           \A i \in 1..n : log[e][s][i] = "unreachable"
    PROVE  Failures(e, s) \in Nat /\ n <= Failures(e, s)
<1> DEFINE F == {i \in DOMAIN log[e][s] : log[e][s][i] = "unreachable"}
<1>1. IsFiniteSet(1..n) /\ Cardinality(1..n) = n
  BY FS_Interval
<1>2. IsFiniteSet(1..Len(log[e][s]))
  <2>1. Len(log[e][s]) \in Int
    OBVIOUS
  <2> QED
    BY <2>1, FS_Interval
<1>3. F \subseteq 1..Len(log[e][s]) /\ 1..n \subseteq F
  OBVIOUS
<1> HIDE DEF F
<1>4. IsFiniteSet(F)
  BY <1>2, <1>3, FS_Subset
<1>5. Cardinality(1..n) <= Cardinality(F) /\ Cardinality(F) \in Nat
  BY <1>3, <1>4, FS_Subset, FS_CardinalityType
<1> QED
  BY <1>1, <1>5 DEF F, Failures

LEMMA InvExplains ==
    ASSUME IInv
    PROVE  DuplicatesExplained
<1>1. ASSUME NEW e \in Event, NEW s \in Subscription
      PROVE  received[e][s] <= 1 + Failures(e, s)
  <2> DEFINE l == log[e][s]  r == received[e][s]
  <2>1. /\ l \in Seq(Outcome) /\ Len(l) \in Nat /\ r \in Nat /\ task[e][s] \in TaskState
        /\ task[e][s].retries \in Nat /\ MaxRetries \in Nat
        /\ Consistent(task[e][s], l, r)
    BY TaskParts, DeliveryAssumption
  <2>2. CASE AllFailed(l) /\ r <= Len(l) + 1
    <3>1. Failures(e, s) \in Nat /\ Len(l) <= Failures(e, s)
      BY <2>1, <2>2, FailuresAtLeast DEF AllFailed
    <3> QED
      BY <2>1, <2>2, <3>1
  <2>3. CASE Len(l) > 0 /\ r <= Len(l) /\ \A i \in 1..(Len(l) - 1) : l[i] = "unreachable"
    <3>1. Len(l) - 1 \in Nat /\ Len(l) - 1 <= Len(l)
      BY <2>1, <2>3
    <3>2. Failures(e, s) \in Nat /\ Len(l) - 1 <= Failures(e, s)
      BY <2>1, <2>3, <3>1, FailuresAtLeast
    <3> QED
      BY <2>1, <2>3, <3>2
  <2>4. \/ AllFailed(l) /\ r <= Len(l) + 1
        \/ Len(l) > 0 /\ r <= Len(l) /\ \A i \in 1..(Len(l) - 1) : l[i] = "unreachable"
    <3>1. CASE task[e][s].pc \in {"none", "fanout"}
      BY <2>1, <3>1 DEF Consistent, AllFailed
    <3>2. CASE task[e][s].pc \in {"queued", "post"}
      BY <2>1, <3>2 DEF Consistent
    <3>3. CASE task[e][s].pc \in {"record", "retry"}
      BY <2>1, <3>3 DEF Consistent
    <3>4. CASE task[e][s].pc \in {"ended", "lost"}
      <4>1. CASE Len(l) = 0
        BY <2>1, <3>4, <4>1 DEF Consistent, AllFailed
      <4>2. CASE Len(l) > 0
        BY <2>1, <3>4, <4>2 DEF Consistent
      <4> QED
        BY <2>1, <4>1, <4>2
    <3> QED
      BY <2>1, <3>1, <3>2, <3>3, <3>4 DEF TaskState
  <2> QED
    BY <2>2, <2>3, <2>4
<1> QED
  BY <1>1 DEF DuplicatesExplained

LEMMA InvEnds ==
    ASSUME IInv
    PROVE  RetriesEndWithAnswer
<1>1. ASSUME NEW e \in Event, NEW s \in Subscription
      PROVE  /\ Len(log[e][s]) <= MaxRetries + 1
             /\ \A i \in 1..(Len(log[e][s]) - 1) : log[e][s][i] = "unreachable"
  <2>1. /\ log[e][s] \in Seq(Outcome) /\ Len(log[e][s]) \in Nat /\ task[e][s] \in TaskState
        /\ task[e][s].retries \in Nat /\ MaxRetries \in Nat
        /\ Consistent(task[e][s], log[e][s], received[e][s])
    BY TaskParts, DeliveryAssumption
  <2>2. CASE task[e][s].pc \in {"ended", "lost"}
    BY <2>1, <2>2 DEF Consistent
  <2>3. CASE task[e][s].pc \in {"none", "fanout"}
    BY <2>1, <2>3 DEF Consistent
  <2>4. CASE task[e][s].pc \in {"queued", "post", "record", "retry"}
    <3>1. Len(log[e][s]) <= MaxRetries + 1 /\ AllFailed(log[e][s])
      <4>1. CASE task[e][s].pc \in {"queued", "post"}
        BY <2>1, <4>1 DEF Consistent
      <4>2. CASE task[e][s].pc = "record"
        BY <2>1, <4>2 DEF Consistent
      <4>3. CASE task[e][s].pc = "retry"
        BY <2>1, <4>3 DEF Consistent
      <4> QED
        BY <2>4, <4>1, <4>2, <4>3
    <3> QED
      BY <2>1, <3>1 DEF AllFailed
  <2> QED
    BY <2>1, <2>2, <2>3, <2>4 DEF TaskState
<1> QED
  BY <1>1 DEF RetriesEndWithAnswer

--------------------------------------------------------------------------
(* Theorems *)

\* Every task is at a place that agrees with what the log and the receiver have.
THEOREM InductiveInvariant == Spec => []IInv
BY InitInv, NextInv, PTL DEF Spec

\* Subscriptions, tasks, recorded outcomes and counts keep their types.
THEOREM TypeCorrect == Spec => []TypeOK
<1>1. IInv => TypeOK
  BY DEF IInv
<1> QED
  BY <1>1, InductiveInvariant, PTL

\* For any max_retries, one delivery records at most max_retries + 1 attempts and
\* only the last can be an answer: send_webhook_notification retries nothing else.
THEOREM DeliveryEnds == Spec => []RetriesEndWithAnswer
BY InvEnds, InductiveInvariant, PTL

\* However workers die and subscriptions change, a receiver that got an event n + 1
\* times has n attempts on record as unreachable: no duplicate is silent.
THEOREM NoSilentDuplicate == Spec => []DuplicatesExplained
BY InvExplains, InductiveInvariant, PTL
==========================================================================
