------------------------- MODULE WebhookDelivery -------------------------
(***************************************************************************)
(* From an event to the receivers of its webhooks.  dispatch_event selects  *)
(* the active subscriptions that listen to the event and hands one Celery    *)
(* task per subscription to the broker; a worker takes a task, reads the     *)
(* subscription again, posts, records the attempt, and asks for a retry      *)
(* only when no HTTP response came back.  Tasks are acknowledged when they    *)
(* are taken (Celery's default), so a worker that dies loses its task.       *)
(*                                                                         *)
(* One event and one subscription make at most one task, which is at one     *)
(* place at a time: task[e][s] is that place.                               *)
(***************************************************************************)
EXTENDS Integers, Sequences, FiniteSets

CONSTANTS
    Event,          \* occurrences of events
    EventType,      \* WebhookEventType
    TypeOf,         \* the type of each occurrence
    Subscription,   \* identifiers of subscriptions (never reused)
    MaxRetries,     \* max_retries of send_webhook_notification
    MaxCrashes      \* bound: processes lost in a behaviour

ASSUME DeliveryAssumption ==
    /\ TypeOf \in [Event -> EventType]
    /\ MaxRetries \in Nat /\ MaxCrashes \in Nat

VARIABLES
    subs,       \* the webhook_subscription table
    task,       \* where the delivery of an event to a subscription has got to
    log,        \* webhook_delivery: outcomes of the recorded attempts, oldest first
    received,   \* how many times the receiver got the event
    crashes     \* processes lost so far

vars == <<subs, task, log, received, crashes>>

\* A url is any string of at most 500 characters; httpx refuses to make a request of
\* one that it cannot parse.
SubState == [state  : {"absent", "active", "inactive", "deleted"},
             events : SUBSET EventType,
             url    : {"valid", "invalid"}]

\* "delivered": a 2xx response;  "refused": any other response;  "unreachable":
\* httpx.RequestError, a timeout included: the receiver may or may not have got it.
Outcome == {"delivered", "refused", "unreachable"}

\* "fanout": still to be handed to the broker by dispatch_event;  "queued": with the
\* broker;  "post", "record", "retry": a worker is about to do that;  "ended": by itself;
\* "lost": with the process that had it.
TaskState == [pc      : {"none", "fanout", "queued", "post", "record", "retry", "ended", "lost"},
              retries : Nat,
              outcome : Outcome \cup {"unknown"}]

NoTask == [pc |-> "none", retries |-> 0, outcome |-> "unknown"]

NoRow == [state |-> "absent", events |-> {}, url |-> "valid"]

Registered(s) == subs[s].state \in {"active", "inactive"}
Active(s) == subs[s].state = "active"
Parsable(s) == subs[s].url = "valid"

Goto(e, s, pc) == task' = [task EXCEPT ![e][s].pc = pc]

Init ==
    /\ subs = [s \in Subscription |-> NoRow]
    /\ task = [e \in Event |-> [s \in Subscription |-> NoTask]]
    /\ log = [e \in Event |-> [s \in Subscription |-> <<>>]]
    /\ received = [e \in Event |-> [s \in Subscription |-> 0]]
    /\ crashes = 0

--------------------------------------------------------------------------
(* Subscriptions *)

CreateSubscription(s) ==
    /\ subs[s].state = "absent"
    /\ \E events \in (SUBSET EventType) \ {{}}, url \in {"valid", "invalid"} :
          subs' = [subs EXCEPT ![s] = [state |-> "active", events |-> events, url |-> url]]
    /\ UNCHANGED <<task, log, received, crashes>>

\* The PATCH writes is_active, subscribed_events, url or any of them; what it was loaded
\* from does not matter to what it writes.
UpdateSubscription(s) ==
    /\ Registered(s)
    /\ \E state \in {"active", "inactive"}, events \in SUBSET EventType, url \in {"valid", "invalid"} :
          subs' = [subs EXCEPT ![s] = [state |-> state, events |-> events, url |-> url]]
    /\ UNCHANGED <<task, log, received, crashes>>

\* webhook_delivery.subscription_id refers to the row, without ON DELETE: the
\* DELETE of a subscription that has deliveries fails.
DeleteSubscription(s) ==
    /\ Registered(s)
    /\ \A e \in Event : log[e][s] = <<>>
    /\ subs' = [subs EXCEPT ![s] = [NoRow EXCEPT !.state = "deleted"]]
    /\ UNCHANGED <<task, log, received, crashes>>

--------------------------------------------------------------------------
(* dispatch_event *)

Interested(e) == {s \in Subscription : Active(s) /\ TypeOf[e] \in subs[s].events}

Dispatch(e) ==
    /\ \A s \in Subscription : task[e][s].pc = "none"
    /\ task' = [task EXCEPT ![e] =
                  [s \in Subscription |->
                      [NoTask EXCEPT !.pc = IF s \in Interested(e) THEN "fanout" ELSE "ended"]]]
    /\ UNCHANGED <<subs, log, received, crashes>>

Enqueue(e, s) ==
    /\ task[e][s].pc = "fanout"
    /\ Goto(e, s, "queued")
    /\ UNCHANGED <<subs, log, received, crashes>>

\* The dispatching process dies or the broker refuses: the rest of the loop is lost.
AbortFanout(e) ==
    /\ crashes < MaxCrashes
    /\ \E s \in Subscription : task[e][s].pc = "fanout"
    /\ task' = [task EXCEPT ![e] =
                  [s \in Subscription |->
                      IF task[e][s].pc = "fanout" THEN [task[e][s] EXCEPT !.pc = "lost"]
                      ELSE task[e][s]]]
    /\ crashes' = crashes + 1
    /\ UNCHANGED <<subs, log, received>>

--------------------------------------------------------------------------
(* send_webhook_notification *)

\* Fault: the delivery row is written before the request is made.
Take_Recorded(e, s) ==
    /\ task[e][s].pc = "queued"
    /\ Goto(e, s, IF Active(s) THEN "record" ELSE "ended")
    /\ UNCHANGED <<subs, log, received, crashes>>

\* The subscription is read again: one that is gone or inactive ends the task.  So does
\* one whose url httpx cannot parse: InvalidURL is no RequestError, and leaves the task
\* before any request, without a row and without a retry.  The url is the one that is
\* read here, so httpx.post refusing it is part of this step.
Take(e, s) ==
    /\ task[e][s].pc = "queued"
    /\ Goto(e, s, IF Active(s) /\ Parsable(s) THEN "post" ELSE "ended")
    /\ UNCHANGED <<subs, log, received, crashes>>

Post(e, s) ==
    /\ task[e][s].pc = "post"
    /\ \E outcome \in Outcome :
          /\ task' = [task EXCEPT ![e][s].pc = "record", ![e][s].outcome = outcome]
          /\ \/ received' = [received EXCEPT ![e][s] = @ + 1]
             \/ outcome = "unreachable" /\ UNCHANGED received
    /\ UNCHANGED <<subs, log, crashes>>

\* Fault: a receiver that answers with an error is retried too.
Retryable_Refused(t) == t.outcome # "delivered" /\ t.retries < MaxRetries

\* Fault: one retry less.
Retryable_Fewer(t) == t.outcome = "unreachable" /\ t.retries + 1 < MaxRetries

\* self.retry, after a RequestError only, raises the exception itself once
\* max_retries have been used.
Retryable(t) == t.outcome = "unreachable" /\ t.retries < MaxRetries

\* The delivery row is committed; if the subscription was deleted meanwhile its
\* foreign key fails, and the task ends without record and without retry.
Record(e, s) ==
    /\ task[e][s].pc = "record"
    /\ IF Registered(s)
       THEN /\ log' = [log EXCEPT ![e][s] = Append(@, task[e][s].outcome)]
            /\ Goto(e, s, IF Retryable(task[e][s]) THEN "retry" ELSE "ended")
       ELSE /\ Goto(e, s, "ended")
            /\ UNCHANGED log
    /\ UNCHANGED <<subs, received, crashes>>

Retry(e, s) ==
    /\ task[e][s].pc = "retry"
    /\ task' = [task EXCEPT ![e][s] = [pc |-> "queued", retries |-> @.retries + 1,
                                       outcome |-> "unknown"]]
    /\ UNCHANGED <<subs, log, received, crashes>>

\* Fault: acks_late, the broker hands the task of a dead worker to another one.
AfterCrash_Queued == "queued"

AfterCrash == "lost"

WorkerCrash(e, s) ==
    /\ task[e][s].pc \in {"post", "record", "retry"}
    /\ crashes < MaxCrashes
    /\ Goto(e, s, AfterCrash)
    /\ crashes' = crashes + 1
    /\ UNCHANGED <<subs, log, received>>

--------------------------------------------------------------------------

Deliver(e, s) == Enqueue(e, s) \/ Take(e, s) \/ Post(e, s) \/ Record(e, s) \/ Retry(e, s)

Next ==
    \/ \E s \in Subscription :
          CreateSubscription(s) \/ UpdateSubscription(s) \/ DeleteSubscription(s)
    \/ \E e \in Event : Dispatch(e) \/ AbortFanout(e)
    \/ \E e \in Event, s \in Subscription : Deliver(e, s) \/ WorkerCrash(e, s)

Spec == Init /\ [][Next]_vars

\* A process goes on with what it has begun, the broker hands every task to some
\* worker, and httpx returns (webhook_timeout_seconds).
FairSpec == Spec /\ \A e \in Event, s \in Subscription : WF_vars(Deliver(e, s))

--------------------------------------------------------------------------
(* Properties *)

\* The variables hold subscriptions, tasks, outcomes and counts.
TypeOK ==
    /\ subs \in [Subscription -> SubState]
    /\ task \in [Event -> [Subscription -> TaskState]]
    /\ log \in [Event -> [Subscription -> Seq(Outcome)]]
    /\ received \in [Event -> [Subscription -> Nat]]
    /\ crashes \in 0..MaxCrashes

\* send_webhook_notification gives up after max_retries retries, and whatever the
\* receiver answers, an answer that is on record is the last thing tried.
RetriesEndWithAnswer ==
    \A e \in Event, s \in Subscription :
        /\ Len(log[e][s]) <= MaxRetries + 1
        /\ \A i \in 1..(Len(log[e][s]) - 1) : log[e][s][i] = "unreachable"

Failures(e, s) == Cardinality({i \in DOMAIN log[e][s] : log[e][s][i] = "unreachable"})

\* A receiver gets an event twice only if an attempt in between is on record as
\* unreachable, however many workers die: the log explains every duplicate.
DuplicatesExplained ==
    \A e \in Event, s \in Subscription : received[e][s] <= 1 + Failures(e, s)

InFlight(e, s) == task[e][s].pc \notin {"none", "ended", "lost"}

Answered(e, s) == \E i \in DOMAIN log[e][s] : log[e][s][i] # "unreachable"

\* A task that dispatch_event selected does not stay on its way, and unless it is lost
\* with its own process (which no other loss excuses) it does not end before an answer
\* or the last retry while its subscription is active and has a url httpx can parse.
DeliveryPersists ==
    \A e \in Event, s \in Subscription :
        InFlight(e, s) ~> /\ ~InFlight(e, s)
                          /\ \/ Answered(e, s)
                             \/ Len(log[e][s]) = MaxRetries + 1
                             \/ ~Active(s)
                             \/ ~Parsable(s)
                             \/ task[e][s].pc = "lost"
==========================================================================
