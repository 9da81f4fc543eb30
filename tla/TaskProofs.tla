----------------------------- MODULE TaskProofs -----------------------------
(***************************************************************************)
(* Proofs about the tasks that serve requests and connections.             *)
(*                                                                         *)
(* WebhookIntake, for any batches of events, any number of tasks and any   *)
(* number of deliveries by LINE: an event reaches the clients twice, and is *)
(* acknowledged without reaching them, only by the causes the code has for  *)
(* it.                                                                     *)
(*                                                                         *)
(* TaskLocks, for any clients, shards, requests and threads: the ownership  *)
(* maps are locked apart from the registry, who has both has them alone, and *)
(* every thread blocked on a lock has one of two causes.                   *)
(***************************************************************************)
EXTENDS WebhookIntake, TaskLocks, FiniteSetTheorems, SequenceTheorems, TLAPS

(***************************************************************************)
(* Requests from LINE                                                      *)
(***************************************************************************)

\* A request past its signature.
Requests == [at : {"body", "event", "routing"}, batch : Batches,
             next : Nat \ {0}, redelivery : BOOLEAN]

\* A task serves a request or none, and it routes an event of its batch.
IntakeTypeOK ==
  /\ config \in [dedup : BOOLEAN, redeliveries : BOOLEAN]
  /\ sends \in [Batches -> Nat]
  /\ task \in [WebhookTasks -> {NoRequest} \cup Requests]
  /\ \A q \in WebhookTasks :
       task[q].at = "routing" => task[q].next <= Len(EventsOf[task[q].batch])
  /\ reached \in [Events -> Nat]

Serves(q) == task[q].at # "idle"

Routes(q, e) == task[q].at = "routing" /\ Event(q) = e

\* A batch that LINE has not sent is not served, and its events are new.
NotSent ==
  \A b \in Batches : sends[b] = 0 =>
    /\ \A q \in WebhookTasks : Serves(q) => task[q].batch # b
    /\ \A i \in 1 .. Len(EventsOf[b]) : reached[EventsOf[b][i]] = 0

\* One request serves a batch for the first time.
FirstOnce ==
  \A p, q \in WebhookTasks :
    /\ Serves(p) /\ ~task[p].redelivery
    /\ Serves(q) /\ ~task[q].redelivery
    /\ task[p].batch = task[q].batch
    => p = q

\* What the first request of a batch has yet to route is new.
Ahead ==
  \A q \in WebhookTasks :
    Serves(q) /\ ~task[q].redelivery =>
      \A i \in 1 .. Len(EventsOf[task[q].batch]) :
        i >= task[q].next => reached[EventsOf[task[q].batch][i]] = 0

\* Redeliveries are left out: only the first request routes.
FirstInv ==
  ~config.redeliveries =>
    /\ NotSent /\ FirstOnce /\ Ahead
    /\ \A q \in WebhookTasks : task[q].at = "routing" => ~task[q].redelivery
    /\ \A e \in Events : reached[e] <= 1

\* The table has whatever was routed or is being routed, and no event is routed
\* by two requests.
Marked(e) ==
  /\ reached[e] <= 1
  /\ reached[e] = 1 => e \in seen
  /\ \A q \in WebhookTasks : Routes(q, e) =>
       /\ e \in seen
       /\ reached[e] = 0
       /\ \A p \in WebhookTasks : Routes(p, e) => p = q

MarkedInv == config.dedup => \A e \in Events \ unmarked : Marked(e)

-----------------------------------------------------------------------------

\* The event a task is at belongs to its batch, and to no other place of one.
LEMMA EventAt ==
  ASSUME IntakeTypeOK, NEW q \in WebhookTasks,
         task[q].at = "routing" \/ AtEvent(q)
  PROVE  /\ task[q] \in Requests
         /\ task[q].batch \in Batches
         /\ task[q].next \in 1 .. Len(EventsOf[task[q].batch])
         /\ Event(q) \in Events
         /\ \A b \in Batches : \A i \in 1 .. Len(EventsOf[b]) :
              EventsOf[b][i] = Event(q) => b = task[q].batch /\ i = task[q].next
<1>1. task[q] \in Requests
  BY DEF IntakeTypeOK, AtEvent, NoRequest
<1>2. /\ task[q].batch \in Batches
      /\ task[q].next \in 1 .. Len(EventsOf[task[q].batch])
  BY <1>1, BatchesAssumption DEF IntakeTypeOK, AtEvent, Requests
<1>3. Event(q) \in Events
  BY <1>2 DEF Events, Event
<1>4. \A b \in Batches : \A i \in 1 .. Len(EventsOf[b]) :
        EventsOf[b][i] = Event(q) => b = task[q].batch /\ i = task[q].next
  BY <1>2, BatchesAssumption DEF Event
<1> QED
  BY <1>1, <1>2, <1>3, <1>4

\* What the steps of a task do to it. A task that is not at an event, or goes
\* on to the next one, routes none.
LEMMA TaskTypeStep ==
  ASSUME IntakeTypeOK, NEW q \in WebhookTasks,
         \/ /\ task[q].at = "body"
            /\ task' = [task EXCEPT ![q].at = "event"]
         \/ /\ task[q].at = "routing" \/ AtEvent(q)
            /\ NextEvent(q)
         \/ Finish(q)
  PROVE  /\ task' \in [WebhookTasks -> {NoRequest} \cup Requests]
         /\ \A p \in WebhookTasks \ {q} : task'[p] = task[p]
         /\ \/ task'[q] = NoRequest
            \/ /\ Serves(q)
               /\ task'[q].at = "event"
               /\ task'[q].batch = task[q].batch
               /\ task'[q].redelivery = task[q].redelivery
               /\ \/ task'[q].next = task[q].next /\ task[q].at = "body"
                  \/ task'[q].next = task[q].next + 1
<1>1. CASE task[q].at = "body" /\ task' = [task EXCEPT ![q].at = "event"]
  <2>1. task[q] \in Requests
    BY <1>1 DEF IntakeTypeOK, NoRequest
  <2> QED
    BY <1>1, <2>1 DEF IntakeTypeOK, Requests, Serves
<1>2. CASE (task[q].at = "routing" \/ AtEvent(q)) /\ NextEvent(q)
  <2>1. task[q] \in Requests
    BY <1>2, EventAt
  <2> DEFINE n == task[q].next + 1
  <2>2. n \in Nat \ {0} /\ task[q].at # "idle"
    BY <2>1 DEF Requests
  <2>3. task'[q] = [task[q] EXCEPT !.at = "event", !.next = n]
    BY <1>2 DEF NextEvent, IntakeTypeOK
  <2> HIDE DEF n
  <2>4. /\ task'[q] \in Requests
        /\ task'[q].at = "event" /\ task'[q].next = n
        /\ task'[q].batch = task[q].batch
        /\ task'[q].redelivery = task[q].redelivery
    <3>1. \A r, s : r \in Requests /\ s = [r EXCEPT !.at = "event", !.next = n] =>
            /\ s \in Requests
            /\ s.at = "event" /\ s.next = n
            /\ s.batch = r.batch /\ s.redelivery = r.redelivery
      BY <2>2 DEF Requests
    <3> QED
      BY <2>1, <2>3, <3>1
  <2>5. /\ DOMAIN task' = WebhookTasks
        /\ \A p \in WebhookTasks \ {q} : task'[p] = task[p]
    BY <1>2 DEF NextEvent, IntakeTypeOK
  <2> QED
    BY <1>2, <2>2, <2>4, <2>5 DEF n, IntakeTypeOK, NextEvent, Serves
<1>3. CASE Finish(q)
  BY <1>3 DEF IntakeTypeOK, Finish
<1> QED
  BY <1>1, <1>2, <1>3

\* What a step of a task does that neither begins a request nor has an effect on
\* the clients.
Quiet(q) ==
  /\ UNCHANGED << config, sends, reached >>
  /\ task' \in [WebhookTasks -> {NoRequest} \cup Requests]
  /\ \A p \in WebhookTasks \ {q} : task'[p] = task[p]
  /\ \/ task'[q] = NoRequest
     \/ /\ Serves(q)
        /\ task'[q].at \in {"event", "routing"}
        /\ task'[q].batch = task[q].batch
        /\ task'[q].redelivery = task[q].redelivery
        /\ task'[q].next \in {task[q].next, task[q].next + 1}
        /\ task'[q].at = "routing" =>
             /\ AtEvent(q)
             /\ task'[q].next = task[q].next
             /\ task[q].redelivery => config.redeliveries

\* Refusing and accepting a request, skipping and marking an event, and answering
\* are such steps, and only marking begins to route.
LEMMA QuietSteps ==
  ASSUME IntakeTypeOK, NEW q \in WebhookTasks,
         RefuseRequest(q) \/ AcceptBody(q) \/ SkipEvent(q) \/ MarkEvent(q) \/ Answer(q)
  PROVE  /\ Quiet(q)
         /\ task'[q].at = "routing" => MarkEvent(q)
         /\ MarkEvent(q) \/ UNCHANGED << seen, unmarked >>
<1> USE DEF given, outcomes
<1>1. CASE RefuseRequest(q)
  BY <1>1, TaskTypeStep DEF RefuseRequest, Quiet, NoRequest
<1>2. CASE AcceptBody(q)
  BY <1>2, TaskTypeStep DEF AcceptBody, Quiet, NoRequest
<1>3. CASE SkipEvent(q)
  BY <1>3, TaskTypeStep DEF SkipEvent, Quiet, NoRequest
<1>4. CASE Answer(q)
  BY <1>4, TaskTypeStep DEF Answer, Quiet, NoRequest
<1>5. CASE MarkEvent(q)
  <2>1. AtEvent(q) /\ RouteOrSkip(q) /\ UNCHANGED << config, sends, reached >>
    BY <1>5 DEF MarkEvent
  <2>2. task[q] \in Requests /\ Serves(q)
    BY <2>1, EventAt DEF AtEvent, Serves
  <2>3. CASE NextEvent(q)
    BY <2>1, <2>3, TaskTypeStep, <1>5 DEF Quiet, NoRequest
  <2>4. CASE /\ task' = [task EXCEPT ![q].at = "routing"]
             /\ ~(task[q].redelivery /\ ~config.redeliveries)
    <3>1. /\ task' \in [WebhookTasks -> {NoRequest} \cup Requests]
          /\ \A p \in WebhookTasks \ {q} : task'[p] = task[p]
          /\ task'[q].at = "routing"
          /\ task'[q].batch = task[q].batch
          /\ task'[q].redelivery = task[q].redelivery
          /\ task'[q].next = task[q].next
      BY <2>2, <2>4 DEF IntakeTypeOK, Requests
    <3> QED
      BY <2>1, <2>2, <2>4, <3>1, <1>5 DEF Quiet
  <2> QED
    BY <2>1, <2>3, <2>4 DEF RouteOrSkip
<1> QED
  BY <1>1, <1>2, <1>3, <1>4, <1>5

\* The other steps: what becomes of the task that routed, and of the requests
\* that are dropped.
LEMMA EffectSteps ==
  ASSUME IntakeTypeOK
  PROVE  /\ \A q \in WebhookTasks, toSome, ok \in BOOLEAN :
              RouteEnds(q, toSome, ok) =>
              /\ task[q].at = "routing"
              /\ UNCHANGED << config, sends, seen, unmarked >>
              /\ \/ UNCHANGED reached
                 \/ reached' = [reached EXCEPT ![Event(q)] = @ + 1]
              /\ task' \in [WebhookTasks -> {NoRequest} \cup Requests]
              /\ \A p \in WebhookTasks \ {q} : task'[p] = task[p]
              /\ task'[q].at = "event"
              /\ task'[q].batch = task[q].batch
              /\ task'[q].redelivery = task[q].redelivery
              /\ task'[q].next = task[q].next + 1
         /\ \A Q \in SUBSET WebhookTasks : Drop(Q) =>
              /\ UNCHANGED << config, sends, seen, unmarked >>
              /\ task' \in [WebhookTasks -> {NoRequest} \cup Requests]
              /\ \A q \in WebhookTasks : task'[q] = NoRequest \/ task'[q] = task[q]
              /\ reached' \in [Events -> Nat]
              /\ \A e \in Events : \/ reached'[e] = reached[e]
                                   \/ /\ reached'[e] = reached[e] + 1
                                      /\ \E q \in WebhookTasks :
                                           Routes(q, e) /\ task'[q] = NoRequest
<1>1. ASSUME NEW q \in WebhookTasks, NEW toSome \in BOOLEAN, NEW ok \in BOOLEAN,
             RouteEnds(q, toSome, ok)
      PROVE  /\ task' \in [WebhookTasks -> {NoRequest} \cup Requests]
             /\ \A p \in WebhookTasks \ {q} : task'[p] = task[p]
             /\ task'[q].at = "event"
             /\ task'[q].batch = task[q].batch
             /\ task'[q].redelivery = task[q].redelivery
             /\ task'[q].next = task[q].next + 1
  <2>1. task[q].at = "routing" /\ NextEvent(q) /\ task[q] \in Requests
    BY <1>1, EventAt DEF RouteEnds
  <2>2. task'[q] # NoRequest
    BY <2>1 DEF NextEvent, IntakeTypeOK, NoRequest, Requests
  <2> QED
    BY <2>1, <2>2, TaskTypeStep
<1>2. ASSUME NEW Q \in SUBSET WebhookTasks, Drop(Q)
      PROVE  /\ UNCHANGED << config, sends, seen, unmarked >>
             /\ task' \in [WebhookTasks -> {NoRequest} \cup Requests]
             /\ \A q \in WebhookTasks : task'[q] = NoRequest \/ task'[q] = task[q]
             /\ reached' \in [Events -> Nat]
             /\ \A e \in Events : \/ reached'[e] = reached[e]
                                  \/ /\ reached'[e] = reached[e] + 1
                                     /\ \E q \in WebhookTasks :
                                          Routes(q, e) /\ task'[q] = NoRequest
  <2>1. /\ UNCHANGED << config, sends, seen, unmarked >>
        /\ task' = [q \in WebhookTasks |-> IF q \in Q THEN NoRequest ELSE task[q]]
    BY <1>2 DEF Drop, given
  <2>2. PICK S \in SUBSET {Event(q) : q \in {r \in Q : task[r].at = "routing"}} :
          reached' = [e \in Events |-> IF e \in S THEN reached[e] + 1 ELSE reached[e]]
    BY <1>2 DEF Drop
  <2>3. \A e \in S : \E q \in Q : Routes(q, e)
    BY <2>2 DEF Routes
  <2> QED
    BY <2>1, <2>2, <2>3 DEF IntakeTypeOK
<1> QED
  BY <1>1, <1>2 DEF RouteEnds, given

-----------------------------------------------------------------------------

\* A task goes on as it was, is free, or goes on with its request: to route the
\* event it is at, or to the next.
Follows(q) ==
  \/ task'[q] = task[q]
  \/ task'[q] = NoRequest
  \/ /\ Serves(q)
     /\ task'[q].at \in {"event", "routing"}
     /\ task'[q].batch = task[q].batch
     /\ task'[q].redelivery = task[q].redelivery
     /\ task'[q].next \in {task[q].next, task[q].next + 1}
     /\ task'[q].at = "routing" =>
          /\ AtEvent(q)
          /\ task'[q].next = task[q].next
          /\ task[q].redelivery => config.redeliveries

\* A task is past the event it routed.
Past(q) ==
  \/ task'[q] = NoRequest
  \/ /\ task'[q].at = "event"
     /\ task'[q].batch = task[q].batch
     /\ task'[q].next = task[q].next + 1

\* No request begins, and an event reaches the clients only by a task that
\* routed it and is past it.
GoesOn ==
  /\ UNCHANGED << config, sends >>
  /\ task' \in [WebhookTasks -> {NoRequest} \cup Requests]
  /\ reached' \in [Events -> Nat]
  /\ \A q \in WebhookTasks : Follows(q)
  /\ \A e \in Events :
       \/ reached'[e] = reached[e]
       \/ /\ reached'[e] = reached[e] + 1
          /\ \E q \in WebhookTasks : Routes(q, e) /\ Past(q)

\* Every step but the beginning of a request is like that.
LEMMA StepGoesOn ==
  ASSUME IntakeTypeOK, [IntakeNext]_intakeVars
  PROVE  GoesOn \/ \E q \in WebhookTasks, b \in Batches : Deliver(q, b)
<1>1. ASSUME NEW q \in WebhookTasks,
             RefuseRequest(q) \/ AcceptBody(q) \/ SkipEvent(q) \/ MarkEvent(q)
               \/ Answer(q)
      PROVE  GoesOn
  <2>1. Quiet(q)
    BY <1>1, QuietSteps
  <2>2. \A p \in WebhookTasks : Follows(p)
    BY <2>1 DEF Quiet, Follows
  <2> QED
    BY <2>1, <2>2 DEF Quiet, GoesOn, IntakeTypeOK
<1>2. ASSUME NEW q \in WebhookTasks, NEW toSome \in BOOLEAN, NEW ok \in BOOLEAN,
             RouteEnds(q, toSome, ok)
      PROVE  GoesOn
  <2>1. Follows(q) /\ Past(q) /\ Serves(q)
    BY <1>2, EffectSteps DEF Follows, Past, Serves
  <2>2. \A p \in WebhookTasks : Follows(p)
    BY <1>2, <2>1, EffectSteps DEF Follows
  <2>3. Event(q) \in Events /\ Routes(q, Event(q))
    BY <1>2, EventAt DEF RouteEnds, Routes
  <2>4. /\ reached' \in [Events -> Nat]
        /\ \A e \in Events : \/ reached'[e] = reached[e]
                             \/ e = Event(q) /\ reached'[e] = reached[e] + 1
    <3> DEFINE x == Event(q)
    <3>1. reached \in [Events -> Nat] /\ x \in Events
      BY <2>3 DEF IntakeTypeOK
    <3>2. reached' = reached \/ reached' = [reached EXCEPT ![x] = @ + 1]
      BY <1>2, EffectSteps
    <3> HIDE DEF x
    <3>3. /\ reached' \in [Events -> Nat]
          /\ \A e \in Events : \/ reached'[e] = reached[e]
                               \/ e = x /\ reached'[e] = reached[e] + 1
      BY <3>1, <3>2
    <3> QED
      BY <3>3 DEF x
  <2>5. /\ UNCHANGED << config, sends >>
        /\ task' \in [WebhookTasks -> {NoRequest} \cup Requests]
    BY <1>2, EffectSteps
  <2>6. \A e \in Events :
          \/ reached'[e] = reached[e]
          \/ /\ reached'[e] = reached[e] + 1
             /\ \E p \in WebhookTasks : Routes(p, e) /\ Past(p)
    BY <2>1, <2>3, <2>4
  <2> QED
    BY <2>2, <2>4, <2>5, <2>6 DEF GoesOn
<1>3. ASSUME NEW Q \in SUBSET WebhookTasks, Drop(Q)
      PROVE  GoesOn
  BY <1>3, EffectSteps DEF GoesOn, Follows, Past
<1>4. ASSUME UNCHANGED << config, sends, task, reached >>
      PROVE  GoesOn
  BY <1>4 DEF GoesOn, Follows, IntakeTypeOK
<1>5. ASSUME NEW q \in WebhookTasks, HangUp(q)
      PROVE  GoesOn
  BY <1>5, <1>3 DEF HangUp
<1>6. IntakeCrash => GoesOn
  BY <1>3 DEF IntakeCrash
<1>7. ASSUME NEW e \in Events, MarkExpires(e)
      PROVE  GoesOn
  BY <1>7, <1>4 DEF MarkExpires, given, outcomes
<1>8. CASE UNCHANGED intakeVars
  BY <1>8, <1>4 DEF intakeVars
<1> QED
  BY <1>1, <1>2, <1>5, <1>6, <1>7, <1>8 DEF IntakeNext

\* What LINE's sending of a batch does to the tasks.
LEMMA DeliverStep ==
  ASSUME IntakeTypeOK, NEW q \in WebhookTasks, NEW b \in Batches, Deliver(q, b)
  PROVE  /\ UNCHANGED << config, seen, unmarked, reached >>
         /\ task' \in [WebhookTasks -> {NoRequest} \cup Requests]
         /\ \A p \in WebhookTasks \ {q} : task'[p] = task[p]
         /\ ~Serves(q)
         /\ task'[q].at = "body" /\ task'[q].batch = b /\ task'[q].next = 1
         /\ task'[q].redelivery \in BOOLEAN
         /\ task'[q].redelivery <=> sends[b] > 0
         /\ sends[b] \in Nat
         /\ sends' \in [Batches -> Nat]
         /\ sends'[b] # 0
         /\ \A d \in Batches \ {b} : sends'[d] = sends[d]
<1>1. sends[b] \in Nat
  BY DEF IntakeTypeOK
<1>2. /\ sends' \in [Batches -> Nat]
      /\ sends'[b] # 0
      /\ \A d \in Batches \ {b} : sends'[d] = sends[d]
  BY <1>1 DEF Deliver, IntakeTypeOK
<1> DEFINE again == sends[b] > 0
<1>3. again \in BOOLEAN
  BY <1>1
<1>4. task' = [task EXCEPT ![q] =
        [at |-> "body", batch |-> b, next |-> 1, redelivery |-> again]]
  BY DEF Deliver
<1> HIDE DEF again
<1>5. [at |-> "body", batch |-> b, next |-> 1, redelivery |-> again] \in Requests
  BY <1>3 DEF Requests
<1>6. /\ task' \in [WebhookTasks -> {NoRequest} \cup Requests]
      /\ \A p \in WebhookTasks \ {q} : task'[p] = task[p]
      /\ task'[q] = [at |-> "body", batch |-> b, next |-> 1, redelivery |-> again]
  BY <1>4, <1>5 DEF IntakeTypeOK
<1>7. /\ task'[q].at = "body" /\ task'[q].batch = b /\ task'[q].next = 1
      /\ task'[q].redelivery = again
  BY <1>6
<1>8. UNCHANGED << config, seen, unmarked, reached >> /\ ~Serves(q)
  BY DEF Deliver, given, outcomes, Serves
<1>9. again <=> sends[b] > 0
  BY DEF again
<1> QED
  BY <1>1, <1>2, <1>3, <1>6, <1>7, <1>8, <1>9

\* Every step keeps the types.
LEMMA IntakeTypeStep ==
  ASSUME IntakeTypeOK, [IntakeNext]_intakeVars
  PROVE  IntakeTypeOK'
<1>1. CASE GoesOn
  <2>1. \A q \in WebhookTasks :
          task'[q].at = "routing" => task'[q].next <= Len(EventsOf[task'[q].batch])
    BY <1>1 DEF GoesOn, Follows, AtEvent, IntakeTypeOK, NoRequest
  <2> QED
    BY <1>1, <2>1 DEF GoesOn, IntakeTypeOK
<1>2. ASSUME NEW q \in WebhookTasks, NEW b \in Batches, Deliver(q, b)
      PROVE  IntakeTypeOK'
  <2>1. task'[q].at = "body" /\ \A p \in WebhookTasks \ {q} : task'[p] = task[p]
    BY <1>2, DeliverStep
  <2>2. \A p \in WebhookTasks :
          task'[p].at = "routing" => task'[p].next <= Len(EventsOf[task'[p].batch])
    BY <2>1 DEF IntakeTypeOK
  <2> QED
    BY <1>2, <2>2, DeliverStep DEF IntakeTypeOK
<1> QED
  BY <1>1, <1>2, StepGoesOn

\* What a first request routed was new, and no other request gives it out.
LEMMA FirstStep ==
  ASSUME IntakeTypeOK, FirstInv, GoesOn
  PROVE  FirstInv'
<1> SUFFICES ASSUME ~config.redeliveries
             PROVE  FirstInv'
  BY DEF FirstInv, GoesOn
<1>1. /\ NotSent /\ FirstOnce /\ Ahead
      /\ \A q \in WebhookTasks : task[q].at = "routing" => ~task[q].redelivery
      /\ \A e \in Events : reached[e] <= 1
  BY DEF FirstInv
<1>2. \A q \in WebhookTasks : Serves(q)' =>
        /\ Serves(q)
        /\ task'[q].batch = task[q].batch
        /\ task'[q].redelivery = task[q].redelivery
        /\ task[q] \in Requests /\ task'[q] \in Requests
        /\ task'[q].next \in {task[q].next, task[q].next + 1}
  <2> TAKE q \in WebhookTasks
  <2>1. CASE task'[q] = NoRequest
    BY <2>1 DEF Serves, NoRequest
  <2>2. CASE task'[q] # NoRequest
    <3>1. task'[q] \in Requests
      BY <2>2 DEF GoesOn
    <3>2. Serves(q)
      BY <3>1 DEF GoesOn, Follows, Serves, Requests, NoRequest
    <3>3. task[q] \in Requests
      BY <3>2 DEF IntakeTypeOK, Serves, NoRequest
    <3> QED
      BY <2>2, <3>1, <3>2, <3>3 DEF GoesOn, Follows
  <2> QED
    BY <2>1, <2>2
<1>3. \A q \in WebhookTasks, e \in Events : Routes(q, e) =>
        /\ Serves(q) /\ ~task[q].redelivery
        /\ task[q].next \in 1 .. Len(EventsOf[task[q].batch])
        /\ task[q].batch \in Batches
        /\ EventsOf[task[q].batch][task[q].next] = e
        /\ reached[e] = 0
  <2> TAKE q \in WebhookTasks, e \in Events
  <2> HAVE Routes(q, e)
  <2>1. /\ Serves(q) /\ ~task[q].redelivery
        /\ EventsOf[task[q].batch][task[q].next] = e
    BY <1>1 DEF Routes, Serves, Event
  <2>2. /\ task[q].next \in 1 .. Len(EventsOf[task[q].batch])
        /\ task[q].batch \in Batches
    BY EventAt DEF Routes
  <2> QED
    BY <1>1, <2>1, <2>2 DEF Ahead
<1>4. \A e \in Events : reached'[e] # reached[e] =>
        /\ reached[e] = 0 /\ reached'[e] = 1
        /\ \E q \in WebhookTasks : Routes(q, e) /\ Past(q)
  BY <1>3 DEF GoesOn
<1>5. NotSent'
  <2> SUFFICES ASSUME NEW b \in Batches, sends[b] = 0
               PROVE  /\ \A q \in WebhookTasks : Serves(q)' => task'[q].batch # b
                      /\ \A i \in 1 .. Len(EventsOf[b]) : reached'[EventsOf[b][i]] = 0
    BY DEF NotSent, GoesOn
  <2>1. \A q \in WebhookTasks : Serves(q)' => task'[q].batch # b
    BY <1>1, <1>2 DEF NotSent
  <2>2. ASSUME NEW i \in 1 .. Len(EventsOf[b])
        PROVE  reached'[EventsOf[b][i]] = 0
    <3>1. EventsOf[b][i] \in Events /\ reached[EventsOf[b][i]] = 0
      BY <1>1 DEF NotSent, Events
    <3>2. \A q \in WebhookTasks : ~Routes(q, EventsOf[b][i])
      <4> SUFFICES ASSUME NEW q \in WebhookTasks, Routes(q, EventsOf[b][i])
                   PROVE  FALSE
        OBVIOUS
      <4>1. task[q].batch = b
        BY EventAt DEF Routes
      <4> QED
        BY <1>1, <1>3, <3>1, <4>1 DEF NotSent
    <3> QED
      BY <1>4, <3>1, <3>2
  <2> QED
    BY <2>1, <2>2
<1>6. FirstOnce'
  BY <1>1, <1>2 DEF FirstOnce
<1>7. Ahead'
  <2> SUFFICES ASSUME NEW q \in WebhookTasks, Serves(q)', ~task'[q].redelivery,
                      NEW i \in 1 .. Len(EventsOf[task'[q].batch]),
                      i >= task'[q].next
               PROVE  reached'[EventsOf[task'[q].batch][i]] = 0
    BY DEF Ahead
  <2> DEFINE b == task[q].batch
             x == EventsOf[b][i]
  <2>1. /\ Serves(q) /\ ~task[q].redelivery
        /\ task'[q].batch = b /\ b \in Batches
        /\ task[q].next \in Nat
        /\ task'[q].next \in {task[q].next, task[q].next + 1}
    BY <1>2 DEF Requests
  <2>2. i >= task[q].next /\ i \in 1 .. Len(EventsOf[b])
    BY <2>1
  <2>3. reached[x] = 0 /\ x \in Events
    BY <1>1, <2>1, <2>2 DEF Ahead, Events
  <2>4. ASSUME NEW p \in WebhookTasks, Routes(p, x), Past(p)
        PROVE  FALSE
    <3>1. task[p].batch = b /\ task[p].next = i
      BY <2>1, <2>2, <2>4, EventAt DEF Routes
    <3>2. p = q
      BY <1>1, <1>3, <2>1, <2>3, <2>4, <3>1 DEF FirstOnce
    <3>3. task'[q] # NoRequest
      BY DEF Serves, NoRequest
    <3>4. task'[q].next = i + 1
      BY <2>4, <3>1, <3>2, <3>3 DEF Past
    <3> QED
      BY <2>2, <3>4
  <2> QED
    BY <1>4, <2>1, <2>3, <2>4
<1>8. \A q \in WebhookTasks : task'[q].at = "routing" => ~task'[q].redelivery
  BY <1>1 DEF GoesOn, Follows, NoRequest
<1>9. \A e \in Events : reached'[e] <= 1
  BY <1>1, <1>4
<1> QED
  BY <1>5, <1>6, <1>7, <1>8, <1>9 DEF FirstInv

\* A batch that LINE sends for the first time is new; another is a redelivery.
LEMMA FirstDeliver ==
  ASSUME IntakeTypeOK, FirstInv,
         NEW q \in WebhookTasks, NEW b \in Batches, Deliver(q, b)
  PROVE  FirstInv'
<1> SUFFICES ASSUME ~config.redeliveries
             PROVE  FirstInv'
  BY DeliverStep DEF FirstInv
<1>1. /\ NotSent /\ FirstOnce /\ Ahead
      /\ \A p \in WebhookTasks : task[p].at = "routing" => ~task[p].redelivery
      /\ \A e \in Events : reached[e] <= 1
  BY DEF FirstInv
<1>2. /\ Serves(q)' /\ task'[q].at = "body" /\ task'[q].batch = b
      /\ task'[q].next = 1
      /\ task'[q].redelivery <=> sends[b] # 0
      /\ sends[b] \in Nat
  BY DeliverStep DEF Serves
<1>3. NotSent'
  BY <1>1, <1>2, DeliverStep DEF NotSent, Serves
<1>4. FirstOnce'
  <2>1. \A p \in WebhookTasks \ {q} :
          Serves(p)' /\ task'[p].batch = b => task'[q].redelivery
    BY <1>1, <1>2, DeliverStep DEF NotSent, Serves
  <2> QED
    BY <1>1, <1>2, <2>1, DeliverStep DEF FirstOnce, Serves
<1>5. Ahead'
  <2>1. ~task'[q].redelivery =>
          \A i \in 1 .. Len(EventsOf[b]) : reached'[EventsOf[b][i]] = 0
    BY <1>1, <1>2, DeliverStep DEF NotSent
  <2> QED
    BY <1>1, <1>2, <2>1, DeliverStep DEF Ahead, Serves
<1>6. \A p \in WebhookTasks : task'[p].at = "routing" => ~task'[p].redelivery
  BY <1>1, <1>2, DeliverStep
<1> QED
  BY <1>1, <1>3, <1>4, <1>5, <1>6, DeliverStep DEF FirstInv

\* A task begins to route an event that the table does not have, and puts it
\* there; nothing else of what is marked is lost.
Marks ==
  /\ unmarked \subseteq unmarked'
  /\ \A e \in Events \ unmarked' : e \in seen => e \in seen'
  /\ \A e \in Events \ unmarked' : \A q \in WebhookTasks :
       Routes(q, e)' /\ task'[q] # task[q] =>
         /\ e \notin seen /\ e \in seen'
         /\ \A p \in WebhookTasks \ {q} : task'[p] = task[p]

\* The table gives an event to one task, so it is given out once.
LEMMA MarkedStep ==
  ASSUME IntakeTypeOK, MarkedInv, GoesOn, config.dedup => Marks
  PROVE  MarkedInv'
<1> SUFFICES ASSUME config.dedup, NEW e \in Events \ unmarked'
             PROVE  Marked(e)'
  BY DEF MarkedInv, GoesOn
<1>1. Marks /\ Marked(e) /\ reached[e] \in Nat
  BY DEF Marks, MarkedInv, IntakeTypeOK
<1>2. \/ reached'[e] = reached[e]
      \/ /\ reached'[e] = reached[e] + 1
         /\ \E q \in WebhookTasks : Routes(q, e) /\ Past(q)
  BY DEF GoesOn
<1>3. \A q \in WebhookTasks : Past(q) => task'[q].at # "routing"
  BY DEF Past, NoRequest
<1>4. \A q \in WebhookTasks : task'[q] = task[q] => (Routes(q, e)' <=> Routes(q, e))
  BY DEF Routes, Event
<1>5. /\ reached'[e] <= 1
      /\ reached'[e] = 1 => e \in seen'
  BY <1>1, <1>2 DEF Marked, Marks
<1>6. ASSUME NEW q \in WebhookTasks, Routes(q, e)'
      PROVE  /\ e \in seen'
             /\ reached'[e] = 0
             /\ \A p \in WebhookTasks : Routes(p, e)' => p = q
  <2>1. CASE task'[q] = task[q]
    <3>1. Routes(q, e) /\ ~Past(q) /\ e \in seen /\ reached[e] = 0
      BY <1>1, <1>3, <1>4, <1>6, <2>1 DEF Marked, Routes
    <3>2. \A p \in WebhookTasks : Routes(p, e)' => task'[p] = task[p]
      BY <1>1, <3>1 DEF Marks
    <3> QED
      BY <1>1, <1>2, <1>4, <3>1, <3>2 DEF Marked, Marks
  <2>2. CASE task'[q] # task[q]
    <3>1. /\ e \notin seen /\ e \in seen'
          /\ \A p \in WebhookTasks \ {q} : task'[p] = task[p]
      BY <1>1, <1>6, <2>2 DEF Marks
    <3>2. reached[e] = 0 /\ \A p \in WebhookTasks : ~Routes(p, e)
      BY <1>1, <3>1 DEF Marked
    <3> QED
      BY <1>2, <1>4, <3>1, <3>2
  <2> QED
    BY <2>1, <2>2
<1> QED
  BY <1>5, <1>6 DEF Marked

\* Marking an event, and losing a mark, are the steps that touch the table.
LEMMA StepMarks ==
  ASSUME IntakeTypeOK, config.dedup, [IntakeNext]_intakeVars
  PROVE  Marks \/ \E q \in WebhookTasks, b \in Batches : Deliver(q, b)
<1>1. ASSUME UNCHANGED << seen, unmarked >>,
             \A q \in WebhookTasks :
               task'[q].at = "routing" => task'[q] = task[q]
      PROVE  Marks
  BY <1>1 DEF Marks, Routes
<1>2. ASSUME NEW q \in WebhookTasks, MarkEvent(q)
      PROVE  Marks
  <2>1. /\ Quiet(q)
        /\ task'[q].at = "routing" =>
             AtEvent(q) /\ task'[q].batch = task[q].batch /\ task'[q].next = task[q].next
    BY <1>2, QuietSteps DEF Quiet, NoRequest
  <2>2. \/ /\ Event(q) \notin seen
           /\ \/ seen' = seen \cup {Event(q)} /\ UNCHANGED unmarked
              \/ unmarked' = unmarked \cup {Event(q)} /\ UNCHANGED seen
        \/ unmarked' = unmarked \cup {Event(q)} /\ UNCHANGED seen
    BY <1>2 DEF MarkEvent, Duplicate
  <2>3. \A e : Routes(q, e)' => e = Event(q)
    BY <2>1 DEF Routes, Event
  <2> QED
    BY <2>1, <2>2, <2>3 DEF Marks, Quiet
<1>3. ASSUME NEW q \in WebhookTasks, ~MarkEvent(q),
             RefuseRequest(q) \/ AcceptBody(q) \/ SkipEvent(q) \/ Answer(q)
      PROVE  Marks
  BY <1>1, <1>3, QuietSteps DEF Quiet
<1>4. ASSUME NEW q \in WebhookTasks, NEW toSome \in BOOLEAN, NEW ok \in BOOLEAN,
             RouteEnds(q, toSome, ok)
      PROVE  Marks
  BY <1>1, <1>4, EffectSteps
<1>5. ASSUME NEW Q \in SUBSET WebhookTasks, Drop(Q)
      PROVE  Marks
  BY <1>1, <1>5, EffectSteps DEF NoRequest
<1>6. ASSUME NEW q \in WebhookTasks, HangUp(q)
      PROVE  Marks
  BY <1>6, <1>5 DEF HangUp
<1>7. IntakeCrash => Marks
  BY <1>5 DEF IntakeCrash
<1>8. ASSUME NEW x \in Events, MarkExpires(x)
      PROVE  Marks
  BY <1>8 DEF MarkExpires, Marks
<1>9. CASE UNCHANGED intakeVars
  BY <1>9, <1>1 DEF intakeVars
<1> QED
  BY <1>2, <1>3, <1>4, <1>6, <1>7, <1>8, <1>9 DEF IntakeNext

\* A request that begins routes nothing.
LEMMA MarkedDeliver ==
  ASSUME IntakeTypeOK, MarkedInv,
         NEW q \in WebhookTasks, NEW b \in Batches, Deliver(q, b)
  PROVE  MarkedInv'
<1>1. \A p \in WebhookTasks, e \in Events : Routes(p, e)' => Routes(p, e)
  <2> TAKE p \in WebhookTasks, e \in Events
  <2>1. CASE p = q
    BY <2>1, DeliverStep DEF Routes
  <2>2. CASE p # q
    BY <2>2, DeliverStep DEF Routes, Event
  <2> QED
    BY <2>1, <2>2
<1> QED
  BY <1>1, DeliverStep DEF MarkedInv, Marked

\* Nothing is sent, seen or routed at the start.
LEMMA IntakeInitInv ==
  ASSUME IntakeInit
  PROVE  IntakeTypeOK /\ FirstInv /\ MarkedInv
<1>1. /\ \A q \in WebhookTasks : task[q].at = "idle"
      /\ \A e \in Events : reached[e] = 0
      /\ \A b \in Batches : \A i \in 1 .. Len(EventsOf[b]) : EventsOf[b][i] \in Events
  BY DEF IntakeInit, NoRequest, Events
<1>2. IntakeTypeOK
  BY <1>1 DEF IntakeInit, IntakeTypeOK
<1>3. FirstInv
  BY <1>1 DEF FirstInv, NotSent, FirstOnce, Ahead, Serves
<1>4. MarkedInv
  BY <1>1 DEF MarkedInv, Marked, Routes
<1> QED
  BY <1>2, <1>3, <1>4

\* An event reaches the clients twice only where nothing remembers it: without
\* the deduplication table, or when its mark was not written or has expired;
\* and then only if redeliveries are processed.
THEOREM RoutedTwiceHasCauseInvariant == IntakeSpec => []RoutedTwiceHasCause
<1> DEFINE Inv == IntakeTypeOK /\ FirstInv /\ MarkedInv
<1>1. IntakeInit => Inv
  BY IntakeInitInv
<1>2. Inv /\ [IntakeNext]_intakeVars => Inv'
  <2> SUFFICES ASSUME Inv, [IntakeNext]_intakeVars
               PROVE  Inv'
    OBVIOUS
  <2>1. IntakeTypeOK'
    BY IntakeTypeStep
  <2>2. FirstInv'
    BY StepGoesOn, FirstStep, FirstDeliver
  <2>3. MarkedInv'
    BY StepGoesOn, StepMarks, MarkedStep, MarkedDeliver
  <2> QED
    BY <2>1, <2>2, <2>3
<1>3. Inv => RoutedTwiceHasCause
  <2> SUFFICES ASSUME Inv, NEW e \in Events, reached[e] > 1
               PROVE  config.redeliveries /\ (~config.dedup \/ e \in unmarked)
    BY DEF RoutedTwiceHasCause
  <2>1. reached[e] \in Nat /\ ~(reached[e] <= 1)
    BY DEF IntakeTypeOK
  <2> QED
    BY <2>1 DEF FirstInv, MarkedInv, Marked
<1> QED
  BY <1>1, <1>2, <1>3, PTL DEF IntakeSpec

-----------------------------------------------------------------------------

\* What becomes of an event that a request is done with. Only with the table may
\* one be left to another request that routes it, or that was dropped.
Settled(e) ==
  \/ reached[e] > 0
  \/ nature[e] \in {"silent", "standby"}
  \/ e \in undelivered \cup missed
  \/ config.dedup /\ (e \in cut \/ \E q \in WebhookTasks : Routes(q, e))

DoneWith(b, e) == Settled(e) \/ (~config.redeliveries /\ sends[b] > 1)

\* Requests are done with the events before the one they are at, the table has
\* events that some request is done with or routes, and a batch is acknowledged
\* when a request is done with all of it.
PassedInv ==
  /\ \A q \in WebhookTasks : Serves(q) /\ task[q].redelivery =>
       sends[task[q].batch] > 1
  /\ \A q \in WebhookTasks : Serves(q) =>
       \A i \in 1 .. Len(EventsOf[task[q].batch]) :
         i < task[q].next => DoneWith(task[q].batch, EventsOf[task[q].batch][i])
  /\ \A b \in Batches : \A i \in 1 .. Len(EventsOf[b]) :
       config.dedup /\ EventsOf[b][i] \in seen => DoneWith(b, EventsOf[b][i])
  /\ acked \subseteq Batches
  /\ \A b \in acked : \A i \in 1 .. Len(EventsOf[b]) : DoneWith(b, EventsOf[b][i])

\* Nothing that became of an event is taken back.
Keeps ==
  /\ UNCHANGED << config, nature >>
  /\ \A b \in Batches : sends[b] > 1 => sends'[b] > 1
  /\ \A e \in Events : reached[e] > 0 => reached'[e] > 0
  /\ undelivered \cup missed \subseteq undelivered' \cup missed'
  /\ cut \subseteq cut'
  /\ \A e \in Events, q \in WebhookTasks : Routes(q, e) =>
       \/ Routes(q, e)'
       \/ reached'[e] > 0 \/ e \in undelivered' \cup missed' \/ e \in cut'

\* So a request stays done with an event.
LEMMA KeepsDone ==
  ASSUME Keeps, NEW b \in Batches, NEW e \in Events, DoneWith(b, e)
  PROVE  DoneWith(b, e)'
<1>1. CASE config.dedup /\ \E q \in WebhookTasks : Routes(q, e)
  <2>1. PICK q \in WebhookTasks : Routes(q, e)
    BY <1>1
  <2>2. Routes(q, e)' \/ reached'[e] > 0 \/ e \in undelivered' \cup missed' \/ e \in cut'
    BY <2>1 DEF Keeps
  <2> QED
    BY <1>1, <2>2 DEF Keeps, DoneWith, Settled
<1>2. CASE ~(config.dedup /\ \E q \in WebhookTasks : Routes(q, e))
  BY <1>2 DEF Keeps, DoneWith, Settled
<1> QED
  BY <1>1, <1>2

\* Every step keeps what became of the events.
LEMMA StepKeeps ==
  ASSUME IntakeTypeOK, [IntakeNext]_intakeVars
  PROVE  Keeps
<1> USE DEF given, outcomes
<1>1. ASSUME NEW q \in WebhookTasks,
             RefuseRequest(q) \/ AcceptBody(q) \/ SkipEvent(q) \/ MarkEvent(q)
               \/ Answer(q)
      PROVE  Keeps
  <2>1. task[q].at # "routing" /\ \A p \in WebhookTasks \ {q} : task'[p] = task[p]
    BY <1>1, QuietSteps
       DEF Quiet, RefuseRequest, AcceptBody, SkipEvent, MarkEvent, Answer, AtEvent
  <2>2. UNCHANGED << config, nature, sends, reached, undelivered, missed, cut >>
    BY <1>1 DEF RefuseRequest, AcceptBody, SkipEvent, MarkEvent, Answer
  <2> QED
    BY <2>1, <2>2 DEF Keeps, Routes, Event
<1>2. ASSUME NEW q \in WebhookTasks, NEW toSome \in BOOLEAN, NEW ok \in BOOLEAN,
             RouteEnds(q, toSome, ok)
      PROVE  Keeps
  <2>1. \A p \in WebhookTasks \ {q} : task'[p] = task[p]
    BY <1>2, EffectSteps
  <2>2. /\ UNCHANGED << config, nature, sends, cut >>
        /\ Event(q) \in Events
        /\ reached' = IF toSome THEN [reached EXCEPT ![Event(q)] = @ + 1] ELSE reached
        /\ undelivered' = IF ok THEN undelivered ELSE undelivered \cup {Event(q)}
        /\ missed' = IF ok /\ ~toSome THEN missed \cup {Event(q)} ELSE missed
    BY <1>2, EventAt DEF RouteEnds
  <2>3. /\ \A e \in Events : reached[e] > 0 => reached'[e] > 0
        /\ undelivered \cup missed \subseteq undelivered' \cup missed'
        /\ reached'[Event(q)] > 0 \/ Event(q) \in undelivered' \cup missed'
    <3> DEFINE x == Event(q)
    <3>1. /\ reached \in [Events -> Nat] /\ x \in Events
          /\ reached' = IF toSome THEN [reached EXCEPT ![x] = @ + 1] ELSE reached
          /\ undelivered' = IF ok THEN undelivered ELSE undelivered \cup {x}
          /\ missed' = IF ok /\ ~toSome THEN missed \cup {x} ELSE missed
      BY <2>2 DEF IntakeTypeOK
    <3> HIDE DEF x
    <3>2. /\ \A e \in Events : reached[e] > 0 => reached'[e] > 0
          /\ undelivered \cup missed \subseteq undelivered' \cup missed'
      BY <3>1
    <3>3. reached'[x] > 0 \/ x \in undelivered' \cup missed'
      BY <3>1
    <3> QED
      BY <3>2, <3>3 DEF x
  <2> QED
    BY <2>1, <2>2, <2>3 DEF Keeps, Routes, Event
<1>3. ASSUME NEW Q \in SUBSET WebhookTasks, Drop(Q)
      PROVE  Keeps
  <2>1. /\ UNCHANGED << config, nature, sends, undelivered, missed >>
        /\ cut' = cut \cup {Event(q) : q \in {r \in Q : task[r].at = "routing"}}
        /\ task' = [q \in WebhookTasks |-> IF q \in Q THEN NoRequest ELSE task[q]]
    BY <1>3 DEF Drop
  <2>2. \A e \in Events : reached[e] > 0 => reached'[e] > 0
    <3>1. \A e \in Events : reached'[e] \in {reached[e], reached[e] + 1}
      BY <1>3, EffectSteps
    <3>2. \A e \in Events : reached[e] \in Nat
      BY DEF IntakeTypeOK
    <3> QED
      BY <3>1, <3>2
  <2>3. \A e \in Events, q \in WebhookTasks :
          Routes(q, e) => Routes(q, e)' \/ e \in cut'
    BY <2>1 DEF Routes, Event
  <2> QED
    BY <2>1, <2>2, <2>3 DEF Keeps
<1>4. ASSUME NEW q \in WebhookTasks, NEW b \in Batches, Deliver(q, b)
      PROVE  Keeps
  <2>1. /\ UNCHANGED << config, nature, reached, undelivered, missed, cut >>
        /\ task[q].at # "routing"
        /\ \A p \in WebhookTasks \ {q} : task'[p] = task[p]
    BY <1>4, DeliverStep DEF Deliver
  <2>2. \A d \in Batches : sends[d] > 1 => sends'[d] > 1
    BY <1>4 DEF Deliver, IntakeTypeOK
  <2> QED
    BY <2>1, <2>2 DEF Keeps, Routes, Event
<1>5. ASSUME UNCHANGED << config, nature, sends, task, reached, undelivered, missed, cut >>
      PROVE  Keeps
  BY <1>5 DEF Keeps, Routes, Event
<1>6. ASSUME NEW q \in WebhookTasks, HangUp(q)
      PROVE  Keeps
  BY <1>6, <1>3 DEF HangUp
<1>7. IntakeCrash => Keeps
  BY <1>3 DEF IntakeCrash
<1>8. ASSUME NEW e \in Events, MarkExpires(e)
      PROVE  Keeps
  BY <1>8, <1>5 DEF MarkExpires
<1>9. CASE UNCHANGED intakeVars
  BY <1>9, <1>5 DEF intakeVars
<1> QED
  BY <1>1, <1>2, <1>4, <1>6, <1>7, <1>8, <1>9 DEF IntakeNext

\* A request goes on to its next event when something has become of the one it
\* was at.
Leaves(q) ==
  \A b \in Batches, e \in Events :
    /\ Serves(q) /\ Serves(q)'
    /\ task'[q].next = task[q].next + 1
    /\ task[q].batch = b
    /\ Event(q) = e
    => DoneWith(b, e)'

\* Something becomes of what the table gains.
GainsSeen ==
  config.dedup => \A e \in Events : e \in seen' => e \in seen \/
    \E q \in WebhookTasks, b \in Batches :
      AtEvent(q) /\ task[q].batch = b /\ Event(q) = e /\ DoneWith(b, e)'

\* What is acknowledged is a batch that a request has behind it.
GainsAcked ==
  \A b \in acked' : b \in acked \/ \E q \in WebhookTasks :
    Serves(q) /\ task[q].batch = b /\ task[q].next > Len(EventsOf[b])

Advances == (\A q \in WebhookTasks : Leaves(q)) /\ GainsSeen /\ GainsAcked

\* A task that does not move, or serves no request any more, leaves nothing.
LEMMA StaysOrEnds ==
  ASSUME IntakeTypeOK, NEW q \in WebhookTasks,
         task'[q] = task[q] \/ ~Serves(q)' \/ task'[q].next = task[q].next
  PROVE  Leaves(q)
<1>1. Serves(q) => task[q].next \in Nat
  BY DEF IntakeTypeOK, Serves, NoRequest, Requests
<1> QED
  BY <1>1 DEF Leaves

\* A request has an event behind it only when something has become of it.
LEMMA StepAdvances ==
  ASSUME IntakeTypeOK, PassedInv, [IntakeNext]_intakeVars,
         \A q \in WebhookTasks, b \in Batches : ~Deliver(q, b)
  PROVE  Advances
<1> USE DEF given, outcomes
<1>1. ASSUME NEW q \in WebhookTasks, RefuseRequest(q) \/ AcceptBody(q) \/ Answer(q)
      PROVE  Advances
  <2>1. /\ \A p \in WebhookTasks \ {q} : task'[p] = task[p]
        /\ ~Serves(q)' \/ task'[q].next = task[q].next
        /\ UNCHANGED seen
    <3>1. CASE RefuseRequest(q) \/ Answer(q)
      BY <3>1 DEF RefuseRequest, Answer, Finish, IntakeTypeOK, Serves, NoRequest
    <3>2. CASE AcceptBody(q)
      BY <3>2 DEF AcceptBody, IntakeTypeOK
    <3> QED
      BY <1>1, <3>1, <3>2
  <2>2. GainsAcked
    BY <1>1 DEF RefuseRequest, AcceptBody, Answer, Serves, GainsAcked
  <2> QED
    BY <2>1, <2>2, StaysOrEnds DEF Advances, GainsSeen
<1>2. ASSUME NEW q \in WebhookTasks, SkipEvent(q)
      PROVE  Advances
  <2>1. /\ \A p \in WebhookTasks \ {q} : task'[p] = task[p]
        /\ AtEvent(q) /\ UNCHANGED << seen, acked >>
        /\ nature[Event(q)] = "standby" \/ Duplicate(Event(q))
    BY <1>2, QuietSteps DEF SkipEvent, Quiet
  <2>2. DoneWith(task[q].batch, Event(q))
    <3>1. CASE nature[Event(q)] = "standby"
      BY <3>1 DEF DoneWith, Settled
    <3>2. CASE Duplicate(Event(q))
      BY <2>1, <3>2, EventAt DEF PassedInv, Duplicate, Event
    <3> QED
      BY <2>1, <3>1, <3>2
  <2>3. Keeps
    BY StepKeeps
  <2>4. Leaves(q)
    BY <2>2, <2>3, KeepsDone DEF Leaves
  <2> QED
    BY <2>1, <2>4, StaysOrEnds DEF Advances, GainsSeen, GainsAcked
<1>3. ASSUME NEW q \in WebhookTasks, MarkEvent(q)
      PROVE  Advances
  <2>1. /\ \A p \in WebhookTasks \ {q} : task'[p] = task[p]
        /\ AtEvent(q) /\ RouteOrSkip(q)
        /\ UNCHANGED << config, nature, sends, acked, reached, undelivered, missed, cut >>
        /\ seen' \subseteq seen \cup {Event(q)}
    BY <1>3, QuietSteps DEF MarkEvent, Quiet
  <2>2. task[q] \in Requests /\ Serves(q) /\ task[q].batch \in Batches
    BY <2>1, EventAt DEF AtEvent, Serves
  <2>3. SUFFICES ASSUME \A b \in Batches, e \in Events :
                          b = task[q].batch /\ e = Event(q) =>
                            \/ DoneWith(b, e)'
                            \/ ~config.dedup /\ task'[q].next = task[q].next
                 PROVE  Advances
    <3>1. CASE /\ NextEvent(q)
               /\ \/ task[q].redelivery /\ ~config.redeliveries
                  \/ nature[Event(q)] = "silent"
      <4>1. \/ ~config.redeliveries /\ sends[task[q].batch] > 1
            \/ nature[Event(q)] = "silent"
        BY <2>2, <3>1 DEF PassedInv
      <4>2. \A b \in Batches, e \in Events :
              b = task[q].batch /\ e = Event(q) => DoneWith(b, e)'
        BY <2>1, <4>1 DEF DoneWith, Settled
      <4> QED
        BY <2>3, <4>2
    <3>2. CASE task' = [task EXCEPT ![q].at = "routing"]
      <4>1. /\ task'[q].at = "routing"
            /\ task'[q].batch = task[q].batch
            /\ task'[q].next = task[q].next
        BY <2>2, <3>2 DEF IntakeTypeOK, Requests
      <4>2. \A e \in Events : e = Event(q) => Routes(q, e)'
        BY <4>1 DEF Routes, Event
      <4>3. config.dedup => \A b \in Batches, e \in Events :
              b = task[q].batch /\ e = Event(q) => DoneWith(b, e)'
        BY <2>1, <4>2 DEF DoneWith, Settled
      <4> QED
        BY <2>3, <4>1, <4>3
    <3> QED
      BY <2>1, <3>1, <3>2 DEF RouteOrSkip
  <2>4. Leaves(q)
    BY <2>2, <2>3 DEF Leaves, Requests
  <2>5. GainsSeen
    BY <2>1, <2>2, <2>3 DEF GainsSeen
  <2> QED
    BY <2>1, <2>4, <2>5, StaysOrEnds DEF Advances, GainsAcked
<1>4. ASSUME NEW q \in WebhookTasks, NEW toSome \in BOOLEAN, NEW ok \in BOOLEAN,
             RouteEnds(q, toSome, ok)
      PROVE  Advances
  <2>1. /\ \A p \in WebhookTasks \ {q} : task'[p] = task[p]
        /\ UNCHANGED << seen, acked >>
    BY <1>4, EffectSteps DEF RouteEnds
  <2>2. Leaves(q)
    <3>1. SUFFICES ASSUME NEW e \in Events, Event(q) = e
                   PROVE  reached'[e] > 0 \/ e \in undelivered' \cup missed'
      BY DEF Leaves, DoneWith, Settled
    <3>2. reached' = [reached EXCEPT ![e] = @ + 1]
            \/ undelivered' = undelivered \cup {e}
            \/ missed' = missed \cup {e}
      BY <1>4, <3>1 DEF RouteEnds
    <3> QED
      BY <3>2 DEF IntakeTypeOK
  <2> QED
    BY <2>1, <2>2, StaysOrEnds DEF Advances, GainsSeen, GainsAcked
<1>5. ASSUME seen' \subseteq seen, UNCHANGED acked,
             \A q \in WebhookTasks : task'[q] = task[q] \/ ~Serves(q)'
      PROVE  Advances
  BY <1>5, StaysOrEnds DEF Advances, GainsSeen, GainsAcked
<1>6. ASSUME NEW Q \in SUBSET WebhookTasks, Drop(Q)
      PROVE  Advances
  BY <1>5, <1>6 DEF Drop, Serves, NoRequest
<1>7. ASSUME NEW q \in WebhookTasks, HangUp(q)
      PROVE  Advances
  BY <1>7, <1>6 DEF HangUp
<1>8. IntakeCrash => Advances
  BY <1>6 DEF IntakeCrash
<1>9. ASSUME NEW e \in Events, MarkExpires(e)
      PROVE  Advances
  BY <1>5, <1>9 DEF MarkExpires
<1>10. CASE UNCHANGED intakeVars
  BY <1>5, <1>10 DEF intakeVars
<1> QED
  BY <1>1, <1>2, <1>3, <1>4, <1>7, <1>8, <1>9, <1>10 DEF IntakeNext

\* So what is behind a request, in the table or acknowledged stays done with.
LEMMA PassedStep ==
  ASSUME IntakeTypeOK, PassedInv, GoesOn, Keeps, Advances
  PROVE  PassedInv'
<1>1. \A q \in WebhookTasks : Serves(q)' =>
        /\ Serves(q) /\ task[q] \in Requests
        /\ task'[q].batch = task[q].batch
        /\ task'[q].redelivery = task[q].redelivery
        /\ task'[q].next \in {task[q].next, task[q].next + 1}
  <2> SUFFICES ASSUME NEW q \in WebhookTasks, Serves(q)'
               PROVE  /\ Serves(q) /\ task[q] \in Requests
                      /\ task'[q].batch = task[q].batch
                      /\ task'[q].redelivery = task[q].redelivery
                      /\ task'[q].next \in {task[q].next, task[q].next + 1}
    OBVIOUS
  <2>1. task'[q] # NoRequest /\ Follows(q)
    BY DEF GoesOn, Serves, NoRequest
  <2>2. Serves(q)
    BY <2>1 DEF Follows, Serves
  <2>3. task[q] \in Requests
    BY <2>2 DEF IntakeTypeOK, Serves, NoRequest
  <2> QED
    BY <2>1, <2>2, <2>3 DEF Follows
<1>2. \A q \in WebhookTasks : Serves(q)' /\ task'[q].redelivery =>
        sends'[task'[q].batch] > 1
  BY <1>1 DEF PassedInv, GoesOn
<1>3. ASSUME NEW q \in WebhookTasks, Serves(q)',
             NEW i \in 1 .. Len(EventsOf[task'[q].batch]), i < task'[q].next
      PROVE  DoneWith(task[q].batch, EventsOf[task[q].batch][i])'
  <2> DEFINE b == task[q].batch
             e == EventsOf[b][i]
  <2>1. /\ Serves(q) /\ b \in Batches /\ task'[q].batch = b
        /\ task[q].next \in Nat
        /\ i \in 1 .. Len(EventsOf[b])
    BY <1>1, <1>3 DEF Requests
  <2>2. e \in Events
    BY <2>1 DEF Events
  <2>3. \A d \in Batches, x \in Events : d = b /\ x = e => DoneWith(d, x)'
    <3>1. CASE i < task[q].next
      <4>1. DoneWith(b, e)
        BY <2>1, <3>1 DEF PassedInv
      <4> QED
        BY <2>1, <2>2, <4>1, KeepsDone
    <3>2. CASE ~(i < task[q].next)
      <4>1. i = task[q].next /\ task'[q].next = task[q].next + 1
        BY <1>1, <1>3, <2>1, <3>2
      <4>2. Event(q) = e
        BY <4>1 DEF Event
      <4> QED
        BY <1>3, <2>1, <4>1, <4>2 DEF Advances, Leaves
    <3> QED
      BY <3>1, <3>2
  <2>4. \A d, x : d = task'[q].batch /\ x = EventsOf[task'[q].batch][i] =>
          d = b /\ x = e
    BY <2>1
  <2> QED
    BY <2>1, <2>2, <2>3, <2>4
<1>4. ASSUME NEW b \in Batches, NEW i \in 1 .. Len(EventsOf[b]),
             config.dedup, EventsOf[b][i] \in seen'
      PROVE  DoneWith(b, EventsOf[b][i])'
  <2>1. EventsOf[b][i] \in Events
    BY DEF Events
  <2>2. CASE EventsOf[b][i] \in seen
    BY <1>4, <2>1, <2>2, KeepsDone DEF PassedInv
  <2>3. CASE EventsOf[b][i] \notin seen
    <3>1. PICK q \in WebhookTasks, d \in Batches :
            /\ AtEvent(q) /\ task[q].batch = d /\ Event(q) = EventsOf[b][i]
            /\ DoneWith(d, EventsOf[b][i])'
      BY <1>4, <2>1, <2>3 DEF Advances, GainsSeen
    <3>2. b = d
      BY <3>1, EventAt
    <3> QED
      BY <3>1, <3>2
  <2> QED
    BY <2>2, <2>3
<1>5. ASSUME NEW b \in acked'
      PROVE  b \in Batches /\ \A i \in 1 .. Len(EventsOf[b]) :
               DoneWith(b, EventsOf[b][i])'
  <2>1. b \in Batches /\ \A i \in 1 .. Len(EventsOf[b]) : DoneWith(b, EventsOf[b][i])
    <3>1. CASE b \in acked
      BY <3>1 DEF PassedInv
    <3>2. CASE b \notin acked
      <4>1. PICK q \in WebhookTasks :
              Serves(q) /\ task[q].batch = b /\ task[q].next > Len(EventsOf[b])
        BY <3>2 DEF Advances, GainsAcked
      <4>2. task[q] \in Requests
        BY <4>1 DEF IntakeTypeOK, Serves, NoRequest
      <4>3. b \in Batches /\ task[q].next \in Nat
        BY <4>1, <4>2 DEF Requests
      <4>4. \A i \in 1 .. Len(EventsOf[b]) : i < task[q].next
        BY <4>1, <4>3, BatchesAssumption
      <4> QED
        BY <4>1, <4>3, <4>4 DEF PassedInv
    <3> QED
      BY <3>1, <3>2
  <2>2. \A i \in 1 .. Len(EventsOf[b]) : EventsOf[b][i] \in Events
    BY <2>1 DEF Events
  <2> QED
    BY <2>1, <2>2, KeepsDone
<1> QED
  BY <1>2, <1>3, <1>4, <1>5 DEF PassedInv, GoesOn

\* A request that begins has no event behind it, and knows a redelivery.
LEMMA PassedDeliver ==
  ASSUME IntakeTypeOK, PassedInv, Keeps,
         NEW q \in WebhookTasks, NEW b \in Batches, Deliver(q, b)
  PROVE  PassedInv'
<1>1. \A p \in WebhookTasks : Serves(p) => task[p].batch \in Batches
  BY DEF IntakeTypeOK, Serves, NoRequest, Requests
<1>2. \A d \in Batches : \A i \in 1 .. Len(EventsOf[d]) : EventsOf[d][i] \in Events
  BY DEF Events
<1>3. \A d \in Batches : \A i \in 1 .. Len(EventsOf[d]) :
        DoneWith(d, EventsOf[d][i]) => DoneWith(d, EventsOf[d][i])'
  BY <1>2, KeepsDone
<1>4. \A p \in WebhookTasks : Serves(p)' /\ task'[p].redelivery =>
        sends'[task'[p].batch] > 1
  <2> SUFFICES ASSUME NEW p \in WebhookTasks, Serves(p)', task'[p].redelivery
               PROVE  sends'[task'[p].batch] > 1
    OBVIOUS
  <2>1. CASE p = q
    <3>1. sends'[b] = sends[b] + 1
      BY DEF Deliver, IntakeTypeOK
    <3> QED
      BY <2>1, <3>1, DeliverStep
  <2>2. CASE p # q
    BY <1>1, <2>2, DeliverStep DEF PassedInv, Keeps, Serves
  <2> QED
    BY <2>1, <2>2
<1>5. ASSUME NEW p \in WebhookTasks, Serves(p)',
             NEW i \in 1 .. Len(EventsOf[task'[p].batch]), i < task'[p].next
      PROVE  DoneWith(task[p].batch, EventsOf[task[p].batch][i])'
  <2>1. p # q
    BY <1>5, DeliverStep
  <2>2. task'[p] = task[p] /\ Serves(p) /\ task[p].batch \in Batches
    BY <1>1, <1>5, <2>1, DeliverStep DEF Serves
  <2>3. \A d \in Batches : d = task[p].batch => DoneWith(d, EventsOf[d][i])'
    BY <1>3, <1>5, <2>2 DEF PassedInv
  <2> QED
    BY <2>2, <2>3
<1>6. UNCHANGED << config, seen, acked >>
  BY DEF Deliver, given
<1> QED
  BY <1>3, <1>4, <1>5, <1>6 DEF PassedInv

\* A batch that LINE need not send again has reached the clients with every
\* message of it, except by the causes named: for any batches of any events, any
\* number of tasks, redeliveries, dropped requests and crashes.
THEOREM AckedMeansRoutedInvariant == IntakeSpec => []AckedMeansRouted
<1> DEFINE Inv == IntakeTypeOK /\ PassedInv
<1>1. IntakeInit => Inv
  <2> SUFFICES ASSUME IntakeInit PROVE Inv
    OBVIOUS
  <2>1. acked = {} /\ seen = {} /\ \A q \in WebhookTasks : ~Serves(q)
    BY DEF IntakeInit, Serves, NoRequest
  <2> QED
    BY <2>1, IntakeInitInv DEF PassedInv
<1>2. Inv /\ [IntakeNext]_intakeVars => Inv'
  <2> SUFFICES ASSUME Inv, [IntakeNext]_intakeVars
               PROVE  Inv'
    OBVIOUS
  <2>1. IntakeTypeOK' /\ Keeps
    BY IntakeTypeStep, StepKeeps
  <2>2. CASE \E q \in WebhookTasks, b \in Batches : Deliver(q, b)
    BY <2>1, <2>2, PassedDeliver
  <2>3. CASE ~\E q \in WebhookTasks, b \in Batches : Deliver(q, b)
    BY <2>1, <2>3, StepGoesOn, StepAdvances, PassedStep
  <2> QED
    BY <2>1, <2>2, <2>3
<1>3. Inv => AckedMeansRouted
  BY DEF PassedInv, AckedMeansRouted, DoneWith, Settled, Routes
<1> QED
  BY <1>1, <1>2, <1>3, PTL DEF IntakeSpec

-----------------------------------------------------------------------------
(***************************************************************************)
(* Locks and threads                                                       *)
(***************************************************************************)

Maps == {"owners", "sets"}

Modes == {"read", "write"}

\* What a method is made of.
Steps ==
       [do : {"lock"}, lock : Maps \cup Shards, mode : Modes, keep : BOOLEAN]
  \cup [do : {"send"}, to : SUBSET Peers]
  \cup [do : {"insert", "remove"}, peer : Peers]
  \cup [do : {"drop"}]

\* What a task has locked at a point of a method.
Stages == {"none", "owners", "sets", "both", "map", "shard", "entry"}

InStage(L, a) ==
  \/ a = "none" /\ L = {}
  \/ a = "owners" /\ L = {<< "owners", "write" >>}
  \/ a = "sets" /\ L = {<< "sets", "write" >>}
  \/ a = "both" /\ L = {<< "owners", "write" >>, << "sets", "write" >>}
  \/ a = "map" /\ \E l \in Maps : L = {<< l, "read" >>}
  \/ a = "shard" /\ \E s \in Shards : L = {<< s, "read" >>}
  \/ a = "entry" /\ \E s \in Shards : L = {<< s, "write" >>}

\* The lock that a step takes, from one stage to the next: the second lock of an
\* ownership map is taken beside the first, that of a shard in exchange for it.
Takes(a, step, b) ==
  \/ /\ step.lock \in Shards /\ step.mode = "read"
     /\ a = "none" \/ (a = "shard" /\ ~step.keep)
     /\ b = "shard"
  \/ step.lock \in Shards /\ step.mode = "write" /\ a = "none" /\ b = "entry"
  \/ step.lock \in Maps /\ step.mode = "read" /\ a = "none" /\ b = "map"
  \/ /\ step.lock = "owners" /\ step.mode = "write" /\ step.keep
     /\ << a, b >> \in {<< "none", "owners" >>, << "sets", "both" >>}
  \/ /\ step.lock = "sets" /\ step.mode = "write" /\ step.keep
     /\ << a, b >> \in {<< "none", "sets" >>, << "owners", "both" >>}

\* It sends without a lock or with a shard it reads, and writes its entry.
Moves(a, step, b) ==
  \/ step.do = "lock" /\ Takes(a, step, b)
  \/ step.do = "send" /\ a \in {"none", "shard"} /\ b = a
  \/ step.do \in {"insert", "remove"} /\ a = "entry" /\ b = "entry"
  \/ step.do = "drop" /\ b = "none"

\* The stages that a method passes from what is locked to no lock.
Passes(h, q, L) ==
  /\ h \in [1 .. Len(q) + 1 -> Stages]
  /\ InStage(L, h[1])
  /\ h[Len(q) + 1] = "none"
  /\ \A i \in 1 .. Len(q) : Moves(h[i], q[i], h[i + 1])

Sound(q, L) == \E h : Passes(h, q, L)

\* Nothing is locked at the first stage only.
LEMMA NoneIs ==
  ASSUME NEW a \in Stages, InStage({}, a)
  PROVE  a = "none"
BY DEF Stages, InStage

\* What is locked at a stage is a lock in a mode.
LEMMA StageLocks ==
  ASSUME NEW L, NEW a, InStage(L, a)
  PROVE  L \in SUBSET ((Maps \cup Shards) \X Modes)
BY DEF InStage, Maps, Modes

\* A method that has been left has no lock.
LEMMA LeftIs ==
  ASSUME NEW L, Sound(<< >>, L)
  PROVE  L = {}
<1>1. PICK h : Passes(h, << >>, L)
  BY DEF Sound
<1>2. h[1] = "none" /\ InStage(L, h[1])
  BY <1>1 DEF Passes
<1> QED BY <1>2 DEF InStage

\* A method can be taken one step further.
LEMMA SoundTail ==
  ASSUME NEW q \in Seq(Steps), q # << >>, NEW L, Sound(q, L)
  PROVE  \E a, b \in Stages :
           /\ InStage(L, a)
           /\ Moves(a, Head(q), b)
           /\ \A M : InStage(M, b) => Sound(Tail(q), M)
<1>1. PICK h : Passes(h, q, L)
  BY DEF Sound
<1>2. /\ Len(q) \in Nat \ {0}
      /\ Len(Tail(q)) = Len(q) - 1
      /\ Head(q) = q[1]
      /\ \A i \in 1 .. Len(Tail(q)) : Tail(q)[i] = q[i + 1]
  BY HeadTailProperties, LenProperties, EmptySeq
<1>3. h[1] \in Stages /\ h[2] \in Stages /\ InStage(L, h[1])
  BY <1>1, <1>2 DEF Passes
<1>4. Moves(h[1], Head(q), h[2])
  BY <1>1, <1>2 DEF Passes
<1>5. ASSUME NEW M, InStage(M, h[2])
      PROVE  Sound(Tail(q), M)
  <2> DEFINE g == [i \in 1 .. Len(q) |-> h[i + 1]]
  <2>1. g \in [1 .. Len(Tail(q)) + 1 -> Stages]
    BY <1>1, <1>2 DEF Passes
  <2>2. g[1] = h[2] /\ g[Len(Tail(q)) + 1] = "none"
    BY <1>1, <1>2 DEF Passes
  <2>3. ASSUME NEW i \in 1 .. Len(Tail(q))
        PROVE  Moves(g[i], Tail(q)[i], g[i + 1])
    <3>1. i + 1 \in 1 .. Len(q) /\ g[i] = h[i + 1] /\ g[i + 1] = h[(i + 1) + 1]
      BY <1>2
    <3>2. Moves(h[i + 1], q[i + 1], h[(i + 1) + 1])
      BY <3>1, <1>1 DEF Passes
    <3> QED BY <3>1, <3>2, <1>2
  <2> HIDE DEF g
  <2> QED BY <1>5, <2>1, <2>2, <2>3 DEF Passes, Sound
<1> QED BY <1>3, <1>4, <1>5

\* A send that has gone to one is the send to the others.
LEMMA SoundSend ==
  ASSUME NEW q \in Seq(Steps), q # << >>, NEW L, Sound(q, L),
         Head(q).do = "send", NEW S \in SUBSET Peers
  PROVE  /\ << SendEach(S) >> \o Tail(q) \in Seq(Steps)
         /\ Sound(<< SendEach(S) >> \o Tail(q), L)
<1> DEFINE r == << SendEach(S) >> \o Tail(q)
<1>1. PICK h : Passes(h, q, L)
  BY DEF Sound
<1>2. /\ Len(q) \in Nat \ {0}
      /\ Tail(q) \in Seq(Steps)
      /\ Len(Tail(q)) = Len(q) - 1
      /\ Head(q) = q[1]
      /\ \A i \in 1 .. Len(Tail(q)) : Tail(q)[i] = q[i + 1]
  BY HeadTailProperties, LenProperties, EmptySeq
<1>3. /\ << SendEach(S) >> \in Seq(Steps)
      /\ Len(<< SendEach(S) >>) = 1
      /\ << SendEach(S) >>[1] = SendEach(S)
  BY DEF SendEach, Steps
<1>4. /\ r \in Seq(Steps)
      /\ Len(r) = Len(q)
      /\ \A i \in 1 .. Len(q) : r[i] = IF i = 1 THEN SendEach(S) ELSE q[i]
  <2>1. /\ r \in Seq(Steps)
        /\ Len(r) = 1 + Len(Tail(q))
        /\ \A i \in 1 .. 1 + Len(Tail(q)) :
             r[i] = IF i <= 1 THEN << SendEach(S) >>[i] ELSE Tail(q)[i - 1]
    BY <1>2, <1>3, ConcatProperties
  <2> QED BY <1>2, <1>3, <2>1
<1>5. h[1] \in {"none", "shard"} /\ h[2] = h[1]
  BY <1>1, <1>2 DEF Passes, Moves
<1>6. Moves(h[1], SendEach(S), h[2])
  BY <1>5 DEF Moves, SendEach
<1>7. ASSUME NEW i \in 1 .. Len(r)
      PROVE  Moves(h[i], r[i], h[i + 1])
  <2>1. CASE i = 1
    BY <2>1, <1>2, <1>4, <1>6
  <2>2. CASE i # 1
    BY <2>2, <1>1, <1>4 DEF Passes
  <2> QED BY <2>1, <2>2
<1> HIDE DEF r
<1>8. Passes(h, r, L)
  BY <1>1, <1>4, <1>7 DEF Passes
<1> QED BY <1>4, <1>8 DEF Sound, r

\* Methods are called one after the other.
LEMMA SoundConcat ==
  ASSUME NEW p \in Seq(Steps), NEW q \in Seq(Steps), Sound(p, {}), Sound(q, {})
  PROVE  p \o q \in Seq(Steps) /\ Sound(p \o q, {})
<1>1. PICK g : Passes(g, p, {})
  BY DEF Sound
<1>2. PICK h : Passes(h, q, {})
  BY DEF Sound
<1>3. /\ Len(p) \in Nat /\ Len(q) \in Nat
      /\ p \o q \in Seq(Steps)
      /\ Len(p \o q) = Len(p) + Len(q)
      /\ \A i \in 1 .. Len(p) + Len(q) :
           (p \o q)[i] = IF i <= Len(p) THEN p[i] ELSE q[i - Len(p)]
  BY ConcatProperties, LenProperties
<1>4. h[1] = "none" /\ g[Len(p) + 1] = "none"
  <2>1. /\ h[1] \in Stages /\ InStage({}, h[1])
        /\ g[Len(p) + 1] = "none"
    BY <1>1, <1>2, <1>3 DEF Passes
  <2> QED BY <2>1, NoneIs
<1> DEFINE r == p \o q
           f == [i \in 1 .. Len(p) + Len(q) + 1 |->
                   IF i <= Len(p) THEN g[i] ELSE h[i - Len(p)]]
<1>5. f \in [1 .. Len(r) + 1 -> Stages]
  <2> SUFFICES ASSUME NEW i \in 1 .. Len(p) + Len(q) + 1
               PROVE  f[i] \in Stages
    BY <1>3
  <2>1. i <= Len(p) => i \in 1 .. Len(p) + 1
    BY <1>3
  <2>2. ~(i <= Len(p)) => i - Len(p) \in 1 .. Len(q) + 1
    BY <1>3
  <2> QED BY <2>1, <2>2, <1>1, <1>2, <1>3 DEF Passes
<1>6. InStage({}, f[1]) /\ f[Len(r) + 1] = "none"
  <2>1. f[1] = "none" \/ f[1] = g[1]
    BY <1>3, <1>4
  <2>2. InStage({}, "none") /\ InStage({}, g[1])
    BY <1>1 DEF InStage, Passes
  <2>3. f[Len(r) + 1] = h[Len(q) + 1]
    BY <1>3
  <2> QED BY <2>1, <2>2, <2>3, <1>2 DEF Passes
<1>7. ASSUME NEW i \in 1 .. Len(r)
      PROVE  Moves(f[i], r[i], f[i + 1])
  <2>1. CASE i <= Len(p)
    <3>1. f[i] = g[i] /\ r[i] = p[i] /\ i \in 1 .. Len(p)
      BY <2>1, <1>3
    <3>2. f[i + 1] = g[i + 1]
      BY <2>1, <1>3, <1>4
    <3> QED BY <3>1, <3>2, <1>1 DEF Passes
  <2>2. CASE ~(i <= Len(p))
    <3>1. /\ f[i] = h[i - Len(p)] /\ r[i] = q[i - Len(p)]
          /\ f[i + 1] = h[(i - Len(p)) + 1]
          /\ i - Len(p) \in 1 .. Len(q)
      BY <2>2, <1>3
    <3> QED BY <3>1, <1>2 DEF Passes
  <2> QED BY <2>1, <2>2
<1> HIDE DEF f, r
<1>8. Passes(f, r, {})
  BY <1>5, <1>6, <1>7 DEF Passes
<1> QED BY <1>3, <1>8 DEF Sound, r

\* A method of one step is sound, if it starts and ends with nothing locked.
LEMMA SoundOne ==
  ASSUME NEW c \in Steps, Moves("none", c, "none")
  PROVE  << c >> \in Seq(Steps) /\ Sound(<< c >>, {})
<1> DEFINE h == [i \in 1 .. 2 |-> "none"]
<1>1. << c >> \in Seq(Steps) /\ Len(<< c >>) = 1 /\ << c >>[1] = c
  OBVIOUS
<1>2. h[1] = "none" /\ h[2] = "none" /\ h \in [1 .. 2 -> Stages]
  BY DEF Stages
<1> HIDE DEF h
<1>3. Passes(h, << c >>, {})
  BY <1>1, <1>2 DEF Passes, InStage
<1> QED BY <1>1, <1>3 DEF Sound

\* Of two steps, with a stage between them.
LEMMA SoundTwo ==
  ASSUME NEW a \in Steps, NEW c \in Steps, NEW x \in Stages,
         Moves("none", a, x), Moves(x, c, "none")
  PROVE  << a, c >> \in Seq(Steps) /\ Sound(<< a, c >>, {})
<1> DEFINE q == << a, c >>
           h == [i \in 1 .. 3 |-> IF i = 2 THEN x ELSE "none"]
<1>1. q \in Seq(Steps) /\ Len(q) = 2 /\ q[1] = a /\ q[2] = c
  OBVIOUS
<1>2. /\ h[1] = "none" /\ h[2] = x /\ h[3] = "none"
      /\ h \in [1 .. 3 -> Stages]
  BY DEF Stages
<1> HIDE DEF h, q
<1>3. \A i \in 1 .. 2 : Moves(h[i], q[i], h[i + 1])
  <2> SUFFICES ASSUME NEW i \in 1 .. 2
               PROVE  Moves(h[i], q[i], h[i + 1])
    OBVIOUS
  <2>1. i = 1 \/ i = 2
    OBVIOUS
  <2> QED BY <2>1, <1>1, <1>2
<1>4. Passes(h, q, {})
  BY <1>1, <1>2, <1>3 DEF Passes, InStage
<1> QED BY <1>1, <1>4 DEF Sound, q

\* Of three steps.
LEMMA SoundThree ==
  ASSUME NEW a \in Steps, NEW b \in Steps, NEW c \in Steps,
         NEW x \in Stages, NEW y \in Stages,
         Moves("none", a, x), Moves(x, b, y), Moves(y, c, "none")
  PROVE  << a, b, c >> \in Seq(Steps) /\ Sound(<< a, b, c >>, {})
<1> DEFINE q == << a, b, c >>
           h == [i \in 1 .. 4 |-> IF i = 2 THEN x ELSE IF i = 3 THEN y ELSE "none"]
<1>1. q \in Seq(Steps) /\ Len(q) = 3 /\ q[1] = a /\ q[2] = b /\ q[3] = c
  OBVIOUS
<1>2. /\ h[1] = "none" /\ h[2] = x /\ h[3] = y /\ h[4] = "none"
      /\ h \in [1 .. 4 -> Stages]
  BY DEF Stages
<1> HIDE DEF h, q
<1>3. \A i \in 1 .. 3 : Moves(h[i], q[i], h[i + 1])
  <2> SUFFICES ASSUME NEW i \in 1 .. 3
               PROVE  Moves(h[i], q[i], h[i + 1])
    OBVIOUS
  <2>1. i = 1 \/ i = 2 \/ i = 3
    OBVIOUS
  <2> QED BY <2>1, <1>1, <1>2
<1>4. Passes(h, q, {})
  BY <1>1, <1>2, <1>3 DEF Passes, InStage
<1> QED BY <1>1, <1>4 DEF Sound, q

\* The methods on the ownership maps lock one after the other, in either order.
LEMMA OwnershipSound ==
  /\ ClaimConversation \in Seq(Steps) /\ Sound(ClaimConversation, {})
  /\ SetConversationOwner \in Seq(Steps) /\ Sound(SetConversationOwner, {})
  /\ ClearConversationOwner \in Seq(Steps) /\ Sound(ClearConversationOwner, {})
  /\ ReleaseClientConversations \in Seq(Steps)
  /\ Sound(ReleaseClientConversations, {})
<1> DEFINE own == Write("owners")  set == Write("sets")
<1>1. own \in Steps /\ set \in Steps /\ Unlock \in Steps
  BY DEF Write, Lock, Unlock, Steps, Maps, Modes
<1>2. {"owners", "sets", "both"} \subseteq Stages
  BY DEF Stages
<1>3. /\ Moves("none", own, "owners") /\ Moves("owners", set, "both")
      /\ Moves("none", set, "sets") /\ Moves("sets", own, "both")
      /\ Moves("both", Unlock, "none")
  <2>1. /\ own.do = "lock" /\ own.lock = "owners" /\ own.mode = "write" /\ own.keep
        /\ set.do = "lock" /\ set.lock = "sets" /\ set.mode = "write" /\ set.keep
    BY DEF Write, Lock
  <2>2. Takes("none", own, "owners") /\ Takes("sets", own, "both")
    BY <2>1 DEF Takes
  <2>3. Takes("none", set, "sets") /\ Takes("owners", set, "both")
    BY <2>1 DEF Takes
  <2>4. Moves("both", Unlock, "none")
    BY DEF Moves, Unlock
  <2> HIDE DEF own, set
  <2> QED BY <2>1, <2>2, <2>3, <2>4 DEF Moves
<1> HIDE DEF own, set
<1>4. /\ << own, set, Unlock >> \in Seq(Steps) /\ Sound(<< own, set, Unlock >>, {})
  <2> DEFINE x == "owners"  y == "both"
  <2>1. x \in Stages /\ y \in Stages
    BY <1>2
  <2>2. Moves("none", own, x) /\ Moves(x, set, y) /\ Moves(y, Unlock, "none")
    BY <1>3
  <2> HIDE DEF x, y
  <2> QED BY <1>1, <2>1, <2>2, SoundThree
<1>5. << set, own, Unlock >> \in Seq(Steps) /\ Sound(<< set, own, Unlock >>, {})
  <2> DEFINE x == "sets"  y == "both"
  <2>1. x \in Stages /\ y \in Stages
    BY <1>2
  <2>2. Moves("none", set, x) /\ Moves(x, own, y) /\ Moves(y, Unlock, "none")
    BY <1>3
  <2> HIDE DEF x, y
  <2> QED BY <1>1, <2>1, <2>2, SoundThree
<1> QED
  BY <1>4, <1>5
  DEF own, set, ClaimConversation, SetConversationOwner, ClearConversationOwner,
      ReleaseClientConversations

\* A look at a map or a shard locks nothing else.
LEMMA LooksSound ==
  /\ \A l \in Maps : LookAt(l) \in Seq(Steps) /\ Sound(LookAt(l), {})
  /\ \A s \in Shards : Peek(s) \in Seq(Steps) /\ Sound(Peek(s), {})
<1>1. Unlock \in Steps /\ "map" \in Stages /\ "shard" \in Stages
  BY DEF Unlock, Steps, Stages
<1>2. ASSUME NEW l \in Maps
      PROVE  LookAt(l) \in Seq(Steps) /\ Sound(LookAt(l), {})
  <2> DEFINE r == Read(l)
  <2>1. r \in Steps /\ Moves("none", r, "map") /\ Moves("map", Unlock, "none")
    BY DEF Read, Lock, Unlock, Steps, Modes, Moves, Takes
  <2> HIDE DEF r
  <2>2. << r, Unlock >> \in Seq(Steps) /\ Sound(<< r, Unlock >>, {})
    BY <1>1, <2>1, SoundTwo
  <2> QED BY <2>2 DEF LookAt, r
<1>3. ASSUME NEW s \in Shards
      PROVE  Peek(s) \in Seq(Steps) /\ Sound(Peek(s), {})
  <2> DEFINE r == Read(s)
  <2>1. r \in Steps /\ Moves("none", r, "shard") /\ Moves("shard", Unlock, "none")
    <3>1. r \in Steps /\ r.do = "lock" /\ r.lock = s /\ r.mode = "read"
      BY DEF Read, Lock, Steps, Modes
    <3>2. Moves("shard", Unlock, "none")
      BY DEF Moves, Unlock
    <3> HIDE DEF r
    <3> QED BY <3>1, <3>2 DEF Moves, Takes
  <2> HIDE DEF r
  <2>2. << r, Unlock >> \in Seq(Steps) /\ Sound(<< r, Unlock >>, {})
    BY <1>1, <2>1, SoundTwo
  <2> QED BY <2>2 DEF Peek, r
<1> QED BY <1>2, <1>3

\* A routing to one client has its shard locked until the send is through.
LEMMA SendToSound ==
  ASSUME NEW k \in Peers
  PROVE  /\ SendTo(k) \in Seq(Steps) /\ Sound(SendTo(k), {})
         /\ << SendEach({k}) >> \in Seq(Steps) /\ Sound(<< SendEach({k}) >>, {})
<1> DEFINE r == Read(ShardOf[k])  e == SendEach({k})
<1>1. ShardOf[k] \in Shards
  BY TaskLocksAssumption
<1>2. r \in Steps /\ e \in Steps /\ Unlock \in Steps /\ "shard" \in Stages
  BY <1>1 DEF Read, Lock, SendEach, Unlock, Steps, Modes, Stages
<1>3. /\ Moves("none", r, "shard") /\ Moves("shard", e, "shard")
      /\ Moves("shard", Unlock, "none") /\ Moves("none", e, "none")
  <2>1. r.do = "lock" /\ r.lock \in Shards /\ r.mode = "read" /\ e.do = "send"
    BY <1>1 DEF Read, Lock, SendEach
  <2>2. Moves("shard", Unlock, "none")
    BY DEF Moves, Unlock
  <2> HIDE DEF r, e
  <2> QED BY <2>1, <2>2 DEF Moves, Takes
<1> HIDE DEF r, e
<1>4. << r, e, Unlock >> \in Seq(Steps) /\ Sound(<< r, e, Unlock >>, {})
  <2> DEFINE x == "shard"
  <2>1. /\ x \in Stages /\ Moves("none", r, x) /\ Moves(x, e, x)
        /\ Moves(x, Unlock, "none")
    BY <1>2, <1>3
  <2> HIDE DEF x
  <2> QED BY <1>2, <2>1, SoundThree
<1>5. << e >> \in Seq(Steps) /\ Sound(<< e >>, {})
  BY <1>2, <1>3, SoundOne
<1> QED BY <1>4, <1>5 DEF SendTo, r, e

\* A connection writes its entry with nothing else locked, and gives it back
\* before its conversations are released.
LEMMA EntrySound ==
  ASSUME NEW k \in Peers
  PROVE  /\ AddClient(k) \in Seq(Steps) /\ Sound(AddClient(k), {})
         /\ RemoveClient(k) \in Seq(Steps) /\ Sound(RemoveClient(k), {})
<1> DEFINE w == Write(ShardOf[k])  n == Register(k)  d == Unregister(k)
<1>1. ShardOf[k] \in Shards
  BY TaskLocksAssumption
<1>2. /\ w \in Steps /\ n \in Steps /\ d \in Steps /\ Unlock \in Steps
      /\ "entry" \in Stages
  BY <1>1 DEF Write, Lock, Register, Unregister, Unlock, Steps, Modes, Stages
<1>3. /\ Moves("none", w, "entry") /\ Moves("entry", n, "entry")
      /\ Moves("entry", d, "entry") /\ Moves("entry", Unlock, "none")
  BY <1>1 DEF Write, Lock, Register, Unregister, Unlock, Moves, Takes
<1> HIDE DEF w, n, d
<1> DEFINE x == "entry"
<1>4. /\ x \in Stages /\ Moves("none", w, x) /\ Moves(x, n, x) /\ Moves(x, d, x)
      /\ Moves(x, Unlock, "none")
  BY <1>2, <1>3
<1> HIDE DEF x
<1>5. << w, n, Unlock >> \in Seq(Steps) /\ Sound(<< w, n, Unlock >>, {})
  BY <1>2, <1>4, SoundThree
<1>6. << w, d, Unlock >> \in Seq(Steps) /\ Sound(<< w, d, Unlock >>, {})
  BY <1>2, <1>4, SoundThree
<1>7. /\ << w, d, Unlock >> \o ReleaseClientConversations \in Seq(Steps)
      /\ Sound(<< w, d, Unlock >> \o ReleaseClientConversations, {})
  BY <1>6, OwnershipSound, SoundConcat
<1> QED BY <1>5, <1>7 DEF AddClient, RemoveClient, w, n, d

\* A routing to all has one shard locked at a time, but for the exchange.
LEMMA BroadcastSound == Broadcast \in Seq(Steps) /\ Sound(Broadcast, {})
<1> DEFINE n == Len(ShardOrder)
           h == [i \in 1 .. 2 * n + 2 |->
                   IF i = 1 \/ i = 2 * n + 2 THEN "none" ELSE "shard"]
<1>1. n \in Nat /\ \A j \in 1 .. n : ShardOrder[j] \in Shards
  BY TaskLocksAssumption, LenProperties
<1>2. \A i \in 1 .. 2 * n + 1 : i # 2 * n + 1 => (i + 1) \div 2 \in 1 .. n
  BY <1>1
<1> DEFINE b == Broadcast
<1>3. ASSUME NEW i \in 1 .. 2 * n + 1
      PROVE  \/ i = 2 * n + 1 /\ b[i] = Unlock
             \/ /\ i # 2 * n + 1
                /\ \E s \in Shards :
                     \/ i % 2 = 1 /\ b[i] = Exchange(s)
                     \/ i % 2 # 1 /\ b[i] = SendEach({k \in Peers : ShardOf[k] = s})
  <2>1. CASE i = 2 * n + 1
    BY <2>1 DEF Broadcast
  <2>2. CASE i # 2 * n + 1
    <3> DEFINE s == ShardOrder[(i + 1) \div 2]
    <3>1. s \in Shards
      BY <1>1, <1>2, <2>2
    <3>2. b[i] = IF i % 2 = 1 THEN Exchange(s)
                 ELSE SendEach({k \in Peers : ShardOf[k] = s})
      BY <2>2 DEF Broadcast
    <3> HIDE DEF s, b
    <3> QED BY <2>2, <3>1, <3>2
  <2> QED BY <2>1, <2>2
<1>4. b = [i \in 1 .. 2 * n + 1 |-> b[i]]
  BY DEF Broadcast
<1> HIDE DEF b
<1>5. ASSUME NEW i \in 1 .. 2 * n + 1
      PROVE  b[i] \in Steps
  <2>1. CASE b[i] = Unlock
    BY <2>1 DEF Unlock, Steps
  <2>2. CASE \E s \in Shards : b[i] = Exchange(s)
    BY <2>2 DEF Exchange, Steps, Modes
  <2>3. CASE \E S \in SUBSET Peers : b[i] = SendEach(S)
    BY <2>3 DEF SendEach, Steps
  <2>4. \A s \in Shards : {k \in Peers : ShardOf[k] = s} \in SUBSET Peers
    OBVIOUS
  <2> QED BY <1>3, <2>1, <2>2, <2>3, <2>4
<1>6. b \in Seq(Steps) /\ Len(b) = 2 * n + 1
  <2>1. 2 * n + 1 \in Nat
    BY <1>1
  <2>2. b \in [1 .. 2 * n + 1 -> Steps]
    BY <1>4, <1>5
  <2> HIDE DEF n
  <2> QED BY <2>1, <2>2, IsASeq, LenProperties
<1>7. /\ h \in [1 .. Len(b) + 1 -> Stages]
      /\ h[1] = "none" /\ h[Len(b) + 1] = "none"
  BY <1>1, <1>6 DEF Stages
<1>8. ASSUME NEW i \in 1 .. Len(b)
      PROVE  Moves(h[i], b[i], h[i + 1])
  <2>1. CASE i = 2 * n + 1
    <3>1. b[i] = Unlock /\ h[i + 1] = "none"
      BY <2>1, <1>1, <1>3, <1>6
    <3> QED BY <3>1 DEF Moves, Unlock
  <2>2. CASE i # 2 * n + 1
    <3>1. h[i] \in {"none", "shard"} /\ h[i + 1] = "shard"
      BY <2>2, <1>1, <1>6
    <3>2. i % 2 # 1 => h[i] = "shard"
      BY <2>2, <1>1, <1>6
    <3> HIDE DEF h
    <3>3. CASE i % 2 = 1
      <4>1. \E s \in Shards : b[i] = Exchange(s)
        BY <2>2, <3>3, <1>3, <1>6
      <4> QED BY <3>1, <4>1 DEF Moves, Takes, Exchange
    <3>4. CASE i % 2 # 1
      <4>1. \E S : b[i] = SendEach(S)
        BY <2>2, <3>4, <1>3, <1>6
      <4> QED BY <3>1, <3>2, <3>4, <4>1 DEF Moves, SendEach
    <3> QED BY <3>3, <3>4
  <2> QED BY <2>1, <2>2
<1> HIDE DEF h
<1>9. Passes(h, b, {})
  BY <1>7, <1>8 DEF Passes, InStage
<1> QED BY <1>6, <1>9 DEF Sound, b

-----------------------------------------------------------------------------
\* Whoever is in a method has locked what its stage says, and there are no more
\* tasks on a thread than threads.
MethodsOK ==
  /\ todo \in [Tasks -> Seq(Steps)]
  /\ locked \in [Tasks -> SUBSET ((Maps \cup Shards) \X Modes)]
  /\ \A t \in Tasks : Sound(todo[t], locked[t])

ThreadsOK == Cardinality({t \in Tasks : OnThread(t)}) <= Threads

LocksInv == MethodsOK /\ ThreadsOK

\* The tasks are finitely many.
LEMMA TasksFinite ==
  ASSUME NEW S \in SUBSET Tasks
  PROVE  IsFiniteSet(S) /\ Cardinality(S) \in Nat
<1>1. IsFiniteSet(Tasks)
  BY TaskLocksAssumption, FS_Union DEF Tasks
<1> QED BY <1>1, FS_Subset, FS_CardinalityType

\* In the beginning nobody is in a method.
LEMMA LocksInitially == LockInit => LocksInv
<1> SUFFICES ASSUME LockInit
             PROVE  LocksInv
  OBVIOUS
<1>1. << >> \in Seq(Steps) /\ Sound(<< >>, {})
  <2> DEFINE h == [i \in 1 .. 1 |-> "none"]
  <2>1. h \in [1 .. 1 -> Stages] /\ h[1] = "none"
    BY DEF Stages
  <2>2. << >> \in Seq(Steps) /\ Len(<< >>) = 0
    OBVIOUS
  <2> HIDE DEF h
  <2>3. Passes(h, << >>, {})
    BY <2>1, <2>2 DEF Passes, InStage
  <2> QED BY <2>2, <2>3 DEF Sound
<1>2. MethodsOK
  BY <1>1 DEF LockInit, MethodsOK
<1>3. {t \in Tasks : OnThread(t)} = {}
  BY DEF LockInit, OnThread
<1>4. ThreadsOK
  <2>1. Cardinality({t \in Tasks : OnThread(t)}) = 0
    BY <1>3, FS_EmptySet, Zenon
  <2> QED BY <2>1, TaskLocksAssumption DEF ThreadsOK
<1> QED BY <1>2, <1>4 DEF LocksInv

\* A step of one task, on a thread before or on a free one, leaves the tasks on
\* threads as many as the threads.
LEMMA ThreadsStep ==
  ASSUME MethodsOK, ThreadsOK, NEW t \in Tasks, NEW q,
         todo' = [todo EXCEPT ![t] = q],
         OnThread(t) \/ FreeThread
  PROVE  ThreadsOK'
<1> DEFINE S == {u \in Tasks : OnThread(u)}
           T == {u \in Tasks : OnThread(u)'}
<1>1. ASSUME NEW u \in Tasks, u # t
      PROVE  OnThread(u)' <=> OnThread(u)
  <2>1. todo'[u] = todo[u]
    BY <1>1 DEF MethodsOK
  <2> QED BY <2>1 DEF OnThread, AwaitsRoom
<1>2. T \subseteq S \cup {t}
  BY <1>1
<1>3. S \in SUBSET Tasks /\ T \in SUBSET Tasks
  OBVIOUS
<1>4. t \in S \/ Cardinality(S) < Threads
  BY DEF FreeThread
<1>5. Cardinality(S) <= Threads
  BY DEF ThreadsOK
<1>6. ThreadsOK' <=> Cardinality(T) <= Threads
  BY DEF ThreadsOK
<1> HIDE DEF S, T
<1>7. IsFiniteSet(S) /\ Cardinality(S) \in Nat /\ Cardinality(T) \in Nat
  BY <1>3, TasksFinite
<1>8. /\ IsFiniteSet(S \cup {t})
      /\ Cardinality(S \cup {t}) = IF t \in S THEN Cardinality(S) ELSE Cardinality(S) + 1
  BY <1>7, FS_AddElement
<1>9. Cardinality(T) <= Cardinality(S \cup {t})
  BY <1>2, <1>8, FS_Subset
<1> QED BY <1>4, <1>5, <1>6, <1>7, <1>8, <1>9, TaskLocksAssumption

\* A task begins a method.
LEMMA BeginKeeps ==
  ASSUME LocksInv, NEW t \in Tasks, todo[t] = << >>, FreeThread,
         NEW q \in Seq(Steps), Sound(q, {}),
         todo' = [todo EXCEPT ![t] = q], UNCHANGED locked
  PROVE  LocksInv'
<1>1. locked[t] = {}
  BY LeftIs DEF LocksInv, MethodsOK
<1>2. MethodsOK'
  BY <1>1 DEF LocksInv, MethodsOK
<1>3. ThreadsOK'
  BY ThreadsStep DEF LocksInv
<1> QED BY <1>2, <1>3 DEF LocksInv

\* A task takes the next step of its method, to what its next stage has locked.
LEMMA MethodStepKeeps ==
  ASSUME LocksInv, NEW t \in Tasks, todo[t] # << >>, ~AwaitsRoom(t), Goes(t),
         NEW L, locked' = [locked EXCEPT ![t] = L],
         \A a, b \in Stages :
           InStage(locked[t], a) /\ Moves(a, Head(todo[t]), b) => InStage(L, b)
  PROVE  LocksInv'
<1> DEFINE q == Tail(todo[t])
<1>1. todo[t] \in Seq(Steps) /\ Sound(todo[t], locked[t])
  BY DEF LocksInv, MethodsOK
<1>2. Sound(q, L) /\ L \in SUBSET ((Maps \cup Shards) \X Modes)
  <2>1. \E a, b \in Stages :
          /\ InStage(locked[t], a)
          /\ Moves(a, Head(todo[t]), b)
          /\ \A M : InStage(M, b) => Sound(q, M)
    BY <1>1, SoundTail
  <2>2. \E b \in Stages : InStage(L, b) /\ Sound(q, L)
    BY <2>1
  <2> QED BY <2>2, StageLocks
<1>3. q \in Seq(Steps)
  BY <1>1, HeadTailProperties
<1>4. todo' = [todo EXCEPT ![t] = q]
  BY DEF Goes
<1>5. OnThread(t)
  BY DEF OnThread
<1> HIDE DEF q
<1>6. MethodsOK'
  BY <1>2, <1>3, <1>4 DEF LocksInv, MethodsOK
<1>7. ThreadsOK'
  BY <1>4, <1>5, ThreadsStep DEF LocksInv
<1> QED BY <1>6, <1>7 DEF LocksInv

\* What a lock step leaves locked.
LEMMA AcquireMoves ==
  ASSUME NEW L, NEW step, NEW a \in Stages, NEW b \in Stages,
         InStage(L, a), step.do = "lock", Moves(a, step, b)
  PROVE  InStage((IF step.keep THEN L ELSE {}) \cup {<< step.lock, step.mode >>}, b)
<1>1. Takes(a, step, b)
  BY DEF Moves
<1> DEFINE M == (IF step.keep THEN L ELSE {}) \cup {<< step.lock, step.mode >>}
<1>2. CASE a = "none"
  <2>1. L = {}
    BY <1>2 DEF InStage
  <2>2. M = {<< step.lock, step.mode >>}
    BY <2>1
  <2> HIDE DEF M
  <2>3. InStage(M, b)
    BY <1>1, <1>2, <2>2 DEF InStage, Takes
  <2> QED BY <2>3 DEF M
<1>3. CASE a = "shard"
  <2>1. /\ ~step.keep /\ b = "shard" /\ step.lock \in Shards
        /\ step.mode = "read"
    BY <1>1, <1>3 DEF Takes
  <2>2. M = {<< step.lock, "read" >>}
    BY <2>1
  <2> HIDE DEF M
  <2>3. InStage(M, b)
    BY <2>1, <2>2 DEF InStage
  <2> QED BY <2>3 DEF M
<1>4. CASE a \in {"owners", "sets"}
  <2>1. /\ step.keep /\ b = "both" /\ step.mode = "write"
        /\ step.lock \in {"owners", "sets"} /\ step.lock # a
    BY <1>1, <1>4 DEF Takes
  <2>2. L = {<< a, "write" >>}
    BY <1>4 DEF InStage
  <2>3. M = {<< "owners", "write" >>, << "sets", "write" >>}
    BY <1>4, <2>1, <2>2
  <2> HIDE DEF M
  <2>4. InStage(M, b)
    BY <2>1, <2>3 DEF InStage
  <2> QED BY <2>4 DEF M
<1>5. CASE a \in {"both", "map", "entry"}
  BY <1>1, <1>5 DEF Takes
<1> QED BY <1>2, <1>3, <1>4, <1>5 DEF Stages

\* The invariant is kept by every step.
LEMMA LocksStep == LocksInv /\ [LockNext]_lockVars => LocksInv'
<1> SUFFICES ASSUME LocksInv, [LockNext]_lockVars
             PROVE  LocksInv'
  OBVIOUS
<1>1. ASSUME NEW h \in Handlers, BeginRequest(h)
      PROVE  LocksInv'
  <2>1. /\ todo[h] = << >> /\ FreeThread /\ UNCHANGED locked
        /\ \E q \in {Broadcast, SetConversationOwner, ClearConversationOwner,
                     ReleaseClientConversations, LookAt("owners"), LookAt("sets")}
                    \cup {SendTo(k) : k \in Peers} \cup {Peek(s) : s \in Shards} :
             todo' = [todo EXCEPT ![h] = q]
    BY <1>1 DEF BeginRequest
  <2>2. PICK q \in {Broadcast, SetConversationOwner, ClearConversationOwner,
                     ReleaseClientConversations, LookAt("owners"), LookAt("sets")}
                    \cup {SendTo(k) : k \in Peers} \cup {Peek(s) : s \in Shards} :
             todo' = [todo EXCEPT ![h] = q]
    BY <2>1
  <2>3. q \in Seq(Steps) /\ Sound(q, {})
    <3>1. CASE \E k \in Peers : q = SendTo(k)
      BY <3>1, SendToSound
    <3>2. CASE \E s \in Shards : q = Peek(s)
      BY <3>2, LooksSound
    <3>3. CASE q \in {LookAt("owners"), LookAt("sets")}
      BY <3>3, LooksSound DEF Maps
    <3>4. CASE q \in {Broadcast, SetConversationOwner, ClearConversationOwner,
                      ReleaseClientConversations}
      BY <3>4, OwnershipSound, BroadcastSound
    <3> QED BY <2>2, <3>1, <3>2, <3>3, <3>4
  <2>4. h \in Tasks
    BY DEF Tasks
  <2> QED BY <2>1, <2>2, <2>3, <2>4, BeginKeeps
<1>2. ASSUME NEW k \in Peers, Connect(k) \/ EndLoop(k)
      PROVE  LocksInv'
  <2>1. /\ todo[k] = << >> /\ FreeThread /\ UNCHANGED locked
        /\ \/ todo' = [todo EXCEPT ![k] = AddClient(k)]
           \/ todo' = [todo EXCEPT ![k] = RemoveClient(k)]
    BY <1>2 DEF Connect, EndLoop
  <2>2. k \in Tasks
    BY DEF Tasks
  <2> QED BY <2>1, <2>2, EntrySound, BeginKeeps
<1>3. ASSUME NEW k \in Peers, BeginResponse(k)
      PROVE  LocksInv'
  <2>1. /\ todo[k] = << >> /\ FreeThread /\ UNCHANGED locked
        /\ \E q \in {ClaimConversation \o SendTo(k), << SendEach({k}) >>} :
             todo' = [todo EXCEPT ![k] = q]
    BY <1>3 DEF BeginResponse
  <2>2. PICK q \in {ClaimConversation \o SendTo(k), << SendEach({k}) >>} :
          todo' = [todo EXCEPT ![k] = q]
    BY <2>1
  <2>3. q \in Seq(Steps) /\ Sound(q, {})
    <3>1. CASE q = ClaimConversation \o SendTo(k)
      BY <3>1, OwnershipSound, SendToSound, SoundConcat
    <3>2. CASE q = << SendEach({k}) >>
      BY <3>2, SendToSound
    <3> QED BY <2>2, <3>1, <3>2
  <2>4. k \in Tasks
    BY DEF Tasks
  <2> QED BY <2>1, <2>2, <2>3, <2>4, BeginKeeps
<1>4. ASSUME NEW k \in Peers, Transmit(k) \/ PeerTurns(k)
      PROVE  LocksInv'
  BY <1>4 DEF Transmit, PeerTurns, LocksInv, MethodsOK, ThreadsOK, OnThread, AwaitsRoom
<1>5. ASSUME NEW t \in Tasks, Acquire(t)
      PROVE  LocksInv'
  <2> DEFINE step == Head(todo[t])
             L == (IF step.keep THEN locked[t] ELSE {})
                    \cup {<< step.lock, step.mode >>}
  <2>1. /\ todo[t] # << >> /\ Goes(t) /\ step.do = "lock"
        /\ locked' = [locked EXCEPT ![t] = L]
    <3>1. locked \in [Tasks -> SUBSET ((Maps \cup Shards) \X Modes)]
      BY DEF LocksInv, MethodsOK
    <3> QED BY <1>5, <3>1 DEF Acquire
  <2>2. ~AwaitsRoom(t)
    BY <2>1 DEF AwaitsRoom
  <2>3. ASSUME NEW a \in Stages, NEW b \in Stages, InStage(locked[t], a),
               Moves(a, step, b)
        PROVE  InStage(L, b)
    BY <2>1, <2>3, AcquireMoves
  <2> HIDE DEF L
  <2> QED BY <2>1, <2>2, <2>3, MethodStepKeeps
<1>6. ASSUME NEW t \in Tasks, DropGuards(t)
      PROVE  LocksInv'
  <2>1. /\ todo[t] # << >> /\ Goes(t) /\ Head(todo[t]).do = "drop"
        /\ locked' = [locked EXCEPT ![t] = {}]
    BY <1>6 DEF DropGuards
  <2>2. ~AwaitsRoom(t)
    BY <2>1 DEF AwaitsRoom
  <2>3. \A a, b \in Stages :
          InStage(locked[t], a) /\ Moves(a, Head(todo[t]), b) => InStage({}, b)
    BY <2>1 DEF Moves, InStage
  <2> QED BY <2>1, <2>2, <2>3, MethodStepKeeps
<1>7. ASSUME NEW t \in Tasks, WriteEntry(t) \/ SendsEnd(t)
      PROVE  LocksInv'
  <2>1. /\ todo[t] # << >> /\ Goes(t)
        /\ Head(todo[t]).do \in {"insert", "remove", "send"}
        /\ UNCHANGED locked /\ ~AwaitsRoom(t)
    BY <1>7 DEF WriteEntry, SendsEnd, AwaitsRoom
  <2>2. locked \in [Tasks -> SUBSET ((Maps \cup Shards) \X Modes)] /\ todo[t] \in Seq(Steps)
    BY DEF LocksInv, MethodsOK
  <2>3. \A a, b \in Stages :
          InStage(locked[t], a) /\ Moves(a, Head(todo[t]), b) => InStage(locked[t], b)
    BY <2>1 DEF Moves
  <2> DEFINE L == locked[t]
  <2>4. locked' = [locked EXCEPT ![t] = L]
    BY <2>1, <2>2
  <2> QED BY <2>1, <2>3, <2>4, MethodStepKeeps
<1>8. ASSUME NEW t \in Tasks, SendGoes(t)
      PROVE  LocksInv'
  <2>1. /\ AwaitsRoom(t) /\ FreeThread /\ UNCHANGED locked
        /\ \E k \in Head(todo[t]).to :
             todo' = [todo EXCEPT ![t] = << SendEach(@[1].to \ {k}) >> \o Tail(@)]
    BY <1>8 DEF SendGoes
  <2>2. /\ todo \in [Tasks -> Seq(Steps)] /\ Sound(todo[t], locked[t])
        /\ todo[t] # << >> /\ Head(todo[t]).do = "send"
    BY <2>1 DEF LocksInv, MethodsOK, AwaitsRoom
  <2>3. PICK k \in Head(todo[t]).to :
          todo' = [todo EXCEPT ![t] = << SendEach(@[1].to \ {k}) >> \o Tail(@)]
    BY <2>1
  <2>4. Head(todo[t]) \in Steps /\ Head(todo[t]) = todo[t][1]
    BY <2>2, HeadTailProperties
  <2>5. Head(todo[t]).to \in SUBSET Peers
    BY <2>2, <2>4 DEF Steps
  <2> DEFINE S == Head(todo[t]).to \ {k}
             q == << SendEach(S) >> \o Tail(todo[t])
  <2>6. S \in SUBSET Peers
    BY <2>5
  <2>7. todo' = [todo EXCEPT ![t] = q]
    BY <2>2, <2>3, <2>4
  <2> HIDE DEF S
  <2>8. q \in Seq(Steps) /\ Sound(q, locked[t])
    BY <2>2, <2>6, SoundSend
  <2> HIDE DEF q
  <2>9. MethodsOK'
    BY <2>1, <2>7, <2>8 DEF LocksInv, MethodsOK
  <2>10. ThreadsOK'
    BY <2>1, <2>7, ThreadsStep DEF LocksInv
  <2> QED BY <2>9, <2>10 DEF LocksInv
<1>9. CASE UNCHANGED lockVars
  BY <1>9 DEF lockVars, LocksInv, MethodsOK, ThreadsOK, OnThread, AwaitsRoom
<1> QED
  BY <1>1, <1>2, <1>3, <1>4, <1>5, <1>6, <1>7, <1>8, <1>9 DEF LockNext, TaskStep

-----------------------------------------------------------------------------
\* Whoever has an ownership map locked waits for the other or for nothing.
LEMMA ApartInStages ==
  ASSUME LocksInv, NEW t \in Tasks, NEW l \in Maps, Has(t, l), NEW s \in Shards
  PROVE  ~WaitsFor(t, s) /\ ~Has(t, s)
<1>1. todo[t] \in Seq(Steps) /\ Sound(todo[t], locked[t])
  BY DEF LocksInv, MethodsOK
<1>2. todo[t] # << >>
  BY <1>1, LeftIs DEF Has
<1>3. PICK a \in Stages, b \in Stages :
        InStage(locked[t], a) /\ Moves(a, Head(todo[t]), b)
  BY <1>1, <1>2, SoundTail
<1>4. s \notin Maps
  BY TaskLocksAssumption DEF Maps
<1>5. a \in {"owners", "sets", "both", "map"}
  BY <1>3, <1>4, TaskLocksAssumption DEF InStage, Has, Maps
<1>6. ~Has(t, s)
  BY <1>3, <1>4, <1>5 DEF InStage, Has, Maps
<1>7. Head(todo[t]).do = "lock" => Head(todo[t]).lock \in Maps
  BY <1>3, <1>5 DEF Moves, Takes, Maps
<1>8. ~WaitsFor(t, s)
  BY <1>4, <1>7 DEF WaitsFor, Blocked
<1> QED BY <1>6, <1>8

\* Every thread blocked, and no send under a shard: whoever has something locked
\* is blocked as well, on the other ownership map or on the next shard.
LEMMA HolderWaits ==
  ASSUME LocksInv, Cardinality({t \in Tasks : Blocked(t)}) = Threads, ~GuardedSend,
         NEW u \in Tasks, locked[u] # {}
  PROVE  /\ Blocked(u)
         /\ \/ /\ locked[u] = {<< "owners", "write" >>}
               /\ Head(todo[u]).lock = "sets"
            \/ /\ locked[u] = {<< "sets", "write" >>}
               /\ Head(todo[u]).lock = "owners"
            \/ /\ \E s \in Shards : locked[u] = {<< s, "read" >>}
               /\ Head(todo[u]).lock \in Shards /\ Head(todo[u]).mode = "read"
<1>1. todo[u] \in Seq(Steps) /\ Sound(todo[u], locked[u])
  BY DEF LocksInv, MethodsOK
<1>2. todo[u] # << >>
  BY <1>1, LeftIs
<1>3. PICK a \in Stages, b \in Stages :
        InStage(locked[u], a) /\ Moves(a, Head(todo[u]), b)
  BY <1>1, <1>2, SoundTail
<1>4. ~AwaitsRoom(u)
  <2> SUFFICES ASSUME AwaitsRoom(u)
               PROVE  FALSE
    OBVIOUS
  <2>1. Head(todo[u]).do = "send"
    BY DEF AwaitsRoom
  <2>2. a = "shard"
    BY <1>3, <2>1 DEF Moves, InStage
  <2>3. PICK s \in Shards : locked[u] = {<< s, "read" >>}
    BY <1>3, <2>2 DEF InStage
  <2>4. Has(u, s)
    BY <2>3 DEF Has
  <2> QED BY <2>3, <2>4 DEF GuardedSend
<1>5. Blocked(u)
  <2> DEFINE S == {t \in Tasks : OnThread(t)}
             T == {t \in Tasks : Blocked(t)}
  <2>1. T \in SUBSET S
    BY DEF Blocked, OnThread, AwaitsRoom
  <2>2. S \in SUBSET Tasks /\ u \in S
    BY <1>2, <1>4 DEF OnThread
  <2>3. Cardinality(S) <= Threads /\ Cardinality(T) = Threads
    BY DEF LocksInv, ThreadsOK
  <2>4. u \in T => Blocked(u)
    OBVIOUS
  <2> HIDE DEF S, T
  <2>5. IsFiniteSet(S) /\ Cardinality(S) \in Nat /\ Cardinality(T) \in Nat
    BY <2>1, <2>2, TasksFinite
  <2>6. /\ Cardinality(T) <= Cardinality(S)
        /\ Cardinality(S) = Cardinality(T) => S = T
    BY <2>1, <2>5, FS_Subset
  <2> QED BY <2>2, <2>3, <2>4, <2>5, <2>6, TaskLocksAssumption
<1>6. Takes(a, Head(todo[u]), b)
  BY <1>3, <1>5 DEF Moves, Blocked
<1>7. a # "none"
  BY <1>3 DEF InStage
<1>8. a \in {"owners", "sets", "shard"}
  BY <1>6, <1>7 DEF Takes
<1> QED BY <1>3, <1>5, <1>6, <1>8 DEF InStage, Takes

\* Whoever is blocked waits for someone who has the lock, in a mode that excludes.
LEMMA BlockedBy ==
  ASSUME NEW t \in Tasks, Blocked(t)
  PROVE  \E u \in Tasks, mode \in Modes :
           /\ << Head(todo[t]).lock, mode >> \in locked[u]
           /\ ~(mode = "read" /\ Head(todo[t]).mode = "read")
BY DEF Blocked, Grantable, Modes

\* Whoever blocks the last thread is blocked as well, and so on in a circle: in
\* the stages there is none but that of the two ownership maps.
LEMMA CauseInStages ==
  ASSUME LocksInv
  PROVE  StopHasCause
<1> SUFFICES ASSUME Cardinality({t \in Tasks : Blocked(t)}) = Threads, ~GuardedSend
             PROVE  Inversion
  BY DEF StopHasCause
<1>1. \A s \in Shards : s \notin {"owners", "sets"}
  BY TaskLocksAssumption
<1>2. PICK t \in Tasks : Blocked(t)
  <2> SUFFICES ASSUME {t \in Tasks : Blocked(t)} = {}
               PROVE  FALSE
    OBVIOUS
  <2>1. Cardinality({t \in Tasks : Blocked(t)}) = 0
    BY FS_EmptySet, Zenon
  <2> QED BY <2>1, TaskLocksAssumption
<1>3. PICK u \in Tasks : locked[u] # {}
  BY <1>2, BlockedBy
<1>4. Blocked(u)
  BY <1>3, HolderWaits
<1>5. PICK v \in Tasks, mode \in Modes :
        /\ << Head(todo[u]).lock, mode >> \in locked[v]
        /\ ~(mode = "read" /\ Head(todo[u]).mode = "read")
  BY <1>4, BlockedBy
<1>6. Blocked(v) /\ locked[v] # {}
  BY <1>5, HolderWaits
<1>7. CASE locked[u] = {<< "owners", "write" >>} /\ Head(todo[u]).lock = "sets"
  <2>1. locked[v] = {<< "sets", "write" >>} /\ Head(todo[v]).lock = "owners"
    BY <1>1, <1>5, <1>6, <1>7, HolderWaits
  <2>2. Has(v, "sets") /\ WaitsFor(v, "owners")
    BY <1>6, <2>1 DEF Has, WaitsFor
  <2>3. Has(u, "owners") /\ WaitsFor(u, "sets")
    BY <1>4, <1>7 DEF Has, WaitsFor
  <2> QED BY <2>2, <2>3 DEF Inversion
<1>8. CASE locked[u] = {<< "sets", "write" >>} /\ Head(todo[u]).lock = "owners"
  <2>1. locked[v] = {<< "owners", "write" >>} /\ Head(todo[v]).lock = "sets"
    BY <1>1, <1>5, <1>6, <1>8, HolderWaits
  <2>2. Has(v, "owners") /\ WaitsFor(v, "sets")
    BY <1>6, <2>1 DEF Has, WaitsFor
  <2>3. Has(u, "sets") /\ WaitsFor(u, "owners")
    BY <1>4, <1>8 DEF Has, WaitsFor
  <2> QED BY <2>2, <2>3 DEF Inversion
<1>9. CASE /\ \E s \in Shards : locked[u] = {<< s, "read" >>}
           /\ Head(todo[u]).lock \in Shards /\ Head(todo[u]).mode = "read"
  <2>1. mode = "write"
    BY <1>5, <1>9 DEF Modes
  <2>2. \/ locked[v] = {<< "owners", "write" >>}
        \/ locked[v] = {<< "sets", "write" >>}
        \/ \E s \in Shards : locked[v] = {<< s, "read" >>}
    BY <1>6, HolderWaits
  <2> QED BY <1>1, <1>5, <1>9, <2>1, <2>2
<1> QED BY <1>3, <1>7, <1>8, <1>9, HolderWaits

\* The invariant of the tasks and their locks.
THEOREM TaskLocksInvariant == LockSpec => []LocksInv
BY LocksInitially, LocksStep, PTL DEF LockSpec

\* OwnershipApart: for any clients, shards, requests and threads, whoever has an
\* ownership map locked (claim, release, override, clear and the lookups) neither
\* has a shard of the registry nor waits for one.
THEOREM OwnershipApartInvariant == LockSpec => []OwnershipApart
<1>1. LocksInv => OwnershipApart
  BY ApartInStages DEF OwnershipApart, Maps
<1> QED BY <1>1, TaskLocksInvariant, PTL

\* StopHasCause: all threads are blocked on locks only through the two orders in
\* which the ownership maps are locked, or through a send that awaits room while
\* its shard is locked.
THEOREM StopHasCauseInvariant == LockSpec => []StopHasCause
<1>1. LocksInv => StopHasCause
  BY CauseInStages
<1> QED BY <1>1, TaskLocksInvariant, PTL

-----------------------------------------------------------------------------
\* Whoever has an ownership map locked for writing has it alone.
WritesAlone ==
  \A t, u \in Tasks, l \in Maps :
    t # u /\ << l, "write" >> \in locked[t] => ~Has(u, l)

\* Whoever has both ownership maps, to look at them and change them, has them alone.
UpdatesAlone ==
  \A t, u \in Tasks :
    /\ t # u
    /\ Has(t, "owners") /\ Has(t, "sets")
    => ~Has(u, "owners") /\ ~Has(u, "sets")

\* Locks are granted so that writing stays exclusive.
LEMMA AloneStep ==
  ASSUME LocksInv, WritesAlone, [LockNext]_lockVars
  PROVE  WritesAlone'
<1>0. locked \in [Tasks -> SUBSET ((Maps \cup Shards) \X Modes)]
  BY DEF LocksInv, MethodsOK
<1>1. ASSUME NEW t \in Tasks, Acquire(t)
      PROVE  WritesAlone'
  <2> DEFINE step == Head(todo[t])
  <2>1. /\ Grantable(step)
        /\ locked' = [locked EXCEPT ![t] = (IF step.keep THEN @ ELSE {})
                                             \cup {<< step.lock, step.mode >>}]
    BY <1>1 DEF Acquire
  <2> HIDE DEF step
  <2>2. /\ locked'[t] \subseteq locked[t] \cup {<< step.lock, step.mode >>}
        /\ \A u \in Tasks \ {t} : locked'[u] = locked[u]
    BY <1>0, <2>1
  <2>3. \A u \in Tasks, mode \in Modes :
          << step.lock, mode >> \in locked[u] => mode = "read" /\ step.mode = "read"
    BY <2>1 DEF Grantable, Modes
  <2> SUFFICES ASSUME NEW u \in Tasks, NEW v \in Tasks, NEW l \in Maps, u # v,
                      << l, "write" >> \in locked'[u], NEW mode \in Modes,
                      << l, mode >> \in locked'[v]
               PROVE  FALSE
    BY DEF WritesAlone, Has, Modes
  <2>4. \A x, y \in Tasks : x # y /\ << l, "write" >> \in locked[x]
                             => << l, mode >> \notin locked[y]
    BY DEF WritesAlone, Has, Modes
  <2>5. "write" \in Modes
    BY DEF Modes
  <2>6. CASE u = t
    <3>1. << l, mode >> \in locked[v]
      BY <2>2, <2>6
    <3>2. << l, "write" >> = << step.lock, step.mode >>
      BY <2>2, <2>4, <2>6, <3>1
    <3> QED
      BY <2>3, <3>1, <3>2
  <2>7. CASE u # t
    <3>1. << l, "write" >> \in locked[u]
      BY <2>2, <2>7
    <3>2. l # step.lock
      BY <2>3, <2>5, <3>1
    <3>3. << l, mode >> \in locked[v]
      BY <2>2, <3>2
    <3> QED
      BY <2>4, <3>1, <3>3
  <2> QED
    BY <2>6, <2>7
<1>2. ASSUME NEW t \in Tasks, DropGuards(t)
      PROVE  WritesAlone'
  <2>1. \A u \in Tasks : locked'[u] \subseteq locked[u]
    BY <1>0, <1>2 DEF DropGuards
  <2> QED
    BY <2>1 DEF WritesAlone, Has
<1>3. CASE UNCHANGED locked
  BY <1>3 DEF WritesAlone, Has
<1>4. \/ \E t \in Tasks : Acquire(t) \/ DropGuards(t)
      \/ UNCHANGED locked
  BY DEF LockNext, TaskStep, lockVars, BeginRequest, Connect, BeginResponse, EndLoop,
         Transmit, PeerTurns, WriteEntry, SendGoes, SendsEnd
<1> QED
  BY <1>1, <1>2, <1>3, <1>4

\* For any clients, shards, requests and threads: who has both ownership maps
\* locked has both for writing, and nobody else has either, so that a claim, a
\* release, an override and a clear can be one step where locks are left out.
THEOREM UpdatesAloneInvariant == LockSpec => []UpdatesAlone
<1> DEFINE Inv == LocksInv /\ WritesAlone
<1>1. LockInit => Inv
  <2>1. LockInit => WritesAlone
    BY DEF LockInit, WritesAlone
  <2> QED
    BY <2>1, LocksInitially
<1>2. Inv /\ [LockNext]_lockVars => Inv'
  BY LocksStep, AloneStep
<1>3. Inv => UpdatesAlone
  <2> SUFFICES ASSUME Inv, NEW t \in Tasks, Has(t, "owners"), Has(t, "sets"),
                      NEW u \in Tasks, t # u
               PROVE  ~Has(u, "owners") /\ ~Has(u, "sets")
    BY DEF UpdatesAlone
  <2>1. todo[t] \in Seq(Steps) /\ Sound(todo[t], locked[t])
    BY DEF LocksInv, MethodsOK
  <2>2. todo[t] # << >>
    BY <2>1, LeftIs DEF Has
  <2>3. PICK a \in Stages : InStage(locked[t], a)
    BY <2>1, <2>2, SoundTail
  <2>4. "owners" \notin Shards /\ "sets" \notin Shards
    BY TaskLocksAssumption
  <2>5. locked[t] = {<< "owners", "write" >>, << "sets", "write" >>}
    BY <2>3, <2>4 DEF InStage, Has
  <2> QED
    BY <2>5 DEF WritesAlone, Maps
<1> HIDE DEF Inv
<1> QED
  BY <1>1, <1>2, <1>3, PTL DEF LockSpec

=============================================================================
