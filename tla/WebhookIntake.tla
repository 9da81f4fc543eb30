---------------------------- MODULE WebhookIntake ----------------------------
(***************************************************************************)
(* How events reach the broker: handle_webhook and process_event of         *)
(* src/webhook/mod.rs, the deduplication table of src/storage/dedup.rs, and *)
(* LINE (external), which sends a batch of events again, marked as a         *)
(* redelivery, when it has not had a 200 for it.                             *)
(*                                                                          *)
(* Requests run beside each other. A request awaits only while it routes,   *)
(* so that is where it can be dropped by a caller that hangs up; everything  *)
(* between two awaits, and each call to the table, is one step. main.rs      *)
(* attaches no storage to the broker, so the shipped program runs without    *)
(* the table: whether there is one is chosen at the start.                   *)
(***************************************************************************)
EXTENDS Integers, Sequences, FiniteSets

CONSTANTS
  Batches,     \* the webhook requests LINE has to deliver
  EventsOf,    \* batch -> the sequence of its events
  WebhookTasks,\* tasks that serve a request
  MaxSends     \* bound: how often LINE sends a batch

Events == UNION {{EventsOf[b][i] : i \in 1 .. Len(EventsOf[b])} : b \in Batches}

ASSUME BatchesAssumption ==
  /\ \A b, d \in Batches :
       \A i \in 1 .. Len(EventsOf[b]), j \in 1 .. Len(EventsOf[d]) :
         EventsOf[b][i] = EventsOf[d][j] => b = d /\ i = j
  /\ \A b \in Batches : Len(EventsOf[b]) \in Nat
  /\ MaxSends \in Nat

VARIABLES
  config,      \* dedup: a storage is attached; redeliveries: they are processed
  nature,      \* what each event is, see Natures
  sends,       \* batch -> how often LINE has sent it
  acked,       \* batches that LINE has had a 200 for
  task,        \* what each task is doing, see NoRequest
  seen,        \* table webhook_dedup: the event ids it has
  reached,     \* history: event -> how often routing it has reached clients
  unmarked,    \* history: events whose mark was not written, or has expired
  undelivered, \* history: events whose routing failed, which is only logged
  missed,      \* history: events no client was given, and the routing was Ok
  cut          \* history: events whose request was dropped while routing them

intakeVars == << config, nature, sends, acked, task, seen,
                 reached, unmarked, undelivered, missed, cut >>
given      == << config, nature >>
outcomes   == << reached, undelivered, missed, cut >>

(***************************************************************************)
(* "message"  the one kind of event that is routed                          *)
(* "silent"   another kind: process_event logs it, and no more              *)
(* "standby"  in standby mode, whatever its kind                            *)
(* "foreign"  of a kind, or in a form, that no variant of Event takes       *)
(***************************************************************************)
Natures == {"message", "silent", "standby", "foreign"}

\* Whether serde can read an event.
Readable(e) == nature[e] # "foreign"

NoRequest == [at |-> "idle"]

IntakeInit ==
  /\ config \in [dedup : BOOLEAN, redeliveries : BOOLEAN]
  /\ nature \in [Events -> Natures]
  /\ Cardinality({e \in Events : nature[e] # "message"}) <= 1
  /\ sends = [b \in Batches |-> 0]
  /\ acked = {}
  /\ task = [q \in WebhookTasks |-> NoRequest]
  /\ seen = {}
  /\ reached = [e \in Events |-> 0]
  /\ unmarked = {}
  /\ undelivered = {}
  /\ missed = {}
  /\ cut = {}

\* LINE sends a batch, again when it has given up waiting for an answer.
Deliver(q, b) ==
  /\ task[q].at = "idle"
  /\ b \notin acked
  /\ sends[b] < MaxSends
  /\ sends' = [sends EXCEPT ![b] = @ + 1]
  /\ task' = [task EXCEPT ![q] =
       [at |-> "body", batch |-> b, next |-> 1, redelivery |-> sends[b] > 0]]
  /\ UNCHANGED << given, acked, seen, unmarked, outcomes >>

Finish(q) == task' = [task EXCEPT ![q] = NoRequest]

\* verify_signature and parse_webhook: one event that does not deserialize
\* refuses the whole request, with 400; so does a signature that is missing or
\* does not match, whatever the request.
RefuseRequest(q) ==
  /\ task[q].at = "body"
  /\ Finish(q)
  /\ UNCHANGED << given, sends, acked, seen, unmarked, outcomes >>

AcceptBody(q) ==
  /\ task[q].at = "body"
  /\ \A i \in 1 .. Len(EventsOf[task[q].batch]) :
       Readable(EventsOf[task[q].batch][i])
  /\ task' = [task EXCEPT ![q].at = "event"]
  /\ UNCHANGED << given, sends, acked, seen, unmarked, outcomes >>

AtEvent(q) == /\ task[q].at = "event"
              /\ task[q].next <= Len(EventsOf[task[q].batch])

Event(q) == EventsOf[task[q].batch][task[q].next]

NextEvent(q) ==
  task' = [task EXCEPT ![q].at = "event", ![q].next = @ + 1]

\* check_and_mark says "seen".
Duplicate(e) == config.dedup /\ e \in seen

\* After the table, a message is routed unless it is a redelivery that the
\* configuration leaves out.
RouteOrSkip(q) ==
  IF (task[q].redelivery /\ ~config.redeliveries) \/ nature[Event(q)] = "silent"
  THEN NextEvent(q)
  ELSE task' = [task EXCEPT ![q].at = "routing"]

SkipEvent(q) ==
  /\ AtEvent(q)
  /\ nature[Event(q)] = "standby" \/ Duplicate(Event(q))
  /\ NextEvent(q)
  /\ UNCHANGED << given, sends, acked, seen, unmarked, outcomes >>

\* MUTANT of MarkEvent: an event that is not in the table is not put there.
MarkEventNever(q) ==
  /\ AtEvent(q)
  /\ nature[Event(q)] # "standby"
  /\ ~Duplicate(Event(q))
  /\ RouteOrSkip(q)
  /\ UNCHANGED << given, sends, acked, seen, unmarked, outcomes >>

\* check_and_mark under one lock: a failing read counts as "not seen", and a
\* failing write is ignored.
MarkEvent(q) ==
  /\ AtEvent(q)
  /\ nature[Event(q)] # "standby"
  /\ \/ /\ ~Duplicate(Event(q))
        /\ \/ /\ seen' = IF config.dedup THEN seen \cup {Event(q)} ELSE seen
              /\ UNCHANGED unmarked
           \/ /\ config.dedup
              /\ unmarked' = unmarked \cup {Event(q)}
              /\ UNCHANGED seen
     \/ /\ Duplicate(Event(q))
        /\ unmarked' = unmarked \cup {Event(q)}
        /\ UNCHANGED seen
  /\ RouteOrSkip(q)
  /\ UNCHANGED << given, sends, acked, outcomes >>

\* send_to_clients returns: it gave the message to some client or to none, and
\* failed or not. process_event logs a failure and handle_webhook never learns of
\* it. A broadcast whose clients have left since it counted them is Ok, and one
\* that reached a client it had not counted may be an error.
RouteEnds(q, toSome, ok) ==
  /\ task[q].at = "routing"
  /\ reached' = IF toSome THEN [reached EXCEPT ![Event(q)] = @ + 1] ELSE reached
  /\ undelivered' = IF ok THEN undelivered ELSE undelivered \cup {Event(q)}
  /\ missed' = IF ok /\ ~toSome THEN missed \cup {Event(q)} ELSE missed
  /\ NextEvent(q)
  /\ UNCHANGED << given, sends, acked, seen, unmarked, cut >>

\* MUTANT of Answer: a request of one event is acknowledged before it is routed.
AnswerEarly(q) ==
  /\ task[q].at = "event"
  /\ task[q].next >= Len(EventsOf[task[q].batch])
  /\ Finish(q)
  /\ acked' = acked \cup {task[q].batch}
  /\ UNCHANGED << given, sends, seen, unmarked, outcomes >>

\* 200 after the last event, whatever became of them. LINE may no longer wait.
Answer(q) ==
  /\ task[q].at = "event"
  /\ task[q].next > Len(EventsOf[task[q].batch])
  /\ Finish(q)
  /\ acked' \in {acked, acked \cup {task[q].batch}}
  /\ UNCHANGED << given, sends, seen, unmarked, outcomes >>

\* A request is dropped where it is: its event may have reached clients.
Drop(Q) ==
  LET during == {Event(q) : q \in {r \in Q : task[r].at = "routing"}} IN
  /\ cut' = cut \cup during
  /\ \E S \in SUBSET during :
       reached' = [e \in Events |-> IF e \in S THEN reached[e] + 1 ELSE reached[e]]
  /\ task' = [q \in WebhookTasks |-> IF q \in Q THEN NoRequest ELSE task[q]]
  /\ UNCHANGED << given, sends, acked, seen, unmarked, undelivered, missed >>

HangUp(q) == task[q].at = "routing" /\ Drop({q})

IntakeCrash == (\E q \in WebhookTasks : task[q].at # "idle") /\ Drop(WebhookTasks)

\* Twenty-four hours later the next check removes the mark.
MarkExpires(e) ==
  /\ e \in seen
  /\ seen' = seen \ {e}
  /\ unmarked' = unmarked \cup {e}
  /\ UNCHANGED << given, sends, acked, task, outcomes >>

IntakeNext ==
  \/ \E q \in WebhookTasks :
       \/ \E b \in Batches : Deliver(q, b)
       \/ RefuseRequest(q)
       \/ AcceptBody(q)
       \/ SkipEvent(q)
       \/ MarkEvent(q)
       \/ \E toSome, ok \in BOOLEAN : RouteEnds(q, toSome, ok)
       \/ Answer(q)
       \/ HangUp(q)
  \/ IntakeCrash
  \/ \E e \in Events : MarkExpires(e)

IntakeSpec == IntakeInit /\ [][IntakeNext]_intakeVars

-----------------------------------------------------------------------------
(***************************************************************************)
(* Properties                                                              *)
(***************************************************************************)

\* An event reaches the clients twice only where nothing remembers it: without
\* the table, or when its mark was not written or has expired.
RoutedTwiceHasCause ==
  \A e \in Events :
    reached[e] > 1 => config.redeliveries /\ (~config.dedup \/ e \in unmarked)

\* A batch that LINE need not send again has reached the clients with every
\* message of it, except one in standby, one whose routing failed, one that was
\* broadcast to clients that had left, one that an earlier request is routing
\* still, and one whose request was cut off and whose redelivery the table or the
\* configuration then left out.
AckedMeansRouted ==
  \A b \in acked : \A i \in 1 .. Len(EventsOf[b]) :
    LET e == EventsOf[b][i] IN
    \/ reached[e] > 0
    \/ nature[e] \in {"silent", "standby"}
    \/ e \in undelivered \cup missed
    \/ \E q \in WebhookTasks : task[q].at = "routing" /\ Event(q) = e
    \/ config.dedup /\ e \in cut
    \/ ~config.redeliveries /\ sends[b] > 1

=============================================================================
