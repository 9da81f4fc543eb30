----------------------------- MODULE InboundQueue -----------------------------
(***************************************************************************)
(* The inbound queue worker of src/retry/inbound.rs over the claim protocol *)
(* of ClaimQueue: it gives queued LINE messages to the clients by           *)
(* send_to_clients, until one is reached or the message has expired.        *)
(*                                                                          *)
(* Its loop is a select! between a batch and the tick of the cleanup, so a  *)
(* tick drops the batch at whatever await it is. A statement succeeds or    *)
(* fails as a whole, and what was under way at a drop has happened or not.  *)
(* Times are kept only as the messages whose expires_at has passed.         *)
(***************************************************************************)
EXTENDS ClaimQueue

CONSTANTS
  Limit,   \* batch_size
  IdsOf    \* ids a worker can start under: one in a container, several on a host

ASSUME InboundAssumption ==
  /\ Limit \in Nat \ {0}
  /\ IdsOf \in [Workers -> SUBSET Ids]

VARIABLES
  past,      \* messages whose expires_at has passed; requeues copy it
  delivery,  \* messages.delivery_status
  at,        \* where in process_entry each worker is, see Places
  reached,   \* history: messages that some client was given
  sends,     \* history: deliveries of each row that reached a client, up to 2
  missed,    \* history: messages answered by Ok that no client was given so far
  failed,    \* history: messages whose delivery was answered by an error
  doubtful   \* history: rows that reached a client and were not completed then

history == << reached, sends, missed, failed, doubtful >>
entryVars == << delivery, at, history >>
vars == << queueVars, past, entryVars >>

(***************************************************************************)
(* "none"   not in process_entry   "expire"  about to complete, expired     *)
(* "fetch"  about to read the message            "send"  in send_to_clients *)
(* "complete", "mark"  delivered, about to complete the row, then to set    *)
(*          the message's status         "requeue"  not delivered           *)
(* "over"   about to return        "cleanup"  in cleanup_expired            *)
(***************************************************************************)
Places == {"none", "expire", "fetch", "send", "complete", "mark", "requeue",
           "over", "cleanup"}

Go(w, place) == at' = [at EXCEPT ![w] = place]

-----------------------------------------------------------------------------

Init ==
  /\ QueueInit
  /\ past = {}
  /\ delivery = [m \in Msgs |-> "pending"]
  /\ at = [w \in Workers |-> "none"]
  /\ reached = {}
  /\ sends = [r \in Rows |-> 0]
  /\ missed = {}
  /\ failed = {}
  /\ doubtful = {}

\* Time passes the message's expires_at.
TimePasses(m) ==
  /\ past' = past \cup {m}
  /\ UNCHANGED << queueVars, entryVars >>

StartWorker(w, i) ==
  /\ Start(w, i)
  /\ UNCHANGED << past, entryVars >>

\* The calls of the database the worker makes; each succeeds or fails as a whole.
ClaimNextInbound(w) == Claim(w, Oldest({r \in Pending : message[r] \notin past}, Limit))

CompleteInbound(w, ok) == IF ok THEN Settle(w, "completed") ELSE UNCHANGED queueVars

EnqueueInbound(w, ok) == IF ok THEN Enqueue(w) ELSE UNCHANGED queueVars

UpdateDeliveryStatus(m, s, ok) ==
  delivery' = IF ok THEN [delivery EXCEPT ![m] = s] ELSE delivery

CleanupExpiredInbound(ok) ==
  IF ok THEN ExpireRows({r \in Pending : message[r] \in past}) ELSE UNCHANGED queueVars

\* MUTANT of Poll: the limit counts the rows that are claimed, too.
PollCountsClaimed(w) ==
  /\ at[w] = "none"
  /\ Claim(w, {r \in Oldest({o \in Rows : status[o] \in {"pending", "processing"}},
                            Limit) :
                 status[r] = "pending" /\ message[r] \notin past})
  /\ UNCHANGED << past, entryVars >>

\* claim_next_inbound: the oldest pending rows that have not expired.
Poll(w) ==
  /\ at[w] = "none"
  /\ ClaimNextInbound(w)
  /\ UNCHANGED << past, entryVars >>

\* Its SELECT; an error gives up the batch, and the rows stay claimed.
ReadClaims(w, ok) ==
  /\ phase[w] = "claimed"
  /\ IF ok THEN ReadBack(w) ELSE EndBatch(w)
  /\ UNCHANGED << past, entryVars >>

\* The oldest entry is taken up: has it expired by now?
TakeOldest(w) ==
  /\ at[w] = "none"
  /\ \E r \in Oldest(todo[w], 1) :
       /\ TakeUp(w, r)
       /\ Go(w, IF message[r] \in past THEN "expire" ELSE "fetch")
  /\ UNCHANGED << past, delivery, history >>

\* An expired entry is completed.
ConsumeExpired(w, ok) ==
  /\ at[w] = "expire"
  /\ CompleteInbound(w, ok)
  /\ Go(w, "over")
  /\ UNCHANGED << past, delivery, history >>

\* get_message; on an error the entry stays claimed.
Fetch(w, ok) ==
  /\ at[w] = "fetch"
  /\ Go(w, IF ok THEN "send" ELSE "over")
  /\ UNCHANGED << queueVars, past, delivery, history >>

\* A client was given the message, and it is known or not that one was.
Reach(w, known) ==
  /\ reached' = reached \cup {message[cur[w]]}
  /\ sends' = [sends EXCEPT ![cur[w]] = IF @ = 2 THEN 2 ELSE @ + 1]
  /\ doubtful' = IF known THEN doubtful ELSE doubtful \cup {cur[w]}

\* send_to_clients gives the message to some client or to none, and answers. A
\* broadcast compares its failures with a number of clients counted before it:
\* it is Ok with nobody reached when the clients it counted have left, and an
\* error with somebody reached when as many have failed as it counted.
Send(w, given, ok) ==
  /\ at[w] = "send"
  /\ IF given THEN Reach(w, ok) ELSE UNCHANGED << reached, sends, doubtful >>
  /\ missed' = (IF ok THEN missed \cup {message[cur[w]]} ELSE missed) \ reached'
  /\ failed' = IF ok THEN failed ELSE failed \cup {message[cur[w]]}
  /\ Go(w, IF ok THEN "complete" ELSE "requeue")
  /\ UNCHANGED << queueVars, past, delivery >>

\* The row in hand stays as it is: is it one that reached a client?
Doubt(w) == doubtful' = doubtful \cup {r \in {cur[w]} : sends[r] > 0}

\* MUTANT of Complete: the delivered row is left as it is.
CompleteNothing(w, ok) ==
  /\ at[w] = "complete"
  /\ IF ok THEN UNCHANGED doubtful ELSE Doubt(w)
  /\ Go(w, "mark")
  /\ UNCHANGED << queueVars, past, delivery, reached, sends, missed, failed >>

\* complete_inbound.
Complete(w, ok) ==
  /\ at[w] = "complete"
  /\ CompleteInbound(w, ok)
  /\ IF ok THEN UNCHANGED doubtful ELSE Doubt(w)
  /\ Go(w, "mark")
  /\ UNCHANGED << past, delivery, reached, sends, missed, failed >>

\* update_delivery_status, and the entry is done.
MarkDelivered(w, ok) ==
  /\ at[w] = "mark"
  /\ UpdateDeliveryStatus(message[cur[w]], "delivered", ok)
  /\ PutDown(w)
  /\ Go(w, "none")
  /\ UNCHANGED << past, history >>

\* MUTANT of Requeue: the failed entry is completed instead.
RequeueCompletes(w, ok) ==
  /\ at[w] = "requeue"
  /\ CompleteInbound(w, ok)
  /\ Go(w, "over")
  /\ UNCHANGED << past, delivery, history >>

\* After a failed delivery a new entry is enqueued. The one in hand keeps its
\* status and its lock.
Requeue(w, ok) ==
  /\ at[w] = "requeue"
  /\ EnqueueInbound(w, ok)
  /\ Go(w, "over")
  /\ UNCHANGED << past, delivery, history >>

Return(w) ==
  /\ at[w] = "over"
  /\ PutDown(w)
  /\ Go(w, "none")
  /\ UNCHANGED << past, delivery, history >>

\* All entries of the batch are done.
FinishBatch(w) ==
  /\ phase[w] = "work"
  /\ at[w] = "none"
  /\ todo[w] = {}
  /\ EndBatch(w)
  /\ UNCHANGED << past, entryVars >>

\* Work on an entry is dropped at an await: send_to_clients may have given the
\* message to some of the clients, and a delivered row stays claimed.
Dropped(w) ==
  /\ \/ at[w] = "send" /\ Reach(w, FALSE)
     \/ /\ IF at[w] = "complete" THEN Doubt(w) ELSE UNCHANGED doubtful
        /\ UNCHANGED << reached, sends >>
  /\ missed' = missed \ reached'
  /\ UNCHANGED << past, delivery, failed >>

\* The cleanup's tick ends the batch.
Tick(w) ==
  /\ at[w] # "cleanup"
  /\ EndBatch(w)
  /\ Dropped(w)
  /\ Go(w, "cleanup")

\* MUTANT of CleanUp: rows that are being worked on expire, too.
CleanUpAll(w, ok) ==
  /\ at[w] = "cleanup"
  /\ status' = [r \in Rows |-> IF message[r] \in past THEN "expired"
                              ELSE status[r]]
  /\ Go(w, "none")
  /\ UNCHANGED << message, lockedBy, workerVars, past, delivery, history >>

\* cleanup_expired: pending rows that have expired.
CleanUp(w, ok) ==
  /\ at[w] = "cleanup"
  /\ CleanupExpiredInbound(ok)
  /\ Go(w, "none")
  /\ UNCHANGED << past, delivery, history >>

\* Shutdown or crash.
StopWorker(w) ==
  /\ Stop(w)
  /\ Dropped(w)
  /\ Go(w, "none")

-----------------------------------------------------------------------------

ProcessEntry(w) ==
  \/ TakeOldest(w)
  \/ \E ok \in BOOLEAN :
       \/ ConsumeExpired(w, ok)
       \/ Fetch(w, ok)
       \/ \E given \in BOOLEAN : Send(w, given, ok)
       \/ Complete(w, ok)
       \/ MarkDelivered(w, ok)
       \/ Requeue(w, ok)
  \/ Return(w)

Run(w) ==
  \/ Poll(w)
  \/ ProcessEntry(w)
  \/ FinishBatch(w)
  \/ Tick(w)
  \/ \E ok \in BOOLEAN : ReadClaims(w, ok) \/ CleanUp(w, ok)

Next ==
  \/ \E m \in Msgs : TimePasses(m)
  \/ \E w \in Workers :
       \/ \E i \in IdsOf[w] : StartWorker(w, i)
       \/ Run(w)
       \/ StopWorker(w)

Spec == Init /\ [][Next]_vars

\* The cleanup's timer ticks every minute, whatever a batch waits for, and after
\* a tick the next batch begins at once, long before the next tick; the database
\* does not refuse claims for ever.
FairSpec == /\ Spec
            /\ \A w \in Workers :
                 /\ WF_vars(Tick(w) \/ \E ok \in BOOLEAN : CleanUp(w, ok))
                 /\ SF_vars(Poll(w))

-----------------------------------------------------------------------------
(***************************************************************************)
(* Properties                                                              *)
(***************************************************************************)

\* The worker's own state is of its type.
InboundTypeOK ==
  /\ past \subseteq Msgs
  /\ delivery \in [Msgs -> {"pending", "delivered"}]
  /\ at \in [Workers -> Places]
  /\ reached \subseteq Msgs
  /\ sends \in [Rows -> 0..2]
  /\ missed \subseteq Msgs
  /\ failed \subseteq Msgs
  /\ doubtful \subseteq Rows

\* A message that no client was given and that has not expired has a row that
\* waits or is claimed, whatever fails and whenever a worker stops, unless a
\* broadcast that reached nobody was answered by Ok.
NotForgotten ==
  \A m \in Msgs : m \notin reached \cup missed \cup past => Live(m)

\* One entry reaches a client twice only if its delivery was cut short, answered
\* by an error although a client was given the message, or could not be
\* completed, or if two workers ran under one id; and a message does so by two
\* entries only if a delivery of it was answered by an error.
TwiceHasCause ==
  /\ \A r \in Rows : sends[r] = 2 => r \in doubtful \/ shared
  /\ \A q, r \in Rows :
       q # r /\ message[q] = message[r] /\ sends[q] > 0 /\ sends[r] > 0 =>
         message[r] \in failed

\* A message that is marked as delivered has reached a client, or was broadcast
\* to clients that had left, and the answer was Ok.
DeliveredHasCause ==
  \A m \in Msgs : delivery[m] = "delivered" => m \in reached \cup missed

\* What the worker does to the table is what ClaimQueue allows.
ImplementsClaimQueue == QueueSpec

\* A pending entry is claimed or expires in the end if some worker stays up: the
\* entries before it, expired ones included, do not hold it up for ever.
ClaimedInTheEnd ==
  (\E w \in Workers : <>[](phase[w] # "off")) =>
    \A r \in Rows :
      status[r] = "pending" ~> (status[r] # "pending" \/ message[r] \in past)

\* "Release the claim (set status back to pending) so it can be retried"
\* (src/retry/inbound.rs:248): nobody holds the lock of an entry once its failed
\* delivery is dealt with, and the database did what it was asked to.
FailedClaimReleased ==
  [][\A w \in Workers :
       at[w] = "requeue" /\ at'[w] = "over" /\ status' # status =>
         lockedBy'[cur[w]] = NoId]_vars

=============================================================================
