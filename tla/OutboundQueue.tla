---------------------------- MODULE OutboundQueue ----------------------------
(***************************************************************************)
(* The outbound retry worker of src/retry/outbound.rs over the claim        *)
(* protocol of ClaimQueue: it replies to LINE with queued messages, with    *)
(* up to Tries requests at a time and up to MaxAttempts rows for a message. *)
(*                                                                          *)
(* A call to the database succeeds or fails as a whole, and the worker      *)
(* ignores which. Times are not modelled: which pending rows are due, and   *)
(* in what order, is left open.                                             *)
(***************************************************************************)
EXTENDS ClaimQueue

CONSTANTS
  Limit,        \* batch_size
  MaxAttempts,  \* max_attempts
  Tries         \* requests of deliver_with_retry: one and three more

ASSUME OutboundAssumption ==
  /\ Limit \in Nat \ {0}
  /\ MaxAttempts \in Nat \ {0}
  /\ Tries \in Nat \ {0}

VARIABLES
  attempt,    \* attempt of each row
  token,      \* messages that have a reply token; never changes
  delivery,   \* messages.delivery_status
  at,         \* where in process_entry each worker is, see Places
  tries,      \* requests made for the entry in hand
  line,       \* what LINE did with the message, see LineStates
  requests,   \* history: requests for each message, up to one too many
  repeated,   \* history: messages with an entry that stayed claimed after requests
  unrecorded  \* history: messages whose failure could not be followed up

entryVars == << attempt, delivery, at, tries, line, requests, repeated, unrecorded >>
vars == << queueVars, token, entryVars >>

(***************************************************************************)
(* "none"   not in process_entry     "fetch"    about to read the message   *)
(* "exhausted"  too many attempts, about to complete the row                *)
(* "request"    in deliver_with_retry                                       *)
(* "complete", "mark"  LINE took it: complete the row, set the status       *)
(* "fail"       it did not: complete the row as failed                      *)
(* "next"       failed: about to enqueue the message again, or give up      *)
(* "giveup"     about to set the message's status to failed                 *)
(* "over"       about to return                                             *)
(***************************************************************************)
Places == {"none", "fetch", "exhausted", "request", "complete", "mark", "fail",
           "next", "giveup", "over"}

(***************************************************************************)
(* "open"   LINE did not take it     "taken"  took it, the answer was lost  *)
(* "acked"  took it and said so      "refused"  never will (400, 401, 404)  *)
(***************************************************************************)
LineStates == {"open", "taken", "acked", "refused"}
Answers == {"ok", "lost", "busy", "refused"}

Budget == MaxAttempts * Tries

Go(w, place) == at' = [at EXCEPT ![w] = place]

-----------------------------------------------------------------------------

\* A row's attempt may be above a limit that was lowered since.
Init ==
  /\ QueueInit
  /\ attempt \in [Rows -> 0..MaxAttempts]
  /\ \A r \in Rows \ Msgs : attempt[r] = 0
  /\ token \in SUBSET Msgs
  /\ delivery = [m \in Msgs |-> "pending"]
  /\ at = [w \in Workers |-> "none"]
  /\ tries = [w \in Workers |-> 0]
  /\ line = [m \in Msgs |-> "open"]
  /\ requests = [m \in Msgs |-> 0]
  /\ repeated = {}
  /\ unrecorded = {}

\* The calls of the database the worker makes; each succeeds or fails as a whole.
\* Which of the pending rows are due is left open.
ClaimNextOutbound(w, S) == Cardinality(S) <= Limit /\ Claim(w, S)

CompleteOutbound(w, s, ok) == IF ok THEN Settle(w, s) ELSE UNCHANGED queueVars

\* It cannot succeed when the model's rows are used up.
EnqueueOutbound(w, nextAttempt, ok) ==
  /\ IF ok THEN Enqueue(w) ELSE UNCHANGED queueVars
  /\ attempt' = [r \in Rows |-> IF status[r] = "none" /\ status'[r] = "pending"
                                THEN nextAttempt ELSE attempt[r]]

UpdateDeliveryStatus(m, s, ok) ==
  delivery' = IF ok THEN [delivery EXCEPT ![m] = s] ELSE delivery

StartWorker(w, i) ==
  /\ Start(w, i)
  /\ UNCHANGED << token, entryVars >>

\* claim_next_outbound: up to Limit pending rows that are due.
Poll(w, S) ==
  /\ ClaimNextOutbound(w, S)
  /\ UNCHANGED << token, entryVars >>

\* Its SELECT; an error gives up the batch, and the rows stay claimed.
ReadClaims(w, ok) ==
  /\ phase[w] = "claimed"
  /\ IF ok THEN ReadBack(w) ELSE EndBatch(w)
  /\ UNCHANGED << token, entryVars >>

Take(w, r) ==
  /\ TakeUp(w, r)
  /\ Go(w, "fetch")
  /\ UNCHANGED << token, attempt, delivery, tries, line, requests, repeated,
                  unrecorded >>

\* get_message, then the attempts are looked at, and the token.
Fetch(w, ok) ==
  /\ at[w] = "fetch"
  /\ Go(w, CASE ~ok -> "over"
             [] ok /\ attempt[cur[w]] >= MaxAttempts -> "exhausted"
             [] ok /\ attempt[cur[w]] < MaxAttempts ->
                  IF message[cur[w]] \in token THEN "request" ELSE "fail")
  /\ UNCHANGED << queueVars, token, attempt, delivery, tries, line, requests,
                  repeated, unrecorded >>

\* MUTANT of Exhausted: the message's status is not set.
ExhaustedSilently(w, ok) ==
  /\ at[w] = "exhausted"
  /\ CompleteOutbound(w, "failed", ok)
  /\ Go(w, "over")
  /\ UNCHANGED << token, attempt, delivery, tries, line, requests, repeated,
                  unrecorded >>

\* A row with too many attempts fails.
Exhausted(w, ok) ==
  /\ at[w] = "exhausted"
  /\ CompleteOutbound(w, "failed", ok)
  /\ Go(w, "giveup")
  /\ UNCHANGED << token, attempt, delivery, tries, line, requests, repeated,
                  unrecorded >>

\* LINE takes a reply token once, and refuses for good what it refused before.
LineAnswers(m, a) ==
  /\ a \in {"ok", "lost"} => line[m] = "open"
  /\ a = "refused" \/ line[m] # "refused"
  /\ line' = [line EXCEPT ![m] =
       CASE a = "ok" -> "acked"
         [] a = "lost" -> "taken"
         [] a = "busy" -> @
         [] a = "refused" -> IF @ = "open" THEN "refused" ELSE @]

\* One more request for the message in hand.
Count(w) ==
  requests' = [requests EXCEPT ![message[cur[w]]] =
                 IF @ > Budget THEN @ ELSE @ + 1]

\* MUTANT of Request: no limit on the retries.
RequestForever(w, a) ==
  /\ at[w] = "request"
  /\ LineAnswers(message[cur[w]], a)
  /\ Count(w)
  /\ Go(w, IF a = "ok" THEN "complete" ELSE "request")
  /\ UNCHANGED << queueVars, token, attempt, delivery, tries, repeated,
                  unrecorded >>

\* reply_message; any error is retried.
Request(w, a) ==
  /\ at[w] = "request"
  /\ LineAnswers(message[cur[w]], a)
  /\ Count(w)
  /\ \/ /\ a = "ok"
        /\ Go(w, "complete")
        /\ tries' = [tries EXCEPT ![w] = 0]
     \/ /\ a # "ok"
        /\ tries[w] + 1 < Tries
        /\ tries' = [tries EXCEPT ![w] = @ + 1]
        /\ UNCHANGED at
     \/ /\ a # "ok"
        /\ tries[w] + 1 >= Tries
        /\ tries' = [tries EXCEPT ![w] = 0]
        /\ Go(w, "fail")
  /\ UNCHANGED << queueVars, token, attempt, delivery, repeated, unrecorded >>

Note(history, noted, w) ==
  IF noted THEN history \cup {message[cur[w]]} ELSE history

\* complete_outbound(true).
Complete(w, ok) ==
  /\ at[w] = "complete"
  /\ CompleteOutbound(w, "completed", ok)
  /\ repeated' = Note(repeated, ~ok, w)
  /\ Go(w, "mark")
  /\ UNCHANGED << token, attempt, delivery, tries, line, requests, unrecorded >>

\* update_delivery_status(Delivered).
Mark(w, ok) ==
  /\ at[w] = "mark"
  /\ UpdateDeliveryStatus(message[cur[w]], "delivered", ok)
  /\ Go(w, "over")
  /\ UNCHANGED << queueVars, token, attempt, tries, line, requests, repeated,
                  unrecorded >>

\* MUTANT of Fail: the lock stays.
FailKeepsLock(w, ok) ==
  /\ at[w] = "fail"
  /\ status' = IF ok THEN [status EXCEPT ![cur[w]] = "failed"] ELSE status
  /\ repeated' = Note(repeated, ~ok, w)
  /\ Go(w, "next")
  /\ UNCHANGED << message, lockedBy, workerVars, token, attempt, delivery, tries,
                  line, requests, unrecorded >>

\* complete_outbound(false).
Fail(w, ok) ==
  /\ at[w] = "fail"
  /\ CompleteOutbound(w, "failed", ok)
  /\ repeated' = Note(repeated, ~ok, w)
  /\ Go(w, "next")
  /\ UNCHANGED << token, attempt, delivery, tries, line, requests, unrecorded >>

\* MUTANT of Requeue: the attempt is not counted.
RequeueSameAttempt(w, ok) ==
  /\ at[w] = "next"
  /\ attempt[cur[w]] + 1 < MaxAttempts
  /\ EnqueueOutbound(w, attempt[cur[w]], ok)
  /\ unrecorded' = Note(unrecorded, ~ok, w)
  /\ Go(w, "over")
  /\ UNCHANGED << token, delivery, tries, line, requests, repeated >>

\* Enqueued again with the next attempt.
Requeue(w, ok) ==
  /\ at[w] = "next"
  /\ attempt[cur[w]] + 1 < MaxAttempts
  /\ EnqueueOutbound(w, attempt[cur[w]] + 1, ok)
  /\ unrecorded' = Note(unrecorded, ~ok, w)
  /\ Go(w, "over")
  /\ UNCHANGED << token, delivery, tries, line, requests, repeated >>

\* update_delivery_status(Failed), after the last attempt or one too many.
GiveUp(w, ok) ==
  /\ \/ at[w] = "giveup"
     \/ at[w] = "next" /\ attempt[cur[w]] + 1 >= MaxAttempts
  /\ UpdateDeliveryStatus(message[cur[w]], "failed", ok)
  /\ unrecorded' = Note(unrecorded, ~ok, w)
  /\ Go(w, "over")
  /\ UNCHANGED << queueVars, token, attempt, tries, line, requests, repeated >>

Return(w) ==
  /\ at[w] = "over"
  /\ PutDown(w)
  /\ Go(w, "none")
  /\ UNCHANGED << token, attempt, delivery, tries, line, requests, repeated,
                  unrecorded >>

FinishBatch(w) ==
  /\ phase[w] = "work"
  /\ at[w] = "none"
  /\ todo[w] = {}
  /\ EndBatch(w)
  /\ UNCHANGED << token, entryVars >>

\* Shutdown or crash, at any await. Requests already made are made again if the
\* entry is read again; a failed row may have no successor yet.
StopWorker(w) ==
  /\ Stop(w)
  /\ repeated' = Note(repeated, at[w] \in {"complete", "fail"} \/ tries[w] > 0, w)
  /\ unrecorded' = Note(unrecorded, at[w] \in {"next", "giveup"}, w)
  /\ Go(w, "none")
  /\ tries' = [tries EXCEPT ![w] = 0]
  /\ UNCHANGED << token, attempt, delivery, line, requests >>

-----------------------------------------------------------------------------

ProcessEntry(w) ==
  \/ \E a \in Answers : Request(w, a)
  \/ \E ok \in BOOLEAN :
       \/ Fetch(w, ok)
       \/ Exhausted(w, ok)
       \/ Complete(w, ok)
       \/ Mark(w, ok)
       \/ Fail(w, ok)
       \/ Requeue(w, ok)
       \/ GiveUp(w, ok)
  \/ Return(w)

Run(w) ==
  \/ \E S \in SUBSET Rows : Poll(w, S)
  \/ \E ok \in BOOLEAN : ReadClaims(w, ok)
  \/ \E r \in Rows : Take(w, r)
  \/ ProcessEntry(w)
  \/ FinishBatch(w)

Next ==
  \E w \in Workers :
    \/ \E i \in Ids : StartWorker(w, i)
    \/ Run(w)
    \/ StopWorker(w)

Spec == Init /\ [][Next]_vars

\* A worker that is not stopped goes on; a row comes due, and the database does
\* not refuse the same call for ever.
FairSpec ==
  /\ Spec
  /\ \A w \in Workers :
       /\ WF_vars(Run(w))
       /\ SF_vars(ReadClaims(w, TRUE))
       /\ \A r \in Rows :
            /\ SF_vars(\E S \in SUBSET Rows : r \in S /\ Poll(w, S))
            /\ SF_vars(cur[w] = r /\ Fetch(w, TRUE))

-----------------------------------------------------------------------------
(***************************************************************************)
(* Properties                                                              *)
(***************************************************************************)

\* The worker's own state is of its type.
OutboundTypeOK ==
  /\ attempt \in [Rows -> 0..MaxAttempts]
  /\ token \subseteq Msgs
  /\ delivery \in [Msgs -> {"pending", "delivered", "failed"}]
  /\ at \in [Workers -> Places]
  /\ tries \in [Workers -> 0..(Tries - 1)]
  /\ line \in [Msgs -> LineStates]
  /\ requests \in [Msgs -> 0..(Budget + 1)]
  /\ repeated \subseteq Msgs
  /\ unrecorded \subseteq Msgs

InHand(m) == \E w \in Workers : cur[w] \in RowsOf(m)

\* A message that LINE has not acknowledged and that is not given up as failed
\* has a row that waits or is claimed, or some worker has it in hand; a stop or
\* an error between the failed row and its successor is the only way to lose it.
LossHasCause ==
  \A m \in Msgs :
    line[m] # "acked" /\ delivery[m] = "pending" /\ m \notin unrecorded =>
      Live(m) \/ InHand(m)

\* A message costs more than Budget requests, or is marked as failed after LINE
\* acknowledged it, only if an entry stayed claimed after its requests or two
\* workers ran under one id.
RepeatsHaveCause ==
  \A m \in Msgs :
    \/ requests[m] > Budget
    \/ delivery[m] = "failed" /\ line[m] = "acked"
    => m \in repeated \/ shared

\* What the worker does to the table is what ClaimQueue allows.
ImplementsClaimQueue == QueueSpec

\* A queued message ends as acknowledged or given up if no worker stops on the
\* way, although any request may fail in any way.
Settles ==
  \A m \in Msgs :
    (\E r \in RowsOf(m) : status[r] = "pending") ~>
      \/ line[m] = "acked" \/ delivery[m] # "pending" \/ m \in unrecorded
      \/ \E w \in Workers : phase[w] = "off"

\* "Non-Retryable Errors: 400 Bad Request, 401 Unauthorized (token expired),
\* 404 Not Found" (docs/DATABASE_RETRY.md:192): no request follows one of these.
NonRetryableNotRetried ==
  [][\A m \in Msgs : line[m] = "refused" => requests'[m] = requests[m]]_vars

=============================================================================
