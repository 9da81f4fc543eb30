------------------------------ MODULE ClaimQueue ------------------------------
(***************************************************************************)
(* How worker processes share a queue table of the database (src/db): an    *)
(* UPDATE claims rows under the worker's id, a SELECT reads back whatever   *)
(* is locked under that id, and every entry read is worked on by itself. It *)
(* is what the inbound and the outbound queue have in common, and the       *)
(* abstract specification of both.                                          *)
(*                                                                          *)
(* A worker's id is made of its process id, so that it changes with a       *)
(* restart or not, and workers on two hosts may have the same one. A lock   *)
(* never runs out.                                                          *)
(***************************************************************************)
EXTENDS Integers, FiniteSets

CONSTANTS
  Msgs,     \* messages in the queue at the start, named by their rows
  Rows,     \* row ids, in the order of created_at; bound on the rows inserted
  Workers,  \* processes that run a worker
  Ids,      \* worker ids
  NoMsg,    \* the row is not there yet
  NoRow,    \* no entry in hand
  NoId      \* not locked, or not running

ASSUME QueueAssumption ==
  /\ Rows \subseteq Nat
  /\ IsFiniteSet(Rows)
  /\ Msgs \subseteq Rows
  /\ NoMsg \notin Msgs
  /\ NoRow \notin Rows
  /\ NoId \notin Ids

VARIABLES
  message,   \* message_id of each row
  status,    \* status of each row
  lockedBy,  \* locked_by of each row
  workerId,  \* the id each worker runs under
  phase,     \* where each worker is, see Phases
  todo,      \* entries read back and not yet taken up
  cur,       \* the entry in hand
  shared     \* history: two workers once ran under one id

rowVars    == << message, status, lockedBy >>
workerVars == << workerId, phase, todo, cur, shared >>
queueVars  == << rowVars, workerVars >>

Statuses == {"none", "pending", "processing", "completed", "failed", "expired"}
Final    == {"completed", "failed", "expired"}

(***************************************************************************)
(* "off"      not running            "idle"  between batches               *)
(* "claimed"  rows are claimed, not yet read back      "work"  in a batch   *)
(***************************************************************************)
Phases == {"off", "idle", "claimed", "work"}

Pending  == {r \in Rows : status[r] = "pending"}
Unused   == {r \in Rows : status[r] = "none"}
RowsOf(m) == {r \in Rows : message[r] = m}

\* The entries worker w has read and not finished.
Held(w) == todo[w] \cup ({cur[w]} \cap Rows)

\* The message has a row that is still to be delivered.
Live(m) == \E r \in RowsOf(m) : status[r] \in {"pending", "processing"}

\* The first n rows of S by age.
Oldest(S, n) == {r \in S : Cardinality({o \in S : o < r}) < n}

-----------------------------------------------------------------------------

QueueInit ==
  /\ message = [r \in Rows |-> IF r \in Msgs THEN r ELSE NoMsg]
  /\ status = [r \in Rows |-> IF r \in Msgs THEN "pending" ELSE "none"]
  /\ lockedBy = [r \in Rows |-> NoId]
  /\ workerId = [w \in Workers |-> NoId]
  /\ phase = [w \in Workers |-> "off"]
  /\ todo = [w \in Workers |-> {}]
  /\ cur = [w \in Workers |-> NoRow]
  /\ shared = FALSE

\* A process starts, under an id that depends on its process id only.
Start(w, i) ==
  /\ phase[w] = "off"
  /\ phase' = [phase EXCEPT ![w] = "idle"]
  /\ workerId' = [workerId EXCEPT ![w] = i]
  /\ shared' = (shared \/ \E v \in Workers : workerId[v] = i)
  /\ UNCHANGED << rowVars, todo, cur >>

\* claim_next_*, the UPDATE: pending rows become the worker's.
Claim(w, S) ==
  /\ phase[w] = "idle"
  /\ S \subseteq Pending
  /\ status' = [r \in Rows |-> IF r \in S THEN "processing" ELSE status[r]]
  /\ lockedBy' = [r \in Rows |-> IF r \in S THEN workerId[w] ELSE lockedBy[r]]
  /\ phase' = [phase EXCEPT ![w] = "claimed"]
  /\ UNCHANGED << message, workerId, todo, cur, shared >>

\* MUTANT of ReadBack: all claimed rows are read, whoever claimed them.
ReadAllClaimed(w) ==
  /\ phase[w] = "claimed"
  /\ todo' = [todo EXCEPT ![w] = {r \in Rows : status[r] = "processing"}]
  /\ phase' = [phase EXCEPT ![w] = IF todo'[w] = {} THEN "idle" ELSE "work"]
  /\ UNCHANGED << rowVars, workerId, cur, shared >>

\* claim_next_*, the SELECT: every row that is locked under the worker's id,
\* claimed just now or long ago.
ReadBack(w) ==
  /\ phase[w] = "claimed"
  /\ todo' = [todo EXCEPT ![w] = {r \in Rows : lockedBy[r] = workerId[w]}]
  /\ phase' = [phase EXCEPT ![w] = IF todo'[w] = {} THEN "idle" ELSE "work"]
  /\ UNCHANGED << rowVars, workerId, cur, shared >>

\* The loop of process_batch takes up an entry.
TakeUp(w, r) ==
  /\ phase[w] = "work"
  /\ cur[w] = NoRow
  /\ r \in todo[w]
  /\ todo' = [todo EXCEPT ![w] = @ \ {r}]
  /\ cur' = [cur EXCEPT ![w] = r]
  /\ UNCHANGED << rowVars, workerId, phase, shared >>

\* complete_*: the row gets its final status and is unlocked.
Settle(w, s) ==
  /\ cur[w] \in Rows
  /\ s \in Final
  /\ status' = [status EXCEPT ![cur[w]] = s]
  /\ lockedBy' = [lockedBy EXCEPT ![cur[w]] = NoId]
  /\ UNCHANGED << message, workerVars >>

\* enqueue_*: a new pending row for the message in hand.
Enqueue(w) ==
  /\ cur[w] \in Rows
  /\ \E r \in Oldest(Unused, 1) :
       /\ message' = [message EXCEPT ![r] = message[cur[w]]]
       /\ status' = [status EXCEPT ![r] = "pending"]
  /\ UNCHANGED << lockedBy, workerVars >>

\* process_entry returns.
PutDown(w) ==
  /\ cur[w] \in Rows
  /\ cur' = [cur EXCEPT ![w] = NoRow]
  /\ UNCHANGED << rowVars, workerId, phase, todo, shared >>

\* The batch is done, or process_batch is dropped by its select! in between.
EndBatch(w) ==
  /\ phase[w] \in {"idle", "claimed", "work"}
  /\ phase' = [phase EXCEPT ![w] = "idle"]
  /\ todo' = [todo EXCEPT ![w] = {}]
  /\ cur' = [cur EXCEPT ![w] = NoRow]
  /\ UNCHANGED << rowVars, workerId, shared >>

\* The process ends or crashes; its rows stay locked under its id.
Stop(w) ==
  /\ phase[w] # "off"
  /\ phase' = [phase EXCEPT ![w] = "off"]
  /\ workerId' = [workerId EXCEPT ![w] = NoId]
  /\ todo' = [todo EXCEPT ![w] = {}]
  /\ cur' = [cur EXCEPT ![w] = NoRow]
  /\ UNCHANGED << rowVars, shared >>

\* cleanup_expired_inbound: pending rows that are too old.
ExpireRows(S) ==
  /\ S \subseteq Pending
  /\ status' = [r \in Rows |-> IF r \in S THEN "expired" ELSE status[r]]
  /\ UNCHANGED << message, lockedBy, workerVars >>

WorkerStep(w) ==
  \/ \E i \in Ids : Start(w, i)
  \/ \E S \in SUBSET Rows : Claim(w, S)
  \/ ReadBack(w)
  \/ \E r \in Rows : TakeUp(w, r)
  \/ \E s \in Final : Settle(w, s)
  \/ Enqueue(w)
  \/ PutDown(w)
  \/ EndBatch(w)
  \/ Stop(w)

QueueNext ==
  \/ \E w \in Workers : WorkerStep(w)
  \/ \E S \in SUBSET Rows : ExpireRows(S)

QueueSpec == QueueInit /\ [][QueueNext]_queueVars

-----------------------------------------------------------------------------
(***************************************************************************)
(* Properties                                                              *)
(***************************************************************************)

\* The table and the workers are of their types.
QueueTypeOK ==
  /\ message \in [Rows -> Msgs \cup {NoMsg}]
  /\ status \in [Rows -> Statuses]
  /\ lockedBy \in [Rows -> Ids \cup {NoId}]
  /\ workerId \in [Workers -> Ids \cup {NoId}]
  /\ phase \in [Workers -> Phases]
  /\ todo \in [Workers -> SUBSET Rows]
  /\ cur \in [Workers -> Rows \cup {NoRow}]
  /\ shared \in BOOLEAN

\* Two workers are at work on one entry only if they run under one id: claims,
\* restarts and requeues never bring an entry to a second worker otherwise,
\* although claiming and reading back are two statements.
SameEntrySameId ==
  \A v, w \in Workers :
    v # w /\ Held(v) \cap Held(w) # {} => workerId[v] = workerId[w]

=============================================================================
