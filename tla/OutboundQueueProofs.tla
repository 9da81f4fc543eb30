------------------------- MODULE OutboundQueueProofs -------------------------
(***************************************************************************)
(* Proofs about OutboundQueue, for any numbers of messages, rows, workers, *)
(* ids and attempts: it implements ClaimQueue, loses a message only by the *)
(* causes the code has for it, and repeats requests only where an entry    *)
(* stayed claimed after them or two workers had one id.                    *)
(***************************************************************************)
EXTENDS OutboundQueue, ClaimQueueProofs

\* A row that is in use has a message.
MessageOK == \A r \in Rows : status[r] # "none" => message[r] \in Msgs

\* A worker in process_entry is in a batch and has an entry in hand, and only
\* then; it counts requests only while it makes them.
BusyOK ==
  \A w \in Workers :
    /\ IF at[w] = "none" THEN cur[w] = NoRow
       ELSE phase[w] = "work" /\ cur[w] \in Rows
    /\ at[w] # "request" => tries[w] = 0

\* The message a worker has in hand.
Handles(w, m) == cur[w] \in Rows /\ message[cur[w]] = m

\* What a worker completes was acknowledged.
CompleteOK ==
  \A w \in Workers : at[w] = "complete" => line[message[cur[w]]] = "acked"

\* A message that is neither acknowledged nor given up has a row in the queue, or
\* a worker that has just settled its last one and goes on to the next.
Kept ==
  \A m \in Msgs :
    line[m] # "acked" /\ delivery[m] = "pending" /\ m \notin unrecorded =>
      \/ Live(m)
      \/ \E w \in Workers : at[w] \in {"next", "giveup"} /\ Handles(w, m)

EntryInv == OutboundTypeOK /\ MessageOK /\ BusyOK /\ CompleteOK /\ Kept

-----------------------------------------------------------------------------

\* The rows a message is still to be delivered by.
LiveRows(m) == {r \in RowsOf(m) : status[r] \in {"pending", "processing"}}

\* The places at which the row in hand has not been settled.
Holding == {"fetch", "exhausted", "request", "complete", "fail"}

\* The row in hand is locked by the worker until it is settled.
LocksHeld == \A w \in Workers : at[w] \in Holding => lockedBy[cur[w]] = workerId[w]

\* Requests are made for attempts below the limit only.
InLimit ==
  \A w \in Workers :
    /\ at[w] \in {"request", "complete", "fail", "next"} =>
         attempt[cur[w]] < MaxAttempts
    /\ at[w] = "exhausted" => attempt[cur[w]] >= MaxAttempts

\* A message has one live row at a time.
OneLive(m) == \A r, s \in LiveRows(m) : r = s

\* The requests for the attempts before the a-th.
Cost(a) == a * Tries

\* What a worker's requests for the row it has in hand may add to that.
Underway(w, m) ==
  \/ at[w] = "request" /\ requests[m] <= Cost(attempt[cur[w]]) + tries[w]
  \/ at[w] \in {"complete", "fail"} /\ requests[m] <= Cost(attempt[cur[w]] + 1)

\* What a live row's attempt and those before it have cost.
Spent(m) ==
  /\ requests[m] <= Budget
  /\ \A r \in LiveRows(m) :
       \/ requests[m] <= Cost(attempt[r])
       \/ \E w \in Workers : cur[w] = r /\ Underway(w, m)

\* Between two attempts there is no row.
Between(m) ==
  \A w \in Workers : at[w] = "next" /\ Handles(w, m) =>
    /\ LiveRows(m) = {}
    /\ \A v \in Workers \ {w} : at[v] = "next" => ~Handles(v, m)
    /\ requests[m] <= Cost(attempt[cur[w]] + 1)
    /\ line[m] # "acked"

\* No row is left from which a request could come.
Dead(m) ==
  /\ line[m] # "acked"
  /\ \A r \in LiveRows(m) : attempt[r] >= MaxAttempts
  /\ \A w \in Workers : at[w] = "next" => ~Handles(w, m)

\* Only such a message is marked as failed, or about to be.
GivenUp(m) ==
  /\ delivery[m] = "failed" => Dead(m)
  /\ \A w \in Workers : at[w] = "giveup" /\ Handles(w, m) => Dead(m)

\* The row of an acknowledged message is about to be completed.
Acknowledged(m) ==
  line[m] = "acked" =>
    \A r \in LiveRows(m) : \E w \in Workers : cur[w] = r /\ at[w] = "complete"

OnceFor(m) ==
  OneLive(m) /\ Spent(m) /\ Between(m) /\ GivenUp(m) /\ Acknowledged(m)

OnceInv ==
  /\ ApartInv
  /\ ~shared => LocksHeld /\ InLimit /\ \A m \in Msgs \ repeated : OnceFor(m)

-----------------------------------------------------------------------------

\* Every step is one that the claim protocol allows, or leaves the table and
\* the workers alone.
LEMMA ClaimStep == QueueTypeOK /\ [Next]_vars => [QueueNext]_queueVars
<1> SUFFICES ASSUME QueueTypeOK, [Next]_vars PROVE [QueueNext]_queueVars
  OBVIOUS
<1>1. ASSUME NEW w \in Workers, NEW i \in Ids, StartWorker(w, i)
      PROVE  WorkerStep(w)
  BY <1>1 DEF StartWorker, WorkerStep
<1>2. ASSUME NEW w \in Workers, NEW S \in SUBSET Rows, Poll(w, S)
      PROVE  WorkerStep(w)
  BY <1>2 DEF Poll, ClaimNextOutbound, WorkerStep
<1>3. ASSUME NEW w \in Workers, NEW ok \in BOOLEAN, ReadClaims(w, ok)
      PROVE  WorkerStep(w)
  BY <1>3 DEF ReadClaims, WorkerStep
<1>4. ASSUME NEW w \in Workers, NEW r \in Rows, Take(w, r) PROVE WorkerStep(w)
  BY <1>4 DEF Take, WorkerStep
<1>5. ASSUME NEW w \in Workers, ProcessEntry(w)
      PROVE  WorkerStep(w) \/ UNCHANGED queueVars
  <2>1. ASSUME NEW a \in Answers, Request(w, a) PROVE UNCHANGED queueVars
    BY <2>1 DEF Request
  <2>2. ASSUME NEW ok \in BOOLEAN, Fetch(w, ok) \/ Mark(w, ok) \/ GiveUp(w, ok)
        PROVE  UNCHANGED queueVars
    BY <2>2 DEF Fetch, Mark, GiveUp
  <2>3. ASSUME NEW ok \in BOOLEAN,
               Exhausted(w, ok) \/ Complete(w, ok) \/ Fail(w, ok)
        PROVE  WorkerStep(w) \/ UNCHANGED queueVars
    BY <2>3 DEF Exhausted, Complete, Fail, CompleteOutbound, WorkerStep, Final
  <2>4. ASSUME NEW ok \in BOOLEAN, Requeue(w, ok)
        PROVE  WorkerStep(w) \/ UNCHANGED queueVars
    BY <2>4 DEF Requeue, EnqueueOutbound, WorkerStep
  <2>5. ASSUME Return(w) PROVE WorkerStep(w)
    BY <2>5 DEF Return, WorkerStep
  <2> QED
    BY <1>5, <2>1, <2>2, <2>3, <2>4, <2>5 DEF ProcessEntry
<1>6. ASSUME NEW w \in Workers, FinishBatch(w) \/ StopWorker(w)
      PROVE  WorkerStep(w)
  BY <1>6 DEF FinishBatch, StopWorker, WorkerStep
<1>7. CASE UNCHANGED vars
  BY <1>7 DEF vars
<1> QED
  BY <1>1, <1>2, <1>3, <1>4, <1>5, <1>6, <1>7 DEF Next, Run, QueueNext

\* The claim protocol's invariant holds of the worker.
LEMMA OutboundQueueInvariant == Spec => []QueueInv
<1>1. Init => QueueInv
  BY QueueInitInv DEF Init
<1>2. QueueInv /\ [Next]_vars => QueueInv'
  BY ClaimStep, QueueStepInv DEF QueueInv
<1> QED
  BY <1>1, <1>2, PTL DEF Spec

\* The outbound worker implements the claim protocol: what it does to the table
\* and to its batch is a step of ClaimQueue or none.
THEOREM OutboundImplementsClaimQueue == Spec => ImplementsClaimQueue
<1>1. Init => QueueInit
  BY DEF Init
<1>2. QueueInv => QueueTypeOK
  BY DEF QueueInv
<1> QED
  BY <1>1, <1>2, ClaimStep, OutboundQueueInvariant, PTL
  DEF Spec, QueueSpec, ImplementsClaimQueue

\* No entry is worked on by two outbound workers of different ids.
THEOREM OutboundSameEntry == Spec => []SameEntrySameId
<1>1. QueueInv => SameEntrySameId
  BY DEF QueueInv
<1> QED
  BY <1>1, OutboundQueueInvariant, PTL

-----------------------------------------------------------------------------

\* Attempts and requests make a number.
LEMMA BudgetNat == Budget \in Nat
BY OutboundAssumption DEF Budget

\* What each step does to the rows that keep a message in the queue.
LEMMA EntryStep == QueueInv /\ EntryInv /\ [Next]_vars => EntryInv'
<1> SUFFICES ASSUME QueueInv, EntryInv, [Next]_vars PROVE EntryInv'
  OBVIOUS
<1>t. QueueTypeOK
  BY DEF QueueInv
<1>e. OutboundTypeOK /\ MessageOK /\ BusyOK /\ CompleteOK /\ Kept
  BY DEF EntryInv
<1>m. \A w \in Workers : cur[w] \in Rows =>
        status[cur[w]] # "none" /\ message[cur[w]] \in Msgs
  BY <1>e DEF QueueInv, HeldOK, Held, MessageOK
<1> USE QueueAssumption, OutboundAssumption, BudgetNat
<1> DEFINE Types == OutboundTypeOK' /\ MessageOK'
           Place == BusyOK' /\ CompleteOK'
           Fate  == Kept'
<1>1. ASSUME NEW w \in Workers, NEW i \in Ids, StartWorker(w, i)
      PROVE  Types /\ Place /\ Fate
  <2> USE <1>1, <1>t, <1>e, <1>m DEF StartWorker, Start, rowVars, entryVars
  <2>1. Types
    BY DEF OutboundTypeOK, MessageOK, QueueTypeOK
  <2>2. Place
    BY DEF OutboundTypeOK, BusyOK, CompleteOK, QueueTypeOK
  <2>3. Fate
    BY DEF OutboundTypeOK, BusyOK, CompleteOK, Kept, Handles, Live, RowsOf,
       QueueTypeOK
  <2> QED
    BY <2>1, <2>2, <2>3
<1>2. ASSUME NEW w \in Workers, NEW S \in SUBSET Rows, Poll(w, S)
      PROVE  Types /\ Place /\ Fate
  <2> USE <1>2, <1>t, <1>e, <1>m DEF Poll, ClaimNextOutbound, Claim, Pending,
         entryVars
  <2>1. Types
    BY DEF OutboundTypeOK, MessageOK, QueueTypeOK
  <2>2. Place
    BY DEF OutboundTypeOK, BusyOK, CompleteOK, QueueTypeOK
  <2>3. Fate
    BY DEF OutboundTypeOK, BusyOK, CompleteOK, Kept, Handles, Live, RowsOf,
       QueueTypeOK
  <2> QED
    BY <2>1, <2>2, <2>3
<1>3. ASSUME NEW w \in Workers, NEW ok \in BOOLEAN, ReadClaims(w, ok)
      PROVE  Types /\ Place /\ Fate
  <2> USE <1>3, <1>t, <1>e, <1>m DEF ReadClaims, ReadBack, EndBatch, rowVars,
         entryVars
  <2>1. Types
    BY DEF OutboundTypeOK, MessageOK, QueueTypeOK
  <2>2. Place
    BY DEF OutboundTypeOK, BusyOK, CompleteOK, QueueTypeOK
  <2>3. Fate
    BY DEF OutboundTypeOK, BusyOK, CompleteOK, Kept, Handles, Live, RowsOf,
       QueueTypeOK
  <2> QED
    BY <2>1, <2>2, <2>3
<1>4. ASSUME NEW w \in Workers, NEW r \in Rows, Take(w, r)
      PROVE  Types /\ Place /\ Fate
  <2> USE <1>4, <1>t, <1>e, <1>m DEF Take, TakeUp, Go, Places, rowVars
  <2>1. Types
    BY DEF OutboundTypeOK, MessageOK, QueueTypeOK
  <2>2. Place
    BY DEF OutboundTypeOK, BusyOK, CompleteOK, QueueTypeOK
  <2>3. Fate
    BY DEF OutboundTypeOK, BusyOK, CompleteOK, Kept, Handles, Live, RowsOf,
       QueueTypeOK
  <2> QED
    BY <2>1, <2>2, <2>3
<1>5. ASSUME NEW w \in Workers, NEW a \in Answers, Request(w, a)
      PROVE  Types /\ Place /\ Fate
  <2> USE <1>5, <1>t, <1>e, <1>m DEF Request, LineAnswers, Count, Answers,
         LineStates, Go, Places, queueVars, rowVars, workerVars
  <2>1. Types
    <3>1. cur[w] \in Rows /\ message[cur[w]] \in Msgs
      BY DEF BusyOK
    <3>2. requests' \in [Msgs -> 0..(Budget + 1)]
      <4>1. requests[message[cur[w]]] \in 0..(Budget + 1)
        BY <3>1 DEF OutboundTypeOK
      <4> QED
        BY <3>1, <4>1 DEF OutboundTypeOK
    <3>3. line' \in [Msgs -> LineStates]
      BY <3>1 DEF OutboundTypeOK
    <3>4. at' \in [Workers -> Places] /\ tries' \in [Workers -> 0..(Tries - 1)]
      <4>1. tries[w] \in 0..(Tries - 1)
        BY DEF OutboundTypeOK
      <4> QED
        BY <4>1 DEF OutboundTypeOK
    <3> QED
      BY <3>2, <3>3, <3>4 DEF OutboundTypeOK, MessageOK
  <2>2. Place
    BY DEF OutboundTypeOK, BusyOK, CompleteOK, QueueTypeOK
  <2>3. Fate
    BY DEF OutboundTypeOK, BusyOK, CompleteOK, Kept, Handles, Live, RowsOf,
       QueueTypeOK
  <2> QED
    BY <2>1, <2>2, <2>3
<1>6. ASSUME NEW w \in Workers, NEW ok \in BOOLEAN, Fetch(w, ok)
      PROVE  Types /\ Place /\ Fate
  <2> USE <1>6, <1>t, <1>e, <1>m DEF Fetch, Go, Places, queueVars, rowVars,
         workerVars
  <2>1. Types
    <3>1. cur[w] \in Rows /\ attempt[cur[w]] \in Nat /\ MaxAttempts \in Nat
      BY DEF BusyOK, OutboundTypeOK
    <3>2. at' \in [Workers -> Places]
      <4>1. CASE ~ok
        BY <4>1 DEF OutboundTypeOK
      <4>2. CASE ok /\ attempt[cur[w]] >= MaxAttempts
        BY <3>1, <4>2 DEF OutboundTypeOK
      <4>3. CASE ok /\ attempt[cur[w]] < MaxAttempts
        BY <3>1, <4>3 DEF OutboundTypeOK
      <4> QED
        BY <3>1, <4>1, <4>2, <4>3
    <3> QED
      BY <3>2 DEF OutboundTypeOK, MessageOK, QueueTypeOK
  <2>2. Place
    BY DEF OutboundTypeOK, BusyOK, CompleteOK, QueueTypeOK
  <2>3. Fate
    BY DEF OutboundTypeOK, BusyOK, CompleteOK, Kept, Handles, Live, RowsOf,
       QueueTypeOK
  <2> QED
    BY <2>1, <2>2, <2>3
<1>7. ASSUME NEW w \in Workers, NEW ok \in BOOLEAN, Exhausted(w, ok)
      PROVE  Types /\ Place /\ Fate
  <2> USE <1>7, <1>t, <1>e, <1>m DEF Exhausted, CompleteOutbound, Settle, Go,
         Places, queueVars, rowVars, workerVars
  <2>1. Types
    BY DEF OutboundTypeOK, MessageOK, QueueTypeOK
  <2>2. Place
    BY DEF OutboundTypeOK, BusyOK, CompleteOK, QueueTypeOK
  <2>3. Fate
    BY DEF OutboundTypeOK, BusyOK, CompleteOK, Kept, Handles, Live, RowsOf,
       QueueTypeOK
  <2> QED
    BY <2>1, <2>2, <2>3
<1>8. ASSUME NEW w \in Workers, NEW ok \in BOOLEAN, Complete(w, ok)
      PROVE  Types /\ Place /\ Fate
  <2> USE <1>8, <1>t, <1>e, <1>m DEF Complete, CompleteOutbound, Settle, Note,
         Go, Places, queueVars, rowVars, workerVars
  <2>1. Types
    <3>1. cur[w] \in Rows /\ message[cur[w]] \in Msgs
      BY DEF BusyOK
    <3>2. repeated' \subseteq Msgs
      BY <3>1 DEF OutboundTypeOK
    <3> QED
      BY <3>1, <3>2 DEF OutboundTypeOK, MessageOK, QueueTypeOK, Statuses
  <2>2. Place
    BY DEF OutboundTypeOK, BusyOK, CompleteOK, QueueTypeOK
  <2>3. Fate
    BY DEF OutboundTypeOK, BusyOK, CompleteOK, Kept, Handles, Live, RowsOf,
       QueueTypeOK
  <2> QED
    BY <2>1, <2>2, <2>3
<1>9. ASSUME NEW w \in Workers, NEW ok \in BOOLEAN, Mark(w, ok)
      PROVE  Types /\ Place /\ Fate
  <2> USE <1>9, <1>t, <1>e, <1>m DEF Mark, UpdateDeliveryStatus, Go, Places,
         queueVars, rowVars, workerVars
  <2>1. Types
    BY DEF OutboundTypeOK, MessageOK, QueueTypeOK
  <2>2. Place
    BY DEF OutboundTypeOK, BusyOK, CompleteOK, QueueTypeOK
  <2>3. Fate
    BY DEF OutboundTypeOK, BusyOK, CompleteOK, Kept, Handles, Live, RowsOf,
       QueueTypeOK
  <2> QED
    BY <2>1, <2>2, <2>3
<1>10. ASSUME NEW w \in Workers, NEW ok \in BOOLEAN, Fail(w, ok)
       PROVE  Types /\ Place /\ Fate
  <2> USE <1>10, <1>t, <1>e, <1>m DEF Fail, CompleteOutbound, Settle, Note, Go,
         Places, queueVars, rowVars, workerVars
  <2>1. Types
    <3>1. cur[w] \in Rows /\ message[cur[w]] \in Msgs
      BY DEF BusyOK
    <3>2. repeated' \subseteq Msgs
      BY <3>1 DEF OutboundTypeOK
    <3> QED
      BY <3>1, <3>2 DEF OutboundTypeOK, MessageOK, QueueTypeOK, Statuses
  <2>2. Place
    BY DEF OutboundTypeOK, BusyOK, CompleteOK, QueueTypeOK
  <2>3. Fate
    BY DEF OutboundTypeOK, BusyOK, CompleteOK, Kept, Handles, Live, RowsOf,
       QueueTypeOK
  <2> QED
    BY <2>1, <2>2, <2>3
<1>11. ASSUME NEW w \in Workers, NEW ok \in BOOLEAN, Requeue(w, ok)
       PROVE  Types /\ Place /\ Fate
  <2> USE <1>t, <1>e, <1>m
  <2>1. /\ at[w] = "next" /\ at' = [at EXCEPT ![w] = "over"]
        /\ UNCHANGED << phase, cur, token, delivery, tries, line, requests,
                        repeated >>
        /\ unrecorded' = Note(unrecorded, ~ok, w)
        /\ attempt[cur[w]] + 1 < MaxAttempts
        /\ attempt' = [r \in Rows |->
                       IF status[r] = "none" /\ status'[r] = "pending"
                       THEN attempt[cur[w]] + 1 ELSE attempt[r]]
    BY <1>11 DEF Requeue, EnqueueOutbound, Enqueue, Go, queueVars, workerVars
  <2>2. cur[w] \in Rows /\ message[cur[w]] \in Msgs
    BY <2>1 DEF BusyOK
  <2>3. \/ ~ok /\ UNCHANGED << message, status >>
        \/ \E r \in Rows : /\ status[r] = "none"
                           /\ message' = [message EXCEPT ![r] = message[cur[w]]]
                           /\ status' = [status EXCEPT ![r] = "pending"]
    BY <1>11, EnqueuedRow DEF Requeue, EnqueueOutbound, queueVars, rowVars
  <2>4. Types
    <3>1. unrecorded' \subseteq Msgs
      BY <2>1, <2>2 DEF OutboundTypeOK, Note
    <3>2. attempt' \in [Rows -> 0..MaxAttempts]
      <4>1. attempt[cur[w]] \in 0..MaxAttempts
        BY <2>2 DEF OutboundTypeOK
      <4>2. attempt[cur[w]] + 1 \in 0..MaxAttempts
        BY <2>1, <4>1
      <4> QED
        BY <2>1, <4>2 DEF OutboundTypeOK
    <3>3. MessageOK'
      BY <2>2, <2>3 DEF MessageOK, QueueTypeOK
    <3> QED
      BY <2>1, <3>1, <3>2, <3>3 DEF OutboundTypeOK, Places
  <2>5. \A v \in Workers : cur[v] \in Rows => message'[cur[v]] = message[cur[v]]
    BY <2>3 DEF QueueTypeOK
  <2>6. Place
    BY <2>1, <2>5 DEF OutboundTypeOK, BusyOK, CompleteOK
  <2>7. \A m \in Msgs : Live(m) => Live(m)'
    BY <2>3 DEF Live, RowsOf, QueueTypeOK
  <2> DEFINE Queued(r) == message'[r] = message[cur[w]] /\ status'[r] = "pending"
  <2>8. (\E r \in Rows : Queued(r)) \/ message[cur[w]] \in unrecorded'
    <3>1. CASE ~ok
      BY <2>1, <3>1 DEF Note
    <3>2. ASSUME NEW r \in Rows, status[r] = "none",
                 message' = [message EXCEPT ![r] = message[cur[w]]],
                 status' = [status EXCEPT ![r] = "pending"]
          PROVE  Queued(r)
      BY <3>2 DEF QueueTypeOK
    <3> QED
      BY <2>3, <3>1, <3>2
  <2>9. Fate
    BY <2>1, <2>2, <2>5, <2>7, <2>8
       DEF Kept, Handles, Live, RowsOf, Note, OutboundTypeOK
  <2> QED
    BY <2>4, <2>6, <2>9
<1>12. ASSUME NEW w \in Workers, NEW ok \in BOOLEAN, GiveUp(w, ok)
       PROVE  Types /\ Place /\ Fate
  <2> USE <1>12, <1>t, <1>e, <1>m DEF GiveUp, UpdateDeliveryStatus, Note, Go,
         Places, queueVars, rowVars, workerVars
  <2>1. Types
    <3>1. cur[w] \in Rows /\ message[cur[w]] \in Msgs
      BY DEF BusyOK
    <3>2. unrecorded' \subseteq Msgs
      BY <3>1 DEF OutboundTypeOK
    <3> QED
      BY <3>1, <3>2 DEF OutboundTypeOK, MessageOK, QueueTypeOK, Statuses
  <2>2. Place
    BY DEF OutboundTypeOK, BusyOK, CompleteOK, QueueTypeOK
  <2>3. Fate
    BY DEF OutboundTypeOK, BusyOK, CompleteOK, Kept, Handles, Live, RowsOf,
       QueueTypeOK
  <2> QED
    BY <2>1, <2>2, <2>3
<1>13. ASSUME NEW w \in Workers, Return(w)
       PROVE  Types /\ Place /\ Fate
  <2> USE <1>13, <1>t, <1>e, <1>m DEF Return, PutDown, Go, Places, rowVars
  <2>1. Types
    BY DEF OutboundTypeOK, MessageOK, QueueTypeOK
  <2>2. Place
    BY DEF OutboundTypeOK, BusyOK, CompleteOK, QueueTypeOK
  <2>3. Fate
    BY DEF OutboundTypeOK, BusyOK, CompleteOK, Kept, Handles, Live, RowsOf,
       QueueTypeOK
  <2> QED
    BY <2>1, <2>2, <2>3
<1>14. ASSUME NEW w \in Workers, FinishBatch(w)
       PROVE  Types /\ Place /\ Fate
  <2> USE <1>14, <1>t, <1>e, <1>m DEF FinishBatch, EndBatch, rowVars, entryVars
  <2>1. Types
    BY DEF OutboundTypeOK, MessageOK, QueueTypeOK
  <2>2. Place
    BY DEF OutboundTypeOK, BusyOK, CompleteOK, QueueTypeOK
  <2>3. Fate
    BY DEF OutboundTypeOK, BusyOK, CompleteOK, Kept, Handles, Live, RowsOf,
       QueueTypeOK
  <2> QED
    BY <2>1, <2>2, <2>3
<1>15. ASSUME NEW w \in Workers, StopWorker(w)
       PROVE  Types /\ Place /\ Fate
  <2> USE <1>15, <1>t, <1>e, <1>m DEF StopWorker, Stop, Note, Go, Places,
         rowVars
  <2>1. Types
    <3>1. at[w] # "none" => message[cur[w]] \in Msgs
      BY DEF BusyOK
    <3>2. tries[w] > 0 => at[w] = "request"
      BY DEF BusyOK
    <3>3. repeated' \subseteq Msgs /\ unrecorded' \subseteq Msgs
      BY <3>1, <3>2 DEF OutboundTypeOK
    <3> QED
      BY <3>3 DEF OutboundTypeOK, MessageOK, QueueTypeOK
  <2>2. Place
    BY DEF OutboundTypeOK, BusyOK, CompleteOK, QueueTypeOK
  <2>3. Fate
    BY DEF OutboundTypeOK, BusyOK, CompleteOK, Kept, Handles, Live, RowsOf,
       QueueTypeOK
  <2> QED
    BY <2>1, <2>2, <2>3
<1>16. ASSUME UNCHANGED vars PROVE Types /\ Place /\ Fate
  BY <1>16, <1>e DEF vars, queueVars, rowVars, workerVars, entryVars,
     OutboundTypeOK, MessageOK, BusyOK, CompleteOK, Kept, Handles, Live, RowsOf
<1> HIDE DEF Types, Place, Fate
<1>17. Types /\ Place /\ Fate
  BY <1>1, <1>2, <1>3, <1>4, <1>5, <1>6, <1>7, <1>8, <1>9, <1>10, <1>11, <1>12,
     <1>13, <1>14, <1>15, <1>16
  DEF Next, Run, ProcessEntry
<1> QED
  BY <1>17 DEF EntryInv, Types, Place, Fate


\* The worker's own invariant holds from the start.
LEMMA EntryInit == Init => EntryInv
<1> SUFFICES ASSUME Init PROVE EntryInv
  OBVIOUS
<1> USE QueueAssumption, OutboundAssumption, BudgetNat DEF Init, QueueInit
<1>1. OutboundTypeOK
  BY DEF OutboundTypeOK, Places, LineStates
<1>2. MessageOK /\ BusyOK /\ CompleteOK
  BY DEF MessageOK, BusyOK, CompleteOK
<1>3. Kept
  BY DEF Kept, Live, RowsOf
<1> QED
  BY <1>1, <1>2, <1>3 DEF EntryInv

\* Together with the claim protocol's invariant it is inductive.
LEMMA EntryInvariant == Spec => []EntryInv
BY EntryInit, EntryStep, OutboundQueueInvariant, PTL DEF Spec

\* The worker's own state is of its type, for every limit and number of attempts.
THEOREM OutboundTypeInvariant == Spec => []OutboundTypeOK
<1>1. EntryInv => OutboundTypeOK
  BY DEF EntryInv
<1> QED
  BY <1>1, EntryInvariant, PTL

\* A message leaves the queue without being acknowledged or given up only where
\* a stop or an error separates a failed row from its successor.
THEOREM LossHasCauseInvariant == Spec => []LossHasCause
<1>1. EntryInv => LossHasCause
  BY DEF EntryInv, Kept, LossHasCause, Handles, InHand, RowsOf
<1> QED
  BY <1>1, EntryInvariant, PTL

-----------------------------------------------------------------------------

\* What the attempts cost.
LEMMA CostFacts ==
  /\ \A a \in Nat : Cost(a) \in Nat /\ Cost(a + 1) = Cost(a) + Tries
  /\ \A a \in Nat : a < MaxAttempts => Cost(a) <= Budget /\ Cost(a + 1) <= Budget
<1> USE OutboundAssumption
<1>1. ASSUME NEW a \in Nat
      PROVE  Cost(a) \in Nat /\ Cost(a + 1) = Cost(a) + Tries
  BY DEF Cost
<1>2. ASSUME NEW a \in Nat, a < MaxAttempts
      PROVE  Cost(a) <= Budget /\ Cost(a + 1) <= Budget
  <2>1. PICK d \in Nat : MaxAttempts = (a + 1) + d
    <3>1. /\ MaxAttempts - (a + 1) \in Nat
          /\ MaxAttempts = (a + 1) + (MaxAttempts - (a + 1))
      BY <1>2
    <3> QED
      BY <3>1
  <2>2. d * Tries \in Nat
    OBVIOUS
  <2>3. Budget = Cost(a + 1) + d * Tries
    BY <2>1 DEF Budget, Cost
  <2> QED
    BY <1>1, <2>2, <2>3
<1> QED
  BY <1>1, <1>2

\* While no two workers run under one id, no two have one row in hand, and a row
\* that has not been settled is live.
LEMMA Hands ==
  ASSUME QueueInv, EntryInv, IdsApart, LocksHeld
  PROVE  /\ \A v, w \in Workers : v # w /\ cur[v] \in Rows => cur[v] # cur[w]
         /\ \A w \in Workers : at[w] \in Holding =>
              cur[w] \in Rows /\ status[cur[w]] = "processing"
<1>1. QueueTypeOK /\ LockOK /\ OffOK /\ BusyOK
  BY DEF QueueInv, EntryInv
<1>2. \A v, w \in Workers : v # w /\ cur[v] \in Rows => cur[v] # cur[w]
  BY HandsApart DEF Held
<1>3. ASSUME NEW w \in Workers, at[w] \in Holding
      PROVE  cur[w] \in Rows /\ status[cur[w]] = "processing"
  <2>1. cur[w] \in Rows /\ phase[w] = "work"
    BY <1>1, <1>3 DEF BusyOK, Holding
  <2>2. lockedBy[cur[w]] = workerId[w] /\ workerId[w] \in Ids
    BY <1>1, <1>3, <2>1 DEF LocksHeld, OffOK
  <2> QED
    BY <1>1, <2>1, <2>2, QueueAssumption DEF LockOK
<1> QED
  BY <1>2, <1>3

\* What is in hand stays locked, and within the limit, as long as no two workers
\* run under one id.
LEMMA HandsStep ==
  ASSUME QueueInv, EntryInv, [Next]_vars, IdsApart, LocksHeld, InLimit,
         \A w \in Workers : TodoLocked(w)
  PROVE  LocksHeld' /\ InLimit'
<1>t. QueueTypeOK /\ LockOK /\ OffOK /\ HeldOK
  BY DEF QueueInv
<1>e. OutboundTypeOK /\ BusyOK
  BY DEF EntryInv
<1>h. /\ \A v, w \in Workers : v # w /\ cur[v] \in Rows => cur[v] # cur[w]
      /\ \A w \in Workers : at[w] \in Holding =>
           cur[w] \in Rows /\ status[cur[w]] = "processing"
  BY Hands
<1>d. LocksHeld /\ InLimit /\ \A w \in Workers : TodoLocked(w)
  OBVIOUS
<1> USE QueueAssumption, OutboundAssumption
<1> DEFINE Locks == LocksHeld'
           Limits == InLimit'
<1>s. ASSUME NEW w \in Workers, cur[w] \in Rows, UNCHANGED << cur, workerId >>,
             \A r \in Rows : r # cur[w] => lockedBy'[r] = lockedBy[r],
             at'[w] \notin Holding, \A v \in Workers \ {w} : at'[v] = at[v]
      PROVE  Locks
  BY <1>s, <1>h, <1>d DEF LocksHeld
<1>1. ASSUME NEW w \in Workers, NEW i \in Ids, StartWorker(w, i)
      PROVE  Locks /\ Limits
  <2> USE <1>1, <1>t, <1>e, <1>h, <1>d DEF StartWorker, Start, rowVars,
         entryVars, QueueTypeOK, OutboundTypeOK, BusyOK
  <2>1. Locks
    BY DEF LocksHeld, Holding, OffOK
  <2>2. Limits
    BY DEF InLimit
  <2> QED
    BY <2>1, <2>2
<1>2. ASSUME NEW w \in Workers, NEW S \in SUBSET Rows, Poll(w, S)
      PROVE  Locks /\ Limits
  <2> USE <1>2, <1>t, <1>e, <1>h, <1>d DEF Poll, ClaimNextOutbound, Claim,
         Pending, entryVars, QueueTypeOK, OutboundTypeOK, BusyOK
  <2>1. Locks
    BY DEF LocksHeld, Holding
  <2>2. Limits
    BY DEF InLimit
  <2> QED
    BY <2>1, <2>2
<1>3. ASSUME NEW w \in Workers, NEW ok \in BOOLEAN, ReadClaims(w, ok)
      PROVE  Locks /\ Limits
  <2> USE <1>3, <1>t, <1>e, <1>h, <1>d DEF ReadClaims, ReadBack, EndBatch,
         rowVars, entryVars, QueueTypeOK, OutboundTypeOK, BusyOK
  <2>1. Locks
    BY DEF LocksHeld, Holding
  <2>2. Limits
    BY DEF InLimit
  <2> QED
    BY <2>1, <2>2
<1>4. ASSUME NEW w \in Workers, NEW r \in Rows, Take(w, r) PROVE Locks /\ Limits
  <2> USE <1>4, <1>t, <1>e, <1>h, <1>d DEF Take, TakeUp, TodoLocked, Go,
         rowVars, QueueTypeOK, OutboundTypeOK, BusyOK
  <2>1. Locks
    BY DEF LocksHeld, Holding
  <2>2. Limits
    BY DEF InLimit
  <2> QED
    BY <2>1, <2>2
<1>5. ASSUME NEW w \in Workers, NEW a \in Answers, Request(w, a)
      PROVE  Locks /\ Limits
  <2> USE <1>5, <1>t, <1>e, <1>h, <1>d DEF Request, LineAnswers, Count, Go,
         queueVars, rowVars, workerVars, QueueTypeOK, OutboundTypeOK, BusyOK
  <2>1. Locks
    BY DEF LocksHeld, Holding
  <2>2. Limits
    BY DEF InLimit
  <2> QED
    BY <2>1, <2>2
<1>6. ASSUME NEW w \in Workers, NEW ok \in BOOLEAN, Fetch(w, ok)
      PROVE  Locks /\ Limits
  <2> USE <1>6, <1>t, <1>e, <1>h, <1>d DEF Fetch, Go, queueVars, rowVars,
         workerVars, QueueTypeOK, OutboundTypeOK, BusyOK
  <2>1. Locks
    BY DEF LocksHeld, Holding
  <2>2. Limits
    BY DEF InLimit
  <2> QED
    BY <2>1, <2>2
<1>7. ASSUME NEW w \in Workers, NEW ok \in BOOLEAN, Exhausted(w, ok)
      PROVE  Locks /\ Limits
  <2> USE <1>7, <1>t, <1>e, <1>h, <1>d DEF Exhausted, CompleteOutbound,
         Settle, Go, queueVars, rowVars, workerVars, QueueTypeOK,
         OutboundTypeOK, BusyOK
  <2>1. Locks
    <3>1. /\ cur[w] \in Rows
          /\ \A r \in Rows : r # cur[w] => lockedBy'[r] = lockedBy[r]
          /\ \A v \in Workers \ {w} : at'[v] = at[v]
      OBVIOUS
    <3>2. at'[w] \notin Holding /\ UNCHANGED << cur, workerId >>
      BY DEF Holding
    <3> QED
      BY <3>1, <3>2, <1>s
  <2>2. Limits
    BY DEF InLimit
  <2> QED
    BY <2>1, <2>2
<1>8. ASSUME NEW w \in Workers, NEW ok \in BOOLEAN, Complete(w, ok)
      PROVE  Locks /\ Limits
  <2> USE <1>8, <1>t, <1>e, <1>h, <1>d DEF Complete, CompleteOutbound, Settle,
         Note, Go, queueVars, rowVars, workerVars, QueueTypeOK,
         OutboundTypeOK, BusyOK
  <2>1. Locks
    <3>1. /\ cur[w] \in Rows
          /\ \A r \in Rows : r # cur[w] => lockedBy'[r] = lockedBy[r]
          /\ \A v \in Workers \ {w} : at'[v] = at[v]
      OBVIOUS
    <3>2. at'[w] \notin Holding /\ UNCHANGED << cur, workerId >>
      BY DEF Holding
    <3> QED
      BY <3>1, <3>2, <1>s
  <2>2. Limits
    BY DEF InLimit
  <2> QED
    BY <2>1, <2>2
<1>9. ASSUME NEW w \in Workers, NEW ok \in BOOLEAN, Mark(w, ok)
      PROVE  Locks /\ Limits
  <2> USE <1>9, <1>t, <1>e, <1>h, <1>d DEF Mark, UpdateDeliveryStatus, Go,
         queueVars, rowVars, workerVars, QueueTypeOK, OutboundTypeOK, BusyOK
  <2>1. Locks
    BY DEF LocksHeld, Holding
  <2>2. Limits
    BY DEF InLimit
  <2> QED
    BY <2>1, <2>2
<1>10. ASSUME NEW w \in Workers, NEW ok \in BOOLEAN, Fail(w, ok)
       PROVE  Locks /\ Limits
  <2> USE <1>10, <1>t, <1>e, <1>h, <1>d DEF Fail, CompleteOutbound, Settle,
         Note, Go, queueVars, rowVars, workerVars, QueueTypeOK,
         OutboundTypeOK, BusyOK
  <2>1. Locks
    <3>1. /\ cur[w] \in Rows
          /\ \A r \in Rows : r # cur[w] => lockedBy'[r] = lockedBy[r]
          /\ \A v \in Workers \ {w} : at'[v] = at[v]
      OBVIOUS
    <3>2. at'[w] \notin Holding /\ UNCHANGED << cur, workerId >>
      BY DEF Holding
    <3> QED
      BY <3>1, <3>2, <1>s
  <2>2. Limits
    BY DEF InLimit
  <2> QED
    BY <2>1, <2>2
<1>11. ASSUME NEW w \in Workers, NEW ok \in BOOLEAN, Requeue(w, ok)
       PROVE  Locks /\ Limits
  <2>1. /\ at[w] = "next" /\ at' = [at EXCEPT ![w] = "over"]
        /\ UNCHANGED << lockedBy, workerId, cur >>
        /\ \A r \in Rows : status[r] # "none" => attempt'[r] = attempt[r]
    BY <1>11 DEF Requeue, EnqueueOutbound, Enqueue, Go, queueVars, rowVars,
       workerVars
  <2>2. \A v \in Workers : cur[v] \in Rows => status[cur[v]] # "none"
    BY <1>t DEF HeldOK, Held
  <2>3. Locks
    BY <2>1, <1>d, <1>e DEF LocksHeld, Holding, OutboundTypeOK
  <2>4. \A v \in Workers : at[v] # "none" => attempt'[cur[v]] = attempt[cur[v]]
    BY <2>1, <2>2, <1>e DEF BusyOK
  <2>5. Limits
    BY <2>1, <2>4, <1>d, <1>e DEF InLimit, OutboundTypeOK
  <2> QED
    BY <2>3, <2>5
<1>12. ASSUME NEW w \in Workers, NEW ok \in BOOLEAN, GiveUp(w, ok)
       PROVE  Locks /\ Limits
  <2> USE <1>12, <1>t, <1>e, <1>h, <1>d DEF GiveUp, UpdateDeliveryStatus, Go,
         queueVars, rowVars, workerVars, QueueTypeOK, OutboundTypeOK, BusyOK
  <2>1. Locks
    BY DEF LocksHeld, Holding
  <2>2. Limits
    BY DEF InLimit
  <2> QED
    BY <2>1, <2>2
<1>13. ASSUME NEW w \in Workers, Return(w) PROVE Locks /\ Limits
  <2> USE <1>13, <1>t, <1>e, <1>h, <1>d DEF Return, PutDown, Go, rowVars,
         QueueTypeOK, OutboundTypeOK, BusyOK
  <2>1. Locks
    BY DEF LocksHeld, Holding
  <2>2. Limits
    BY DEF InLimit
  <2> QED
    BY <2>1, <2>2
<1>14. ASSUME NEW w \in Workers, FinishBatch(w) PROVE Locks /\ Limits
  <2> USE <1>14, <1>t, <1>e, <1>h, <1>d DEF FinishBatch, EndBatch, rowVars,
         entryVars, QueueTypeOK, OutboundTypeOK, BusyOK
  <2>1. Locks
    BY DEF LocksHeld, Holding
  <2>2. Limits
    BY DEF InLimit
  <2> QED
    BY <2>1, <2>2
<1>15. ASSUME NEW w \in Workers, StopWorker(w) PROVE Locks /\ Limits
  <2> USE <1>15, <1>t, <1>e, <1>h, <1>d DEF StopWorker, Stop, Note, Go,
         rowVars, QueueTypeOK, OutboundTypeOK, BusyOK
  <2>1. Locks
    BY DEF LocksHeld, Holding
  <2>2. Limits
    BY DEF InLimit
  <2> QED
    BY <2>1, <2>2
<1>16. ASSUME UNCHANGED vars PROVE Locks /\ Limits
  BY <1>16, <1>d DEF vars, queueVars, rowVars, workerVars, entryVars, LocksHeld,
     InLimit
<1> HIDE DEF Locks, Limits
<1>17. Locks /\ Limits
  BY <1>1, <1>2, <1>3, <1>4, <1>5, <1>6, <1>7, <1>8, <1>9, <1>10, <1>11, <1>12,
     <1>13, <1>14, <1>15, <1>16
  DEF Next, Run, ProcessEntry
<1> QED
  BY <1>17 DEF Locks, Limits

\* A message is left as it is by a step that neither settles nor inserts a row
\* of it, nor makes a request for it.
LEMMA Untouched ==
  ASSUME QueueTypeOK, OutboundTypeOK, NEW m \in Msgs, NEW w \in Workers,
         OnceFor(m),
         LiveRows(m)' = LiveRows(m), line'[m] = line[m], requests'[m] =
         requests[m],
         \A r \in LiveRows(m) : attempt'[r] = attempt[r],
         \A v \in Workers \ {w} :
           /\ cur'[v] = cur[v] /\ at'[v] = at[v] /\ tries'[v] = tries[v]
           /\ cur[v] \in Rows => /\ message'[cur[v]] = message[cur[v]]
                                 /\ attempt'[cur[v]] = attempt[cur[v]],
         at'[w] \in {"next", "giveup"} => ~Handles(w, m)',
         Handles(w, m) => /\ at[w] \notin {"complete", "fail"}
                          /\ at[w] = "request" => tries[w] = 0,
         delivery'[m] = "failed" => delivery[m] = "failed" \/ Dead(m)'
  PROVE  OnceFor(m)'
<1> USE DEF OnceFor
<1>1. OneLive(m)'
  BY DEF OneLive
<1>2. \A r \in LiveRows(m) : r \in Rows /\ message[r] = m
  BY DEF LiveRows, RowsOf
<1>3. \A v \in Workers \ {w} : Handles(v, m)' = Handles(v, m)
  BY DEF Handles
<1>4. Spent(m)'
  <2>1. ASSUME NEW r \in LiveRows(m), ~(requests[m] <= Cost(attempt[r]))
        PROVE  \E v \in Workers : cur'[v] = r /\ Underway(v, m)'
    <3>1. PICK v \in Workers : cur[v] = r /\ Underway(v, m)
      BY <2>1 DEF Spent
    <3>2. r \in Rows /\ Cost(attempt[r]) \in Nat /\ requests[m] \in Nat
      BY <1>2, CostFacts DEF OutboundTypeOK
    <3>3. v # w
      BY <2>1, <1>2, <3>1, <3>2 DEF Underway, Handles
    <3>4. Underway(v, m)'
      BY <3>1, <3>2, <3>3 DEF Underway
    <3> QED
      BY <3>1, <3>3, <3>4
  <2> QED
    BY <2>1 DEF Spent
<1>5. Between(m)'
  <2>1. ASSUME NEW v \in Workers, at'[v] = "next", Handles(v, m)'
        PROVE  /\ LiveRows(m)' = {}
               /\ \A u \in Workers \ {v} : at'[u] = "next" => ~Handles(u, m)'
               /\ requests'[m] <= Cost(attempt[cur[v]] + 1)'
               /\ line'[m] # "acked"
    <3>1. v # w /\ at[v] = "next" /\ Handles(v, m) /\ cur[v] \in Rows
      BY <2>1, <1>3 DEF Handles
    <3>2. Cost(attempt[cur[v]] + 1)' = Cost(attempt[cur[v]] + 1)
      BY <3>1 DEF Cost
    <3>3. \A u \in Workers \ {v} : at'[u] = "next" => ~Handles(u, m)'
      BY <3>1, <1>3 DEF Between
    <3> QED
      BY <3>1, <3>2, <3>3 DEF Between
  <2> QED
    BY <2>1 DEF Between
<1>6. Dead(m) => Dead(m)'
  BY <1>3 DEF Dead
<1>7. GivenUp(m)'
  BY <1>3, <1>6 DEF GivenUp
<1>8. Acknowledged(m)'
  <2>1. ASSUME line[m] = "acked", NEW r \in LiveRows(m)
        PROVE  \E v \in Workers : cur'[v] = r /\ at'[v] = "complete"
    <3>1. PICK v \in Workers : cur[v] = r /\ at[v] = "complete"
      BY <2>1 DEF Acknowledged
    <3>2. v # w
      BY <1>2, <3>1 DEF Handles
    <3> QED
      BY <3>1, <3>2
  <2> QED
    BY <2>1 DEF Acknowledged
<1> QED
  BY <1>1, <1>4, <1>5, <1>7, <1>8

\* A worker that has not settled the row in hand has the only one of its message,
\* and nobody else works on the message.
LEMMA InHandAlone ==
  ASSUME QueueInv, EntryInv, IdsApart, LocksHeld, InLimit, NEW w \in Workers,
         at[w] \in Holding, NEW m \in Msgs, Handles(w, m), OnceFor(m)
  PROVE  /\ cur[w] \in Rows /\ attempt[cur[w]] \in Nat /\ requests[m] \in Nat
         /\ LiveRows(m) = {cur[w]}
         /\ \A v \in Workers : cur[v] = cur[w] => v = w
         /\ at[w] # "complete" => line[m] # "acked"
         /\ \A v \in Workers : at[v] = "next" => ~Handles(v, m)
         /\ requests[m] <= Cost(attempt[cur[w]]) \/ Underway(w, m)
         /\ Dead(m) => attempt[cur[w]] >= MaxAttempts
<1>1. QueueTypeOK /\ OutboundTypeOK /\ BusyOK
  BY DEF QueueInv, EntryInv
<1>2. /\ cur[w] \in Rows /\ status[cur[w]] = "processing"
      /\ \A v \in Workers : cur[v] = cur[w] => v = w
  BY Hands
<1>3. attempt[cur[w]] \in Nat /\ requests[m] \in Nat
  BY <1>1, <1>2, BudgetNat, OutboundAssumption DEF OutboundTypeOK
<1>4. LiveRows(m) = {cur[w]}
  BY <1>2 DEF OnceFor, OneLive, LiveRows, RowsOf, Handles
<1>5. at[w] # "complete" => line[m] # "acked"
  BY <1>2, <1>4 DEF OnceFor, Acknowledged
<1>6. \A v \in Workers : at[v] = "next" => ~Handles(v, m)
  BY <1>4 DEF OnceFor, Between
<1>7. requests[m] <= Cost(attempt[cur[w]]) \/ Underway(w, m)
  BY <1>2, <1>4 DEF OnceFor, Spent
<1>8. Dead(m) => attempt[cur[w]] >= MaxAttempts
  BY <1>4 DEF Dead
<1> QED
  BY <1>2, <1>3, <1>4, <1>5, <1>6, <1>7, <1>8

\* A message's only row is settled, or is found to have had too many attempts.
LEMMA Settled ==
  ASSUME QueueInv, EntryInv, IdsApart, LocksHeld, InLimit, NEW w \in Workers,
         NEW m \in Msgs, Handles(w, m), OnceFor(m),
         UNCHANGED << message, attempt, delivery, tries, line, requests, cur >>,
         \A v \in Workers \ {w} : at'[v] = at[v],
         \/ /\ at[w] = "exhausted" /\ at'[w] = "giveup"
            /\ LiveRows(m)' = {} \/ LiveRows(m)' = LiveRows(m)
         \/ at[w] = "complete" /\ at'[w] = "mark" /\ LiveRows(m)' = {}
         \/ at[w] = "fail" /\ at'[w] = "next" /\ LiveRows(m)' = {}
  PROVE  OnceFor(m)'
<1>1. OutboundTypeOK
  BY DEF EntryInv
<1>2. /\ cur[w] \in Rows /\ attempt[cur[w]] \in Nat /\ requests[m] \in Nat
      /\ LiveRows(m) = {cur[w]}
      /\ at[w] # "complete" => line[m] # "acked"
      /\ \A v \in Workers : at[v] = "next" => ~Handles(v, m)
      /\ requests[m] <= Cost(attempt[cur[w]]) \/ Underway(w, m)
      /\ Dead(m) => attempt[cur[w]] >= MaxAttempts
  BY InHandAlone DEF Holding
<1>3. \A v \in Workers : Handles(v, m)' = Handles(v, m)
  BY DEF Handles
<1>4. OneLive(m)'
  BY <1>2 DEF OneLive
<1>5. Spent(m)'
  <2>1. requests[m] <= Budget
    BY DEF OnceFor, Spent
  <2>2. at[w] = "exhausted" => requests[m] <= Cost(attempt[cur[w]])
    BY <1>2 DEF Underway
  <2> QED
    BY <1>2, <2>1, <2>2 DEF Spent, Cost
<1>6. Between(m)'
  <2>1. ASSUME at[w] = "fail"
        PROVE  requests[m] <= Cost(attempt[cur[w]] + 1) /\ line[m] # "acked"
    BY <2>1, <1>2, CostFacts, OutboundAssumption DEF Underway
  <2>2. requests[m] <= Cost(attempt[cur[w]] + 1) =>
          (requests[m] <= Cost(attempt[cur[w]] + 1))'
    BY DEF Cost
  <2> QED
    BY <1>2, <1>3, <2>1, <2>2 DEF Between
<1>7. GivenUp(m)'
  <2>1. CASE at[w] = "exhausted"
    <3>1. Dead(m)'
      BY <2>1, <1>2, <1>3 DEF Dead, InLimit
    <3> QED
      BY <3>1 DEF GivenUp
  <2>2. CASE at[w] \in {"fail", "complete"}
    <3>1. ~Dead(m)
      BY <2>2, <1>2, OutboundAssumption DEF InLimit
    <3> QED
      BY <2>2, <3>1, <1>3 DEF OnceFor, GivenUp
  <2> QED
    BY <2>1, <2>2
<1>8. Acknowledged(m)'
  BY <1>2 DEF Acknowledged
<1> QED
  BY <1>4, <1>5, <1>6, <1>7, <1>8 DEF OnceFor

\* A request for a message stays within what its attempts may cost.
LEMMA Requested ==
  ASSUME QueueInv, EntryInv, IdsApart, LocksHeld, InLimit, NEW w \in Workers,
         NEW m \in Msgs, Handles(w, m), OnceFor(m),
         NEW a \in Answers, Request(w, a)
  PROVE  OnceFor(m)'
<1>1. OutboundTypeOK
  BY DEF EntryInv
<1>2. at[w] = "request" /\ message[cur[w]] = m
  BY DEF Request, Handles
<1>3. /\ cur[w] \in Rows /\ attempt[cur[w]] \in Nat /\ requests[m] \in Nat
      /\ LiveRows(m) = {cur[w]}
      /\ line[m] # "acked"
      /\ \A v \in Workers : at[v] = "next" => ~Handles(v, m)
      /\ requests[m] <= Cost(attempt[cur[w]]) \/ Underway(w, m)
      /\ Dead(m) => attempt[cur[w]] >= MaxAttempts
  BY <1>2, InHandAlone DEF Holding
<1>4. attempt[cur[w]] < MaxAttempts /\ tries[w] \in Nat
  BY <1>1, <1>2, OutboundAssumption DEF InLimit, OutboundTypeOK
<1>5. requests[m] <= Cost(attempt[cur[w]]) + tries[w]
  BY <1>2, <1>3, <1>4, CostFacts DEF Underway
<1>6. requests[m] <= Budget
  BY DEF OnceFor, Spent
<1>7. requests'[m] = requests[m] + 1
  BY <1>1, <1>2, <1>3, <1>6, BudgetNat DEF Request, Count, OutboundTypeOK
<1>8. /\ UNCHANGED << message, status, attempt, cur, delivery >>
      /\ \A v \in Workers : Handles(v, m)' = Handles(v, m)
      /\ \A v \in Workers \ {w} : at'[v] = at[v] /\ tries'[v] = tries[v]
  BY <1>1 DEF Request, Go, queueVars, rowVars, workerVars, Handles,
     OutboundTypeOK
<1>9. \/ a = "ok" /\ at'[w] = "complete" /\ tries[w] + 1 <= Tries
      \/ /\ a # "ok" /\ at'[w] = "request"
         /\ tries'[w] = tries[w] + 1 /\ tries[w] + 1 <= Tries
      \/ a # "ok" /\ at'[w] = "fail" /\ tries[w] + 1 <= Tries
  <2>1. tries[w] + 1 <= Tries
    BY <1>1, OutboundAssumption DEF OutboundTypeOK
  <2> QED
    BY <2>1, <1>1, <1>2 DEF Request, Go, OutboundTypeOK
<1>10. LiveRows(m)' = {cur[w]}
  BY <1>3, <1>8 DEF LiveRows, RowsOf
<1>11. OneLive(m)'
  BY <1>10 DEF OneLive
<1>12. Spent(m)'
  <2>1. requests'[m] <= Cost(attempt[cur[w]] + 1)
    BY <1>3, <1>4, <1>5, <1>7, <1>9, CostFacts, OutboundAssumption
  <2>2. requests'[m] <= Budget
    BY <2>1, <1>3, <1>4, <1>7, CostFacts, BudgetNat
  <2>3. Underway(w, m)'
    <3>1. /\ Cost(attempt[cur[w]] + 1)' = Cost(attempt[cur[w]] + 1)
          /\ Cost(attempt[cur[w]])' = Cost(attempt[cur[w]])
      BY <1>8 DEF Cost
    <3>2. at'[w] = "request" => requests'[m] <= Cost(attempt[cur[w]]) + tries'[w]
      BY <1>3, <1>4, <1>5, <1>7, <1>9, CostFacts
    <3> QED
      BY <2>1, <3>1, <3>2, <1>9 DEF Underway
  <2>4. cur'[w] = cur[w] /\ Budget' = Budget
    BY <1>8 DEF Budget
  <2> QED
    BY <2>2, <2>3, <2>4, <1>10 DEF Spent
<1>13. Between(m)'
  BY <1>3, <1>8, <1>9 DEF Between
<1>14. GivenUp(m)'
  <2>1. ~Dead(m)
    BY <1>3, <1>4, OutboundAssumption
  <2> QED
    BY <2>1, <1>8, <1>9 DEF OnceFor, GivenUp
<1>15. Acknowledged(m)'
  <2>1. a # "ok" => line'[m] # "acked"
    BY <1>1, <1>2, <1>3 DEF Request, LineAnswers, Answers, OutboundTypeOK
  <2> QED
    BY <2>1, <1>8, <1>9, <1>10 DEF Acknowledged
<1> QED
  BY <1>11, <1>12, <1>13, <1>14, <1>15 DEF OnceFor

\* A message that failed gets its next attempt, or is lost.
LEMMA Requeued ==
  ASSUME QueueInv, EntryInv, NEW w \in Workers, NEW m \in Msgs, Handles(w, m),
         OnceFor(m), NEW ok \in BOOLEAN, Requeue(w, ok)
  PROVE  OnceFor(m)'
<1>1. OutboundTypeOK /\ QueueTypeOK /\ HeldOK
  BY DEF EntryInv, QueueInv
<1>2. /\ at[w] = "next" /\ message[cur[w]] = m /\ cur[w] \in Rows
      /\ at' = [at EXCEPT ![w] = "over"]
      /\ attempt' = [r \in Rows |-> IF status[r] = "none" /\ status'[r] = "pending"
                                    THEN attempt[cur[w]] + 1 ELSE attempt[r]]
      /\ UNCHANGED << cur, delivery, tries, line, requests >>
  BY DEF Requeue, EnqueueOutbound, Enqueue, Go, Handles, queueVars, workerVars
<1>3. /\ LiveRows(m) = {} /\ line[m] # "acked"
      /\ \A v \in Workers \ {w} : at[v] = "next" => ~Handles(v, m)
      /\ requests[m] <= Cost(attempt[cur[w]] + 1)
      /\ requests[m] <= Budget
      /\ ~Dead(m)
  BY <1>2 DEF OnceFor, Between, Spent, Dead
<1>4. \/ UNCHANGED << message, status >>
      \/ \E r \in Rows : /\ status[r] = "none"
                         /\ message' = [message EXCEPT ![r] = m]
                         /\ status' = [status EXCEPT ![r] = "pending"]
  BY <1>2, EnqueuedRow DEF Requeue, EnqueueOutbound, queueVars, rowVars
<1>5. \A v \in Workers : cur[v] \in Rows => status[cur[v]] # "none"
  BY <1>1 DEF HeldOK, Held
<1>6. \A v \in Workers : Handles(v, m)' = Handles(v, m)
  BY <1>1, <1>2, <1>4, <1>5 DEF Handles, QueueTypeOK
<1>7. \A v \in Workers \ {w} : at'[v] = at[v]
  BY <1>1, <1>2 DEF OutboundTypeOK
<1>8. LiveRows(m)' = {} \/ \E r \in Rows : /\ LiveRows(m)' = {r}
                                           /\ attempt'[r] = attempt[cur[w]] + 1
  <2>1. CASE UNCHANGED << message, status >>
    BY <2>1, <1>3 DEF LiveRows, RowsOf
  <2>2. ASSUME NEW r \in Rows, status[r] = "none",
               message' = [message EXCEPT ![r] = m],
               status' = [status EXCEPT ![r] = "pending"]
        PROVE  LiveRows(m)' = {r} /\ attempt'[r] = attempt[cur[w]] + 1
    <3>1. LiveRows(m)' = {r}
      BY <2>2, <1>1, <1>3 DEF LiveRows, RowsOf, QueueTypeOK
    <3>2. status'[r] = "pending"
      BY <2>2, <1>1 DEF QueueTypeOK
    <3> QED
      BY <2>2, <3>1, <3>2, <1>2
  <2> QED
    BY <2>1, <2>2, <1>4
<1>9. OneLive(m)'
  BY <1>8 DEF OneLive
<1>10. Spent(m)'
  BY <1>2, <1>3, <1>8 DEF Spent, Cost, Budget
<1>11. Between(m)'
  BY <1>1, <1>2, <1>3, <1>6, <1>7 DEF Between, OutboundTypeOK
<1>12. GivenUp(m)'
  BY <1>1, <1>2, <1>3, <1>6, <1>7 DEF OnceFor, GivenUp, OutboundTypeOK
<1>13. Acknowledged(m)'
  BY <1>2, <1>3 DEF Acknowledged
<1> QED
  BY <1>9, <1>10, <1>11, <1>12, <1>13 DEF OnceFor

\* What a message has cost stays within its attempts, unless an entry of it stays
\* claimed after requests.
LEMMA OnceStep ==
  ASSUME QueueInv, EntryInv, IdsApart, LocksHeld, InLimit, [Next]_vars,
         NEW m \in Msgs, m \notin repeated', OnceFor(m)
  PROVE  OnceFor(m)'
<1> USE QueueAssumption
<1>t. /\ QueueTypeOK /\ OffOK /\ HeldOK
      /\ OutboundTypeOK /\ BusyOK
  BY DEF QueueInv, EntryInv
<1>u. ASSUME NEW w \in Workers,
             UNCHANGED << message, attempt, line, requests >>,
             LiveRows(m)' = LiveRows(m),
             \A v \in Workers \ {w} :
               cur'[v] = cur[v] /\ at'[v] = at[v] /\ tries'[v] = tries[v],
             at'[w] \in {"next", "giveup"} => ~Handles(w, m)',
             Handles(w, m) => /\ at[w] \notin {"complete", "fail"}
                              /\ at[w] = "request" => tries[w] = 0,
             delivery'[m] = "failed" => delivery[m] = "failed" \/ Dead(m)'
      PROVE  OnceFor(m)'
  BY <1>t, <1>u, Untouched
<1>o. ASSUME NEW w \in Workers, ~Handles(w, m), LiveRows(m)' = LiveRows(m),
             \A r \in LiveRows(m) : attempt'[r] = attempt[r],
             line'[m] = line[m], requests'[m] = requests[m],
             UNCHANGED << cur, delivery >>,
             \A v \in Workers \ {w} : at'[v] = at[v] /\ tries'[v] = tries[v],
             \A v \in Workers : cur[v] \in Rows =>
               /\ message'[cur[v]] = message[cur[v]]
               /\ attempt'[cur[v]] = attempt[cur[v]]
      PROVE  OnceFor(m)'
  BY <1>t, <1>o, Untouched DEF Handles
<1>1. ASSUME NEW w \in Workers, NEW i \in Ids, StartWorker(w, i)
      PROVE  OnceFor(m)'
  <2> USE <1>1, <1>t DEF StartWorker, Start, rowVars, entryVars, QueueTypeOK,
         OutboundTypeOK, BusyOK
  <2>1. UNCHANGED << message, attempt, line, requests >>
    OBVIOUS
  <2>2. LiveRows(m)' = LiveRows(m)
    BY DEF LiveRows, RowsOf
  <2>3. \A v \in Workers \ {w} :
          cur'[v] = cur[v] /\ at'[v] = at[v] /\ tries'[v] = tries[v]
    OBVIOUS
  <2>4. at'[w] \in {"next", "giveup"} => ~Handles(w, m)'
    BY DEF Handles, OffOK
  <2>5. Handles(w, m) => /\ at[w] \notin {"complete", "fail"}
                         /\ at[w] = "request" => tries[w] = 0
    BY DEF Handles, OffOK
  <2>6. delivery'[m] = "failed" => delivery[m] = "failed"
    OBVIOUS
  <2> QED
    BY <2>1, <2>2, <2>3, <2>4, <2>5, <2>6, <1>u
<1>2. ASSUME NEW w \in Workers, NEW S \in SUBSET Rows, Poll(w, S)
      PROVE  OnceFor(m)'
  <2> USE <1>2, <1>t DEF Poll, ClaimNextOutbound, Claim, Pending, entryVars,
         QueueTypeOK, OutboundTypeOK, BusyOK
  <2>1. UNCHANGED << message, attempt, line, requests >>
    OBVIOUS
  <2>2. LiveRows(m)' = LiveRows(m)
    BY DEF LiveRows, RowsOf
  <2>3. \A v \in Workers \ {w} :
          cur'[v] = cur[v] /\ at'[v] = at[v] /\ tries'[v] = tries[v]
    OBVIOUS
  <2>4. at'[w] \in {"next", "giveup"} => ~Handles(w, m)'
    BY DEF Handles, OffOK
  <2>5. Handles(w, m) => /\ at[w] \notin {"complete", "fail"}
                         /\ at[w] = "request" => tries[w] = 0
    BY DEF Handles, OffOK
  <2>6. delivery'[m] = "failed" => delivery[m] = "failed"
    OBVIOUS
  <2> QED
    BY <2>1, <2>2, <2>3, <2>4, <2>5, <2>6, <1>u
<1>3. ASSUME NEW w \in Workers, NEW ok \in BOOLEAN, ReadClaims(w, ok)
      PROVE  OnceFor(m)'
  <2> USE <1>3, <1>t DEF ReadClaims, ReadBack, EndBatch, rowVars, entryVars,
         QueueTypeOK, OutboundTypeOK, BusyOK
  <2>1. UNCHANGED << message, attempt, line, requests >>
    OBVIOUS
  <2>2. LiveRows(m)' = LiveRows(m)
    BY DEF LiveRows, RowsOf
  <2>3. \A v \in Workers \ {w} :
          cur'[v] = cur[v] /\ at'[v] = at[v] /\ tries'[v] = tries[v]
    OBVIOUS
  <2>4. at'[w] \in {"next", "giveup"} => ~Handles(w, m)'
    BY DEF Handles, OffOK
  <2>5. Handles(w, m) => /\ at[w] \notin {"complete", "fail"}
                         /\ at[w] = "request" => tries[w] = 0
    BY DEF Handles, OffOK
  <2>6. delivery'[m] = "failed" => delivery[m] = "failed"
    OBVIOUS
  <2> QED
    BY <2>1, <2>2, <2>3, <2>4, <2>5, <2>6, <1>u
<1>4. ASSUME NEW w \in Workers, NEW r \in Rows, Take(w, r) PROVE OnceFor(m)'
  <2> USE <1>4, <1>t DEF Take, TakeUp, Go, rowVars, QueueTypeOK, OutboundTypeOK,
         BusyOK
  <2>1. UNCHANGED << message, attempt, line, requests >>
    OBVIOUS
  <2>2. LiveRows(m)' = LiveRows(m)
    BY DEF LiveRows, RowsOf
  <2>3. \A v \in Workers \ {w} :
          cur'[v] = cur[v] /\ at'[v] = at[v] /\ tries'[v] = tries[v]
    OBVIOUS
  <2>4. at'[w] \in {"next", "giveup"} => ~Handles(w, m)'
    BY DEF Handles, OffOK
  <2>5. Handles(w, m) => /\ at[w] \notin {"complete", "fail"}
                         /\ at[w] = "request" => tries[w] = 0
    BY DEF Handles, OffOK
  <2>6. delivery'[m] = "failed" => delivery[m] = "failed"
    OBVIOUS
  <2> QED
    BY <2>1, <2>2, <2>3, <2>4, <2>5, <2>6, <1>u
<1>5. ASSUME NEW w \in Workers, NEW ok \in BOOLEAN, Fetch(w, ok)
      PROVE  OnceFor(m)'
  <2> USE <1>5, <1>t DEF Fetch, Go, queueVars, rowVars, workerVars, QueueTypeOK,
         OutboundTypeOK, BusyOK
  <2>1. UNCHANGED << message, attempt, line, requests >>
    OBVIOUS
  <2>2. LiveRows(m)' = LiveRows(m)
    BY DEF LiveRows, RowsOf
  <2>3. \A v \in Workers \ {w} :
          cur'[v] = cur[v] /\ at'[v] = at[v] /\ tries'[v] = tries[v]
    OBVIOUS
  <2>4. at'[w] \notin {"next", "giveup"}
    <3>1. CASE ~ok
      BY <3>1
    <3>2. CASE ok
      <4>1. attempt[cur[w]] >= MaxAttempts \/ attempt[cur[w]] < MaxAttempts
        BY OutboundAssumption
      <4> QED
        BY <3>2, <4>1
    <3> QED
      BY <3>1, <3>2
  <2>5. Handles(w, m) => /\ at[w] \notin {"complete", "fail"}
                         /\ at[w] = "request" => tries[w] = 0
    BY DEF Handles, OffOK
  <2>6. delivery'[m] = "failed" => delivery[m] = "failed"
    OBVIOUS
  <2> QED
    BY <2>1, <2>2, <2>3, <2>4, <2>5, <2>6, <1>u
<1>6. ASSUME NEW w \in Workers, NEW ok \in BOOLEAN, Mark(w, ok)
      PROVE  OnceFor(m)'
  <2> USE <1>6, <1>t DEF Mark, UpdateDeliveryStatus, Go, queueVars, rowVars,
         workerVars, QueueTypeOK, OutboundTypeOK, BusyOK
  <2>1. UNCHANGED << message, attempt, line, requests >>
    OBVIOUS
  <2>2. LiveRows(m)' = LiveRows(m)
    BY DEF LiveRows, RowsOf
  <2>3. \A v \in Workers \ {w} :
          cur'[v] = cur[v] /\ at'[v] = at[v] /\ tries'[v] = tries[v]
    OBVIOUS
  <2>4. at'[w] \in {"next", "giveup"} => ~Handles(w, m)'
    BY DEF Handles, OffOK
  <2>5. Handles(w, m) => /\ at[w] \notin {"complete", "fail"}
                         /\ at[w] = "request" => tries[w] = 0
    BY DEF Handles, OffOK
  <2>6. delivery'[m] = "failed" => delivery[m] = "failed"
    OBVIOUS
  <2> QED
    BY <2>1, <2>2, <2>3, <2>4, <2>5, <2>6, <1>u
<1>7. ASSUME NEW w \in Workers, Return(w) PROVE OnceFor(m)'
  <2> USE <1>7, <1>t DEF Return, PutDown, Go, rowVars, QueueTypeOK,
         OutboundTypeOK, BusyOK
  <2>1. UNCHANGED << message, attempt, line, requests >>
    OBVIOUS
  <2>2. LiveRows(m)' = LiveRows(m)
    BY DEF LiveRows, RowsOf
  <2>3. \A v \in Workers \ {w} :
          cur'[v] = cur[v] /\ at'[v] = at[v] /\ tries'[v] = tries[v]
    OBVIOUS
  <2>4. at'[w] \in {"next", "giveup"} => ~Handles(w, m)'
    BY DEF Handles, OffOK
  <2>5. Handles(w, m) => /\ at[w] \notin {"complete", "fail"}
                         /\ at[w] = "request" => tries[w] = 0
    BY DEF Handles, OffOK
  <2>6. delivery'[m] = "failed" => delivery[m] = "failed"
    OBVIOUS
  <2> QED
    BY <2>1, <2>2, <2>3, <2>4, <2>5, <2>6, <1>u
<1>8. ASSUME NEW w \in Workers, FinishBatch(w) PROVE OnceFor(m)'
  <2> USE <1>8, <1>t DEF FinishBatch, EndBatch, rowVars, entryVars, QueueTypeOK,
         OutboundTypeOK, BusyOK
  <2>1. UNCHANGED << message, attempt, line, requests >>
    OBVIOUS
  <2>2. LiveRows(m)' = LiveRows(m)
    BY DEF LiveRows, RowsOf
  <2>3. \A v \in Workers \ {w} :
          cur'[v] = cur[v] /\ at'[v] = at[v] /\ tries'[v] = tries[v]
    OBVIOUS
  <2>4. at'[w] \in {"next", "giveup"} => ~Handles(w, m)'
    BY DEF Handles, OffOK
  <2>5. Handles(w, m) => /\ at[w] \notin {"complete", "fail"}
                         /\ at[w] = "request" => tries[w] = 0
    BY DEF Handles, OffOK
  <2>6. delivery'[m] = "failed" => delivery[m] = "failed"
    OBVIOUS
  <2> QED
    BY <2>1, <2>2, <2>3, <2>4, <2>5, <2>6, <1>u
<1>9. ASSUME NEW w \in Workers, StopWorker(w) PROVE OnceFor(m)'
  <2> USE <1>9, <1>t DEF StopWorker, Stop, Note, Go, rowVars, QueueTypeOK,
         OutboundTypeOK, BusyOK
  <2>1. UNCHANGED << message, attempt, line, requests >>
    OBVIOUS
  <2>2. LiveRows(m)' = LiveRows(m)
    BY DEF LiveRows, RowsOf
  <2>3. \A v \in Workers \ {w} :
          cur'[v] = cur[v] /\ at'[v] = at[v] /\ tries'[v] = tries[v]
    OBVIOUS
  <2>4. at'[w] \in {"next", "giveup"} => ~Handles(w, m)'
    BY DEF Handles, OffOK
  <2>5. Handles(w, m) => /\ at[w] \notin {"complete", "fail"}
                         /\ at[w] = "request" => tries[w] = 0
    BY DEF Handles, OffOK
  <2>6. delivery'[m] = "failed" => delivery[m] = "failed"
    OBVIOUS
  <2> QED
    BY <2>1, <2>2, <2>3, <2>4, <2>5, <2>6, <1>u
<1>10. ASSUME NEW w \in Workers, NEW ok \in BOOLEAN, Exhausted(w, ok)
       PROVE  OnceFor(m)'
  <2>1. /\ at[w] = "exhausted" /\ at' = [at EXCEPT ![w] = "giveup"]
        /\ UNCHANGED << message, attempt, delivery, tries, line, requests, cur >>
        /\ ok => status' = [status EXCEPT ![cur[w]] = "failed"]
        /\ ~ok => UNCHANGED status
    BY <1>10 DEF Exhausted, CompleteOutbound, Settle, Go, queueVars, rowVars,
       workerVars
  <2>2. cur[w] \in Rows
    BY <2>1, <1>t DEF BusyOK
  <2>3. at'[w] = "giveup" /\ \A v \in Workers \ {w} : at'[v] = at[v]
    BY <2>1, <1>t DEF OutboundTypeOK
  <2>4. CASE Handles(w, m)
    <3>2. LiveRows(m) = {cur[w]}
      BY <2>1, <2>4, InHandAlone DEF Holding
    <3>3. LiveRows(m)' = {} \/ LiveRows(m)' = LiveRows(m)
      BY <2>1, <2>2, <3>2, <1>t DEF LiveRows, RowsOf, QueueTypeOK
    <3> QED
      BY <2>1, <2>3, <2>4, <3>3, Settled
  <2>5. CASE ~Handles(w, m)
    <3>1. LiveRows(m)' = LiveRows(m)
      BY <2>1, <2>2, <2>5, <1>t DEF LiveRows, RowsOf, Handles, QueueTypeOK
    <3>2. \A v \in Workers \ {w} : at'[v] = at[v] /\ tries'[v] = tries[v]
      BY <2>1, <1>t DEF OutboundTypeOK
    <3> QED
      BY <2>1, <2>5, <3>1, <3>2, <1>o
  <2> QED
    BY <2>4, <2>5
<1>11. ASSUME NEW w \in Workers, NEW ok \in BOOLEAN, Complete(w, ok)
       PROVE  OnceFor(m)'
  <2>1. /\ at[w] = "complete" /\ at' = [at EXCEPT ![w] = "mark"]
        /\ UNCHANGED << message, attempt, delivery, tries, line, requests, cur >>
        /\ ok => status' = [status EXCEPT ![cur[w]] = "completed"]
        /\ ~ok => UNCHANGED status
    BY <1>11 DEF Complete, CompleteOutbound, Settle, Go, queueVars, rowVars,
       workerVars
  <2>2. cur[w] \in Rows
    BY <2>1, <1>t DEF BusyOK
  <2>3. at'[w] = "mark" /\ \A v \in Workers \ {w} : at'[v] = at[v]
    BY <2>1, <1>t DEF OutboundTypeOK
  <2>4. CASE Handles(w, m)
    <3>1. ok
      BY <1>11, <2>4 DEF Complete, Note, Handles
    <3>2. LiveRows(m) = {cur[w]}
      BY <2>1, <2>4, InHandAlone DEF Holding
    <3>3. LiveRows(m)' = {}
      BY <2>1, <2>2, <3>1, <3>2, <1>t DEF LiveRows, RowsOf, QueueTypeOK
    <3> QED
      BY <2>1, <2>3, <2>4, <3>3, Settled
  <2>5. CASE ~Handles(w, m)
    <3>1. LiveRows(m)' = LiveRows(m)
      BY <2>1, <2>2, <2>5, <1>t DEF LiveRows, RowsOf, Handles, QueueTypeOK
    <3>2. \A v \in Workers \ {w} : at'[v] = at[v] /\ tries'[v] = tries[v]
      BY <2>1, <1>t DEF OutboundTypeOK
    <3> QED
      BY <2>1, <2>5, <3>1, <3>2, <1>o
  <2> QED
    BY <2>4, <2>5
<1>12. ASSUME NEW w \in Workers, NEW ok \in BOOLEAN, Fail(w, ok)
       PROVE  OnceFor(m)'
  <2>1. /\ at[w] = "fail" /\ at' = [at EXCEPT ![w] = "next"]
        /\ UNCHANGED << message, attempt, delivery, tries, line, requests, cur >>
        /\ ok => status' = [status EXCEPT ![cur[w]] = "failed"]
        /\ ~ok => UNCHANGED status
    BY <1>12 DEF Fail, CompleteOutbound, Settle, Go, queueVars, rowVars,
       workerVars
  <2>2. cur[w] \in Rows
    BY <2>1, <1>t DEF BusyOK
  <2>3. at'[w] = "next" /\ \A v \in Workers \ {w} : at'[v] = at[v]
    BY <2>1, <1>t DEF OutboundTypeOK
  <2>4. CASE Handles(w, m)
    <3>1. ok
      BY <1>12, <2>4 DEF Fail, Note, Handles
    <3>2. LiveRows(m) = {cur[w]}
      BY <2>1, <2>4, InHandAlone DEF Holding
    <3>3. LiveRows(m)' = {}
      BY <2>1, <2>2, <3>1, <3>2, <1>t DEF LiveRows, RowsOf, QueueTypeOK
    <3> QED
      BY <2>1, <2>3, <2>4, <3>3, Settled
  <2>5. CASE ~Handles(w, m)
    <3>1. LiveRows(m)' = LiveRows(m)
      BY <2>1, <2>2, <2>5, <1>t DEF LiveRows, RowsOf, Handles, QueueTypeOK
    <3>2. \A v \in Workers \ {w} : at'[v] = at[v] /\ tries'[v] = tries[v]
      BY <2>1, <1>t DEF OutboundTypeOK
    <3> QED
      BY <2>1, <2>5, <3>1, <3>2, <1>o
  <2> QED
    BY <2>4, <2>5
<1>13. ASSUME NEW w \in Workers, NEW a \in Answers, Request(w, a)
       PROVE  OnceFor(m)'
  <2>1. /\ UNCHANGED << message, status, attempt, cur, delivery >>
        /\ cur[w] \in Rows
        /\ \A v \in Workers \ {w} : at'[v] = at[v] /\ tries'[v] = tries[v]
    BY <1>13, <1>t DEF Request, Go, queueVars, rowVars, workerVars, BusyOK,
       OutboundTypeOK
  <2>2. ASSUME ~Handles(w, m)
        PROVE  line'[m] = line[m] /\ requests'[m] = requests[m]
    BY <1>13, <1>t, <2>1, <2>2
    DEF Request, LineAnswers, Count, Handles, OutboundTypeOK
  <2>3. LiveRows(m)' = LiveRows(m)
    BY <2>1 DEF LiveRows, RowsOf
  <2>4. ASSUME ~Handles(w, m) PROVE OnceFor(m)'
    BY <2>1, <2>2, <2>3, <2>4, <1>o
  <2> QED
    BY <1>13, <2>4, Requested
<1>14. ASSUME NEW w \in Workers, NEW ok \in BOOLEAN, Requeue(w, ok)
       PROVE  OnceFor(m)'
  <2>1. /\ at[w] = "next" /\ at' = [at EXCEPT ![w] = "over"]
        /\ UNCHANGED << cur, delivery, tries, line, requests >>
        /\ \A r \in Rows : status[r] # "none" => attempt'[r] = attempt[r]
    BY <1>14 DEF Requeue, EnqueueOutbound, Enqueue, Go, queueVars, workerVars
  <2>2. /\ cur[w] \in Rows
        /\ \A v \in Workers : cur[v] \in Rows => status[cur[v]] # "none"
    BY <2>1, <1>t DEF BusyOK, HeldOK, Held
  <2>3. \/ UNCHANGED << message, status >>
        \/ \E r \in Rows : /\ status[r] = "none"
                           /\ message' = [message EXCEPT ![r] = message[cur[w]]]
                           /\ status' = [status EXCEPT ![r] = "pending"]
    BY <1>14, EnqueuedRow DEF Requeue, EnqueueOutbound, queueVars, rowVars
  <2>4. \A r \in Rows : status[r] # "none" =>
          message'[r] = message[r] /\ status'[r] = status[r]
    BY <2>3, <1>t DEF QueueTypeOK
  <2>5. ASSUME ~Handles(w, m) PROVE OnceFor(m)'
    <3>1. message[cur[w]] # m
      BY <2>2, <2>5 DEF Handles
    <3>2. LiveRows(m)' = LiveRows(m)
      BY <2>3, <3>1, <1>t DEF LiveRows, RowsOf, QueueTypeOK
    <3>3. \A r \in LiveRows(m) : attempt'[r] = attempt[r]
      BY <2>1 DEF LiveRows, RowsOf
    <3>4. \A v \in Workers \ {w} : at'[v] = at[v] /\ tries'[v] = tries[v]
      BY <2>1, <1>t DEF OutboundTypeOK
    <3> QED
      BY <2>1, <2>2, <2>4, <2>5, <3>2, <3>3, <3>4, <1>o
  <2> QED
    BY <1>14, <2>5, Requeued
<1>15. ASSUME NEW w \in Workers, NEW ok \in BOOLEAN, GiveUp(w, ok)
       PROVE  OnceFor(m)'
  <2>1. /\ at[w] \in {"next", "giveup"} /\ at' = [at EXCEPT ![w] = "over"]
        /\ UNCHANGED << message, status, attempt, cur, tries, line, requests >>
        /\ delivery'[m] = delivery[m] \/ message[cur[w]] = m
        /\ cur[w] \in Rows
    BY <1>15, <1>t DEF GiveUp, UpdateDeliveryStatus, Go, queueVars, rowVars,
       workerVars, BusyOK, OutboundTypeOK
  <2>2. LiveRows(m)' = LiveRows(m)
    BY <2>1 DEF LiveRows, RowsOf
  <2>3. at'[w] = "over" /\ \A v \in Workers \ {w} : at'[v] = at[v]
    BY <2>1, <1>t DEF OutboundTypeOK
  <2>4. \A v \in Workers : Handles(v, m)' = Handles(v, m)
    BY <2>1 DEF Handles
  <2>5. ASSUME Handles(w, m) PROVE Dead(m)'
    BY <2>1, <2>2, <2>3, <2>4, <2>5
    DEF OnceFor, Between, GivenUp, Dead
  <2>6. delivery'[m] = "failed" => delivery[m] = "failed" \/ Dead(m)'
    BY <2>1, <2>5 DEF Handles
  <2> QED
    BY <2>1, <2>2, <2>3, <2>6, <1>u
<1>16. ASSUME UNCHANGED vars PROVE OnceFor(m)'
  BY <1>16 DEF vars, queueVars, rowVars, workerVars, entryVars, OnceFor,
     OneLive,
     Spent, Underway, Cost, Budget, Between, GivenUp, Dead, Acknowledged, LiveRows,
     RowsOf, Handles
<1> QED
  BY <1>1, <1>2, <1>3, <1>4, <1>5, <1>6, <1>7, <1>8, <1>9, <1>10, <1>11,
     <1>12, <1>13, <1>14, <1>15, <1>16
  DEF Next, Run, ProcessEntry

\* Nobody has done anything at the start.
LEMMA OnceInit == Init => OnceInv
<1> SUFFICES ASSUME Init PROVE OnceInv
  OBVIOUS
<1> USE QueueAssumption, OutboundAssumption, BudgetNat DEF Init, QueueInit
<1>1. ApartInv /\ LocksHeld /\ InLimit
  BY ApartInit DEF LocksHeld, Holding, InLimit
<1>2. ASSUME NEW m \in Msgs PROVE OnceFor(m)
  <2>1. LiveRows(m) = {m}
    BY DEF LiveRows, RowsOf
  <2>2. Cost(attempt[m]) \in Nat
    BY CostFacts
  <2>3. OneLive(m) /\ Spent(m)
    BY <2>1, <2>2 DEF OneLive, Spent
  <2>4. Between(m) /\ GivenUp(m) /\ Acknowledged(m)
    BY DEF Between, GivenUp, Acknowledged
  <2> QED
    BY <2>3, <2>4 DEF OnceFor
<1> QED
  BY <1>1, <1>2 DEF OnceInv

\* The history variables only grow.
LEMMA HistoryGrows ==
  [Next]_vars => (shared => shared') /\ repeated \subseteq repeated'
<1> SUFFICES ASSUME [Next]_vars
             PROVE  (shared => shared') /\ repeated \subseteq repeated'
  OBVIOUS
<1>1. ASSUME NEW w \in Workers, NEW i \in Ids, StartWorker(w, i)
      PROVE  (shared => shared') /\ repeated \subseteq repeated'
  BY <1>1 DEF StartWorker, Start, entryVars
<1>2. ASSUME NEW w \in Workers, Run(w)
      PROVE  (shared => shared') /\ repeated \subseteq repeated'
  <2> USE DEF entryVars, queueVars, rowVars, workerVars
  <2>1. ASSUME NEW S \in SUBSET Rows, Poll(w, S)
        PROVE  UNCHANGED << shared, repeated >>
    BY <2>1 DEF Poll, ClaimNextOutbound, Claim
  <2>2. ASSUME NEW ok \in BOOLEAN, ReadClaims(w, ok)
        PROVE  UNCHANGED << shared, repeated >>
    BY <2>2 DEF ReadClaims, ReadBack, EndBatch
  <2>3. ASSUME NEW r \in Rows, Take(w, r) PROVE UNCHANGED << shared, repeated >>
    BY <2>3 DEF Take, TakeUp
  <2>4. ASSUME NEW a \in Answers, Request(w, a)
        PROVE  UNCHANGED << shared, repeated >>
    BY <2>4 DEF Request
  <2>5. ASSUME NEW ok \in BOOLEAN, Fetch(w, ok) \/ Mark(w, ok) \/ GiveUp(w, ok)
        PROVE  UNCHANGED << shared, repeated >>
    BY <2>5 DEF Fetch, Mark, GiveUp
  <2>6. ASSUME NEW ok \in BOOLEAN,
               Exhausted(w, ok) \/ Complete(w, ok) \/ Fail(w, ok)
        PROVE  UNCHANGED shared /\ repeated \subseteq repeated'
    BY <2>6 DEF Exhausted, Complete, Fail, CompleteOutbound, Settle, Note
  <2>7. ASSUME NEW ok \in BOOLEAN, Requeue(w, ok)
        PROVE  UNCHANGED << shared, repeated >>
    BY <2>7 DEF Requeue, EnqueueOutbound, Enqueue
  <2>8. ASSUME Return(w) \/ FinishBatch(w)
        PROVE  UNCHANGED << shared, repeated >>
    BY <2>8 DEF Return, PutDown, FinishBatch, EndBatch
  <2> QED
    BY <1>2, <2>1, <2>2, <2>3, <2>4, <2>5, <2>6, <2>7, <2>8 DEF Run,
       ProcessEntry
<1>3. ASSUME NEW w \in Workers, StopWorker(w)
      PROVE  (shared => shared') /\ repeated \subseteq repeated'
  BY <1>3 DEF StopWorker, Stop, Note
<1>4. CASE UNCHANGED vars
  BY <1>4 DEF vars, queueVars, workerVars, entryVars
<1> QED
  BY <1>1, <1>2, <1>3, <1>4 DEF Next

\* A message costs more than its attempts allow, or is given up after LINE
\* acknowledged it, only where an entry stayed claimed after its requests or two
\* workers ran under one id: for any limit, attempts, rows and workers.
THEOREM RepeatsHaveCauseInvariant == Spec => []RepeatsHaveCause
<1>1. QueueInv /\ EntryInv /\ OnceInv /\ [Next]_vars => OnceInv'
  <2> SUFFICES ASSUME QueueInv, EntryInv, OnceInv, [Next]_vars PROVE OnceInv'
    OBVIOUS
  <2>1. ApartInv'
    BY ApartStep, ClaimStep DEF OnceInv, QueueInv
  <2>2. ASSUME ~shared'
        PROVE  /\ LocksHeld' /\ InLimit'
               /\ \A m \in Msgs \ repeated' : OnceFor(m)'
    <3>1. /\ IdsApart /\ LocksHeld /\ InLimit
          /\ \A w \in Workers : TodoLocked(w)
          /\ \A m \in Msgs \ repeated : OnceFor(m)
      BY <2>2, HistoryGrows DEF OnceInv, ApartInv
    <3>2. \A m \in Msgs \ repeated' : OnceFor(m)'
      BY <3>1, HistoryGrows, OnceStep
    <3> QED
      BY <3>1, <3>2, HandsStep
  <2> QED
    BY <2>1, <2>2 DEF OnceInv
<1>2. EntryInv /\ OnceInv => RepeatsHaveCause
  <2> SUFFICES ASSUME EntryInv, OnceInv, ~shared, NEW m \in Msgs \ repeated
               PROVE  /\ ~(requests[m] > Budget)
                      /\ ~(delivery[m] = "failed" /\ line[m] = "acked")
    BY DEF RepeatsHaveCause
  <2>1. requests[m] <= Budget /\ (delivery[m] = "failed" => line[m] # "acked")
    BY DEF OnceInv, OnceFor, Spent, GivenUp, Dead
  <2>2. requests[m] \in Nat
    BY BudgetNat DEF EntryInv, OutboundTypeOK
  <2> QED
    BY <2>1, <2>2, BudgetNat
<1> QED
  BY <1>1, <1>2, OnceInit, EntryInvariant, OutboundQueueInvariant, PTL DEF Spec
=============================================================================
