------------------------- MODULE InboundQueueProofs -------------------------
(***************************************************************************)
(* Proofs about InboundQueue, for any numbers of messages, rows, workers    *)
(* and ids: it implements ClaimQueue; it forgets a message, or marks it as   *)
(* delivered, that has not reached a client only when the broadcast of it   *)
(* was answered by Ok; it gives a message to clients twice only by the      *)
(* causes the code has for it.                                              *)
(***************************************************************************)
EXTENDS InboundQueue, ClaimQueueProofs

\* Every step is one that the claim protocol allows, or leaves the table and
\* the workers alone.
LEMMA ClaimStep == QueueTypeOK /\ [Next]_vars => [QueueNext]_queueVars
<1> SUFFICES ASSUME QueueTypeOK, [Next]_vars PROVE [QueueNext]_queueVars
  OBVIOUS
<1>1. ASSUME NEW m \in Msgs, TimePasses(m) PROVE UNCHANGED queueVars
  BY <1>1 DEF TimePasses
<1>i. \A w \in Workers : IdsOf[w] \subseteq Ids
  BY InboundAssumption
<1>2. ASSUME NEW w \in Workers, NEW i \in IdsOf[w], StartWorker(w, i)
      PROVE  WorkerStep(w)
  BY <1>2, <1>i DEF StartWorker, WorkerStep
<1>3. ASSUME NEW w \in Workers, Poll(w) PROVE WorkerStep(w)
  <2>1. Oldest({r \in Pending : message[r] \notin past}, Limit) \in SUBSET Rows
    BY DEF Oldest, Pending
  <2> QED
    BY <1>3, <2>1 DEF Poll, ClaimNextInbound, WorkerStep
<1>4. ASSUME NEW w \in Workers, NEW ok \in BOOLEAN, ReadClaims(w, ok)
      PROVE  WorkerStep(w)
  BY <1>4 DEF ReadClaims, WorkerStep
<1>5. ASSUME NEW w \in Workers, ProcessEntry(w)
      PROVE  WorkerStep(w) \/ UNCHANGED queueVars
  <2>1. ASSUME TakeOldest(w) PROVE WorkerStep(w)
    <3>1. PICK r \in Oldest(todo[w], 1) : TakeUp(w, r)
      BY <2>1 DEF TakeOldest
    <3>2. r \in Rows
      BY DEF Oldest, QueueTypeOK
    <3> QED
      BY <3>1, <3>2 DEF WorkerStep
  <2>2. ASSUME NEW ok \in BOOLEAN, ConsumeExpired(w, ok)
        PROVE  WorkerStep(w) \/ UNCHANGED queueVars
    BY <2>2 DEF ConsumeExpired, CompleteInbound, WorkerStep, Final
  <2>3. ASSUME NEW ok \in BOOLEAN, Fetch(w, ok) PROVE UNCHANGED queueVars
    BY <2>3 DEF Fetch
  <2>4. ASSUME NEW given \in BOOLEAN,
             NEW ok \in BOOLEAN, Send(w, given, ok) PROVE UNCHANGED queueVars
    BY <2>4 DEF Send
  <2>5. ASSUME NEW ok \in BOOLEAN, Complete(w, ok)
        PROVE  WorkerStep(w) \/ UNCHANGED queueVars
    BY <2>5 DEF Complete, CompleteInbound, WorkerStep, Final
  <2>6. ASSUME NEW ok \in BOOLEAN, MarkDelivered(w, ok) PROVE WorkerStep(w)
    BY <2>6 DEF MarkDelivered, UpdateDeliveryStatus, WorkerStep
  <2>7. ASSUME NEW ok \in BOOLEAN, Requeue(w, ok)
        PROVE  WorkerStep(w) \/ UNCHANGED queueVars
    BY <2>7 DEF Requeue, EnqueueInbound, WorkerStep
  <2>8. ASSUME Return(w) PROVE WorkerStep(w)
    BY <2>8 DEF Return, WorkerStep
  <2> QED
    BY <1>5, <2>1, <2>2, <2>3, <2>4, <2>5, <2>6, <2>7, <2>8 DEF ProcessEntry
<1>6. ASSUME NEW w \in Workers, FinishBatch(w) \/ Tick(w) \/ StopWorker(w)
      PROVE  WorkerStep(w)
  BY <1>6 DEF FinishBatch, Tick, StopWorker, WorkerStep
<1>7. ASSUME NEW w \in Workers, NEW ok \in BOOLEAN, CleanUp(w, ok)
      PROVE  QueueNext \/ UNCHANGED queueVars
  <2>1. {r \in Pending : message[r] \in past} \in SUBSET Rows
    BY DEF Pending
  <2> QED
    BY <1>7, <2>1 DEF CleanUp, CleanupExpiredInbound, QueueNext
<1>8. CASE UNCHANGED vars
  BY <1>8 DEF vars
<1> QED
  BY <1>1, <1>2, <1>3, <1>4, <1>5, <1>6, <1>7, <1>8
  DEF Next, Run, QueueNext

\* The claim protocol's invariant holds of the worker.
THEOREM InboundQueueInvariant == Spec => []QueueInv
<1>1. Init => QueueInv
  BY QueueInitInv DEF Init
<1>2. QueueInv /\ [Next]_vars => QueueInv'
  BY ClaimStep, QueueStepInv DEF QueueInv
<1> QED
  BY <1>1, <1>2, PTL DEF Spec

\* The inbound worker implements the claim protocol: what it does to the table
\* and to its batch is a step of ClaimQueue or none.
THEOREM InboundImplementsClaimQueue == Spec => ImplementsClaimQueue
<1>1. Init => QueueInit
  BY DEF Init
<1>2. QueueInv => QueueTypeOK
  BY DEF QueueInv
<1> QED
  BY <1>1, <1>2, ClaimStep, InboundQueueInvariant, PTL
  DEF Spec, QueueSpec, ImplementsClaimQueue

\* No entry is worked on by two inbound workers of different ids.
THEOREM InboundSameEntry == Spec => []SameEntrySameId
<1>1. QueueInv => SameEntrySameId
  BY DEF QueueInv
<1> QED
  BY <1>1, InboundQueueInvariant, PTL

-----------------------------------------------------------------------------

\* A row that is in use has a message.
MessageOK == \A r \in Rows : status[r] # "none" => message[r] \in Msgs

\* A worker in process_entry is in a batch and has an entry in hand, and only
\* then.
BusyOK ==
  \A w \in Workers :
    IF at[w] \in {"none", "cleanup"} THEN cur[w] = NoRow
    ELSE phase[w] = "work" /\ cur[w] \in Rows

\* What a worker is about to write is true.
PlaceOK ==
  \A w \in Workers :
    /\ at[w] = "expire" => message[cur[w]] \in past
    /\ at[w] \in {"complete", "mark"} => message[cur[w]] \in reached \cup missed

EntryInv ==
  /\ InboundTypeOK
  /\ MessageOK
  /\ BusyOK
  /\ PlaceOK
  /\ NotForgotten
  /\ DeliveredHasCause

\* The history a delivery that reached a client adds to keeps its types.
LEMMA ReachHistory ==
  ASSUME QueueInv, EntryInv, NEW w \in Workers, at[w] \in {"send", "complete"},
         NEW known, Reach(w, known)
  PROVE  /\ cur[w] \in Rows
         /\ reached \subseteq reached' /\ reached' \subseteq Msgs
         /\ sends' \in [Rows -> 0..2]
         /\ doubtful \subseteq doubtful' /\ doubtful' \subseteq Rows
<1>1. InboundTypeOK /\ cur[w] \in Rows
  BY DEF EntryInv, BusyOK
<1>2. message[cur[w]] \in Msgs
  BY <1>1, QueueAssumption DEF QueueInv, EntryInv, HeldOK, Held, MessageOK
<1>3. sends[cur[w]] \in 0..2
  BY <1>1 DEF InboundTypeOK
<1>4. reached \subseteq reached' /\ reached' \subseteq Msgs
  BY <1>1, <1>2 DEF Reach, InboundTypeOK
<1>5. sends' \in [Rows -> 0..2]
  BY <1>1, <1>3 DEF Reach, InboundTypeOK
<1>6. doubtful \subseteq doubtful' /\ doubtful' \subseteq Rows
  BY <1>1 DEF Reach, InboundTypeOK
<1> QED
  BY <1>1, <1>4, <1>5, <1>6

\* So does the history of an entry that is dropped at an await.
LEMMA DroppedHistory ==
  ASSUME QueueInv, EntryInv, NEW w \in Workers, Dropped(w)
  PROVE  /\ UNCHANGED << past, delivery, failed >>
         /\ reached \subseteq reached' /\ reached' \subseteq Msgs
         /\ missed' \subseteq Msgs
         /\ reached \cup missed \subseteq reached' \cup missed'
         /\ sends' \in [Rows -> 0..2]
         /\ doubtful \subseteq doubtful' /\ doubtful' \subseteq Rows
<1>1. /\ reached \subseteq reached' /\ reached' \subseteq Msgs
      /\ sends' \in [Rows -> 0..2]
      /\ doubtful \subseteq doubtful' /\ doubtful' \subseteq Rows
  <2>1. CASE at[w] = "send" /\ Reach(w, FALSE)
    BY <2>1, ReachHistory
  <2>2. CASE ~(at[w] = "send" /\ Reach(w, FALSE))
    <3>1. UNCHANGED << reached, sends >>
      BY <2>2 DEF Dropped
    <3>2. InboundTypeOK /\ (at[w] = "complete" => cur[w] \in Rows)
      BY DEF EntryInv, BusyOK
    <3>3. doubtful \subseteq doubtful' /\ doubtful' \subseteq Rows
      BY <2>2, <3>2 DEF Dropped, Doubt, InboundTypeOK
    <3> QED
      BY <3>1, <3>2, <3>3 DEF InboundTypeOK
  <2> QED
    BY <2>1, <2>2
<1>2. /\ UNCHANGED << past, delivery, failed >>
      /\ missed' = missed \ reached'
  BY DEF Dropped
<1>3. missed' \subseteq Msgs
  BY <1>2 DEF EntryInv, InboundTypeOK
<1> QED
  BY <1>1, <1>2, <1>3

\* What each step does to the rows that keep a message in the queue.
LEMMA EntryStep == QueueInv /\ EntryInv /\ [Next]_vars => EntryInv'
<1> SUFFICES ASSUME QueueInv, EntryInv, [Next]_vars PROVE EntryInv'
  OBVIOUS
<1>t. QueueTypeOK
  BY DEF QueueInv
<1>e. InboundTypeOK /\ MessageOK /\ BusyOK /\ PlaceOK /\ NotForgotten
        /\ DeliveredHasCause
  BY DEF EntryInv
<1>m. \A w \in Workers : cur[w] \in Rows =>
        status[cur[w]] # "none" /\ message[cur[w]] \in Msgs
  BY <1>e DEF QueueInv, HeldOK, Held, MessageOK
<1> USE QueueAssumption
<1> DEFINE Types == InboundTypeOK' /\ MessageOK'
           Place == BusyOK' /\ PlaceOK'
           Fate  == NotForgotten' /\ DeliveredHasCause'
<1>1. ASSUME NEW m \in Msgs, TimePasses(m)
      PROVE  Types /\ Place /\ Fate
  <2> USE <1>1, <1>t, <1>e DEF TimePasses, queueVars, rowVars, workerVars,
         entryVars, history
  <2>1. Types
    BY DEF InboundTypeOK, MessageOK, BusyOK, PlaceOK, QueueTypeOK
  <2>2. Place
    BY DEF InboundTypeOK, BusyOK, PlaceOK, QueueTypeOK
  <2>3. Fate
    BY DEF InboundTypeOK, MessageOK, BusyOK, PlaceOK, NotForgotten,
           DeliveredHasCause, Live, RowsOf, QueueTypeOK
  <2> QED
    BY <2>1, <2>2, <2>3
<1>2. ASSUME NEW w \in Workers, NEW i \in IdsOf[w], StartWorker(w, i)
      PROVE  Types /\ Place /\ Fate
  <2> USE <1>2, <1>t, <1>e DEF StartWorker, Start, rowVars, entryVars, history
  <2>1. Types
    BY DEF InboundTypeOK, MessageOK, BusyOK, PlaceOK, QueueTypeOK
  <2>2. Place
    BY DEF InboundTypeOK, BusyOK, PlaceOK, QueueTypeOK
  <2>3. Fate
    BY DEF InboundTypeOK, MessageOK, BusyOK, PlaceOK, NotForgotten,
           DeliveredHasCause, Live, RowsOf, QueueTypeOK
  <2> QED
    BY <2>1, <2>2, <2>3
<1>3. ASSUME NEW w \in Workers, Poll(w)
      PROVE  Types /\ Place /\ Fate
  <2> USE <1>3, <1>t, <1>e DEF Poll, ClaimNextInbound, Claim, Pending, entryVars, history
  <2>1. Types
    BY DEF InboundTypeOK, MessageOK, BusyOK, PlaceOK, QueueTypeOK
  <2>2. Place
    BY DEF InboundTypeOK, BusyOK, PlaceOK, QueueTypeOK
  <2>3. Fate
    BY DEF InboundTypeOK, MessageOK, BusyOK, PlaceOK, NotForgotten,
           DeliveredHasCause, Live, RowsOf, QueueTypeOK
  <2> QED
    BY <2>1, <2>2, <2>3
<1>4. ASSUME NEW w \in Workers, NEW ok \in BOOLEAN, ReadClaims(w, ok)
      PROVE  Types /\ Place /\ Fate
  <2> USE <1>4, <1>t, <1>e DEF ReadClaims, ReadBack, EndBatch, rowVars,
         entryVars, history
  <2>1. Types
    BY DEF InboundTypeOK, MessageOK, BusyOK, PlaceOK, QueueTypeOK
  <2>2. Place
    BY DEF InboundTypeOK, BusyOK, PlaceOK, QueueTypeOK
  <2>3. Fate
    BY DEF InboundTypeOK, MessageOK, BusyOK, PlaceOK, NotForgotten,
           DeliveredHasCause, Live, RowsOf, QueueTypeOK
  <2> QED
    BY <2>1, <2>2, <2>3
<1>5. ASSUME NEW w \in Workers, TakeOldest(w)
      PROVE  Types /\ Place /\ Fate
  <2> USE <1>5, <1>t, <1>e DEF TakeOldest, TakeUp, Go, Places, history, rowVars
  <2>1. Types
    BY DEF InboundTypeOK, MessageOK, BusyOK, PlaceOK, QueueTypeOK
  <2>2. Place
    BY DEF InboundTypeOK, BusyOK, PlaceOK, QueueTypeOK
  <2>3. Fate
    BY DEF InboundTypeOK, MessageOK, BusyOK, PlaceOK, NotForgotten,
           DeliveredHasCause, Live, RowsOf, QueueTypeOK
  <2> QED
    BY <2>1, <2>2, <2>3
<1>6. ASSUME NEW w \in Workers, NEW ok \in BOOLEAN, ConsumeExpired(w, ok)
      PROVE  Types /\ Place /\ Fate
  <2> USE <1>6, <1>t, <1>e DEF ConsumeExpired, CompleteInbound, Settle, Go,
          Places, history, queueVars, rowVars, workerVars
  <2>1. Types
    BY DEF InboundTypeOK, MessageOK, BusyOK, PlaceOK, QueueTypeOK
  <2>2. Place
    BY DEF InboundTypeOK, BusyOK, PlaceOK, QueueTypeOK
  <2>3. Fate
    BY DEF InboundTypeOK, MessageOK, BusyOK, PlaceOK, NotForgotten,
           DeliveredHasCause, Live, RowsOf, QueueTypeOK
  <2> QED
    BY <2>1, <2>2, <2>3
<1>7. ASSUME NEW w \in Workers, NEW ok \in BOOLEAN, Fetch(w, ok)
      PROVE  Types /\ Place /\ Fate
  <2> USE <1>7, <1>t, <1>e DEF Fetch, Go, Places, history, queueVars, rowVars, workerVars
  <2>1. Types
    BY DEF InboundTypeOK, MessageOK, BusyOK, PlaceOK, QueueTypeOK
  <2>2. Place
    BY DEF InboundTypeOK, BusyOK, PlaceOK, QueueTypeOK
  <2>3. Fate
    BY DEF InboundTypeOK, MessageOK, BusyOK, PlaceOK, NotForgotten,
           DeliveredHasCause, Live, RowsOf, QueueTypeOK
  <2> QED
    BY <2>1, <2>2, <2>3
<1>8. ASSUME NEW w \in Workers, NEW given \in BOOLEAN,
             NEW ok \in BOOLEAN, Send(w, given, ok)
      PROVE  Types /\ Place /\ Fate
  <2> USE <1>8, <1>t, <1>e, <1>m
      DEF Send, Go, Places, history, queueVars, rowVars, workerVars
  <2>1. Types
    <3>1. /\ cur[w] \in Rows
          /\ reached' \subseteq Msgs
          /\ sends' \in [Rows -> 0..2]
          /\ doubtful' \subseteq Rows
      <4>1. CASE given
        BY ONLY <1>8, <4>1, QueueInv, EntryInv, ReachHistory DEF Send
      <4>2. CASE ~given
        BY <4>2 DEF InboundTypeOK, BusyOK
      <4> QED
        BY ONLY <4>1, <4>2
    <3>2. message[cur[w]] \in Msgs
      BY ONLY <3>1, <1>m
    <3>3. missed' \subseteq missed \cup {message[cur[w]]}
      BY ONLY <1>8 DEF Send
    <3>4. failed' \subseteq failed \cup {message[cur[w]]}
      BY ONLY <1>8 DEF Send
    <3>5. missed' \subseteq Msgs /\ failed' \subseteq Msgs
      BY ONLY <1>e, <3>2, <3>3, <3>4 DEF InboundTypeOK
    <3>6. /\ past' \subseteq Msgs
          /\ delivery' \in [Msgs -> {"pending", "delivered"}]
          /\ at' \in [Workers -> Places]
      BY DEF InboundTypeOK
    <3>7. MessageOK'
      BY DEF MessageOK
    <3> QED
      BY ONLY <3>1, <3>5, <3>6, <3>7 DEF InboundTypeOK
  <2>2. reached \cup missed \subseteq reached' \cup missed'
    BY ONLY <1>8 DEF Send, Reach
  <2>3. ok => message[cur[w]] \in reached' \cup missed'
    BY ONLY <1>8 DEF Send
  <2>4. Place
    BY <2>2, <2>3 DEF InboundTypeOK, BusyOK, PlaceOK, QueueTypeOK
  <2>5. Fate
    BY <2>2 DEF NotForgotten, DeliveredHasCause, Live, RowsOf
  <2> QED
    BY <2>1, <2>4, <2>5
<1>9. ASSUME NEW w \in Workers, NEW ok \in BOOLEAN, Complete(w, ok)
      PROVE  Types /\ Place /\ Fate
  <2> USE <1>9, <1>t, <1>e DEF Complete, CompleteInbound, Settle, Go, Places, history, queueVars,
         rowVars, workerVars
  <2>d. doubtful' \subseteq Rows
    BY ONLY <1>9, <1>e DEF Complete, Doubt, InboundTypeOK, BusyOK
  <2>1. Types
    BY <2>d DEF InboundTypeOK, MessageOK, BusyOK, PlaceOK, QueueTypeOK
  <2>2. Place
    BY DEF InboundTypeOK, BusyOK, PlaceOK, QueueTypeOK
  <2>3. Fate
    BY DEF InboundTypeOK, MessageOK, BusyOK, PlaceOK, NotForgotten,
           DeliveredHasCause, Live, RowsOf, QueueTypeOK
  <2> QED
    BY <2>1, <2>2, <2>3
<1>10. ASSUME NEW w \in Workers, NEW ok \in BOOLEAN, MarkDelivered(w, ok)
      PROVE  Types /\ Place /\ Fate
  <2> USE <1>10, <1>t, <1>e DEF MarkDelivered, UpdateDeliveryStatus, PutDown, Go,
          Places, history, rowVars
  <2>1. Types
    BY DEF InboundTypeOK, MessageOK, BusyOK, PlaceOK, QueueTypeOK
  <2>2. Place
    BY DEF InboundTypeOK, BusyOK, PlaceOK, QueueTypeOK
  <2>3. Fate
    BY DEF InboundTypeOK, MessageOK, BusyOK, PlaceOK, NotForgotten,
           DeliveredHasCause, Live, RowsOf, QueueTypeOK
  <2> QED
    BY <2>1, <2>2, <2>3
<1>11. ASSUME NEW w \in Workers, NEW ok \in BOOLEAN, Requeue(w, ok)
       PROVE  Types /\ Place /\ Fate
  <2> USE <1>t, <1>e, <1>m
  <2>1. \/ UNCHANGED << message, status >>
        \/ \E r \in Rows : /\ status[r] = "none"
                           /\ message' = [message EXCEPT ![r] = message[cur[w]]]
                           /\ status' = [status EXCEPT ![r] = "pending"]
    BY <1>11, EnqueuedRow DEF Requeue, EnqueueInbound, queueVars, rowVars
  <2>2. /\ UNCHANGED << phase, cur, past, delivery, reached, sends, missed, failed,
                       doubtful >>
        /\ at[w] = "requeue" /\ at' = [at EXCEPT ![w] = "over"]
    BY <1>11 DEF Requeue, EnqueueInbound, Enqueue, Go, history, queueVars,
       workerVars
  <2>3. Types
    BY <2>1, <2>2 DEF InboundTypeOK, MessageOK, BusyOK, Places, QueueTypeOK
  <2>4. \A v \in Workers : cur[v] \in Rows => message'[cur[v]] = message[cur[v]]
    BY <2>1 DEF QueueTypeOK
  <2>5. Place
    BY <2>2, <2>4 DEF InboundTypeOK, BusyOK, PlaceOK
  <2>6. \A m \in Msgs : Live(m) => Live(m)'
    BY <2>1 DEF Live, RowsOf, QueueTypeOK
  <2>7. Fate
    BY <2>2, <2>6 DEF NotForgotten, DeliveredHasCause
  <2> QED
    BY <2>3, <2>5, <2>7
<1>12. ASSUME NEW w \in Workers, Return(w)
      PROVE  Types /\ Place /\ Fate
  <2> USE <1>12, <1>t, <1>e DEF Return, PutDown, Go, Places, history, rowVars
  <2>1. Types
    BY DEF InboundTypeOK, MessageOK, BusyOK, PlaceOK, QueueTypeOK
  <2>2. Place
    BY DEF InboundTypeOK, BusyOK, PlaceOK, QueueTypeOK
  <2>3. Fate
    BY DEF InboundTypeOK, MessageOK, BusyOK, PlaceOK, NotForgotten,
           DeliveredHasCause, Live, RowsOf, QueueTypeOK
  <2> QED
    BY <2>1, <2>2, <2>3
<1>13. ASSUME NEW w \in Workers, FinishBatch(w)
      PROVE  Types /\ Place /\ Fate
  <2> USE <1>13, <1>t, <1>e DEF FinishBatch, EndBatch, rowVars, entryVars, history
  <2>1. Types
    BY DEF InboundTypeOK, MessageOK, BusyOK, PlaceOK, QueueTypeOK
  <2>2. Place
    BY DEF InboundTypeOK, BusyOK, PlaceOK, QueueTypeOK
  <2>3. Fate
    BY DEF InboundTypeOK, MessageOK, BusyOK, PlaceOK, NotForgotten,
           DeliveredHasCause, Live, RowsOf, QueueTypeOK
  <2> QED
    BY <2>1, <2>2, <2>3
<1>14. ASSUME NEW w \in Workers, Tick(w)
      PROVE  Types /\ Place /\ Fate
  <2>h. /\ UNCHANGED << past, delivery, failed >>
        /\ reached' \subseteq Msgs /\ missed' \subseteq Msgs
        /\ reached \cup missed \subseteq reached' \cup missed'
        /\ sends' \in [Rows -> 0..2] /\ doubtful' \subseteq Rows
    BY <1>14, DroppedHistory DEF Tick
  <2> USE <1>14, <1>t, <1>e, <2>h DEF Tick, EndBatch, Go, Places, rowVars
  <2>1. Types
    BY DEF InboundTypeOK, MessageOK, BusyOK, PlaceOK, QueueTypeOK
  <2>2. Place
    BY DEF InboundTypeOK, BusyOK, PlaceOK, QueueTypeOK
  <2>3. Fate
    BY DEF InboundTypeOK, MessageOK, BusyOK, PlaceOK, NotForgotten,
           DeliveredHasCause, Live, RowsOf, QueueTypeOK
  <2> QED
    BY <2>1, <2>2, <2>3
<1>15. ASSUME NEW w \in Workers, NEW ok \in BOOLEAN, CleanUp(w, ok)
      PROVE  Types /\ Place /\ Fate
  <2> USE <1>15, <1>t, <1>e DEF CleanUp, CleanupExpiredInbound, ExpireRows,
          Pending, Go, Places, history,
         queueVars, rowVars, workerVars
  <2>1. Types
    BY DEF InboundTypeOK, MessageOK, BusyOK, PlaceOK, QueueTypeOK
  <2>2. Place
    BY DEF InboundTypeOK, BusyOK, PlaceOK, QueueTypeOK
  <2>3. Fate
    BY DEF InboundTypeOK, MessageOK, BusyOK, PlaceOK, NotForgotten,
           DeliveredHasCause, Live, RowsOf, QueueTypeOK
  <2> QED
    BY <2>1, <2>2, <2>3
<1>16. ASSUME NEW w \in Workers, StopWorker(w)
      PROVE  Types /\ Place /\ Fate
  <2>h. /\ UNCHANGED << past, delivery, failed >>
        /\ reached' \subseteq Msgs /\ missed' \subseteq Msgs
        /\ reached \cup missed \subseteq reached' \cup missed'
        /\ sends' \in [Rows -> 0..2] /\ doubtful' \subseteq Rows
    BY <1>16, DroppedHistory DEF StopWorker
  <2> USE <1>16, <1>t, <1>e, <2>h DEF StopWorker, Stop, Go, Places, rowVars
  <2>1. Types
    BY DEF InboundTypeOK, MessageOK, BusyOK, PlaceOK, QueueTypeOK
  <2>2. Place
    BY DEF InboundTypeOK, BusyOK, PlaceOK, QueueTypeOK
  <2>3. Fate
    BY DEF InboundTypeOK, MessageOK, BusyOK, PlaceOK, NotForgotten,
           DeliveredHasCause, Live, RowsOf, QueueTypeOK
  <2> QED
    BY <2>1, <2>2, <2>3
<1>17. ASSUME UNCHANGED vars PROVE Types /\ Place /\ Fate
  BY <1>17, <1>e DEF vars, queueVars, rowVars, workerVars, entryVars, history,
     InboundTypeOK,
     MessageOK, BusyOK, PlaceOK, NotForgotten, DeliveredHasCause, Live, RowsOf
<1> HIDE DEF Types, Place, Fate
<1>18. Types /\ Place /\ Fate
  BY <1>1, <1>2, <1>3, <1>4, <1>5, <1>6, <1>7, <1>8, <1>9, <1>10, <1>11, <1>12,
     <1>13, <1>14, <1>15, <1>16, <1>17
  DEF Next, Run, ProcessEntry
<1> QED
  BY <1>18 DEF EntryInv, Types, Place, Fate

\* The worker's invariant, with that of the claim protocol, holds always.
THEOREM InboundInvariant == Spec => [](QueueInv /\ EntryInv)
<1>1. Init => EntryInv
  BY QueueAssumption
  DEF Init, QueueInit, EntryInv, InboundTypeOK, MessageOK, BusyOK, PlaceOK,
     Places,
      NotForgotten, DeliveredHasCause, Live, RowsOf
<1> QED
  BY <1>1, EntryStep, InboundQueueInvariant, PTL DEF Spec

\* The worker's own state keeps its type.
THEOREM InboundTypeInvariant == Spec => []InboundTypeOK
<1>1. EntryInv => InboundTypeOK
  BY DEF EntryInv
<1> QED
  BY <1>1, InboundInvariant, PTL

\* No message is forgotten: what has neither reached a client nor expired has a
\* row that waits or is claimed, unless a broadcast of it that reached nobody was
\* answered by Ok.
THEOREM NotForgottenInvariant == Spec => []NotForgotten
<1>1. EntryInv => NotForgotten
  BY DEF EntryInv
<1> QED
  BY <1>1, InboundInvariant, PTL

\* What is marked as delivered has reached a client, or a broadcast of it that
\* reached nobody was answered by Ok.
THEOREM DeliveredInvariant == Spec => []DeliveredHasCause
<1>1. EntryInv => DeliveredHasCause
  BY DEF EntryInv
<1> QED
  BY <1>1, InboundInvariant, PTL

-----------------------------------------------------------------------------

\* The places at which the row in hand is locked by the worker.
Holding == {"expire", "fetch", "send", "complete", "requeue"}

LocksHeld == \A w \in Workers : at[w] \in Holding => lockedBy[cur[w]] = workerId[w]

\* A row that reached a client is completed, or is about to be, once.
SentOnce(r) ==
  sends[r] # 0 => /\ sends[r] = 1
                  /\ \/ status[r] = "completed"
                     \/ \E w \in Workers : cur[w] = r /\ at[w] = "complete"

OnceInv ==
  /\ ApartInv
  /\ ~shared => LocksHeld /\ \A r \in Rows \ doubtful : SentOnce(r)

\* While no two workers run under one id, no two have one row in hand, and a row
\* that has not been settled is being processed.
LEMMA Hands ==
  ASSUME QueueInv, EntryInv, IdsApart, LocksHeld
  PROVE  /\ \A v, w \in Workers : v # w /\ cur[v] \in Rows => cur[v] # cur[w]
         /\ \A w \in Workers : at[w] \in Holding =>
              cur[w] \in Rows /\ status[cur[w]] = "processing"
<1>1. QueueTypeOK /\ LockOK /\ OffOK /\ BusyOK
  BY DEF QueueInv, EntryInv
<1>2. \A v, w \in Workers : v # w /\ cur[v] \in Rows => cur[v] # cur[w]
  BY HandsApart DEF Held
<1>3. ASSUME NEW w \in Workers, at[w] \in Holding
      PROVE  cur[w] \in Rows /\ status[cur[w]] = "processing"
  <2>1. cur[w] \in Rows /\ phase[w] = "work"
    BY <1>1, <1>3 DEF BusyOK, Holding
  <2>2. lockedBy[cur[w]] = workerId[w] /\ workerId[w] \in Ids
    BY <1>1, <1>3, <2>1 DEF LocksHeld, OffOK
  <2> QED
    BY <1>1, <2>1, <2>2, QueueAssumption DEF LockOK
<1> QED
  BY <1>2, <1>3

\* An entry dropped at an await counts as given only if it becomes doubtful.
LEMMA DroppedSends ==
  ASSUME InboundTypeOK, BusyOK, NEW w \in Workers, Dropped(w)
  PROVE  /\ doubtful \subseteq doubtful'
         /\ \A r \in Rows \ doubtful' : sends'[r] = sends[r]
         /\ at[w] = "complete" => cur[w] \in doubtful' \/ sends[cur[w]] = 0
<1>1. CASE at[w] = "send" /\ Reach(w, FALSE)
  BY <1>1 DEF Reach, InboundTypeOK
<1>2. CASE ~(at[w] = "send" /\ Reach(w, FALSE))
  <2>1. /\ UNCHANGED sends
        /\ IF at[w] = "complete" THEN Doubt(w) ELSE UNCHANGED doubtful
    BY <1>2 DEF Dropped
  <2>2. at[w] = "complete" => sends[cur[w]] \in 0..2
    BY DEF InboundTypeOK, BusyOK
  <2> QED
    BY <2>1, <2>2 DEF Doubt
<1> QED
  BY <1>1, <1>2

\* A row reaches a client once, unless its completion is cut short.
LEMMA OnceStep ==
  ASSUME QueueInv, EntryInv, [Next]_vars, IdsApart, LocksHeld,
         \A w \in Workers : TodoLocked(w),
         \A r \in Rows \ doubtful : SentOnce(r)
  PROVE  LocksHeld' /\ \A r \in Rows \ doubtful' : SentOnce(r)'
<1>t. QueueTypeOK /\ LockOK /\ OffOK /\ HeldOK
  BY DEF QueueInv
<1>e. InboundTypeOK /\ BusyOK
  BY DEF EntryInv
<1>h. /\ \A v, w \in Workers : v # w /\ cur[v] \in Rows => cur[v] # cur[w]
      /\ \A w \in Workers : at[w] \in Holding =>
           cur[w] \in Rows /\ status[cur[w]] = "processing"
  BY Hands
<1>d. LocksHeld /\ \A w \in Workers : TodoLocked(w)
  OBVIOUS
<1>o. \A r \in Rows \ doubtful : SentOnce(r)
  OBVIOUS
<1> USE QueueAssumption
<1> DEFINE Locks == LocksHeld'
           Once == \A r \in Rows \ doubtful' : SentOnce(r)'
<1>s. ASSUME NEW w \in Workers, cur[w] \in Rows, UNCHANGED << cur, workerId >>,
             \A r \in Rows : r # cur[w] => lockedBy'[r] = lockedBy[r],
             at'[w] \notin Holding, \A v \in Workers \ {w} : at'[v] = at[v]
      PROVE  Locks
  BY <1>s, <1>h, <1>d DEF LocksHeld
<1>q. ASSUME NEW w \in Workers, doubtful \subseteq doubtful',
             \A r \in Rows \ doubtful' : sends'[r] = sends[r],
             \A r \in Rows : status[r] = "completed" => status'[r] = "completed",
             \A v \in Workers \ {w} : cur'[v] = cur[v] /\ at'[v] = at[v],
             at[w] = "complete" =>
               \/ cur[w] \in doubtful' \/ sends[cur[w]] = 0
               \/ status'[cur[w]] = "completed"
      PROVE  Once
  BY <1>q, <1>o DEF SentOnce
<1>1. ASSUME NEW m \in Msgs, TimePasses(m) PROVE Locks /\ Once
  BY <1>1, <1>d, <1>o DEF TimePasses, queueVars, rowVars, workerVars,
     entryVars, history, LocksHeld,
     SentOnce
<1>2. ASSUME NEW w \in Workers, NEW i \in IdsOf[w], StartWorker(w, i)
      PROVE  Locks /\ Once
  <2> USE <1>2, <1>t, <1>e, <1>h, <1>d DEF StartWorker, Start, rowVars,
         entryVars, history, QueueTypeOK, InboundTypeOK, BusyOK, history
  <2>1. Locks
    BY DEF LocksHeld, Holding, OffOK
  <2>2. /\ doubtful \subseteq doubtful'
        /\ \A r \in Rows \ doubtful' : sends'[r] = sends[r]
        /\ \A v \in Workers \ {w} : cur'[v] = cur[v] /\ at'[v] = at[v]
    OBVIOUS
  <2>3. \A r \in Rows : status[r] = "completed" => status'[r] = "completed"
    OBVIOUS
  <2>4. at[w] = "complete" => \/ cur[w] \in doubtful' \/ sends[cur[w]] = 0
                              \/ status'[cur[w]] = "completed"
    BY DEF OffOK
  <2> QED
    BY <2>1, <2>2, <2>3, <2>4, <1>q
<1>3. ASSUME NEW w \in Workers, Poll(w) PROVE Locks /\ Once
  <2> USE <1>3, <1>t, <1>e, <1>h, <1>d DEF Poll, ClaimNextInbound, Claim,
         Pending, entryVars, history, QueueTypeOK, InboundTypeOK, BusyOK, history
  <2>1. Locks
    BY DEF LocksHeld, Holding
  <2>2. /\ doubtful \subseteq doubtful'
        /\ \A r \in Rows \ doubtful' : sends'[r] = sends[r]
        /\ \A v \in Workers \ {w} : cur'[v] = cur[v] /\ at'[v] = at[v]
    OBVIOUS
  <2>3. \A r \in Rows : status[r] = "completed" => status'[r] = "completed"
    OBVIOUS
  <2>4. at[w] = "complete" => \/ cur[w] \in doubtful' \/ sends[cur[w]] = 0
                              \/ status'[cur[w]] = "completed"
    BY DEF OffOK
  <2> QED
    BY <2>1, <2>2, <2>3, <2>4, <1>q
<1>4. ASSUME NEW w \in Workers, NEW ok \in BOOLEAN, ReadClaims(w, ok)
      PROVE  Locks /\ Once
  <2> USE <1>4, <1>t, <1>e, <1>h, <1>d DEF ReadClaims, ReadBack, EndBatch,
         rowVars, entryVars, history, QueueTypeOK, InboundTypeOK, BusyOK, history
  <2>1. Locks
    BY DEF LocksHeld, Holding
  <2>2. /\ doubtful \subseteq doubtful'
        /\ \A r \in Rows \ doubtful' : sends'[r] = sends[r]
        /\ \A v \in Workers \ {w} : cur'[v] = cur[v] /\ at'[v] = at[v]
    OBVIOUS
  <2>3. \A r \in Rows : status[r] = "completed" => status'[r] = "completed"
    OBVIOUS
  <2>4. at[w] = "complete" => \/ cur[w] \in doubtful' \/ sends[cur[w]] = 0
                              \/ status'[cur[w]] = "completed"
    BY DEF OffOK
  <2> QED
    BY <2>1, <2>2, <2>3, <2>4, <1>q
<1>5. ASSUME NEW w \in Workers, TakeOldest(w) PROVE Locks /\ Once
  <2> USE <1>5, <1>t, <1>e, <1>h, <1>d DEF TakeOldest, TakeUp, TodoLocked, Go,
         rowVars, QueueTypeOK, InboundTypeOK, BusyOK, history
  <2>1. Locks
    BY DEF LocksHeld, Holding
  <2>2. /\ doubtful \subseteq doubtful'
        /\ \A r \in Rows \ doubtful' : sends'[r] = sends[r]
        /\ \A v \in Workers \ {w} : cur'[v] = cur[v] /\ at'[v] = at[v]
    OBVIOUS
  <2>3. \A r \in Rows : status[r] = "completed" => status'[r] = "completed"
    OBVIOUS
  <2>4. at[w] = "complete" => \/ cur[w] \in doubtful' \/ sends[cur[w]] = 0
                              \/ status'[cur[w]] = "completed"
    BY DEF OffOK
  <2> QED
    BY <2>1, <2>2, <2>3, <2>4, <1>q
<1>6. ASSUME NEW w \in Workers, NEW ok \in BOOLEAN, ConsumeExpired(w, ok)
      PROVE  Locks /\ Once
  <2> USE <1>6, <1>t, <1>e, <1>h, <1>d DEF ConsumeExpired, CompleteInbound,
         Settle, Go, queueVars, rowVars, workerVars, QueueTypeOK,
         InboundTypeOK, BusyOK, history
  <2>1. Locks
    <3>1. /\ cur[w] \in Rows
          /\ \A r \in Rows : r # cur[w] => lockedBy'[r] = lockedBy[r]
          /\ \A v \in Workers \ {w} : at'[v] = at[v]
      OBVIOUS
    <3>2. at'[w] \notin Holding /\ UNCHANGED << cur, workerId >>
      BY DEF Holding
    <3> QED
      BY <3>1, <3>2, <1>s
  <2>2. /\ doubtful \subseteq doubtful'
        /\ \A r \in Rows \ doubtful' : sends'[r] = sends[r]
        /\ \A v \in Workers \ {w} : cur'[v] = cur[v] /\ at'[v] = at[v]
    OBVIOUS
  <2>3. \A r \in Rows : status[r] = "completed" => status'[r] = "completed"
    OBVIOUS
  <2>4. at[w] = "complete" => \/ cur[w] \in doubtful' \/ sends[cur[w]] = 0
                              \/ status'[cur[w]] = "completed"
    BY DEF OffOK
  <2> QED
    BY <2>1, <2>2, <2>3, <2>4, <1>q
<1>7. ASSUME NEW w \in Workers, NEW ok \in BOOLEAN, Fetch(w, ok)
      PROVE  Locks /\ Once
  <2> USE <1>7, <1>t, <1>e, <1>h, <1>d DEF Fetch, Go, queueVars, rowVars,
         workerVars, QueueTypeOK, InboundTypeOK, BusyOK, history
  <2>1. Locks
    BY DEF LocksHeld, Holding
  <2>2. /\ doubtful \subseteq doubtful'
        /\ \A r \in Rows \ doubtful' : sends'[r] = sends[r]
        /\ \A v \in Workers \ {w} : cur'[v] = cur[v] /\ at'[v] = at[v]
    OBVIOUS
  <2>3. \A r \in Rows : status[r] = "completed" => status'[r] = "completed"
    OBVIOUS
  <2>4. at[w] = "complete" => \/ cur[w] \in doubtful' \/ sends[cur[w]] = 0
                              \/ status'[cur[w]] = "completed"
    BY DEF OffOK
  <2> QED
    BY <2>1, <2>2, <2>3, <2>4, <1>q
<1>8. ASSUME NEW w \in Workers, NEW given \in BOOLEAN,
             NEW ok \in BOOLEAN, Send(w, given, ok)
      PROVE  Locks /\ Once
  <2> USE <1>8, <1>t, <1>e, <1>h, <1>d DEF Send, Reach, Go, queueVars,
         rowVars, workerVars, QueueTypeOK, InboundTypeOK, BusyOK, history
  <2>1. Locks
    BY DEF LocksHeld, Holding
  <2>2. CASE ~(given /\ ok)
    <3>1. /\ doubtful \subseteq doubtful'
          /\ \A r \in Rows \ doubtful' : sends'[r] = sends[r]
      BY <2>2
    <3>2. /\ \A r \in Rows : status[r] = "completed" => status'[r] = "completed"
          /\ \A v \in Workers \ {w} : cur'[v] = cur[v] /\ at'[v] = at[v]
          /\ at[w] # "complete"
      OBVIOUS
    <3> QED
      BY <2>1, <3>1, <3>2, <1>q
  <2>3. CASE given /\ ok
    <3>1. /\ at[w] = "send" /\ cur[w] \in Rows
          /\ at' = [at EXCEPT ![w] = "complete"]
          /\ UNCHANGED << status, cur, doubtful >>
          /\ sends' = [sends EXCEPT ![cur[w]] = IF @ = 2 THEN 2 ELSE @ + 1]
      BY <2>3
    <3>2. status[cur[w]] = "processing"
      BY <3>1 DEF Holding
    <3>3. cur[w] \notin doubtful => sends[cur[w]] = 0
      <4>1. \A v \in Workers : cur[v] = cur[w] => at[v] # "complete"
        BY <3>1
      <4>2. cur[w] \notin doubtful => SentOnce(cur[w])
        BY <3>1, <1>o
      <4> HIDE <1>8, <1>t, <1>e, <1>h, <1>d
      <4> QED
        BY <3>2, <4>1, <4>2 DEF SentOnce
    <3>4. Once
      <4>1. ASSUME NEW r \in Rows \ doubtful PROVE SentOnce(r)'
        <5>1. CASE r = cur[w]
          BY <3>1, <3>3, <4>1, <5>1 DEF SentOnce
        <5>2. CASE r # cur[w]
          <6>1. sends'[r] = sends[r]
            BY <3>1, <5>2
          <6>2. \A v \in Workers : at[v] = "complete" => at'[v] = "complete"
            BY <3>1
          <6> QED
            BY <3>1, <6>1, <6>2, <1>o DEF SentOnce
        <5> QED
          BY <5>1, <5>2
      <4> QED
        BY <3>1, <4>1
    <3> QED
      BY <2>1, <3>4
  <2> QED
    BY <2>2, <2>3
<1>9. ASSUME NEW w \in Workers, NEW ok \in BOOLEAN, Complete(w, ok)
      PROVE  Locks /\ Once
  <2> USE <1>9, <1>t, <1>e, <1>h, <1>d DEF Complete, CompleteInbound, Settle,
         Go, queueVars, rowVars, workerVars, QueueTypeOK, InboundTypeOK,
         BusyOK, history
  <2>1. Locks
    <3>1. /\ cur[w] \in Rows
          /\ \A r \in Rows : r # cur[w] => lockedBy'[r] = lockedBy[r]
          /\ \A v \in Workers \ {w} : at'[v] = at[v]
      OBVIOUS
    <3>2. at'[w] \notin Holding /\ UNCHANGED << cur, workerId >>
      BY DEF Holding
    <3> QED
      BY <3>1, <3>2, <1>s
  <2>2. /\ doubtful \subseteq doubtful'
        /\ \A r \in Rows \ doubtful' : sends'[r] = sends[r]
        /\ \A v \in Workers \ {w} : cur'[v] = cur[v] /\ at'[v] = at[v]
    BY DEF Doubt
  <2>3. \A r \in Rows : status[r] = "completed" => status'[r] = "completed"
    OBVIOUS
  <2>4. at[w] = "complete" => \/ cur[w] \in doubtful' \/ sends[cur[w]] = 0
                              \/ status'[cur[w]] = "completed"
    <3>1. CASE ok
      BY <3>1
    <3>2. CASE ~ok
      <4>1. cur[w] \in Rows /\ sends[cur[w]] \in 0..2
        OBVIOUS
      <4>2. doubtful' = doubtful \cup {r \in {cur[w]} : sends[r] > 0}
        BY <3>2 DEF Doubt
      <4> QED
        BY ONLY <4>1, <4>2
    <3> QED
      BY <3>1, <3>2
  <2> QED
    BY <2>1, <2>2, <2>3, <2>4, <1>q
<1>10. ASSUME NEW w \in Workers, NEW ok \in BOOLEAN, MarkDelivered(w, ok)
       PROVE  Locks /\ Once
  <2> USE <1>10, <1>t, <1>e, <1>h, <1>d DEF MarkDelivered,
         UpdateDeliveryStatus, PutDown, Go, rowVars, QueueTypeOK,
         InboundTypeOK, BusyOK, history
  <2>1. Locks
    BY DEF LocksHeld, Holding
  <2>2. /\ doubtful \subseteq doubtful'
        /\ \A r \in Rows \ doubtful' : sends'[r] = sends[r]
        /\ \A v \in Workers \ {w} : cur'[v] = cur[v] /\ at'[v] = at[v]
    OBVIOUS
  <2>3. \A r \in Rows : status[r] = "completed" => status'[r] = "completed"
    OBVIOUS
  <2>4. at[w] = "complete" => \/ cur[w] \in doubtful' \/ sends[cur[w]] = 0
                              \/ status'[cur[w]] = "completed"
    BY DEF OffOK
  <2> QED
    BY <2>1, <2>2, <2>3, <2>4, <1>q
<1>11. ASSUME NEW w \in Workers, NEW ok \in BOOLEAN, Requeue(w, ok)
       PROVE  Locks /\ Once
  <2>1. /\ at[w] = "requeue" /\ at' = [at EXCEPT ![w] = "over"]
        /\ UNCHANGED << lockedBy, workerId, cur, sends, doubtful >>
    BY <1>11 DEF Requeue, EnqueueInbound, Enqueue, Go, history, queueVars,
       rowVars, workerVars
  <2>2. \A r \in Rows : status[r] = "completed" => status'[r] = "completed"
    BY <1>11, EnqueuedRow, <1>t DEF Requeue, EnqueueInbound, queueVars, rowVars,
       QueueTypeOK
  <2>3. \A v \in Workers \ {w} : at'[v] = at[v]
    BY <2>1, <1>e DEF InboundTypeOK
  <2>4. Locks
    BY <2>1, <1>d, <1>e DEF LocksHeld, Holding, InboundTypeOK
  <2>5. Once
    BY <2>1, <2>2, <2>3, <1>q
  <2> QED
    BY <2>4, <2>5
<1>12. ASSUME NEW w \in Workers, Return(w) PROVE Locks /\ Once
  <2> USE <1>12, <1>t, <1>e, <1>h, <1>d DEF Return, PutDown, Go, rowVars,
         QueueTypeOK, InboundTypeOK, BusyOK, history
  <2>1. Locks
    BY DEF LocksHeld, Holding
  <2>2. /\ doubtful \subseteq doubtful'
        /\ \A r \in Rows \ doubtful' : sends'[r] = sends[r]
        /\ \A v \in Workers \ {w} : cur'[v] = cur[v] /\ at'[v] = at[v]
    OBVIOUS
  <2>3. \A r \in Rows : status[r] = "completed" => status'[r] = "completed"
    OBVIOUS
  <2>4. at[w] = "complete" => \/ cur[w] \in doubtful' \/ sends[cur[w]] = 0
                              \/ status'[cur[w]] = "completed"
    BY DEF OffOK
  <2> QED
    BY <2>1, <2>2, <2>3, <2>4, <1>q
<1>13. ASSUME NEW w \in Workers, FinishBatch(w) PROVE Locks /\ Once
  <2> USE <1>13, <1>t, <1>e, <1>h, <1>d DEF FinishBatch, EndBatch, rowVars,
         entryVars, history, QueueTypeOK, InboundTypeOK, BusyOK, history
  <2>1. Locks
    BY DEF LocksHeld, Holding
  <2>2. /\ doubtful \subseteq doubtful'
        /\ \A r \in Rows \ doubtful' : sends'[r] = sends[r]
        /\ \A v \in Workers \ {w} : cur'[v] = cur[v] /\ at'[v] = at[v]
    OBVIOUS
  <2>3. \A r \in Rows : status[r] = "completed" => status'[r] = "completed"
    OBVIOUS
  <2>4. at[w] = "complete" => \/ cur[w] \in doubtful' \/ sends[cur[w]] = 0
                              \/ status'[cur[w]] = "completed"
    BY DEF OffOK
  <2> QED
    BY <2>1, <2>2, <2>3, <2>4, <1>q
<1>14. ASSUME NEW w \in Workers, Tick(w) PROVE Locks /\ Once
  <2>d. /\ doubtful \subseteq doubtful'
        /\ \A r \in Rows \ doubtful' : sends'[r] = sends[r]
        /\ at[w] = "complete" => cur[w] \in doubtful' \/ sends[cur[w]] = 0
    BY <1>14, <1>e, DroppedSends DEF Tick
  <2> USE <1>14, <1>t, <1>e, <1>h, <1>d, <2>d DEF Tick, EndBatch, Go,
         rowVars, QueueTypeOK, InboundTypeOK, BusyOK, history
  <2>1. Locks
    BY DEF LocksHeld, Holding
  <2>2. /\ doubtful \subseteq doubtful'
        /\ \A r \in Rows \ doubtful' : sends'[r] = sends[r]
        /\ \A v \in Workers \ {w} : cur'[v] = cur[v] /\ at'[v] = at[v]
    OBVIOUS
  <2>3. \A r \in Rows : status[r] = "completed" => status'[r] = "completed"
    OBVIOUS
  <2>4. at[w] = "complete" => \/ cur[w] \in doubtful' \/ sends[cur[w]] = 0
                              \/ status'[cur[w]] = "completed"
    BY DEF OffOK
  <2> QED
    BY <2>1, <2>2, <2>3, <2>4, <1>q
<1>15. ASSUME NEW w \in Workers, NEW ok \in BOOLEAN, CleanUp(w, ok)
       PROVE  Locks /\ Once
  <2> USE <1>15, <1>t, <1>e, <1>h, <1>d DEF CleanUp, CleanupExpiredInbound,
         ExpireRows, Pending, Go, queueVars, rowVars, workerVars,
         QueueTypeOK, InboundTypeOK, BusyOK, history
  <2>1. Locks
    BY DEF LocksHeld, Holding
  <2>2. /\ doubtful \subseteq doubtful'
        /\ \A r \in Rows \ doubtful' : sends'[r] = sends[r]
        /\ \A v \in Workers \ {w} : cur'[v] = cur[v] /\ at'[v] = at[v]
    OBVIOUS
  <2>3. \A r \in Rows : status[r] = "completed" => status'[r] = "completed"
    OBVIOUS
  <2>4. at[w] = "complete" => \/ cur[w] \in doubtful' \/ sends[cur[w]] = 0
                              \/ status'[cur[w]] = "completed"
    BY DEF OffOK
  <2> QED
    BY <2>1, <2>2, <2>3, <2>4, <1>q
<1>16. ASSUME NEW w \in Workers, StopWorker(w) PROVE Locks /\ Once
  <2>d. /\ doubtful \subseteq doubtful'
        /\ \A r \in Rows \ doubtful' : sends'[r] = sends[r]
        /\ at[w] = "complete" => cur[w] \in doubtful' \/ sends[cur[w]] = 0
    BY <1>16, <1>e, DroppedSends DEF StopWorker
  <2> USE <1>16, <1>t, <1>e, <1>h, <1>d, <2>d DEF StopWorker, Stop, Go,
         rowVars, QueueTypeOK, InboundTypeOK, BusyOK, history
  <2>1. Locks
    BY DEF LocksHeld, Holding
  <2>2. /\ doubtful \subseteq doubtful'
        /\ \A r \in Rows \ doubtful' : sends'[r] = sends[r]
        /\ \A v \in Workers \ {w} : cur'[v] = cur[v] /\ at'[v] = at[v]
    OBVIOUS
  <2>3. \A r \in Rows : status[r] = "completed" => status'[r] = "completed"
    OBVIOUS
  <2>4. at[w] = "complete" => \/ cur[w] \in doubtful' \/ sends[cur[w]] = 0
                              \/ status'[cur[w]] = "completed"
    BY DEF OffOK
  <2> QED
    BY <2>1, <2>2, <2>3, <2>4, <1>q
<1>17. ASSUME UNCHANGED vars PROVE Locks /\ Once
  BY <1>17, <1>d, <1>o DEF vars, queueVars, rowVars, workerVars, entryVars, history,
     LocksHeld, SentOnce
<1> HIDE DEF Locks, Once
<1>18. Locks /\ Once
  BY <1>1, <1>2, <1>3, <1>4, <1>5, <1>6, <1>7, <1>8, <1>9, <1>10, <1>11, <1>12,
     <1>13, <1>14, <1>15, <1>16, <1>17
  DEF Next, Run, ProcessEntry
<1> QED
  BY <1>18 DEF Locks, Once

\* A message has a second row only after a delivery of it was answered by an
\* error, and only a row that has a message reaches a client.
AgainInv ==
  /\ \A w \in Workers : at[w] = "requeue" => message[cur[w]] \in failed
  /\ \A q, r \in Rows :
       q # r /\ message[q] = message[r] /\ message[r] \in Msgs =>
         message[r] \in failed
  /\ \A r \in Rows : sends[r] > 0 => message[r] \in Msgs

\* Rows come only from failed deliveries.
LEMMA AgainStep == QueueInv /\ EntryInv /\ AgainInv /\ [Next]_vars => AgainInv'
<1> SUFFICES ASSUME QueueInv, EntryInv, AgainInv, [Next]_vars PROVE AgainInv'
  OBVIOUS
<1>t. QueueTypeOK /\ InboundTypeOK /\ BusyOK
  BY DEF QueueInv, EntryInv
<1>m. \A w \in Workers : cur[w] \in Rows =>
        status[cur[w]] # "none" /\ message[cur[w]] \in Msgs
  BY DEF QueueInv, EntryInv, HeldOK, Held, MessageOK
<1> DEFINE Same == /\ message' = message /\ failed \subseteq failed'
                   /\ \A r \in Rows : sends'[r] > 0 =>
                        sends[r] > 0 \/ message[r] \in Msgs
                   /\ \A v \in Workers : at'[v] = "requeue" =>
                        \/ at[v] = "requeue" /\ cur'[v] = cur[v]
                        \/ message[cur'[v]] \in failed'
<1>s. Same => AgainInv'
  BY DEF AgainInv
<1> HIDE DEF Same
<1>1. ASSUME NEW m \in Msgs, TimePasses(m) PROVE Same
  BY <1>1, <1>t DEF TimePasses, queueVars, rowVars, workerVars, entryVars, history,
     QueueTypeOK, InboundTypeOK, BusyOK, Same
<1>2. ASSUME NEW w \in Workers, NEW i \in IdsOf[w], StartWorker(w, i) PROVE Same
  BY <1>2, <1>t DEF StartWorker, Start, rowVars, entryVars, history,
     QueueTypeOK, InboundTypeOK, BusyOK, Same
<1>3. ASSUME NEW w \in Workers, Poll(w) PROVE Same
  BY <1>3, <1>t DEF Poll, ClaimNextInbound, Claim, entryVars, history,
     QueueTypeOK, InboundTypeOK, BusyOK, Same
<1>4. ASSUME NEW w \in Workers, NEW ok \in BOOLEAN, ReadClaims(w, ok) PROVE Same
  BY <1>4, <1>t DEF ReadClaims, ReadBack, EndBatch, rowVars, entryVars, history,
     QueueTypeOK, InboundTypeOK, BusyOK, Same
<1>5. ASSUME NEW w \in Workers, TakeOldest(w) PROVE Same
  BY <1>5, <1>t DEF TakeOldest, TakeUp, Go, rowVars, history,
     QueueTypeOK, InboundTypeOK, BusyOK, Same
<1>6. ASSUME NEW w \in Workers, NEW ok \in BOOLEAN, ConsumeExpired(w, ok) PROVE Same
  BY <1>6, <1>t DEF ConsumeExpired, CompleteInbound, Settle, Go, queueVars, rowVars,
     workerVars, history,
     QueueTypeOK, InboundTypeOK, BusyOK, Same
<1>7. ASSUME NEW w \in Workers, NEW ok \in BOOLEAN, Fetch(w, ok) PROVE Same
  BY <1>7, <1>t DEF Fetch, Go, queueVars, rowVars, workerVars, history,
     QueueTypeOK, InboundTypeOK, BusyOK, Same
<1>9. ASSUME NEW w \in Workers, NEW ok \in BOOLEAN, Complete(w, ok) PROVE Same
  BY <1>9, <1>t DEF Complete, CompleteInbound, Settle, Go, queueVars, rowVars, workerVars,
     QueueTypeOK, InboundTypeOK, BusyOK, Same
<1>10. ASSUME NEW w \in Workers, NEW ok \in BOOLEAN, MarkDelivered(w, ok) PROVE Same
  BY <1>10, <1>t DEF MarkDelivered, PutDown, Go, rowVars, history,
     QueueTypeOK, InboundTypeOK, BusyOK, Same
<1>12. ASSUME NEW w \in Workers, Return(w) PROVE Same
  BY <1>12, <1>t DEF Return, PutDown, Go, rowVars, history,
     QueueTypeOK, InboundTypeOK, BusyOK, Same
<1>13. ASSUME NEW w \in Workers, FinishBatch(w) PROVE Same
  BY <1>13, <1>t DEF FinishBatch, EndBatch, rowVars, entryVars, history,
     QueueTypeOK, InboundTypeOK, BusyOK, Same
<1>15. ASSUME NEW w \in Workers, NEW ok \in BOOLEAN, CleanUp(w, ok) PROVE Same
  BY <1>15, <1>t DEF CleanUp, CleanupExpiredInbound, ExpireRows, Go, queueVars, rowVars,
     workerVars, history,
     QueueTypeOK, InboundTypeOK, BusyOK, Same
<1>8. ASSUME NEW w \in Workers, NEW given \in BOOLEAN, NEW ok \in BOOLEAN,
             Send(w, given, ok)
      PROVE  Same
  <2>1. cur[w] \in Rows /\ UNCHANGED << message, cur >> /\ failed \subseteq failed'
    BY <1>8, <1>t DEF Send, BusyOK, queueVars, rowVars, workerVars
  <2>2. \A v \in Workers : at'[v] = "requeue" =>
          at[v] = "requeue" \/ message[cur[v]] \in failed'
    BY <1>8, <1>t DEF Send, Go, InboundTypeOK
  <2>3. \A r \in Rows : sends'[r] > 0 => sends[r] > 0 \/ r = cur[w]
    BY <1>8, <1>t DEF Send, Reach, InboundTypeOK
  <2> QED
    BY <2>1, <2>2, <2>3, <1>m DEF Same
<1>11. ASSUME NEW w \in Workers, NEW ok \in BOOLEAN, Requeue(w, ok)
       PROVE  AgainInv'
  <2>1. \/ UNCHANGED message
        \/ \E r \in Rows : /\ status[r] = "none"
                           /\ message' = [message EXCEPT ![r] = message[cur[w]]]
    BY <1>11, EnqueuedRow DEF Requeue, EnqueueInbound, queueVars, rowVars
  <2>2. /\ UNCHANGED << cur, failed, sends >> /\ at[w] = "requeue"
        /\ \A v \in Workers : at'[v] = "requeue" => at[v] = "requeue"
    BY <1>11, <1>t DEF Requeue, EnqueueInbound, Enqueue, Go, history, queueVars,
       workerVars, InboundTypeOK
  <2>3. message[cur[w]] \in failed /\ message[cur[w]] \in Msgs
    BY <2>2, <1>m, <1>t DEF AgainInv, BusyOK
  <2>4. CASE UNCHANGED message
    BY <2>2, <2>4 DEF AgainInv
  <2>5. ASSUME NEW r \in Rows, status[r] = "none",
               message' = [message EXCEPT ![r] = message[cur[w]]]
        PROVE  AgainInv'
    <3>1. /\ message'[r] = message[cur[w]]
          /\ \A o \in Rows \ {r} : message'[o] = message[o]
      BY <2>5, <1>t DEF QueueTypeOK
    <3>2. \A v \in Workers : at[v] = "requeue" => cur[v] \in Rows /\ cur[v] # r
      BY <2>5, <1>m, <1>t DEF BusyOK
    <3> QED
      BY <2>2, <2>3, <3>1, <3>2 DEF AgainInv
  <2> QED
    BY <2>1, <2>4, <2>5
<1>14. ASSUME NEW w \in Workers, Tick(w) PROVE Same
  <2>1. /\ failed' = failed
        /\ \A r \in Rows : sends'[r] > 0 =>
             sends[r] > 0 \/ (r = cur[w] /\ cur[w] \in Rows)
    BY <1>14, <1>t DEF Tick, Dropped, Reach, InboundTypeOK, BusyOK
  <2>2. /\ message' = message
        /\ \A v \in Workers : at'[v] = "requeue" =>
             at[v] = "requeue" /\ cur'[v] = cur[v]
    BY <1>14, <1>t DEF Tick, EndBatch, Go, rowVars, QueueTypeOK, InboundTypeOK
  <2> QED
    BY <2>1, <2>2, <1>m DEF Same
<1>16. ASSUME NEW w \in Workers, StopWorker(w) PROVE Same
  <2>1. /\ failed' = failed
        /\ \A r \in Rows : sends'[r] > 0 =>
             sends[r] > 0 \/ (r = cur[w] /\ cur[w] \in Rows)
    BY <1>16, <1>t DEF StopWorker, Dropped, Reach, InboundTypeOK, BusyOK
  <2>2. /\ message' = message
        /\ \A v \in Workers : at'[v] = "requeue" =>
             at[v] = "requeue" /\ cur'[v] = cur[v]
    BY <1>16, <1>t DEF StopWorker, Stop, Go, rowVars, QueueTypeOK, InboundTypeOK
  <2> QED
    BY <2>1, <2>2, <1>m DEF Same
<1>17. ASSUME UNCHANGED vars PROVE Same
  BY <1>17 DEF vars, queueVars, rowVars, workerVars, entryVars, history, Same
<1> QED
  BY <1>1, <1>2, <1>3, <1>4, <1>5, <1>6, <1>7, <1>8, <1>9, <1>10, <1>11, <1>12,
     <1>13, <1>14, <1>15, <1>16, <1>17, <1>s
  DEF Next, Run, ProcessEntry

\* One entry reaches a client twice only if its delivery was cut short, answered
\* by an error although a client was given the message, or not completed, or if
\* two workers ran under one id; a message does by two entries only if a delivery
\* of it was answered by an error: for any number of workers, rows and ids.
THEOREM TwiceHasCauseInvariant == Spec => []TwiceHasCause
<1>1. Init => OnceInv
  BY ApartInit DEF Init, QueueInit, OnceInv, LocksHeld, Holding, SentOnce
<1>2. QueueInv /\ EntryInv /\ OnceInv /\ [Next]_vars => OnceInv'
  <2> SUFFICES ASSUME QueueInv, EntryInv, OnceInv, [Next]_vars PROVE OnceInv'
    OBVIOUS
  <2>1. [QueueNext]_queueVars
    BY ClaimStep DEF QueueInv
  <2>2. ApartInv'
    BY <2>1, ApartStep DEF OnceInv
  <2>3. ASSUME ~shared'
        PROVE  LocksHeld' /\ \A r \in Rows \ doubtful' : SentOnce(r)'
    <3>1. /\ IdsApart /\ LocksHeld
          /\ \A w \in Workers : TodoLocked(w)
          /\ \A r \in Rows \ doubtful : SentOnce(r)
      BY <2>1, <2>3, SharedStays DEF OnceInv, ApartInv
    <3> QED
      BY <3>1, OnceStep
  <2> QED
    BY <2>2, <2>3 DEF OnceInv
<1>3. Init => AgainInv
  BY QueueAssumption DEF Init, QueueInit, AgainInv
<1>4. EntryInv /\ OnceInv /\ AgainInv => TwiceHasCause
  <2> SUFFICES ASSUME EntryInv, OnceInv, AgainInv PROVE TwiceHasCause
    OBVIOUS
  <2>1. ASSUME NEW r \in Rows, sends[r] = 2 PROVE r \in doubtful \/ shared
    BY <2>1 DEF OnceInv, SentOnce
  <2>2. ASSUME NEW q \in Rows, NEW r \in Rows, q # r, message[q] = message[r],
               sends[r] > 0
        PROVE  message[r] \in failed
    BY <2>2 DEF AgainInv
  <2> QED
    BY <2>1, <2>2 DEF TwiceHasCause
<1> QED
  BY <1>1, <1>2, <1>3, <1>4, AgainStep, InboundInvariant, PTL DEF Spec

=============================================================================
