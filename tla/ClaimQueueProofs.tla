-------------------------- MODULE ClaimQueueProofs --------------------------
(***************************************************************************)
(* Proofs about ClaimQueue, for any numbers of rows, workers and ids. The   *)
(* inductive invariant says why an entry never comes to a worker of another *)
(* id: what is held was claimed, stays locked under the holder's id until   *)
(* it is settled, and is never claimable again.                             *)
(***************************************************************************)
EXTENDS ClaimQueue, TLAPS

\* A lock belongs to a row that is being processed.
LockOK == \A r \in Rows : lockedBy[r] # NoId => status[r] = "processing"

\* A worker that is off holds nothing, one that is not has an id.
OffOK ==
  \A w \in Workers :
    /\ phase[w] = "off" => todo[w] = {} /\ cur[w] = NoRow
    /\ phase[w] # "off" => workerId[w] \in Ids

\* Who holds a row has it locked, unless the row is settled.
HeldOK ==
  \A w \in Workers : \A r \in Held(w) :
    /\ status[r] \notin {"none", "pending"}
    /\ lockedBy[r] \in {workerId[w], NoId}

QueueInv == QueueTypeOK /\ LockOK /\ OffOK /\ HeldOK /\ SameEntrySameId

-----------------------------------------------------------------------------

\* The table starts with nothing claimed and nothing held.
LEMMA QueueInitInv == QueueInit => QueueInv
<1> SUFFICES ASSUME QueueInit PROVE QueueInv
  OBVIOUS
<1> USE QueueAssumption DEF QueueInit
<1>1. QueueTypeOK
  BY DEF QueueTypeOK, Statuses, Phases
<1>2. \A w \in Workers : Held(w) = {}
  BY DEF Held
<1>3. LockOK /\ OffOK
  BY DEF LockOK, OffOK
<1>4. HeldOK /\ SameEntrySameId
  BY <1>2 DEF HeldOK, SameEntrySameId
<1> QED
  BY <1>1, <1>3, <1>4 DEF QueueInv

\* A new row is one that was not used.
LEMMA EnqueuedRow ==
  ASSUME NEW w \in Workers, Enqueue(w)
  PROVE  \E r \in Rows : /\ status[r] = "none"
                         /\ message' = [message EXCEPT ![r] = message[cur[w]]]
                         /\ status' = [status EXCEPT ![r] = "pending"]
<1>1. PICK r \in Oldest(Unused, 1) :
        /\ message' = [message EXCEPT ![r] = message[cur[w]]]
        /\ status' = [status EXCEPT ![r] = "pending"]
  BY DEF Enqueue
<1>2. r \in Unused
  BY <1>1 DEF Oldest
<1> QED
  BY <1>1, <1>2 DEF Unused

\* Every step of a worker, and every expiry, keeps the types.
LEMMA QueueTypeStep == QueueTypeOK /\ [QueueNext]_queueVars => QueueTypeOK'
<1> SUFFICES ASSUME QueueTypeOK, [QueueNext]_queueVars PROVE QueueTypeOK'
  OBVIOUS
<1> USE QueueAssumption DEF QueueTypeOK, rowVars, workerVars
<1>1. ASSUME NEW w \in Workers, NEW i \in Ids, Start(w, i) PROVE QueueTypeOK'
  BY <1>1 DEF Start, Phases
<1>2. ASSUME NEW w \in Workers, NEW S \in SUBSET Rows, Claim(w, S)
      PROVE QueueTypeOK'
  BY <1>2 DEF Claim, Phases, Statuses
<1>3. ASSUME NEW w \in Workers, ReadBack(w) PROVE QueueTypeOK'
  BY <1>3 DEF ReadBack, Phases
<1>4. ASSUME NEW w \in Workers, NEW r \in Rows, TakeUp(w, r) PROVE QueueTypeOK'
  BY <1>4 DEF TakeUp
<1>5. ASSUME NEW w \in Workers, NEW s \in Final, Settle(w, s) PROVE QueueTypeOK'
  BY <1>5 DEF Settle, Final, Statuses
<1>6. ASSUME NEW w \in Workers, Enqueue(w) PROVE QueueTypeOK'
  <2>1. PICK r \in Rows : /\ message' = [message EXCEPT ![r] = message[cur[w]]]
                          /\ status' = [status EXCEPT ![r] = "pending"]
    BY <1>6, EnqueuedRow
  <2>2. cur[w] \in Rows
    BY <1>6 DEF Enqueue
  <2> QED
    BY <1>6, <2>1, <2>2 DEF Enqueue, Statuses
<1>7. ASSUME NEW w \in Workers, PutDown(w) PROVE QueueTypeOK'
  BY <1>7 DEF PutDown
<1>8. ASSUME NEW w \in Workers, EndBatch(w) PROVE QueueTypeOK'
  BY <1>8 DEF EndBatch, Phases
<1>9. ASSUME NEW w \in Workers, Stop(w) PROVE QueueTypeOK'
  BY <1>9 DEF Stop, Phases
<1>10. ASSUME NEW S \in SUBSET Rows, ExpireRows(S) PROVE QueueTypeOK'
  BY <1>10 DEF ExpireRows, Statuses
<1>11. CASE UNCHANGED queueVars
  BY <1>11 DEF queueVars
<1> QED
  BY <1>1, <1>2, <1>3, <1>4, <1>5, <1>6, <1>7, <1>8, <1>9, <1>10, <1>11
  DEF QueueNext, WorkerStep

\* What a step does to the hands of the workers: rows come in only by ReadBack,
\* and never to a worker whose id changes.
LEMMA HeldAfter ==
  ASSUME NEW w \in Workers, NEW v \in Workers, QueueTypeOK
  PROVE  /\ \A i : Start(w, i) => Held(v)' = Held(v)
         /\ \A S : Claim(w, S) => Held(v)' = Held(v)
         /\ ReadBack(w) =>
              Held(v)' \subseteq Held(v) \cup
                (IF v = w THEN {r \in Rows : lockedBy[r] = workerId[w]} ELSE {})
         /\ \A r \in Rows : TakeUp(w, r) => Held(v)' \subseteq Held(v)
         /\ \A s : Settle(w, s) => Held(v)' = Held(v)
         /\ Enqueue(w) => Held(v)' = Held(v)
         /\ PutDown(w) => Held(v)' \subseteq Held(v)
         /\ EndBatch(w) => Held(v)' \subseteq Held(v)
         /\ Stop(w) => Held(v)' \subseteq Held(v) /\ (v = w => Held(v)' = {})
<1> USE QueueAssumption DEF QueueTypeOK, Held, rowVars, workerVars
<1>1. \A i : Start(w, i) => Held(v)' = Held(v)
  BY DEF Start
<1>2. \A S : Claim(w, S) => Held(v)' = Held(v)
  BY DEF Claim
<1>3. ReadBack(w) =>
        Held(v)' \subseteq Held(v) \cup
          (IF v = w THEN {r \in Rows : lockedBy[r] = workerId[w]} ELSE {})
  BY DEF ReadBack
<1>4. \A r \in Rows : TakeUp(w, r) => Held(v)' \subseteq Held(v)
  BY DEF TakeUp
<1>5. \A s : Settle(w, s) => Held(v)' = Held(v)
  BY DEF Settle
<1>6. Enqueue(w) => Held(v)' = Held(v)
  BY DEF Enqueue
<1>7. PutDown(w) => Held(v)' \subseteq Held(v)
  BY DEF PutDown
<1>8. EndBatch(w) => Held(v)' \subseteq Held(v)
  BY DEF EndBatch
<1>9. Stop(w) => Held(v)' \subseteq Held(v) /\ (v = w => Held(v)' = {})
  BY DEF Stop
<1> QED
  BY <1>1, <1>2, <1>3, <1>4, <1>5, <1>6, <1>7, <1>8, <1>9

\* The invariant is kept by every step.
LEMMA QueueStepInv == QueueInv /\ [QueueNext]_queueVars => QueueInv'
<1> SUFFICES ASSUME QueueInv, [QueueNext]_queueVars PROVE QueueInv'
  OBVIOUS
<1>t. QueueTypeOK /\ QueueTypeOK'
  BY QueueTypeStep DEF QueueInv
<1> DEFINE Rest == LockOK' /\ OffOK' /\ HeldOK' /\ SameEntrySameId'
<1> USE QueueAssumption, <1>t DEF rowVars, workerVars
<1>h. /\ \A w \in Workers : \A r \in Held(w) : r \in Rows
      /\ \A w \in Workers : cur[w] \in Rows => cur[w] \in Held(w)
  BY DEF Held, QueueTypeOK
<1>i. LockOK /\ OffOK /\ HeldOK /\ SameEntrySameId
  BY DEF QueueInv
<1>1. ASSUME NEW w \in Workers, NEW i \in Ids, Start(w, i) PROVE Rest
  <2>1. /\ Held(w) = {}
        /\ \A v \in Workers : Held(v)' = Held(v)
        /\ \A v \in Workers \ {w} : workerId'[v] = workerId[v]
    BY <1>1, <1>i, HeldAfter DEF Start, OffOK, Held, QueueTypeOK
  <2>2. LockOK' /\ OffOK'
    BY <1>1, <1>i DEF Start, LockOK, OffOK, QueueTypeOK
  <2>3. HeldOK'
    BY <1>1, <1>i, <2>1 DEF Start, HeldOK
  <2>4. SameEntrySameId'
    BY <1>i, <2>1 DEF SameEntrySameId
  <2> QED
    BY <2>2, <2>3, <2>4
<1>2. ASSUME NEW w \in Workers, NEW S \in SUBSET Rows, Claim(w, S) PROVE Rest
  <2>1. \A v \in Workers : Held(v)' = Held(v) /\ workerId'[v] = workerId[v]
    BY <1>2, HeldAfter DEF Claim
  <2>2. LockOK' /\ OffOK'
    BY <1>2, <1>i DEF Claim, LockOK, OffOK, QueueTypeOK
  <2>3. \A v \in Workers : \A r \in Held(v) : r \notin S
    BY <1>2, <1>i DEF Claim, HeldOK, Pending
  <2>4. HeldOK'
    BY <1>2, <1>h, <1>i, <2>1, <2>3 DEF Claim, HeldOK
  <2>5. SameEntrySameId'
    BY <1>i, <2>1 DEF SameEntrySameId
  <2> QED
    BY <2>2, <2>4, <2>5
<1>3. ASSUME NEW w \in Workers, ReadBack(w) PROVE Rest
  <2>1. /\ \A v \in Workers \ {w} : Held(v)' \subseteq Held(v)
        /\ Held(w)' \subseteq
             Held(w) \cup {r \in Rows : lockedBy[r] = workerId[w]}
        /\ UNCHANGED << workerId, status, lockedBy >>
    BY <1>3, HeldAfter DEF ReadBack
  <2>2. LockOK' /\ OffOK'
    BY <1>3, <1>i DEF ReadBack, LockOK, OffOK, QueueTypeOK
  <2>3. workerId[w] # NoId
    BY <1>3, <1>i DEF ReadBack, OffOK
  <2>4. HeldOK'
    BY <1>i, <2>1, <2>3 DEF HeldOK, LockOK
  <2>5. ASSUME NEW v \in Workers, NEW u \in Workers, v # u,
               NEW r \in Held(v)' \cap Held(u)'
        PROVE  workerId[v] = workerId[u]
    <3>1. CASE r \in Held(v) \cap Held(u)
      BY <1>i, <2>5, <3>1 DEF SameEntrySameId
    <3>2. CASE lockedBy[r] = workerId[w] /\ v = w /\ r \in Held(u)
      BY <1>i, <2>3, <3>2 DEF HeldOK
    <3>3. CASE lockedBy[r] = workerId[w] /\ u = w /\ r \in Held(v)
      BY <1>i, <2>3, <3>3 DEF HeldOK
    <3> QED
      BY <2>1, <2>5, <3>1, <3>2, <3>3
  <2>6. SameEntrySameId'
    BY <2>1, <2>5 DEF SameEntrySameId
  <2> QED
    BY <2>2, <2>4, <2>6
<1>4. ASSUME NEW w \in Workers,
             \/ \E r \in Rows : TakeUp(w, r)
             \/ PutDown(w)
             \/ EndBatch(w)
      PROVE  Rest
  <2>1. /\ \A v \in Workers : Held(v)' \subseteq Held(v)
        /\ UNCHANGED << workerId, status, lockedBy >>
    BY <1>4, HeldAfter DEF TakeUp, PutDown, EndBatch
  <2>2. LockOK' /\ OffOK'
    BY <1>4, <1>i DEF TakeUp, PutDown, EndBatch, LockOK, OffOK, QueueTypeOK
  <2>3. HeldOK'
    BY <1>i, <2>1 DEF HeldOK
  <2>4. SameEntrySameId'
    BY <1>i, <2>1 DEF SameEntrySameId
  <2> QED
    BY <2>2, <2>3, <2>4
<1>5. ASSUME NEW w \in Workers, NEW s \in Final, Settle(w, s) PROVE Rest
  <2>1. \A v \in Workers : Held(v)' = Held(v) /\ workerId'[v] = workerId[v]
    BY <1>5, HeldAfter DEF Settle
  <2>2. LockOK' /\ OffOK'
    BY <1>5, <1>i DEF Settle, LockOK, OffOK, QueueTypeOK
  <2>3. HeldOK'
    BY <1>5, <1>h, <1>i, <2>1 DEF Settle, HeldOK, Final, QueueTypeOK
  <2>4. SameEntrySameId'
    BY <1>i, <2>1 DEF SameEntrySameId
  <2> QED
    BY <2>2, <2>3, <2>4
<1>6. ASSUME NEW w \in Workers, Enqueue(w) PROVE Rest
  <2>1. \A v \in Workers : Held(v)' = Held(v) /\ workerId'[v] = workerId[v]
    BY <1>6, HeldAfter DEF Enqueue
  <2>2. PICK r \in Rows : /\ status[r] = "none"
                          /\ status' = [status EXCEPT ![r] = "pending"]
    BY <1>6, EnqueuedRow
  <2>3. lockedBy' = lockedBy /\ UNCHANGED << phase, todo, cur >>
    BY <1>6 DEF Enqueue
  <2>4. LockOK' /\ OffOK'
    BY <1>i, <2>1, <2>2, <2>3 DEF LockOK, OffOK, QueueTypeOK
  <2>5. HeldOK'
    BY <1>h, <1>i, <2>1, <2>2, <2>3 DEF HeldOK, QueueTypeOK
  <2>6. SameEntrySameId'
    BY <1>i, <2>1 DEF SameEntrySameId
  <2> QED
    BY <2>4, <2>5, <2>6
<1>7. ASSUME NEW w \in Workers, Stop(w) PROVE Rest
  <2>1. /\ \A v \in Workers : Held(v)' \subseteq Held(v)
        /\ Held(w)' = {}
        /\ \A v \in Workers \ {w} : workerId'[v] = workerId[v]
        /\ UNCHANGED << status, lockedBy >>
    BY <1>7, HeldAfter DEF Stop, QueueTypeOK
  <2>2. LockOK' /\ OffOK'
    BY <1>7, <1>i DEF Stop, LockOK, OffOK, QueueTypeOK
  <2>3. HeldOK'
    BY <1>i, <2>1 DEF HeldOK
  <2>4. SameEntrySameId'
    BY <1>i, <2>1 DEF SameEntrySameId
  <2> QED
    BY <2>2, <2>3, <2>4
<1>8. ASSUME NEW S \in SUBSET Rows, ExpireRows(S) PROVE Rest
  <2>1. \A v \in Workers : Held(v)' = Held(v) /\ workerId'[v] = workerId[v]
    BY <1>8 DEF ExpireRows, Held
  <2>2. LockOK' /\ OffOK'
    BY <1>8, <1>i DEF ExpireRows, LockOK, OffOK, Pending, QueueTypeOK
  <2>3. HeldOK'
    BY <1>8, <1>h, <1>i, <2>1 DEF ExpireRows, HeldOK, Pending
  <2>4. SameEntrySameId'
    BY <1>i, <2>1 DEF SameEntrySameId
  <2> QED
    BY <2>2, <2>3, <2>4
<1>9. ASSUME UNCHANGED queueVars PROVE Rest
  BY <1>9, <1>i DEF queueVars, LockOK, OffOK, HeldOK, SameEntrySameId, Held
<1> HIDE DEF Rest
<1>10. Rest
  BY <1>1, <1>2, <1>3, <1>4, <1>5, <1>6, <1>7, <1>8, <1>9
  DEF QueueNext, WorkerStep
<1> QED
  BY <1>10, <1>t DEF QueueInv, Rest

\* The whole invariant holds of every behaviour of the claim protocol.
THEOREM QueueInvariant == QueueSpec => []QueueInv
<1> QED
  BY QueueInitInv, QueueStepInv, PTL DEF QueueSpec

\* The table and the workers keep their types.
THEOREM QueueTypeInvariant == QueueSpec => []QueueTypeOK
<1>1. QueueInv => QueueTypeOK
  BY DEF QueueInv
<1> QED
  BY <1>1, QueueInvariant, PTL

\* Two workers are at work on one entry only if they run under one id.
THEOREM SameEntryInvariant == QueueSpec => []SameEntrySameId
<1>1. QueueInv => SameEntrySameId
  BY DEF QueueInv
<1> QED
  BY <1>1, QueueInvariant, PTL

-----------------------------------------------------------------------------

\* Running workers have ids of their own.
IdsApart ==
  \A v, w \in Workers : v # w /\ workerId[v] = workerId[w] => workerId[v] = NoId

\* A worker holds entries in a batch only.
BatchOK == \A w \in Workers : phase[w] # "work" => todo[w] = {} /\ cur[w] = NoRow

\* What a worker has not taken up yet is still locked by it.
TodoLocked(w) ==
  \A r \in todo[w] : lockedBy[r] = workerId[w] /\ r # cur[w]

ApartInv ==
  /\ BatchOK
  /\ ~shared => IdsApart /\ \A w \in Workers : TodoLocked(w)

\* While no two workers run under one id, no entry is in two hands.
LEMMA HandsApart ==
  ASSUME QueueInv, IdsApart
  PROVE  \A v, w \in Workers : v # w => Held(v) \cap Held(w) = {}
<1>1. QueueTypeOK /\ OffOK /\ SameEntrySameId
  BY DEF QueueInv
<1>2. SUFFICES ASSUME NEW v \in Workers, NEW w \in Workers, v # w,
                      Held(v) \cap Held(w) # {}
               PROVE  FALSE
  OBVIOUS
<1>3. workerId[v] = NoId
  BY <1>1, <1>2 DEF SameEntrySameId, IdsApart
<1>4. phase[v] # "off"
  BY <1>1, <1>2, QueueAssumption DEF OffOK, Held
<1> QED
  BY <1>1, <1>3, <1>4, QueueAssumption DEF OffOK

\* A step keeps what is to be taken up locked, as long as the ids stay apart.
LEMMA ApartStep == QueueInv /\ ApartInv /\ [QueueNext]_queueVars => ApartInv'
<1> SUFFICES ASSUME QueueInv, ApartInv, [QueueNext]_queueVars PROVE ApartInv'
  OBVIOUS
<1>t. QueueTypeOK /\ LockOK /\ OffOK /\ HeldOK /\ BatchOK
  BY DEF QueueInv, ApartInv
<1>a. ~shared => /\ IdsApart
                 /\ \A w \in Workers : TodoLocked(w)
                 /\ \A v, w \in Workers : v # w => Held(v) \cap Held(w) = {}
  BY HandsApart DEF ApartInv
<1>b. \A w \in Workers : todo[w] \subseteq Rows /\ todo[w] \subseteq Held(w)
  BY <1>t DEF QueueTypeOK, Held
<1> DEFINE Ids2 == ~shared' => IdsApart'
           Todo2 == ~shared' => \A w \in Workers : TodoLocked(w)'
<1> USE QueueAssumption DEF rowVars, workerVars
<1>1. ASSUME NEW w \in Workers, NEW i \in Ids, Start(w, i)
      PROVE  BatchOK' /\ Ids2 /\ Todo2
  <2>1. /\ \A v \in Workers \ {w} : workerId'[v] = workerId[v]
        /\ workerId'[w] = i
        /\ UNCHANGED << todo, cur, lockedBy >>
        /\ todo[w] = {}
        /\ phase[w] = "off"
        /\ ~shared' => ~shared /\ \A v \in Workers : workerId[v] # i
    BY <1>1, <1>t DEF Start, OffOK, QueueTypeOK
  <2>2. BatchOK'
    BY <1>1, <1>t DEF Start, BatchOK, QueueTypeOK
  <2>3. Ids2
    BY <1>a, <2>1 DEF IdsApart
  <2>4. Todo2
    BY <1>a, <2>1 DEF TodoLocked
  <2> QED
    BY <2>2, <2>3, <2>4
<1>2. ASSUME NEW w \in Workers, NEW S \in SUBSET Rows, Claim(w, S)
      PROVE  BatchOK' /\ Ids2 /\ Todo2
  <2>1. /\ UNCHANGED << workerId, todo, cur, shared >>
        /\ \A r \in Rows : status[r] # "pending" => lockedBy'[r] = lockedBy[r]
    BY <1>2 DEF Claim, Pending
  <2>2. \A v \in Workers : \A r \in todo[v] : r \in Rows /\ status[r] # "pending"
    BY <1>t, <1>b DEF HeldOK
  <2>3. BatchOK'
    BY <1>2, <1>t DEF Claim, BatchOK, QueueTypeOK
  <2>4. Ids2
    BY <1>a, <2>1 DEF IdsApart
  <2>5. Todo2
    BY <1>a, <2>1, <2>2 DEF TodoLocked
  <2> QED
    BY <2>3, <2>4, <2>5
<1>3. ASSUME NEW w \in Workers, ReadBack(w) PROVE BatchOK' /\ Ids2 /\ Todo2
  <2>1. /\ UNCHANGED << workerId, cur, lockedBy, shared >>
        /\ cur[w] = NoRow
        /\ todo'[w] = {r \in Rows : lockedBy[r] = workerId[w]}
        /\ \A v \in Workers \ {w} : todo'[v] = todo[v]
    BY <1>3, <1>t DEF ReadBack, BatchOK, QueueTypeOK
  <2>2. BatchOK'
    BY <1>3, <1>t DEF ReadBack, BatchOK, QueueTypeOK
  <2>3. Ids2
    BY <1>a, <2>1 DEF IdsApart
  <2>4. Todo2
    BY <1>a, <2>1 DEF TodoLocked
  <2> QED
    BY <2>2, <2>3, <2>4
<1>4. ASSUME NEW w \in Workers, (\E r \in Rows : TakeUp(w, r)) \/ PutDown(w)
      PROVE  BatchOK' /\ Ids2 /\ Todo2
  <2>1. /\ UNCHANGED << workerId, lockedBy, shared >>
        /\ \A v \in Workers : todo'[v] \subseteq todo[v]
        /\ \A v \in Workers \ {w} : cur'[v] = cur[v]
        /\ cur'[w] \notin todo'[w]
    BY <1>4, <1>b, <1>t DEF TakeUp, PutDown, QueueTypeOK
  <2>2. BatchOK'
    BY <1>4, <1>t DEF TakeUp, PutDown, BatchOK, QueueTypeOK
  <2>3. Ids2
    BY <1>a, <2>1 DEF IdsApart
  <2>4. Todo2
    BY <1>a, <2>1 DEF TodoLocked
  <2> QED
    BY <2>2, <2>3, <2>4
<1>5. ASSUME NEW w \in Workers, NEW s \in Final, Settle(w, s)
      PROVE  BatchOK' /\ Ids2 /\ Todo2
  <2>1. /\ UNCHANGED << workerId, todo, cur, shared >>
        /\ \A r \in Rows : r # cur[w] => lockedBy'[r] = lockedBy[r]
        /\ cur[w] \in Held(w)
    BY <1>5, <1>t DEF Settle, Held, QueueTypeOK
  <2>2. ~shared => \A v \in Workers : cur[w] \notin todo[v]
    BY <1>a, <1>b, <2>1 DEF TodoLocked
  <2>3. BatchOK'
    BY <1>5, <1>t DEF Settle, BatchOK
  <2>4. Ids2
    BY <1>a, <2>1 DEF IdsApart
  <2>5. Todo2
    BY <1>a, <1>b, <2>1, <2>2 DEF TodoLocked
  <2> QED
    BY <2>3, <2>4, <2>5
<1>6. ASSUME NEW w \in Workers, EndBatch(w) \/ Stop(w)
      PROVE  BatchOK' /\ Ids2 /\ Todo2
  <2>1. /\ UNCHANGED << lockedBy, shared >>
        /\ todo'[w] = {}
        /\ workerId'[w] \in {workerId[w], NoId}
        /\ \A v \in Workers \ {w} :
             todo'[v] = todo[v] /\ cur'[v] = cur[v] /\ workerId'[v] = workerId[v]
    BY <1>6, <1>t DEF EndBatch, Stop, QueueTypeOK
  <2>2. BatchOK'
    BY <1>6, <1>t DEF EndBatch, Stop, BatchOK, QueueTypeOK
  <2>3. Ids2
    BY <1>a, <2>1 DEF IdsApart
  <2>4. Todo2
    BY <1>a, <2>1 DEF TodoLocked
  <2> QED
    BY <2>2, <2>3, <2>4
<1>7. ASSUME UNCHANGED << lockedBy, workerVars >> PROVE BatchOK' /\ Ids2 /\ Todo2
  BY <1>7, <1>a, <1>t DEF BatchOK, IdsApart, TodoLocked
<1> HIDE DEF Ids2, Todo2
<1>8. BatchOK' /\ Ids2 /\ Todo2
  BY <1>1, <1>2, <1>3, <1>4, <1>5, <1>6, <1>7
  DEF QueueNext, WorkerStep, Enqueue, ExpireRows, queueVars
<1> QED
  BY <1>8 DEF ApartInv, Ids2, Todo2

\* That two workers had one id is not forgotten.
LEMMA SharedStays == [QueueNext]_queueVars => (shared => shared')
BY DEF QueueNext, WorkerStep, Start, Claim, ReadBack, TakeUp, Settle, Enqueue,
   PutDown, EndBatch, Stop, ExpireRows, queueVars, workerVars

\* The same holds at the start, when nobody runs.
LEMMA ApartInit == QueueInit => ApartInv
BY DEF QueueInit, ApartInv, BatchOK, IdsApart, TodoLocked

=============================================================================
