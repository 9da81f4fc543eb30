------------------------------ MODULE TaskLocks ------------------------------
(***************************************************************************)
(* Who waits for whom: the locks of the WebSocket manager, the bounded      *)
(* channels of its clients and the runtime's worker threads.                *)
(*                                                                          *)
(* A method is the sequence of locks it takes, with the sends it awaits      *)
(* while it holds them; all are dropped when it returns. The locks are       *)
(* parking_lot's and DashMap's: a task that waits for one blocks its thread. *)
(* A task that awaits room in a channel gives its thread back, but keeps     *)
(* what it has locked. Locks that are never held with another one            *)
(* (client_infos, pending_messages, reply_token_map) are left out.           *)
(***************************************************************************)
EXTENDS Integers, FiniteSets, Sequences

CONSTANTS
  Peers,      \* connected clients; each has a socket task and a send task
  Shards,     \* the shards of the registry `clients`
  ShardOf,    \* peer -> its shard
  ShardOrder, \* the shards as an iterator passes them
  Handlers,   \* tasks of webhook and REST requests
  Threads,    \* worker threads
  Room        \* capacity of a channel (32)

ASSUME TaskLocksAssumption ==
  /\ ShardOf \in [Peers -> Shards]
  /\ ShardOrder \in Seq(Shards)
  /\ {"owners", "sets"} \cap Shards = {}
  /\ Threads \in Nat \ {0}
  /\ Room \in Nat \ {0}
  /\ IsFiniteSet(Peers) /\ IsFiniteSet(Handlers)

VARIABLES
  todo,       \* task -> what is left of the method it is in
  locked,     \* task -> the locks it has, pairs <<lock, mode>>
  registered, \* peers that `clients` has
  queue,      \* peer -> messages in its channel
  reads,      \* peer -> "reads", "stalled" or "gone"
  ended       \* peers without a receive loop: not connected, or at its end

lockVars == << todo, locked, registered, queue, reads, ended >>

Tasks == Peers \cup Handlers

\* Taking a lock beside those it has, and taking one in exchange for them.
Lock(l, mode) == [do |-> "lock", lock |-> l, mode |-> mode, keep |-> TRUE]
Write(l) == Lock(l, "write")
Read(l) == Lock(l, "read")
Exchange(l) == [do |-> "lock", lock |-> l, mode |-> "read", keep |-> FALSE]
SendEach(S) == [do |-> "send", to |-> S]    \* one after the other, in any order
Register(k) == [do |-> "insert", peer |-> k]
Unregister(k) == [do |-> "remove", peer |-> k]
Unlock == [do |-> "drop"]

\* owners before the client's set, ...
ClaimConversation == << Write("owners"), Write("sets"), Unlock >>

SetConversationOwner == << Write("owners"), Write("sets"), Unlock >>

ClearConversationOwner == << Write("owners"), Write("sets"), Unlock >>

\* ... and after it.
ReleaseClientConversations == << Write("sets"), Write("owners"), Unlock >>

\* A look at a map: get_conversation_owner and get_all_conversation_owners, and
\* get_client_conversations.
LookAt(l) == << Read(l), Unlock >>

\* Is a client connected, are any, how many: contains_key, is_empty and len look at
\* the shards one by one.
Peek(s) == << Read(s), Unlock >>

\* The guard of the entry lives until the send is through.
SendTo(k) == << Read(ShardOf[k]), SendEach({k}), Unlock >>

\* So does that of the iterator, for each shard and all its entries; the next
\* shard is locked before it is dropped. (is_empty and len were called before.)
Broadcast ==
  [i \in 1 .. 2 * Len(ShardOrder) + 1 |->
     LET s == ShardOrder[(i + 1) \div 2] IN
     IF i = 2 * Len(ShardOrder) + 1 THEN Unlock
     ELSE IF i % 2 = 1 THEN Exchange(s)
     ELSE SendEach({k \in Peers : ShardOf[k] = s})]

AddClient(k) == << Write(ShardOf[k]), Register(k), Unlock >>

\* MUTANT of RemoveClient: the conversations are released under the guard of
\* the entry.
RemoveClientGuarded(k) ==
  << Write(ShardOf[k]), Unregister(k) >> \o ReleaseClientConversations

RemoveClient(k) ==
  << Write(ShardOf[k]), Unregister(k), Unlock >> \o ReleaseClientConversations

LockInit ==
  /\ todo = [t \in Tasks |-> << >>]
  /\ locked = [t \in Tasks |-> {}]
  /\ registered = {}
  /\ queue = [k \in Peers |-> 0]
  /\ reads = [k \in Peers |-> "reads"]
  /\ ended = Peers

-----------------------------------------------------------------------------

\* Nobody has the lock in a mode that excludes the one asked for: whoever asks
\* for a lock it has written under waits for itself.
Grantable(step) ==
  \A u \in Tasks, mode \in {"read", "write"} :
    << step.lock, mode >> \in locked[u] => mode = "read" /\ step.mode = "read"

\* A task that awaits room in a channel has given up its thread, the others that
\* are inside a method are on one.
AwaitsRoom(t) == /\ todo[t] # << >>
                 /\ Head(todo[t]).do = "send"
                 /\ Head(todo[t]).to # {}
OnThread(t) == todo[t] # << >> /\ ~AwaitsRoom(t)

Blocked(t) == /\ todo[t] # << >>
              /\ Head(todo[t]).do = "lock"
              /\ ~Grantable(Head(todo[t]))

FreeThread == Cardinality({t \in Tasks : OnThread(t)}) < Threads

Goes(t) == todo' = [todo EXCEPT ![t] = Tail(@)]

\* A request begins: it routes a message, RMS overrides or clears an owner, or
\* either looks at the maps or at who is connected.
BeginRequest(h) ==
  /\ todo[h] = << >>
  /\ FreeThread
  /\ \E method \in {Broadcast, SetConversationOwner, ClearConversationOwner,
                    ReleaseClientConversations, LookAt("owners"), LookAt("sets")}
                   \cup {SendTo(k) : k \in Peers} \cup {Peek(s) : s \in Shards} :
       todo' = [todo EXCEPT ![h] = method]
  /\ UNCHANGED << locked, registered, queue, reads, ended >>

\* A client connects, with a channel and a send task of its own.
Connect(k) ==
  /\ todo[k] = << >>
  /\ k \in ended
  /\ FreeThread
  /\ ended' = ended \ {k}
  /\ todo' = [todo EXCEPT ![k] = AddClient(k)]
  /\ queue' = [queue EXCEPT ![k] = 0]
  /\ reads' = [reads EXCEPT ![k] = "reads"]
  /\ UNCHANGED << locked, registered >>

\* MUTANT of BeginResponse: the owner is looked up under the lock of the claim.
BeginResponseReentrant(k) ==
  /\ todo[k] = << >>
  /\ k \notin ended
  /\ FreeThread
  /\ todo' = [todo EXCEPT ![k] = << Write("owners"), Read("owners"), Unlock >>]
  /\ UNCHANGED << locked, registered, queue, reads, ended >>

\* A client responds: its socket's task claims, and reports by send_to. Its own
\* pings and pongs go into the channel without a lock.
BeginResponse(k) ==
  /\ todo[k] = << >>
  /\ k \notin ended
  /\ FreeThread
  /\ \E method \in {ClaimConversation \o SendTo(k), << SendEach({k}) >>} :
       todo' = [todo EXCEPT ![k] = method]
  /\ UNCHANGED << locked, registered, queue, reads, ended >>

\* The receive loop ends, when the client has closed, has failed, or has sent
\* nothing for timeout_secs; the send task is aborted only after remove_client.
EndLoop(k) ==
  /\ todo[k] = << >>
  /\ k \notin ended
  /\ FreeThread
  /\ ended' = ended \cup {k}
  /\ todo' = [todo EXCEPT ![k] = RemoveClient(k)]
  /\ UNCHANGED << locked, registered, queue, reads >>

Acquire(t) ==
  /\ todo[t] # << >>
  /\ LET step == Head(todo[t]) IN
       /\ step.do = "lock"
       /\ Grantable(step)
       /\ locked' = [locked EXCEPT ![t] = (IF step.keep THEN @ ELSE {})
                                            \cup {<< step.lock, step.mode >>}]
  /\ Goes(t)
  /\ UNCHANGED << registered, queue, reads, ended >>

DropGuards(t) ==
  /\ todo[t] # << >>
  /\ Head(todo[t]).do = "drop"
  /\ locked' = [locked EXCEPT ![t] = {}]
  /\ Goes(t)
  /\ UNCHANGED << registered, queue, reads, ended >>

WriteEntry(t) ==
  /\ todo[t] # << >>
  /\ LET step == Head(todo[t]) IN
       \/ step.do = "insert" /\ registered' = registered \cup {step.peer}
       \/ step.do = "remove" /\ registered' = registered \ {step.peer}
  /\ Goes(t)
  /\ UNCHANGED << locked, queue, reads, ended >>

\* The channel takes the message, or it is closed and the send returns at once,
\* or there is no entry to send to.
SendGoes(t) ==
  /\ AwaitsRoom(t)
  /\ FreeThread
  /\ \E k \in Head(todo[t]).to :
       /\ \/ /\ k \in registered /\ reads[k] # "gone"
             /\ queue[k] < Room
             /\ queue' = [queue EXCEPT ![k] = @ + 1]
          \/ /\ k \notin registered \/ reads[k] = "gone"
             /\ UNCHANGED queue
       /\ todo' = [todo EXCEPT ![t] = << SendEach(@[1].to \ {k}) >> \o Tail(@)]
  /\ UNCHANGED << locked, registered, reads, ended >>

\* Everyone has been sent to.
SendsEnd(t) ==
  /\ todo[t] # << >>
  /\ Head(todo[t]).do = "send" /\ Head(todo[t]).to = {}
  /\ Goes(t)
  /\ UNCHANGED << locked, registered, queue, reads, ended >>

\* The send task hands a message to the socket, which has room for it while the
\* client reads; it needs a thread for that.
Transmit(k) ==
  /\ queue[k] > 0
  /\ reads[k] = "reads"
  /\ FreeThread
  /\ queue' = [queue EXCEPT ![k] = @ - 1]
  /\ UNCHANGED << todo, locked, registered, reads, ended >>

\* A client stops reading, goes on, or its connection breaks: the send task
\* ends at its next write, and with it the channel.
PeerTurns(k) ==
  /\ reads[k] # "gone"
  /\ \E new \in {"reads", "stalled", "gone"} \ {reads[k]} :
       /\ new = "gone" => FreeThread
       /\ reads' = [reads EXCEPT ![k] = new]
  /\ UNCHANGED << todo, locked, registered, queue, ended >>

TaskStep(t) == Acquire(t) \/ DropGuards(t) \/ WriteEntry(t) \/ SendGoes(t) \/ SendsEnd(t)

LockNext ==
  \/ \E h \in Handlers : BeginRequest(h)
  \/ \E k \in Peers :
       \/ Connect(k) \/ BeginResponse(k) \/ EndLoop(k)
       \/ Transmit(k) \/ PeerTurns(k)
  \/ \E t \in Tasks : TaskStep(t)

LockSpec == LockInit /\ [][LockNext]_lockVars

-----------------------------------------------------------------------------
(***************************************************************************)
(* Properties                                                              *)
(***************************************************************************)

Has(t, l) == \E mode \in {"read", "write"} : << l, mode >> \in locked[t]
WaitsFor(t, l) == Blocked(t) /\ Head(todo[t]).lock = l

\* A release and a claim, an override or a clear, each with the other's lock.
Inversion ==
  \E t, u \in Tasks : /\ Has(t, "sets") /\ WaitsFor(t, "owners")
                      /\ Has(u, "owners") /\ WaitsFor(u, "sets")

\* A routing that has a shard locked while it awaits a client of that shard.
GuardedSend ==
  \E t \in Tasks, s \in Shards : Has(t, s) /\ AwaitsRoom(t)

\* There are two ways for the whole program to stop, every thread blocked on a
\* lock: the two orders in which the ownership maps are locked, and a registry
\* shard that stays locked while a client's channel is full.
StopHasCause ==
  Cardinality({t \in Tasks : Blocked(t)}) = Threads => Inversion \/ GuardedSend

\* Nobody who has an ownership map locked has a shard of the registry locked or
\* waits for one, so that a channel that stays full, which may stop the registry,
\* leaves claims, releases and lookups of owners alone.
OwnershipApart ==
  \A t \in Tasks, l \in {"owners", "sets"} :
    Has(t, l) => \A s \in Shards : ~WaitsFor(t, s) /\ ~Has(t, s)

=============================================================================
