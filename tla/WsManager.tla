------------------------------ MODULE WsManager ------------------------------
(***************************************************************************)
(* The WebSocket manager of src/ws_manager.rs: the registry of connected   *)
(* clients, the life of one socket task (handle_socket), and the two maps   *)
(* that hold conversation ownership.                                        *)
(*                                                                          *)
(* Every socket is a task of a multi-threaded runtime, so a step here is    *)
(* one access to shared state: add_client and remove_client are several     *)
(* steps, while a method that keeps a lock for its whole body is one.       *)
(* client_infos and reply_token_map are left out: nothing that routes a     *)
(* message reads them.                                                      *)
(***************************************************************************)
EXTENDS Integers, FiniteSets

CONSTANTS
  Clients,    \* client ids that workers authenticate with
  Socks,      \* slots for WebSocket connections, each with its own channel
  Convs,      \* LINE conversation ids
  NoClient,   \* no client id
  NoSock,     \* no channel under this id
  MaxCount,   \* bound on clientCount, which can drift upwards for ever
  Reuse       \* bound: whether a slot serves connection after connection

ASSUME ConstantsAssumption ==
  /\ NoClient \notin Clients
  /\ NoSock \notin Socks
  /\ IsFiniteSet(Clients)
  /\ IsFiniteSet(Socks)
  /\ MaxCount \in Nat
  /\ Reuse \in BOOLEAN

VARIABLES
  loop,                 \* where each socket's task is, see Phases
  clientId,             \* handle_socket's local client_id (set = authenticated)
  rxOpen,               \* the socket's send_task still holds its receiver
  clients,              \* DashMap: client id -> the channel (its socket)
  clientCount,          \* AtomicUsize
  conversationOwners,   \* conversation -> owning client
  clientConversations,  \* client -> the conversations recorded as its own
  overridden,           \* history: conversations RMS took from their owner
  overwrites            \* history: registrations that replaced a live entry

wsVars == << loop, clientId, rxOpen, clients, clientCount,
             conversationOwners, clientConversations, overridden, overwrites >>
connVars  == << loop, clientId, rxOpen, clients, clientCount, overwrites >>
ownerVars == << conversationOwners, clientConversations, overridden >>

(***************************************************************************)
(* "idle"     no connection in this slot                                   *)
(* "recv"     in the receive loop                                          *)
(* "adding"   inside add_client, entry inserted, not yet counted           *)
(* "unreg"    left the loop, about to remove the entry of its client id    *)
(* "uncount"  removed an entry, about to decrement client_count            *)
(* "release"  about to release the conversations of its client id          *)
(* "abort"    about to abort the send task                                 *)
(* "panicked" the task unwound inside the response handler: no cleanup ran *)
(***************************************************************************)
Phases == {"idle", "recv", "adding", "unreg", "uncount", "release", "abort",
           "panicked"}

\* The client ids that have an entry in `clients`.
Registered == {k \in Clients : clients[k] # NoSock}

\* clients.get(k) finds an entry whose channel still has a receiver.
Reachable(k) == /\ clients[k] # NoSock
                /\ rxOpen[clients[k]]

InPhase(p) == {s \in Socks : loop[s] = p}

-----------------------------------------------------------------------------

\* release_client_conversations: drops the client's set and, for every
\* conversation in it, the owner entry, whoever that entry names.
ReleaseConversations(k) ==
  /\ conversationOwners' =
       [c \in Convs |-> IF c \in clientConversations[k]
                        THEN NoClient ELSE conversationOwners[c]]
  /\ clientConversations' = [clientConversations EXCEPT ![k] = {}]
  /\ UNCHANGED overridden

\* claim_conversation: false, and no change, when another client owns c.
CanClaim(c, k) == conversationOwners[c] \in {NoClient, k}

\* MUTANT of ClaimConversation: the claim is not recorded in the client's set.
ClaimConversationUnrecorded(c, k) ==
  /\ conversationOwners' = IF CanClaim(c, k)
                           THEN [conversationOwners EXCEPT ![c] = k]
                           ELSE conversationOwners
  /\ UNCHANGED << clientConversations, overridden >>

ClaimConversation(c, k) ==
  /\ IF CanClaim(c, k)
     THEN /\ conversationOwners' = [conversationOwners EXCEPT ![c] = k]
          /\ clientConversations' =
               [clientConversations EXCEPT ![k] = @ \cup {c}]
     ELSE UNCHANGED << conversationOwners, clientConversations >>
  /\ UNCHANGED overridden

-----------------------------------------------------------------------------

Init ==
  /\ loop = [s \in Socks |-> "idle"]
  /\ clientId = [s \in Socks |-> NoClient]
  /\ rxOpen = [s \in Socks |-> FALSE]
  /\ clients = [k \in Clients |-> NoSock]
  /\ clientCount = 0
  /\ conversationOwners = [c \in Convs |-> NoClient]
  /\ clientConversations = [k \in Clients |-> {}]
  /\ overridden = {}
  /\ overwrites = 0

\* An upgraded connection starts its task with a channel of its own. A slot is
\* reused only once nothing refers to its former channel.
Accept(s) ==
  /\ loop[s] \in {"idle", "panicked"}
  /\ Reuse \/ clientId[s] = NoClient
  /\ ~rxOpen[s]
  /\ \A k \in Clients : clients[k] # s
  /\ loop' = [loop EXCEPT ![s] = "recv"]
  /\ rxOpen' = [rxOpen EXCEPT ![s] = TRUE]
  /\ clientId' = [clientId EXCEPT ![s] = NoClient]
  /\ UNCHANGED << clients, clientCount, overwrites, ownerVars >>

\* Auth with an accepted key: add_client inserts the entry, replacing whatever
\* the id had. Any id may be sent, any number of times. A refused key changes
\* nothing.
InsertClient(s, k) ==
  /\ loop[s] = "recv"
  /\ clientCount + Cardinality(InPhase("adding")) < MaxCount
  /\ clients' = [clients EXCEPT ![k] = s]
  /\ overwrites' = IF clients[k] = NoSock THEN overwrites ELSE overwrites + 1
  /\ clientId' = [clientId EXCEPT ![s] = k]
  /\ loop' = [loop EXCEPT ![s] = "adding"]
  /\ UNCHANGED << rxOpen, clientCount, ownerVars >>

\* The rest of add_client: client_count.fetch_add(1), whether or not the entry
\* is new; then the loop goes on.
CountClient(s) ==
  /\ loop[s] = "adding"
  /\ clientCount' = clientCount + 1
  /\ loop' = [loop EXCEPT ![s] = "recv"]
  /\ UNCHANGED << clientId, rxOpen, clients, overwrites, ownerVars >>

\* ws_tx.send fails in the send task, which ends and drops the receiver while
\* the receive loop runs on.
SendTaskEnds(s) ==
  /\ rxOpen[s]
  /\ loop[s] # "abort"
  /\ rxOpen' = [rxOpen EXCEPT ![s] = FALSE]
  /\ UNCHANGED << loop, clientId, clients, clientCount, overwrites, ownerVars >>

\* MUTANT of LeaveLoop: the loop returns without the cleanup.
LeaveLoopNoCleanup(s) ==
  /\ loop[s] = "recv"
  /\ loop' = [loop EXCEPT ![s] = "abort"]
  /\ UNCHANGED << clientId, rxOpen, clients, clientCount, overwrites, ownerVars >>

\* Close frame, receive error, end of stream or receive timeout: break.
LeaveLoop(s) ==
  /\ loop[s] = "recv"
  /\ loop' = [loop EXCEPT ![s] =
                IF clientId[s] = NoClient THEN "abort" ELSE "unreg"]
  /\ UNCHANGED << clientId, rxOpen, clients, clientCount, overwrites, ownerVars >>

\* The response handler panics (split_text slices inside a character): the task
\* unwinds, no cleanup runs, and the detached send task lives on.
PanicInHandler(s) ==
  /\ loop[s] = "recv"
  /\ clientId[s] # NoClient
  /\ loop' = [loop EXCEPT ![s] = "panicked"]
  /\ UNCHANGED << clientId, rxOpen, clients, clientCount, overwrites, ownerVars >>

\* MUTANT of RemoveEntry: the count is decremented without an entry too.
RemoveEntryAlwaysCounts(s) ==
  /\ loop[s] = "unreg"
  /\ clients' = [clients EXCEPT ![clientId[s]] = NoSock]
  /\ loop' = [loop EXCEPT ![s] = "uncount"]
  /\ UNCHANGED << clientId, rxOpen, clientCount, overwrites, ownerVars >>

\* remove_client, first access: clients.remove(id), whichever socket the entry
\* belongs to; without an entry nothing else happens.
RemoveEntry(s) ==
  /\ loop[s] = "unreg"
  /\ clients' = [clients EXCEPT ![clientId[s]] = NoSock]
  /\ loop' = [loop EXCEPT ![s] =
                IF clients[clientId[s]] = NoSock THEN "abort" ELSE "uncount"]
  /\ UNCHANGED << clientId, rxOpen, clientCount, overwrites, ownerVars >>

\* remove_client: client_count.fetch_sub(1).
UncountClient(s) ==
  /\ loop[s] = "uncount"
  /\ clientCount' = clientCount - 1
  /\ loop' = [loop EXCEPT ![s] = "release"]
  /\ UNCHANGED << clientId, rxOpen, clients, overwrites, ownerVars >>

\* remove_client: release_client_conversations(id).
ReleaseOnClose(s) ==
  /\ loop[s] = "release"
  /\ ReleaseConversations(clientId[s])
  /\ loop' = [loop EXCEPT ![s] = "abort"]
  /\ UNCHANGED << clientId, rxOpen, clients, clientCount, overwrites >>

\* send_task.abort(), and the task is over.
AbortSendTask(s) ==
  /\ loop[s] = "abort"
  /\ rxOpen' = [rxOpen EXCEPT ![s] = FALSE]
  /\ loop' = [loop EXCEPT ![s] = "idle"]
  /\ UNCHANGED << clientId, clients, clientCount, overwrites, ownerVars >>

\* A Response to a pending message of conversation c, from an authenticated
\* socket: claim_conversation. Its answer is ignored by the caller.
ClaimOnResponse(s, c) ==
  /\ loop[s] = "recv"
  /\ clientId[s] # NoClient
  /\ ClaimConversation(c, clientId[s])
  /\ UNCHANGED connVars

\* The broker found the owner k unreachable when it routed a message, and now
\* releases its conversations. The check and the release are apart, so k may
\* have come back in between.
ReleaseOnRouting(k) ==
  /\ ReleaseConversations(k)
  /\ UNCHANGED connVars

\* MUTANT of SetConversationOwner: the new owner's set is not updated.
SetConversationOwnerUntracked(c, k) ==
  /\ conversationOwners' = [conversationOwners EXCEPT ![c] = k]
  /\ overridden' = IF CanClaim(c, k) THEN overridden ELSE overridden \cup {c}
  /\ UNCHANGED << clientConversations, connVars >>

\* set_conversation_owner: the RMS override. The former owner keeps the
\* conversation in its own set.
SetConversationOwner(c, k) ==
  /\ conversationOwners' = [conversationOwners EXCEPT ![c] = k]
  /\ clientConversations' = [clientConversations EXCEPT ![k] = @ \cup {c}]
  /\ overridden' = IF CanClaim(c, k) THEN overridden ELSE overridden \cup {c}
  /\ UNCHANGED connVars

\* MUTANT of ClearConversationOwner: the owner's set keeps the conversation.
ClearConversationOwnerKeepsSet(c) ==
  /\ conversationOwners[c] # NoClient
  /\ conversationOwners' = [conversationOwners EXCEPT ![c] = NoClient]
  /\ UNCHANGED << clientConversations, overridden, connVars >>

\* clear_conversation_owner: forgets the owner, in its own set too.
ClearConversationOwner(c) ==
  /\ conversationOwners[c] # NoClient
  /\ clientConversations' =
       [clientConversations EXCEPT ![conversationOwners[c]] = @ \ {c}]
  /\ conversationOwners' = [conversationOwners EXCEPT ![c] = NoClient]
  /\ UNCHANGED << overridden, connVars >>

-----------------------------------------------------------------------------

\* What follows the receive loop, up to the end of the task.
Cleanup(s) == \/ RemoveEntry(s)
              \/ UncountClient(s)
              \/ ReleaseOnClose(s)
              \/ AbortSendTask(s)

SocketStep(s) ==
  \/ Accept(s)
  \/ \E k \in Clients : InsertClient(s, k)
  \/ CountClient(s)
  \/ SendTaskEnds(s)
  \/ LeaveLoop(s)
  \/ PanicInHandler(s)
  \/ Cleanup(s)
  \/ \E c \in Convs : ClaimOnResponse(s, c)

Next ==
  \/ \E s \in Socks : SocketStep(s)
  \/ \E k \in Clients : ReleaseOnRouting(k)
  \/ \E c \in Convs, k \in Clients : SetConversationOwner(c, k)
  \/ \E c \in Convs : ClearConversationOwner(c)

Spec == Init /\ [][Next]_wsVars

-----------------------------------------------------------------------------
(***************************************************************************)
(* Properties                                                              *)
(***************************************************************************)

\* Each piece of state is of its type.
TypeOK ==
  /\ loop \in [Socks -> Phases]
  /\ clientId \in [Socks -> Clients \cup {NoClient}]
  /\ rxOpen \in [Socks -> BOOLEAN]
  /\ clients \in [Clients -> Socks \cup {NoSock}]
  /\ clientCount \in Int
  /\ conversationOwners \in [Convs -> Clients \cup {NoClient}]
  /\ clientConversations \in [Clients -> SUBSET Convs]
  /\ overridden \subseteq Convs
  /\ overwrites \in Nat

\* The two ownership maps agree in one direction whatever claims, overrides and
\* releases do: an owner has the conversation in its own set, so that releasing
\* that client frees it.
OwnerTracked ==
  \A c \in Convs : conversationOwners[c] # NoClient =>
    c \in clientConversations[conversationOwners[c]]

\* A client's set holds a conversation the client does not own only where RMS
\* has overridden an owner: claims, releases and disconnects alone keep the two
\* maps exact.
StaleOnlyAfterOverride ==
  \A c \in Convs, k \in Clients :
    /\ c \in clientConversations[k]
    /\ conversationOwners[c] # k
    => c \in overridden

\* What client_count counts, at every point of add_client and remove_client:
\* the registered ids, and one more for each registration that replaced an
\* entry, which nothing ever takes off again.
CountsEntries ==
  clientCount + Cardinality(InPhase("adding"))
    = Cardinality(Registered) + overwrites + Cardinality(InPhase("uncount"))

\* client_count.fetch_sub never wraps round below zero.
CountNeverNegative == clientCount >= 0

\* The count is exact at every step, and never wraps, although a socket can
\* remove, and take off the count, the entry of another one that is not yet
\* counted.
CountAccounting == CountsEntries /\ CountNeverNegative

\* When a task has removed the entry of its client id, no entry under that id
\* leads to its channel: a channel outlives its task in the registry only under
\* an id the connection had before it authenticated again, or after a panic.
GhostOnlyAfterReauth ==
  \A s \in Socks, k \in Clients :
    /\ clients[k] = s
    /\ loop[s] \in {"uncount", "release", "abort", "idle"}
    => clientId[s] # k

\* How a conversation may lose the owner it has: to another client only by an
\* RMS override, and, unless it was ever overridden, to no one only while
\* every other client keeps the conversations it has.
OwnershipChangesLawfully ==
  [][\A c \in Convs :
       /\ conversationOwners[c] # NoClient
       /\ conversationOwners'[c] # conversationOwners[c]
       => \/ c \in overridden'
          \/ /\ conversationOwners'[c] = NoClient
             /\ \A j \in Clients \ {conversationOwners[c]} :
                  clientConversations'[j] = clientConversations[j]]_wsVars

\* To those who only use ownership, the sockets with their cleanups, the routings
\* and RMS together are a map of owners with four atomic operations.
Owner == INSTANCE OwnerMap WITH owners <- conversationOwners,
                                held <- clientConversations

ImplementsOwnerMap == Owner!OwnSpec

\* Connection s has authenticated as k and will release what k owns when it
\* leaves its loop, if it finds an entry to remove then.
Serves(s, k) ==
  /\ clientId[s] = k
  /\ loop[s] \in {"recv", "adding", "unreg", "uncount", "release"}

\* Nobody is left to release c: no connection serves the client that owns it.
Stranded(c) ==
  /\ conversationOwners[c] # NoClient
  /\ \A s \in Socks : ~Serves(s, conversationOwners[c])

\* A disconnect strands no conversation. One is stranded only when RMS gives it to
\* a client that is not connected, or when the last connection that serves its
\* owner authenticates again under another id, panics in the response handler, or
\* finds its entry removed by the cleanup of another one with the same id.
StrandedHasCause ==
  [][\A c \in Convs : ~Stranded(c) /\ Stranded(c)' =>
       \/ \E k \in Clients : SetConversationOwner(c, k)
       \/ \E s \in Socks :
            /\ Serves(s, conversationOwners[c])
            /\ \/ clientId'[s] # clientId[s]
               \/ loop'[s] = "panicked"
               \/ RemoveEntry(s) /\ clients[clientId[s]] = NoSock]_wsVars

\* "Release all conversations owned by a client (on disconnect)"
\* (src/ws_manager.rs:262), read as: only those. A disconnect frees no
\* conversation that another client owns.
ReleaseOnlyOwn ==
  [][\A s \in Socks : loop[s] = "release" /\ loop'[s] = "abort" =>
       \A c \in Convs : conversationOwners[c] \notin {NoClient, clientId[s]} =>
         conversationOwners'[c] = conversationOwners[c]]_wsVars

=============================================================================
