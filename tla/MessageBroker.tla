---------------------------- MODULE MessageBroker ----------------------------
(***************************************************************************)
(* The message broker of src/broker.rs over the WebSocket manager: routing  *)
(* a LINE message to the owner of its conversation or to every client       *)
(* (send_to_clients), the table of pending messages, and the handling of a  *)
(* worker's Response inside its socket task (handle_socket,                 *)
(* handle_response).                                                        *)
(*                                                                          *)
(* A routing runs in the task of the webhook request that brought the       *)
(* message, so several run at once, and the request may be dropped where    *)
(* it waits. A lookup in `clients` keeps its shard locked while it sends,   *)
(* so lookup and send are one step, the moment the send completes.          *)
(***************************************************************************)
EXTENDS WsManager, Sequences

CONSTANTS
  Msgs,        \* proxy messages, each with a fresh id
  ConvOf,      \* the conversation of each message
  Earlier,     \* the events that come before it in its webhook request
  NoMsg,
  MaxPending,  \* MAX_PENDING_MESSAGES
  EvictSlack   \* how far below the maximum an eviction goes (100)

ASSUME BrokerAssumption ==
  /\ ConvOf \in [Msgs -> Convs]
  /\ Earlier \in [Msgs -> SUBSET Msgs]
  /\ NoMsg \notin Msgs
  /\ MaxPending \in Nat
  /\ EvictSlack \in 0..MaxPending

VARIABLES
  route,      \* where each message's routing is, see RoutePhases
  target,     \* the owner send_to_clients read for the message
  unvisited,  \* client ids the broadcast's iterator has yet to pass
  total,      \* clients.len() when the broadcast began
  failures,   \* the broadcast's failed_count
  pending,    \* keys of pending_messages
  resp,       \* where each socket's response handling is, see RespPhases
  respMsg,    \* the original_id that the socket is answering
  created,    \* messages in the order of their PendingMessage's received_at
  seen,       \* history: entries <<client id, socket>> the message was sent to
  steady,     \* history: entries reachable ever since the routing began
  answers,    \* history: responses taken for the message
  evicted     \* history: messages dropped from the table when it was full

routeVars  == << route, target, unvisited, total, failures, created, seen >>
respVars   == << resp, respMsg, answers >>
tableVars  == << pending, evicted >>
brokerVars == << routeVars, respVars, tableVars, steady >>
vars       == << wsVars, brokerVars >>

(***************************************************************************)
(* "new"     not received         "toOwner" sending to the owner it read   *)
(* "owned"   sent to its owner, not yet tracked                             *)
(* "free"    owner unreachable, about to release its conversations          *)
(* "track"   no owner: about to be tracked and broadcast                    *)
(* "count"   tracked, broadcast found clients, has not counted them yet     *)
(* "toAll"   broadcasting         "sent", "failed", "dropped"  over         *)
(***************************************************************************)
RoutePhases == {"new", "toOwner", "owned", "free", "track", "count", "toAll",
                "sent", "failed", "dropped"}
Over == {"sent", "failed", "dropped"}

(***************************************************************************)
(* "none"  no response in hand   "claim" pending entry read, about to claim *)
(* "take"  about to take the pending entry out                              *)
(* "send"  the entry is taken, the answer is on its way to LINE             *)
(***************************************************************************)
RespPhases == {"none", "claim", "take", "send"}

\* The entries of `clients` that a send would reach just now.
ReachableEntries == {<< k, clients[k] >> : k \in {j \in Clients : Reachable(j)}}

\* The client ids that were given message m.
Given(m) == {e[1] : e \in seen[m]}

\* The n newest of a set of messages, by received_at.
Newest(S, n) ==
  LET At(m) == CHOOSE i \in DOMAIN created : created[i] = m
  IN  {m \in S : Cardinality({o \in S : At(o) > At(m)}) < n}

\* MUTANT of TrackPending: over the maximum only expired entries are dropped.
TrackPendingExpiryOnly(m) ==
  LET full == pending \cup {m}
  IN  /\ \E n \in IF Cardinality(full) > MaxPending THEN 0..Cardinality(full)
                  ELSE {Cardinality(full)} : pending' = Newest(full, n)
      /\ evicted' = evicted \cup (full \ pending')

\* track_pending_message: insert; over the maximum, drop what has expired, all
\* but the n newest entries for some n; if that is not enough, all but the
\* newest MaxPending - EvictSlack.
TrackPending(m) ==
  LET full == pending \cup {m}
  IN  /\ \E n \in IF Cardinality(full) > MaxPending THEN 0..Cardinality(full)
                  ELSE {Cardinality(full)} :
           pending' = Newest(full, IF n > MaxPending THEN MaxPending - EvictSlack
                                   ELSE n)
      /\ evicted' = evicted \cup (full \ pending')

\* The local variables of a routing end with it.
ForgetLocals(m) ==
  /\ target' = [target EXCEPT ![m] = NoClient]
  /\ unvisited' = [unvisited EXCEPT ![m] = {}]
  /\ total' = [total EXCEPT ![m] = 0]
  /\ failures' = [failures EXCEPT ![m] = 0]

-----------------------------------------------------------------------------
(* send_to_clients *)

\* The webhook request takes its events one after the other, whatever becomes
\* of each. The PendingMessage is stamped, then the owner is read.
LookUpOwner(m) ==
  LET owner == conversationOwners[ConvOf[m]]
  IN  /\ route[m] = "new"
      /\ \A e \in Earlier[m] : route[e] \in {"sent", "failed"}
      /\ created' = Append(created, m)
      /\ target' = [target EXCEPT ![m] = owner]
      /\ route' = [route EXCEPT ![m] =
                     IF owner = NoClient THEN "track" ELSE "toOwner"]
      /\ UNCHANGED << unvisited, total, failures, seen, respVars, tableVars, wsVars >>

\* send_to(owner).await: ClientNotFound or ClientDisconnected otherwise.
SendToOwner(m) ==
  /\ route[m] = "toOwner"
  /\ IF Reachable(target[m])
     THEN /\ seen' = [seen EXCEPT ![m] = @ \cup {<< target[m], clients[target[m]] >>}]
          /\ route' = [route EXCEPT ![m] = "owned"]
          /\ target' = [target EXCEPT ![m] = NoClient]
     ELSE /\ route' = [route EXCEPT ![m] = "free"]
          /\ UNCHANGED << seen, target >>
  /\ UNCHANGED << unvisited, total, failures, created, respVars,
                  tableVars, wsVars >>

\* The message is tracked only after its owner has it.
TrackOwned(m) ==
  /\ route[m] = "owned"
  /\ TrackPending(m)
  /\ route' = [route EXCEPT ![m] = "sent"]
  /\ UNCHANGED << target, unvisited, total, failures, created, seen, respVars,
                  wsVars >>

\* MUTANT of ReleaseOwner: the broadcast starts without the release.
ReleaseOwnerSkipped(m) ==
  /\ route[m] = "free"
  /\ route' = [route EXCEPT ![m] = "track"]
  /\ target' = [target EXCEPT ![m] = NoClient]
  /\ UNCHANGED << unvisited, total, failures, created, seen, respVars,
                  tableVars, wsVars >>

\* MUTANT of ReleaseOwner: only this conversation's owner entry is removed.
ReleaseOwnerOfOne(m) ==
  /\ route[m] = "free"
  /\ conversationOwners' = [conversationOwners EXCEPT ![ConvOf[m]] = NoClient]
  /\ route' = [route EXCEPT ![m] = "track"]
  /\ target' = [target EXCEPT ![m] = NoClient]
  /\ UNCHANGED << unvisited, total, failures, created, seen, respVars,
                  tableVars, connVars, clientConversations, overridden >>

\* The owner could not be reached: release whatever it owns by now.
ReleaseOwner(m) ==
  /\ route[m] = "free"
  /\ ReleaseOnRouting(target[m])
  /\ route' = [route EXCEPT ![m] = "track"]
  /\ target' = [target EXCEPT ![m] = NoClient]
  /\ UNCHANGED << unvisited, total, failures, created, seen, respVars,
                  tableVars >>

\* MUTANT of TrackAndBroadcast: a broadcast message is not tracked.
BroadcastUntracked(m) ==
  /\ route[m] = "track"
  /\ route' = [route EXCEPT ![m] = IF Registered = {} THEN "failed" ELSE "count"]
  /\ UNCHANGED << target, unvisited, total, failures, created, seen, respVars,
                  tableVars, wsVars >>

\* Track, then broadcast's is_empty test. No other task can touch m between
\* the two, nobody has it yet.
TrackAndBroadcast(m) ==
  /\ route[m] = "track"
  /\ TrackPending(m)
  /\ route' = [route EXCEPT ![m] = IF Registered = {} THEN "failed" ELSE "count"]
  /\ UNCHANGED << target, unvisited, total, failures, created, seen, respVars,
                  wsVars >>

\* total_clients = clients.len(), then the iterator starts.
BeginBroadcast(m) ==
  /\ route[m] = "count"
  /\ total' = [total EXCEPT ![m] = Cardinality(Registered)]
  /\ unvisited' = [unvisited EXCEPT ![m] = Clients]
  /\ route' = [route EXCEPT ![m] = "toAll"]
  /\ UNCHANGED << target, failures, created, seen, respVars, tableVars, wsVars >>

\* The iterator passes the place of client id k, and sends if k has an entry
\* just then: it sees entries that come and go while it runs.
BroadcastTo(m, k) ==
  /\ route[m] = "toAll"
  /\ k \in unvisited[m]
  /\ unvisited' = [unvisited EXCEPT ![m] = @ \ {k}]
  /\ seen' = [seen EXCEPT ![m] =
                IF Reachable(k) THEN @ \cup {<< k, clients[k] >>} ELSE @]
  /\ failures' = [failures EXCEPT ![m] =
                    IF k \in Registered /\ ~Reachable(k) THEN @ + 1 ELSE @]
  /\ UNCHANGED << route, target, total, created, respVars, tableVars, wsVars >>

\* MUTANT of EndBroadcast: the first send that fails ends the broadcast.
EndBroadcastAtFailure(m) ==
  /\ route[m] = "toAll"
  /\ unvisited[m] = {} \/ failures[m] > 0
  /\ route' = [route EXCEPT ![m] =
                 IF failures[m] = total[m] THEN "failed" ELSE "sent"]
  /\ ForgetLocals(m)
  /\ UNCHANGED << created, seen, respVars, tableVars, wsVars >>

\* AllFailed when as many sends failed as there were clients at the start.
EndBroadcast(m) ==
  /\ route[m] = "toAll"
  /\ unvisited[m] = {}
  /\ route' = [route EXCEPT ![m] =
                 IF failures[m] = total[m] THEN "failed" ELSE "sent"]
  /\ ForgetLocals(m)
  /\ UNCHANGED << created, seen, respVars, tableVars, wsVars >>

\* The caller of the webhook hangs up and its task is dropped at a send that
\* waits for room in an open channel.
HangUp(m) ==
  /\ \/ route[m] = "toOwner" /\ Reachable(target[m])
     \/ route[m] = "toAll" /\ \E k \in unvisited[m] : Reachable(k)
  /\ route' = [route EXCEPT ![m] = "dropped"]
  /\ ForgetLocals(m)
  /\ UNCHANGED << created, seen, respVars, tableVars, wsVars >>

-----------------------------------------------------------------------------
(* WsProtocol::Response in handle_socket, and handle_response *)

\* A worker responds to a message it was given, perhaps on an earlier connection
\* of the same client id, and not for the first time: get_pending_message.
ReceiveResponse(s, m) ==
  /\ loop[s] = "recv"
  /\ resp[s] = "none"
  /\ clientId[s] \in Given(m)
  /\ respMsg' = [respMsg EXCEPT ![s] = m]
  /\ resp' = [resp EXCEPT ![s] = IF m \in pending THEN "claim" ELSE "take"]
  /\ UNCHANGED << answers, routeVars, tableVars, wsVars >>

\* claim_conversation for the entry that was read; the answer is ignored.
ClaimForResponse(s) ==
  /\ resp[s] = "claim"
  /\ ClaimOnResponse(s, ConvOf[respMsg[s]])
  /\ resp' = [resp EXCEPT ![s] = "take"]
  /\ UNCHANGED << respMsg, answers, routeVars, tableVars >>

\* MUTANT of TakePending: handle_response reads the entry and leaves it there.
TakePendingByReading(s) ==
  LET m == respMsg[s]
  IN  /\ resp[s] = "take"
      /\ IF m \in pending
         THEN /\ answers' = [answers EXCEPT ![m] = @ + 1]
              /\ resp' = [resp EXCEPT ![s] = "send"]
              /\ UNCHANGED respMsg
         ELSE /\ resp' = [resp EXCEPT ![s] = "none"]
              /\ respMsg' = [respMsg EXCEPT ![s] = NoMsg]
              /\ UNCHANGED answers
      /\ UNCHANGED << pending, evicted, routeVars, wsVars >>

\* handle_response takes the entry out of the table; without one it reports
\* NoPendingMessage and nothing is sent.
TakePending(s) ==
  LET m == respMsg[s]
  IN  /\ resp[s] = "take"
      /\ IF m \in pending
         THEN /\ answers' = [answers EXCEPT ![m] = @ + 1]
              /\ resp' = [resp EXCEPT ![s] = "send"]
              /\ UNCHANGED respMsg
         ELSE /\ resp' = [resp EXCEPT ![s] = "none"]
              /\ respMsg' = [respMsg EXCEPT ![s] = NoMsg]
              /\ UNCHANGED answers
      /\ pending' = pending \ {m}
      /\ UNCHANGED << evicted, routeVars, wsVars >>

\* The answer goes to LINE, accepted or not, the ResponseResult to the client,
\* and the receive loop goes on. A failure puts nothing back.
FinishResponse(s) ==
  /\ resp[s] = "send"
  /\ resp' = [resp EXCEPT ![s] = "none"]
  /\ respMsg' = [respMsg EXCEPT ![s] = NoMsg]
  /\ UNCHANGED << answers, routeVars, tableVars, wsVars >>

\* Building the answer panics, after the pending entry is gone.
PanicInResponse(s) ==
  /\ resp[s] = "send"
  /\ PanicInHandler(s)
  /\ resp' = [resp EXCEPT ![s] = "none"]
  /\ respMsg' = [respMsg EXCEPT ![s] = NoMsg]
  /\ UNCHANGED << answers, routeVars, tableVars >>

-----------------------------------------------------------------------------

BrokerInit ==
  /\ Init
  /\ route = [m \in Msgs |-> "new"]
  /\ target = [m \in Msgs |-> NoClient]
  /\ unvisited = [m \in Msgs |-> {}]
  /\ total = [m \in Msgs |-> 0]
  /\ failures = [m \in Msgs |-> 0]
  /\ pending = {}
  /\ resp = [s \in Socks |-> "none"]
  /\ respMsg = [s \in Socks |-> NoMsg]
  /\ created = << >>
  /\ seen = [m \in Msgs |-> {}]
  /\ steady = [m \in Msgs |-> {}]
  /\ answers = [m \in Msgs |-> 0]
  /\ evicted = {}

Routing(m) ==
  \/ LookUpOwner(m)
  \/ SendToOwner(m)
  \/ TrackOwned(m)
  \/ ReleaseOwner(m)
  \/ TrackAndBroadcast(m)
  \/ BeginBroadcast(m)
  \/ \E k \in Clients : BroadcastTo(m, k)
  \/ EndBroadcast(m)

Responding(s) ==
  \/ ClaimForResponse(s)
  \/ TakePending(s)
  \/ FinishResponse(s)

\* A socket's own steps; those of its receive loop wait while the loop is
\* inside handle_response.
Connection(s) ==
  /\ \/ resp[s] = "none" /\ ( \/ Accept(s)
                              \/ \E k \in Clients : InsertClient(s, k)
                              \/ CountClient(s)
                              \/ LeaveLoop(s)
                              \/ Cleanup(s) )
     \/ SendTaskEnds(s)
  /\ UNCHANGED << routeVars, respVars, tableVars >>

\* The history variable: who has been reachable since the routing of m began.
ObserveSteady ==
  steady' = [m \in Msgs |->
    CASE route'[m] \in Over \cup {"new"} -> {}
      [] route[m] = "new" /\ route'[m] # "new" -> ReachableEntries'
      [] OTHER -> steady[m] \cap ReachableEntries']

BrokerNext ==
  /\ \/ \E m \in Msgs : Routing(m) \/ HangUp(m)
     \/ \E s \in Socks :
          \/ Connection(s)
          \/ \E m \in Msgs : ReceiveResponse(s, m)
          \/ Responding(s)
          \/ PanicInResponse(s)
  /\ ObserveSteady

BrokerSpec == BrokerInit /\ [][BrokerNext]_vars

-----------------------------------------------------------------------------
(***************************************************************************)
(* Properties                                                              *)
(***************************************************************************)

\* The broker's own state is of its type.
BrokerTypeOK ==
  /\ route \in [Msgs -> RoutePhases]
  /\ target \in [Msgs -> Clients \cup {NoClient}]
  /\ unvisited \in [Msgs -> SUBSET Clients]
  /\ total \in [Msgs -> Nat]
  /\ failures \in [Msgs -> Nat]
  /\ pending \subseteq Msgs
  /\ resp \in [Socks -> RespPhases]
  /\ respMsg \in [Socks -> Msgs \cup {NoMsg}]
  /\ created \in Seq(Msgs)
  /\ seen \in [Msgs -> SUBSET (Clients \X Socks)]
  /\ steady \in [Msgs -> SUBSET (Clients \X Socks)]
  /\ answers \in [Msgs -> Nat]
  /\ evicted \subseteq Msgs

\* However many workers were given a message, and however often each of them
\* responds, one response at most is taken and goes on to LINE.
AnsweredOnce == \A m \in Msgs : answers[m] <= 1

\* A message that a worker was given and that nobody has answered is in the
\* pending table, unless it was evicted, or is still between the send to its
\* owner and track_pending_message: those are the only ways in which a worker's
\* first response can be refused as "No pending message found".
KnownUnlessOwnedWindow ==
  \A m \in Msgs :
    seen[m] # {} /\ answers[m] = 0 =>
      m \in pending \/ m \in evicted \/ route[m] = "owned"

\* A broadcast that runs to its end has reached every client that was registered
\* with the same open channel from the moment the message was received, however
\* the registry changed under the iterator meanwhile.
BroadcastReachesSteady ==
  [][\A m \in Msgs :
       route[m] = "toAll" /\ route'[m] \in {"sent", "failed"}
         => steady[m] \subseteq seen[m]]_vars

\* The pending table never holds more than its maximum.
PendingBounded == Cardinality(pending) <= MaxPending

\* Everything the broker does to connections and ownership is something the
\* WebSocket manager allows, so what holds of WsManager holds here.
ImplementsWsManager == Spec

\* When the owner that was read for a message could not be reached, and the
\* routing goes on to broadcast it, that client no longer owns the conversation,
\* whatever it and others have claimed between the failed send and the release.
DeadOwnerForgotten ==
  [][\A m \in Msgs : route[m] = "free" /\ route'[m] = "track" =>
       conversationOwners'[ConvOf[m]] # target[m]]_vars

\* "When a client responds to a conversation first, it claims ownership and all
\* future messages for that conversation route to that client only"
\* (src/types.rs:1227): the client whose response is the first that is taken
\* for a conversation nobody has answered yet, and that somebody owns, is its
\* owner.
FirstResponderOwns ==
  [][\A s \in Socks :
       resp[s] = "take" /\ resp'[s] = "send"
       /\ (\A m \in Msgs : ConvOf[m] = ConvOf[respMsg[s]] => answers[m] = 0)
       => conversationOwners[ConvOf[respMsg[s]]] \in {clientId[s], NoClient}]_vars

=============================================================================
