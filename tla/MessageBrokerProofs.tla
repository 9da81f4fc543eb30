------------------------- MODULE MessageBrokerProofs -------------------------
(***************************************************************************)
(* What holds of the message broker for any number of messages, clients and *)
(* sockets: it implements the WebSocket manager, so that every theorem of   *)
(* WsManagerProofs holds of it; a message is answered once at most; a       *)
(* message that a worker was given is known to the broker, except in two    *)
(* named cases; a broadcast reaches whoever was there all along; an owner   *)
(* that is given up loses the conversation; and the pending table stays     *)
(* within its maximum.                                                      *)
(***************************************************************************)
EXTENDS MessageBroker, WsManagerProofs, FunctionTheorems

\* The local variables that a routing or a response relies on are set while it
\* needs them: the owner it looked up, the message it answers.
LocalsSet ==
  /\ \A m \in Msgs : route[m] \in {"toOwner", "free"} => target[m] \in Clients
  /\ \A s \in Socks : resp[s] # "none" => respMsg[s] \in Msgs

BInv == TypeOK /\ BrokerTypeOK /\ LocalsSet

\* A step of the broker is, for the registry and the ownership maps, a step of
\* the WebSocket manager or none.
LEMMA StepImplements ==
  ASSUME BInv, [BrokerNext]_vars
  PROVE  [Next]_wsVars
<1> USE DEF BInv
<1>1. ASSUME NEW m \in Msgs, Routing(m) \/ HangUp(m) PROVE [Next]_wsVars
  <2>1. CASE ReleaseOwner(m)
    <3>1. target[m] \in Clients /\ ReleaseOnRouting(target[m])
      BY <2>1 DEF ReleaseOwner, LocalsSet
    <3>2. QED
      BY <3>1 DEF Next
  <2>2. CASE UNCHANGED wsVars
    BY <2>2
  <2>3. QED
    BY <1>1, <2>1, <2>2
       DEF Routing, HangUp, LookUpOwner, SendToOwner, TrackOwned,
           TrackAndBroadcast, BeginBroadcast, BroadcastTo, EndBroadcast
<1>2. ASSUME NEW s \in Socks, Connection(s) PROVE [Next]_wsVars
  BY <1>2 DEF Connection, Next, SocketStep
<1>3. ASSUME NEW s \in Socks, NEW m \in Msgs, ReceiveResponse(s, m)
      PROVE  [Next]_wsVars
  BY <1>3 DEF ReceiveResponse
<1>4. ASSUME NEW s \in Socks, Responding(s) PROVE [Next]_wsVars
  <2>1. CASE ClaimForResponse(s)
    <3>1. respMsg[s] \in Msgs
      BY <2>1 DEF ClaimForResponse, LocalsSet
    <3>2. ConvOf[respMsg[s]] \in Convs
      BY <3>1, BrokerAssumption
    <3>3. QED
      BY <2>1, <3>2 DEF ClaimForResponse, Next, SocketStep
  <2>2. QED
    BY <1>4, <2>1 DEF Responding, TakePending, FinishResponse
<1>5. ASSUME NEW s \in Socks, PanicInResponse(s) PROVE [Next]_wsVars
  BY <1>5 DEF PanicInResponse, Next, SocketStep
<1>6. CASE UNCHANGED vars
  BY <1>6 DEF vars
<1>7. QED
  BY <1>1, <1>2, <1>3, <1>4, <1>5, <1>6 DEF BrokerNext

\* Tracking a message keeps it, or records its eviction, and adds nothing else.
LEMMA TrackPendingFacts ==
  ASSUME NEW m \in Msgs, pending \subseteq Msgs, evicted \subseteq Msgs,
         TrackPending(m)
  PROVE  /\ pending' \subseteq pending \cup {m}
         /\ evicted' = evicted \cup ((pending \cup {m}) \ pending')
BY DEF TrackPending, Newest

\* Every step keeps the broker's own state of its type, and its locals set.
LEMMA BrokerTypeStep ==
  ASSUME BInv, [BrokerNext]_vars
  PROVE  BrokerTypeOK' /\ LocalsSet'
<1> DEFINE Rest == /\ route' \in [Msgs -> RoutePhases]
                   /\ target' \in [Msgs -> Clients \cup {NoClient}]
                   /\ unvisited' \in [Msgs -> SUBSET Clients]
                   /\ total' \in [Msgs -> Nat]
                   /\ failures' \in [Msgs -> Nat]
                   /\ pending' \subseteq Msgs
                   /\ resp' \in [Socks -> RespPhases]
                   /\ respMsg' \in [Socks -> Msgs \cup {NoMsg}]
                   /\ created' \in Seq(Msgs)
                   /\ seen' \in [Msgs -> SUBSET (Clients \X Socks)]
                   /\ answers' \in [Msgs -> Nat]
                   /\ evicted' \subseteq Msgs
                   /\ LocalsSet'
<1> USE DEF BInv, TypeOK, BrokerTypeOK, LocalsSet, RoutePhases, RespPhases,
            routeVars, respVars, tableVars
<1>1. ASSUME NEW m \in Msgs, LookUpOwner(m) PROVE Rest
  <2>1. conversationOwners[ConvOf[m]] \in Clients \cup {NoClient}
    BY BrokerAssumption
  <2>2. QED
    BY <1>1, <2>1 DEF LookUpOwner
<1>2. ASSUME NEW m \in Msgs, SendToOwner(m) PROVE Rest
  <2>1. target[m] \in Clients
    BY <1>2 DEF SendToOwner
  <2>2. Reachable(target[m])
          => << target[m], clients[target[m]] >> \in Clients \X Socks
    BY <2>1 DEF Reachable
  <2>3. CASE Reachable(target[m])
    <3>1. seen' = [seen EXCEPT ![m] = @ \cup {<< target[m], clients[target[m]] >>}]
      BY <1>2, <2>3 DEF SendToOwner
    <3>2. seen' \in [Msgs -> SUBSET (Clients \X Socks)]
      BY <2>2, <2>3, <3>1
    <3>3. QED
      BY <1>2, <2>3, <3>2 DEF SendToOwner
  <2>4. CASE ~Reachable(target[m])
    BY <1>2, <2>4 DEF SendToOwner
  <2>5. QED
    BY <2>3, <2>4
<1>3. ASSUME NEW m \in Msgs, TrackOwned(m) PROVE Rest
  BY <1>3, TrackPendingFacts DEF TrackOwned
<1>4. ASSUME NEW m \in Msgs, ReleaseOwner(m) PROVE Rest
  BY <1>4 DEF ReleaseOwner
<1>5. ASSUME NEW m \in Msgs, TrackAndBroadcast(m) PROVE Rest
  BY <1>5, TrackPendingFacts DEF TrackAndBroadcast
<1>6. ASSUME NEW m \in Msgs, BeginBroadcast(m) PROVE Rest
  <2>1. Cardinality(Registered) \in Nat
    BY Sizes DEF Registered
  <2>2. QED
    BY <1>6, <2>1 DEF BeginBroadcast
<1>7. ASSUME NEW m \in Msgs, NEW k \in Clients, BroadcastTo(m, k) PROVE Rest
  <2>1. Reachable(k) => << k, clients[k] >> \in Clients \X Socks
    BY DEF Reachable
  <2>2. seen' \in [Msgs -> SUBSET (Clients \X Socks)]
    BY <1>7, <2>1 DEF BroadcastTo
  <2>3. QED
    BY <1>7, <2>2 DEF BroadcastTo
<1>8. ASSUME NEW m \in Msgs, EndBroadcast(m) \/ HangUp(m) PROVE Rest
  <2>1. \E p \in Over : route' = [route EXCEPT ![m] = p]
    BY <1>8 DEF EndBroadcast, HangUp, Over
  <2>2. ForgetLocals(m) /\ UNCHANGED << created, seen, respVars, tableVars >>
    BY <1>8 DEF EndBroadcast, HangUp
  <2>3. QED
    BY <2>1, <2>2 DEF ForgetLocals, Over
<1>9. ASSUME NEW s \in Socks, Connection(s) PROVE Rest
  BY <1>9 DEF Connection
<1>10. ASSUME NEW s \in Socks, NEW m \in Msgs, ReceiveResponse(s, m) PROVE Rest
  BY <1>10 DEF ReceiveResponse
<1>11. ASSUME NEW s \in Socks, ClaimForResponse(s) PROVE Rest
  BY <1>11 DEF ClaimForResponse
<1>12. ASSUME NEW s \in Socks, TakePending(s) PROVE Rest
  <2>1. respMsg[s] \in Msgs
    BY <1>12 DEF TakePending
  <2>2. CASE respMsg[s] \in pending
    <3>1. /\ answers' = [answers EXCEPT ![respMsg[s]] = @ + 1]
          /\ resp' = [resp EXCEPT ![s] = "send"]
          /\ pending' = pending \ {respMsg[s]}
          /\ UNCHANGED << respMsg, evicted, routeVars >>
      BY <1>12, <2>2 DEF TakePending
    <3>2. answers' \in [Msgs -> Nat]
      BY <2>1, <3>1
    <3>3. LocalsSet'
      BY <2>1, <3>1
    <3>4. QED
      BY <3>1, <3>2, <3>3
  <2>3. CASE respMsg[s] \notin pending
    BY <1>12, <2>3 DEF TakePending
  <2>4. QED
    BY <2>2, <2>3
<1>13. ASSUME NEW s \in Socks, FinishResponse(s) \/ PanicInResponse(s) PROVE Rest
  BY <1>13 DEF FinishResponse, PanicInResponse
<1>14. CASE UNCHANGED vars
  BY <1>14 DEF vars, brokerVars
<1>15. ASSUME BrokerNext PROVE steady' \in [Msgs -> SUBSET (Clients \X Socks)]
  <2>1. TypeOK'
    BY <1>15, StepImplements, TypeStep
  <2>2. ReachableEntries' \subseteq Clients \X Socks
    BY <2>1 DEF ReachableEntries, Reachable
  <2>3. QED
    BY <1>15, <2>2 DEF BrokerNext, ObserveSteady
<1>16. ASSUME BrokerNext PROVE Rest
  BY <1>1, <1>2, <1>3, <1>4, <1>5, <1>6, <1>7, <1>8, <1>9, <1>10, <1>11,
     <1>12, <1>13, <1>16 DEF BrokerNext, Routing, Responding
<1>17. QED
  BY <1>14, <1>15, <1>16

\* The broker's inductive invariant.
LEMMA BInvInvariant == BrokerSpec => []BInv
<1>1. BrokerInit => BInv
  <2> SUFFICES ASSUME BrokerInit PROVE BInv
    OBVIOUS
  <2>1. TypeOK
    BY DEF BrokerInit, Init, TypeOK, Phases
  <2>2. BrokerTypeOK /\ LocalsSet
    BY DEF BrokerInit, BrokerTypeOK, LocalsSet, RoutePhases, RespPhases
  <2>3. QED
    BY <2>1, <2>2 DEF BInv
<1>2. BInv /\ [BrokerNext]_vars => BInv'
  BY BrokerTypeStep, StepImplements, TypeStep DEF BInv
<1>3. QED
  BY <1>1, <1>2, PTL DEF BrokerSpec

\* Every variable of the broker is of its type.
THEOREM BrokerTypeInvariant == BrokerSpec => []BrokerTypeOK
BY BInvInvariant, PTL DEF BInv

-----------------------------------------------------------------------------

\* Whatever the broker does to connections and ownership, with any number of
\* messages under way at once, the WebSocket manager allows.
THEOREM BrokerImplementsWsManager == BrokerSpec => ImplementsWsManager
<1>1. BrokerInit => Init
  BY DEF BrokerInit
<1>2. BInv /\ [BrokerNext]_vars => [Next]_wsVars
  BY StepImplements
<1>3. QED
  BY <1>1, <1>2, BInvInvariant, PTL DEF BrokerSpec, Spec, ImplementsWsManager

\* So the registry never counts below zero and owners stay tracked under the
\* broker too.
COROLLARY BrokerInheritsWsManager ==
  BrokerSpec => []OwnerTracked /\ []CountNeverNegative
BY BrokerImplementsWsManager, OwnerTrackedInvariant, CountNotNegative, PTL
   DEF ImplementsWsManager

-----------------------------------------------------------------------------

\* Before the broker tracks a message nobody can have answered it, and an
\* answered message never comes back into the pending table.
AnswerInv ==
  \A m \in Msgs :
    /\ answers[m] <= 1
    /\ m \in pending => answers[m] = 0
    /\ route[m] \in {"new", "toOwner", "owned", "free", "track"} =>
         m \notin pending /\ answers[m] = 0

\* Every step keeps it.
LEMMA AnswerStep ==
  ASSUME BInv, AnswerInv, [BrokerNext]_vars
  PROVE  AnswerInv'
<1> USE DEF BInv, TypeOK, BrokerTypeOK, AnswerInv
<1>1. ASSUME NEW m \in Msgs, Routing(m) \/ HangUp(m) PROVE AnswerInv'
  <2>1. UNCHANGED answers
    BY <1>1 DEF Routing, HangUp, LookUpOwner, SendToOwner, TrackOwned,
         ReleaseOwner, TrackAndBroadcast, BeginBroadcast, BroadcastTo,
         EndBroadcast, respVars
  <2>2. CASE TrackOwned(m) \/ TrackAndBroadcast(m)
    <3>1. pending' \subseteq pending \cup {m}
      BY <2>2, TrackPendingFacts DEF TrackOwned, TrackAndBroadcast
    <3>2. \E p \in {"sent", "failed", "count"} : route' = [route EXCEPT ![m] = p]
      BY <2>2 DEF TrackOwned, TrackAndBroadcast
    <3>3. answers[m] = 0
      BY <2>2 DEF TrackOwned, TrackAndBroadcast
    <3>4. QED
      BY <2>1, <3>1, <3>2, <3>3
  <2>3. CASE UNCHANGED pending
    <3>1. \/ UNCHANGED route
          \/ \E p \in RoutePhases :
               /\ route' = [route EXCEPT ![m] = p]
               /\ p \in {"new", "toOwner", "owned", "free", "track"}
                    => route[m] \in {"new", "toOwner", "owned", "free", "track"}
      BY <1>1, <2>3 DEF Routing, HangUp, LookUpOwner, SendToOwner, TrackOwned,
           ReleaseOwner, TrackAndBroadcast, BeginBroadcast, BroadcastTo,
           EndBroadcast, RoutePhases
    <3>2. QED
      BY <2>1, <2>3, <3>1
  <2>4. QED
    BY <1>1, <2>2, <2>3
       DEF Routing, HangUp, LookUpOwner, SendToOwner, ReleaseOwner,
           BeginBroadcast, BroadcastTo, EndBroadcast, tableVars
<1>2. ASSUME NEW s \in Socks, TakePending(s) PROVE AnswerInv'
  <2>1. UNCHANGED route
    BY <1>2 DEF TakePending, routeVars
  <2>2. respMsg[s] \in Msgs
    BY <1>2 DEF TakePending, LocalsSet
  <2>3. CASE respMsg[s] \in pending
    BY <1>2, <2>1, <2>2, <2>3 DEF TakePending
  <2>4. CASE respMsg[s] \notin pending
    BY <1>2, <2>1, <2>4 DEF TakePending
  <2>5. QED
    BY <2>3, <2>4
<1>3. CASE UNCHANGED << routeVars, tableVars, answers >>
  BY <1>3 DEF routeVars, tableVars
<1>4. QED
  BY <1>1, <1>2, <1>3
     DEF BrokerNext, Responding, Connection, ReceiveResponse, ClaimForResponse,
         FinishResponse, PanicInResponse, vars, brokerVars, respVars

\* One response at most is taken for a message, however many clients have it,
\* however often they respond and whatever is evicted meanwhile.
THEOREM AnsweredOnceInvariant == BrokerSpec => []AnsweredOnce
<1>1. BrokerInit => AnswerInv
  BY DEF BrokerInit, AnswerInv
<1>2. AnswerInv => AnsweredOnce
  BY DEF AnswerInv, AnsweredOnce
<1>3. BInv /\ AnswerInv /\ [BrokerNext]_vars => AnswerInv'
  BY AnswerStep
<1>4. QED
  BY <1>1, <1>2, <1>3, BInvInvariant, PTL DEF BrokerSpec

-----------------------------------------------------------------------------

\* Whatever a message has gone through, the broker knows it, or has no need to.
Settled(m) == m \in pending \/ m \in evicted \/ answers[m] > 0

KnownInv ==
  \A m \in Msgs :
    \/ Settled(m)
    \/ route[m] = "owned"
    \/ seen[m] = {} /\ route[m] \notin {"count", "toAll"}

\* Tracking settles the message, and unsettles none.
LEMMA TrackSettles ==
  ASSUME BInv, NEW m \in Msgs, TrackPending(m), UNCHANGED answers
  PROVE  /\ Settled(m)'
         /\ \A o \in Msgs : Settled(o) => Settled(o)'
BY TrackPendingFacts DEF BInv, BrokerTypeOK, Settled

\* Every step keeps it.
LEMMA KnownStep ==
  ASSUME BInv, KnownInv, [BrokerNext]_vars
  PROVE  KnownInv'
<1> USE DEF BInv, TypeOK, BrokerTypeOK, KnownInv
<1>1. ASSUME NEW m \in Msgs, TrackOwned(m) \/ TrackAndBroadcast(m)
      PROVE  KnownInv'
  <2>1. Settled(m)' /\ \A o \in Msgs : Settled(o) => Settled(o)'
    BY <1>1, TrackSettles DEF TrackOwned, TrackAndBroadcast, respVars
  <2>2. /\ \E p \in RoutePhases : route' = [route EXCEPT ![m] = p]
        /\ UNCHANGED seen
    BY <1>1 DEF TrackOwned, TrackAndBroadcast, RoutePhases
  <2>3. QED
    BY <2>1, <2>2
<1>2. ASSUME NEW m \in Msgs, SendToOwner(m) PROVE KnownInv'
  <2>1. \A o \in Msgs : Settled(o) => Settled(o)'
    BY <1>2 DEF SendToOwner, Settled, respVars, tableVars
  <2>2. \/ /\ route' = [route EXCEPT ![m] = "owned"]
           /\ \A o \in Msgs \ {m} : seen'[o] = seen[o]
        \/ /\ route' = [route EXCEPT ![m] = "free"]
           /\ route[m] = "toOwner"
           /\ UNCHANGED seen
    BY <1>2 DEF SendToOwner
  <2>3. QED
    BY <2>1, <2>2
<1>3. ASSUME NEW m \in Msgs, NEW k \in Clients, BroadcastTo(m, k)
      PROVE  KnownInv'
  <2>1. \A o \in Msgs : Settled(o) => Settled(o)'
    BY <1>3 DEF BroadcastTo, Settled, respVars, tableVars
  <2>2. Settled(m) /\ UNCHANGED route
    BY <1>3 DEF BroadcastTo
  <2>3. \A o \in Msgs \ {m} : seen'[o] = seen[o]
    BY <1>3 DEF BroadcastTo
  <2>4. QED
    BY <2>1, <2>2, <2>3
<1>4. ASSUME NEW m \in Msgs,
             \/ LookUpOwner(m)
             \/ ReleaseOwner(m)
             \/ BeginBroadcast(m)
             \/ EndBroadcast(m)
             \/ HangUp(m)
      PROVE  KnownInv'
  <2>1. \A o \in Msgs : Settled(o) => Settled(o)'
    BY <1>4 DEF LookUpOwner, ReleaseOwner, BeginBroadcast, EndBroadcast, HangUp,
         Settled, respVars, tableVars
  <2>2. UNCHANGED seen
    BY <1>4 DEF LookUpOwner, ReleaseOwner, BeginBroadcast, EndBroadcast, HangUp
  <2>3. /\ route[m] # "owned"
        /\ \E p \in RoutePhases :
             /\ route' = [route EXCEPT ![m] = p]
             /\ p \in {"count", "toAll"} => route[m] = "count"
    BY <1>4 DEF LookUpOwner, ReleaseOwner, BeginBroadcast, EndBroadcast, HangUp,
         RoutePhases
  <2>4. QED
    BY <2>1, <2>2, <2>3
<1>5. ASSUME NEW s \in Socks, TakePending(s) PROVE KnownInv'
  <2>1. respMsg[s] \in Msgs
    BY <1>5 DEF TakePending, LocalsSet
  <2>2. \A o \in Msgs : Settled(o) => Settled(o)'
    <3>1. CASE respMsg[s] \in pending
      BY <1>5, <2>1, <3>1 DEF TakePending, Settled
    <3>2. CASE respMsg[s] \notin pending
      BY <1>5, <3>2 DEF TakePending, Settled
    <3>3. QED
      BY <3>1, <3>2
  <2>3. UNCHANGED << route, seen >>
    BY <1>5 DEF TakePending, routeVars
  <2>4. QED
    BY <2>2, <2>3
<1>6. CASE UNCHANGED << routeVars, tableVars, answers >>
  BY <1>6 DEF routeVars, tableVars, Settled
<1>7. QED
  BY <1>1, <1>2, <1>3, <1>4, <1>5, <1>6
     DEF BrokerNext, Routing, Responding, Connection, ReceiveResponse,
         ClaimForResponse, FinishResponse, PanicInResponse, vars, brokerVars,
         respVars

\* A worker's first response to a message is refused only in the window before
\* an owned message is tracked, or after an eviction.
THEOREM KnownInvariant == BrokerSpec => []KnownUnlessOwnedWindow
<1>1. BrokerInit => KnownInv
  BY DEF BrokerInit, KnownInv
<1>2. BInv /\ KnownInv => KnownUnlessOwnedWindow
  <2> SUFFICES ASSUME BInv, KnownInv, NEW m \in Msgs,
                      seen[m] # {}, answers[m] = 0
               PROVE  m \in pending \/ m \in evicted \/ route[m] = "owned"
    BY DEF KnownUnlessOwnedWindow
  <2>1. ~(answers[m] > 0)
    OBVIOUS
  <2>2. QED
    BY <2>1 DEF KnownInv, Settled
<1>3. BInv /\ KnownInv /\ [BrokerNext]_vars => KnownInv'
  BY KnownStep
<1>4. QED
  BY <1>1, <1>2, <1>3, BInvInvariant, PTL DEF BrokerSpec

-----------------------------------------------------------------------------

\* A broadcast under way has sent to every steady entry or has it ahead.
SteadyInv ==
  \A m \in Msgs :
    /\ steady[m] \subseteq ReachableEntries
    /\ route[m] = "toAll" =>
         \A e \in steady[m] : e[1] \in unvisited[m] \/ e \in seen[m]

\* The history variable only ever loses entries once a routing has begun.
LEMMA SteadyShrinks ==
  ASSUME BInv, ObserveSteady
  PROVE  \A m \in Msgs : /\ steady'[m] \subseteq ReachableEntries'
                         /\ route[m] # "new" => steady'[m] \subseteq steady[m]
BY DEF BInv, BrokerTypeOK, ObserveSteady

\* Every step keeps what is known of a broadcast under way.
LEMMA SteadyStep ==
  ASSUME BInv, SteadyInv, BrokerNext
  PROVE  SteadyInv'
<1> DEFINE Ahead(m) == \A e \in steady[m] : e[1] \in unvisited[m] \/ e \in seen[m]
<1> USE DEF BInv, TypeOK, BrokerTypeOK
<1>1. \A m \in Msgs : steady'[m] \subseteq ReachableEntries'
  BY SteadyShrinks DEF BrokerNext
<1>2. SUFFICES ASSUME NEW m \in Msgs, route'[m] = "toAll" PROVE Ahead(m)'
  BY <1>1 DEF SteadyInv
<1>3. ASSUME NEW o \in Msgs, NEW k \in Clients, BroadcastTo(o, k)
      PROVE  Ahead(m)'
  <2>1. steady'[m] \subseteq steady[m] /\ route[m] = "toAll"
    BY <1>2, <1>3, SteadyShrinks DEF BrokerNext, BroadcastTo
  <2>2. Ahead(m) /\ steady[m] \subseteq ReachableEntries
    BY <2>1 DEF SteadyInv
  <2>3. CASE o # m
    BY <1>3, <2>1, <2>2, <2>3 DEF BroadcastTo
  <2>4. CASE o = m
    <3>1. ASSUME NEW e \in steady[m]
          PROVE  e[1] \in unvisited'[m] \/ e \in seen'[m]
      <4>1. PICK j \in Clients : e = << j, clients[j] >> /\ Reachable(j)
        BY <2>2, <3>1 DEF ReachableEntries
      <4>2. CASE j = k
        BY <1>3, <2>4, <4>1, <4>2 DEF BroadcastTo
      <4>3. CASE j # k
        BY <1>3, <2>2, <2>4, <4>1, <4>3 DEF BroadcastTo
      <4>4. QED
        BY <4>2, <4>3
    <3>2. QED
      BY <2>1, <3>1
  <2>5. QED
    BY <2>3, <2>4
<1>4. ASSUME NEW o \in Msgs, BeginBroadcast(o) PROVE Ahead(m)'
  <2>1. CASE o = m
    <3>1. unvisited'[m] = Clients
      BY <1>4, <2>1 DEF BeginBroadcast
    <3>2. \A e \in steady'[m] : e[1] \in Clients
      BY BrokerTypeStep DEF BrokerTypeOK
    <3>3. QED
      BY <3>1, <3>2
  <2>2. CASE o # m
    <3>1. route[m] = "toAll"
      BY <1>2, <1>4, <2>2 DEF BeginBroadcast
    <3>2. steady'[m] \subseteq steady[m] /\ Ahead(m)
      BY <3>1, SteadyShrinks DEF BrokerNext, SteadyInv
    <3>3. unvisited'[m] = unvisited[m] /\ seen'[m] = seen[m]
      BY <1>4, <2>2 DEF BeginBroadcast
    <3>4. QED
      BY <3>2, <3>3
  <2>3. QED
    BY <2>1, <2>2
<1>5. ASSUME route[m] = "toAll",
             unvisited'[m] = unvisited[m],
             seen[m] \subseteq seen'[m]
      PROVE  Ahead(m)'
  <2>1. steady'[m] \subseteq steady[m] /\ Ahead(m)
    BY <1>5, SteadyShrinks DEF BrokerNext, SteadyInv
  <2>2. QED
    BY <1>5, <2>1
<1>6. ASSUME NEW o \in Msgs,
             \/ LookUpOwner(o)
             \/ SendToOwner(o)
             \/ TrackOwned(o)
             \/ ReleaseOwner(o)
             \/ TrackAndBroadcast(o)
      PROVE  Ahead(m)'
  <2>1. route[m] = "toAll" /\ unvisited'[m] = unvisited[m]
    BY <1>2, <1>6 DEF LookUpOwner, SendToOwner, TrackOwned, ReleaseOwner,
         TrackAndBroadcast
  <2>2. \/ UNCHANGED seen
        \/ \E e : seen' = [seen EXCEPT ![o] = @ \cup {e}]
    BY <1>6 DEF LookUpOwner, SendToOwner, TrackOwned, ReleaseOwner,
         TrackAndBroadcast
  <2>3. seen[m] \subseteq seen'[m]
    BY <2>2
  <2>4. QED
    BY <1>5, <2>1, <2>3
<1>7. ASSUME NEW o \in Msgs, EndBroadcast(o) \/ HangUp(o) PROVE Ahead(m)'
  <2>1. /\ \E p \in Over : route' = [route EXCEPT ![o] = p]
        /\ unvisited' = [unvisited EXCEPT ![o] = {}]
        /\ UNCHANGED seen
    BY <1>7 DEF EndBroadcast, HangUp, ForgetLocals, Over
  <2>2. o # m /\ route[m] = "toAll"
    BY <1>2, <2>1 DEF Over
  <2>3. QED
    BY <1>5, <2>1, <2>2
<1>8. CASE UNCHANGED routeVars
  BY <1>2, <1>5, <1>8 DEF routeVars
<1>9. QED
  BY <1>3, <1>4, <1>6, <1>7, <1>8
     DEF BrokerNext, Routing, Responding, Connection, ReceiveResponse,
         ClaimForResponse, TakePending, FinishResponse, PanicInResponse

\* A broadcast that runs to its end has reached every entry that was there from
\* the moment its message was received, whatever comes and goes meanwhile.
THEOREM BroadcastComplete == BrokerSpec => BroadcastReachesSteady
<1> DEFINE Complete ==
      \A m \in Msgs :
        route[m] = "toAll" /\ route'[m] \in {"sent", "failed"}
          => steady[m] \subseteq seen[m]
<1>1. BrokerInit => SteadyInv
  BY DEF BrokerInit, SteadyInv
<1>2. BInv /\ SteadyInv /\ [BrokerNext]_vars => SteadyInv'
  <2>1. SteadyInv /\ UNCHANGED vars => SteadyInv'
    BY DEF SteadyInv, ReachableEntries, Reachable, vars, wsVars, brokerVars,
           routeVars
  <2>2. QED
    BY <2>1, SteadyStep
<1>3. BInv /\ SteadyInv /\ [BrokerNext]_vars => [Complete]_vars
  <2> SUFFICES ASSUME BInv, SteadyInv, BrokerNext, NEW m \in Msgs,
                      route[m] = "toAll", route'[m] \in {"sent", "failed"}
               PROVE  unvisited[m] = {}
    BY DEF SteadyInv
  <2> USE DEF BInv, BrokerTypeOK
  <2>1. ASSUME NEW o \in Msgs, Routing(o) \/ HangUp(o) PROVE unvisited[m] = {}
    BY <2>1 DEF Routing, HangUp, LookUpOwner, SendToOwner, TrackOwned,
         ReleaseOwner, TrackAndBroadcast, BeginBroadcast, BroadcastTo,
         EndBroadcast
  <2>2. ~ UNCHANGED routeVars
    BY DEF routeVars
  <2>3. QED
    BY <2>1, <2>2
       DEF BrokerNext, Responding, Connection, ReceiveResponse,
           ClaimForResponse, TakePending, FinishResponse, PanicInResponse
<1>4. QED
  BY <1>1, <1>2, <1>3, BInvInvariant, PTL
     DEF BrokerSpec, BroadcastReachesSteady

-----------------------------------------------------------------------------

\* When the owner that was read could not be reached and the message goes on to
\* all, that client no longer owns the conversation: the release frees what is in
\* the client's own set, and whatever it owns by then is there.
THEOREM DeadOwnerInvariant == BrokerSpec => DeadOwnerForgotten
<1> DEFINE Forgotten ==
      \A m \in Msgs : route[m] = "free" /\ route'[m] = "track" =>
        conversationOwners'[ConvOf[m]] # target[m]
<1>1. BInv /\ OwnerTracked /\ [BrokerNext]_vars => [Forgotten]_vars
  <2> SUFFICES ASSUME BInv, OwnerTracked, BrokerNext, NEW m \in Msgs,
                      route[m] = "free", route'[m] = "track"
               PROVE  conversationOwners'[ConvOf[m]] # target[m]
    OBVIOUS
  <2> USE DEF BInv, BrokerTypeOK
  <2>1. ReleaseOwner(m)
    <3>1. ASSUME NEW o \in Msgs, Routing(o) \/ HangUp(o) PROVE ReleaseOwner(m)
      BY <3>1 DEF Routing, HangUp, LookUpOwner, SendToOwner, TrackOwned,
           ReleaseOwner, TrackAndBroadcast, BeginBroadcast, BroadcastTo,
           EndBroadcast
    <3>2. ~ UNCHANGED routeVars
      BY DEF routeVars
    <3>3. QED
      BY <3>1, <3>2
         DEF BrokerNext, Responding, Connection, ReceiveResponse,
             ClaimForResponse, TakePending, FinishResponse, PanicInResponse
  <2>2. ConvOf[m] \in Convs /\ target[m] \in Clients /\ target[m] # NoClient
    BY BrokerAssumption, ConstantsAssumption DEF LocalsSet
  <2>3. conversationOwners'[ConvOf[m]] =
          IF ConvOf[m] \in clientConversations[target[m]]
          THEN NoClient ELSE conversationOwners[ConvOf[m]]
    BY <2>1, <2>2 DEF ReleaseOwner, ReleaseOnRouting, ReleaseConversations
  <2>4. QED
    BY <2>2, <2>3 DEF OwnerTracked
<1>2. QED
  BY <1>1, BInvInvariant, BrokerInheritsWsManager, PTL
     DEF BrokerSpec, DeadOwnerForgotten

-----------------------------------------------------------------------------

\* Where a message's PendingMessage was made.
At(m) == CHOOSE i \in DOMAIN created : created[i] = m

Stamped == {created[i] : i \in DOMAIN created}

\* Of messages made at different times, Newest keeps as many as it says at most:
\* how many are newer is another number for each of those it keeps.
LEMMA NewestBounds ==
  ASSUME NEW S, IsFiniteSet(S), S \subseteq Stamped, created \in Seq(Msgs),
         NEW n \in Nat
  PROVE  /\ Newest(S, n) \subseteq S
         /\ Cardinality(Newest(S, n)) <= n
<1> DEFINE Newer(m) == {o \in S : At(o) > At(m)}
           Rank == [m \in Newest(S, n) |-> Cardinality(Newer(m))]
<1>1. Newest(S, n) = {m \in S : Cardinality(Newer(m)) < n}
  BY DEF Newest, At
<1>2. \A m \in S : At(m) \in Nat /\ created[At(m)] = m
  BY DEF At, Stamped
<1>3. \A m \in S : IsFiniteSet(Newer(m)) /\ Cardinality(Newer(m)) \in Nat
  <2> TAKE m \in S
  <2>1. Newer(m) \in SUBSET S
    OBVIOUS
  <2>2. QED
    BY <2>1, FS_Subset, FS_CardinalityType
<1>4. ASSUME NEW m \in S, NEW o \in S, At(o) > At(m)
      PROVE  Cardinality(Newer(o)) # Cardinality(Newer(m))
  <2>1. Newer(o) \in SUBSET Newer(m) /\ o \in Newer(m) /\ o \notin Newer(o)
    BY <1>2, <1>4
  <2>2. QED
    BY <1>3, <2>1, FS_Subset
<1>5. Rank \in Injection(Newest(S, n), 0..(n - 1))
  <2>1. Rank \in [Newest(S, n) -> 0..(n - 1)]
    <3>1. ASSUME NEW m \in Newest(S, n) PROVE Cardinality(Newer(m)) \in 0..(n - 1)
      <4>1. Cardinality(Newer(m)) \in Nat /\ Cardinality(Newer(m)) < n
        BY <1>1, <1>3
      <4> HIDE DEF Newer
      <4>2. QED
        BY <4>1
    <3> HIDE DEF Newer
    <3>2. QED
      BY <3>1
  <2>2. ASSUME NEW m \in Newest(S, n), NEW o \in Newest(S, n), m # o
        PROVE  Rank[m] # Rank[o]
    <3>1. m \in S /\ o \in S
      BY <1>1
    <3>2. At(m) > At(o) \/ At(o) > At(m)
      BY <1>2, <2>2, <3>1
    <3>3. QED
      BY <1>4, <3>1, <3>2
  <2> HIDE DEF Rank
  <2>3. \A m, o \in Newest(S, n) : Rank[m] = Rank[o] => m = o
    BY <2>2
  <2>4. QED
    BY <2>1, <2>3, Fun_IsInj
<1>6. IsFiniteSet(0..(n - 1)) /\ Cardinality(0..(n - 1)) = n
  BY FS_Interval
<1>7. Cardinality(Newest(S, n)) <= n
  BY <1>5, <1>6, FS_Injection
<1>8. QED
  BY <1>1, <1>7

\* What makes the bound inductive: the table is finite, and every message in it,
\* or on its way into it, has a time of its own.
PendingInv ==
  /\ IsFiniteSet(pending)
  /\ pending \subseteq Stamped
  /\ \A m \in Msgs : route[m] # "new" => m \in Stamped
  /\ PendingBounded

\* Tracking a message keeps the table within its maximum, full or not.
LEMMA TrackBounded ==
  ASSUME BInv, PendingInv, NEW m \in Msgs, m \in Stamped, TrackPending(m)
  PROVE  /\ IsFiniteSet(pending')
         /\ pending' \subseteq Stamped
         /\ Cardinality(pending') <= MaxPending
<1> DEFINE full == pending \cup {m}
<1>1. IsFiniteSet(full) /\ Cardinality(full) \in Nat /\ full \subseteq Stamped
  BY FS_AddElement, FS_CardinalityType DEF PendingInv
<1>2. PICK n \in 0..MaxPending : pending' = Newest(full, n)
  <2>1. MaxPending \in Nat /\ MaxPending - EvictSlack \in 0..MaxPending
    BY BrokerAssumption
  <2>2. PICK i \in IF Cardinality(full) > MaxPending THEN 0..Cardinality(full)
                   ELSE {Cardinality(full)} :
          pending' = Newest(full, IF i > MaxPending THEN MaxPending - EvictSlack
                                  ELSE i)
    BY DEF TrackPending
  <2>3. QED
    BY <1>1, <2>1, <2>2
<1>3. created \in Seq(Msgs) /\ n \in Nat /\ MaxPending \in Nat
  BY BrokerAssumption DEF BInv, BrokerTypeOK
<1>4. pending' \subseteq full /\ Cardinality(pending') <= n
  BY <1>1, <1>2, <1>3, NewestBounds
<1>5. IsFiniteSet(pending') /\ Cardinality(pending') \in Nat
  BY <1>1, <1>4, FS_Subset, FS_CardinalityType
<1>6. Cardinality(pending') <= MaxPending
  BY <1>3, <1>4, <1>5
<1>7. pending' \subseteq Stamped
  BY <1>1, <1>4
<1>8. QED
  BY <1>5, <1>6, <1>7

\* Every step keeps the table finite, stamped and within its maximum.
LEMMA PendingStep ==
  ASSUME BInv, PendingInv, [BrokerNext]_vars
  PROVE  PendingInv'
<1> USE DEF BInv, BrokerTypeOK
<1>1. ASSUME NEW m \in Msgs, TrackOwned(m) \/ TrackAndBroadcast(m)
      PROVE  PendingInv'
  <2>1. m \in Stamped /\ TrackPending(m) /\ UNCHANGED created
    BY <1>1 DEF TrackOwned, TrackAndBroadcast, PendingInv
  <2>2. \E p \in RoutePhases : route' = [route EXCEPT ![m] = p]
    BY <1>1 DEF TrackOwned, TrackAndBroadcast, RoutePhases
  <2>3. \A o \in Msgs : route'[o] # "new" => o \in Stamped
    BY <2>1, <2>2 DEF PendingInv
  <2>4. QED
    BY <2>1, <2>3, TrackBounded DEF PendingInv, PendingBounded, Stamped
<1>2. ASSUME NEW m \in Msgs, LookUpOwner(m) PROVE PendingInv'
  <2>1. created' = Append(created, m) /\ UNCHANGED pending
    BY <1>2 DEF LookUpOwner, tableVars
  <2>2. created'[Len(created) + 1] = m /\ Len(created) + 1 \in DOMAIN created'
    BY <2>1
  <2>3. \A i \in DOMAIN created : i \in DOMAIN created' /\ created'[i] = created[i]
    BY <2>1
  <2>4. Stamped \subseteq Stamped' /\ m \in Stamped'
    BY <2>2, <2>3 DEF Stamped
  <2>5. \A o \in Msgs : route'[o] # "new" => o = m \/ route[o] # "new"
    BY <1>2 DEF LookUpOwner
  <2>6. QED
    BY <2>1, <2>4, <2>5 DEF PendingInv, PendingBounded
<1>3. ASSUME NEW m \in Msgs,
             \/ SendToOwner(m)
             \/ ReleaseOwner(m)
             \/ BeginBroadcast(m)
             \/ \E k \in Clients : BroadcastTo(m, k)
             \/ EndBroadcast(m)
             \/ HangUp(m)
      PROVE  PendingInv'
  <2>1. UNCHANGED << created, pending >>
    BY <1>3 DEF SendToOwner, ReleaseOwner, BeginBroadcast, BroadcastTo,
         EndBroadcast, HangUp, tableVars
  <2>2. route[m] # "new"
    BY <1>3 DEF SendToOwner, ReleaseOwner, BeginBroadcast, BroadcastTo,
         EndBroadcast, HangUp
  <2>3. UNCHANGED route \/ \E p : route' = [route EXCEPT ![m] = p]
    BY <1>3 DEF SendToOwner, ReleaseOwner, BeginBroadcast, BroadcastTo,
         EndBroadcast, HangUp
  <2>4. \A o \in Msgs : route'[o] # "new" => o = m \/ route[o] # "new"
    BY <2>3
  <2>5. QED
    BY <2>1, <2>2, <2>4 DEF PendingInv, PendingBounded, Stamped
<1>4. ASSUME NEW s \in Socks, TakePending(s) PROVE PendingInv'
  <2>1. pending' \in SUBSET pending /\ UNCHANGED << created, route >>
    BY <1>4 DEF TakePending, routeVars
  <2>2. /\ IsFiniteSet(pending')
        /\ Cardinality(pending') <= Cardinality(pending)
        /\ Cardinality(pending) \in Nat /\ Cardinality(pending') \in Nat
    BY <2>1, FS_Subset, FS_CardinalityType DEF PendingInv
  <2>3. Cardinality(pending') <= MaxPending
    BY <2>2, BrokerAssumption DEF PendingInv, PendingBounded
  <2>4. QED
    BY <2>1, <2>2, <2>3 DEF PendingInv, PendingBounded, Stamped
<1>5. CASE UNCHANGED << pending, created, route >>
  BY <1>5 DEF PendingInv, PendingBounded, Stamped
<1>6. QED
  BY <1>1, <1>2, <1>3, <1>4, <1>5
     DEF BrokerNext, Routing, Responding, Connection, ReceiveResponse,
         ClaimForResponse, FinishResponse, PanicInResponse, vars, brokerVars,
         routeVars, tableVars

\* Whatever order messages come, expire and are answered in, the pending table
\* never grows beyond its maximum.
THEOREM PendingBoundedInvariant == BrokerSpec => []PendingBounded
<1>1. BrokerInit => PendingInv
  BY FS_EmptySet, BrokerAssumption
     DEF BrokerInit, PendingInv, PendingBounded, Stamped
<1>2. PendingInv => PendingBounded
  BY DEF PendingInv
<1>3. QED
  BY <1>1, <1>2, PendingStep, BInvInvariant, PTL DEF BrokerSpec

=============================================================================
