--------------------------- MODULE WsManagerProofs ---------------------------
(***************************************************************************)
(* What holds of the WebSocket manager for any number of clients, sockets   *)
(* and conversations: its type invariant, the agreement of the two          *)
(* ownership maps, the lawful changes of ownership, what strands a          *)
(* conversation, that a finished connection leaves no entry under its       *)
(* client id, what client_count counts, and that it implements the two      *)
(* maps of OwnerMap.                                                        *)
(***************************************************************************)
EXTENDS WsManager, FiniteSetTheorems, TLAPS

\* Every step keeps every variable of its type.
LEMMA TypeStep ==
  ASSUME TypeOK, [Next]_wsVars
  PROVE  TypeOK'
<1> USE DEF TypeOK, Phases, connVars, ownerVars
<1>1. ASSUME NEW s \in Socks, Accept(s) PROVE TypeOK'
  BY <1>1 DEF Accept
<1>2. ASSUME NEW s \in Socks, NEW k \in Clients, InsertClient(s, k)
      PROVE  TypeOK'
  BY <1>2 DEF InsertClient
<1>3. ASSUME NEW s \in Socks, CountClient(s) PROVE TypeOK'
  BY <1>3 DEF CountClient
<1>4. ASSUME NEW s \in Socks, SendTaskEnds(s) PROVE TypeOK'
  BY <1>4 DEF SendTaskEnds
<1>5. ASSUME NEW s \in Socks, LeaveLoop(s) PROVE TypeOK'
  BY <1>5 DEF LeaveLoop
<1>6. ASSUME NEW s \in Socks, PanicInHandler(s) PROVE TypeOK'
  BY <1>6 DEF PanicInHandler
<1>7. ASSUME NEW s \in Socks, RemoveEntry(s) PROVE TypeOK'
  BY <1>7 DEF RemoveEntry
<1>8. ASSUME NEW s \in Socks, UncountClient(s) PROVE TypeOK'
  BY <1>8 DEF UncountClient
<1>9. ASSUME NEW s \in Socks, ReleaseOnClose(s) PROVE TypeOK'
  BY <1>9 DEF ReleaseOnClose, ReleaseConversations
<1>10. ASSUME NEW s \in Socks, AbortSendTask(s) PROVE TypeOK'
  BY <1>10 DEF AbortSendTask
<1>11. ASSUME NEW s \in Socks, NEW c \in Convs, ClaimOnResponse(s, c)
       PROVE  TypeOK'
  BY <1>11 DEF ClaimOnResponse, ClaimConversation, CanClaim
<1>12. ASSUME NEW k \in Clients, ReleaseOnRouting(k) PROVE TypeOK'
  BY <1>12 DEF ReleaseOnRouting, ReleaseConversations
<1>13. ASSUME NEW c \in Convs, NEW k \in Clients, SetConversationOwner(c, k)
       PROVE  TypeOK'
  BY <1>13 DEF SetConversationOwner, CanClaim
<1>14. ASSUME NEW c \in Convs, ClearConversationOwner(c) PROVE TypeOK'
  BY <1>14 DEF ClearConversationOwner
<1>15. CASE UNCHANGED wsVars
  BY <1>15 DEF wsVars
<1>16. QED
  BY <1>1, <1>2, <1>3, <1>4, <1>5, <1>6, <1>7, <1>8, <1>9, <1>10, <1>11,
     <1>12, <1>13, <1>14, <1>15 DEF Next, SocketStep, Cleanup

\* Every variable is of its type.
THEOREM TypeInvariant == Spec => []TypeOK
<1>1. Init => TypeOK
  BY DEF Init, TypeOK, Phases
<1>2. TypeOK /\ [Next]_wsVars => TypeOK'
  BY TypeStep
<1>3. QED
  BY <1>1, <1>2, PTL DEF Spec

-----------------------------------------------------------------------------

\* Releasing a client's conversations keeps the two maps in agreement.
LEMMA ReleaseAgrees ==
  ASSUME TypeOK, NEW k \in Clients, ReleaseConversations(k)
  PROVE  /\ OwnerTracked => OwnerTracked'
         /\ StaleOnlyAfterOverride => StaleOnlyAfterOverride'
BY ConstantsAssumption
   DEF TypeOK, ReleaseConversations, OwnerTracked, StaleOnlyAfterOverride

\* So does a claim, whether it succeeds or not.
LEMMA ClaimAgrees ==
  ASSUME TypeOK, NEW k \in Clients, NEW c \in Convs, ClaimConversation(c, k)
  PROVE  /\ OwnerTracked => OwnerTracked'
         /\ StaleOnlyAfterOverride => StaleOnlyAfterOverride'
BY ConstantsAssumption
   DEF TypeOK, ClaimConversation, CanClaim, OwnerTracked,
       StaleOnlyAfterOverride

\* A step that leaves the three ownership variables alone leaves both alone.
LEMMA UnchangedAgrees ==
  ASSUME UNCHANGED ownerVars
  PROVE  /\ OwnerTracked => OwnerTracked'
         /\ StaleOnlyAfterOverride => StaleOnlyAfterOverride'
BY DEF ownerVars, OwnerTracked, StaleOnlyAfterOverride

\* The steps of a socket that touch neither ownership map.
LEMMA ConnectionKeepsOwners ==
  ASSUME NEW s \in Socks,
         \/ Accept(s)
         \/ \E k \in Clients : InsertClient(s, k)
         \/ CountClient(s)
         \/ SendTaskEnds(s)
         \/ LeaveLoop(s)
         \/ PanicInHandler(s)
         \/ RemoveEntry(s)
         \/ UncountClient(s)
         \/ AbortSendTask(s)
  PROVE  UNCHANGED ownerVars
BY DEF Accept, InsertClient, CountClient, SendTaskEnds, LeaveLoop,
       PanicInHandler, RemoveEntry, UncountClient, AbortSendTask, ownerVars

\* A task that releases conversations has a client id: what remove_client is
\* called with.
IdWhileRemoving ==
  \A s \in Socks : loop[s] \in {"adding", "unreg", "uncount", "release"} =>
    clientId[s] \in Clients

\* An authenticated connection keeps a client id until its task is over.
LEMMA IdWhileRemovingInvariant == Spec => []IdWhileRemoving
<1>1. Init => IdWhileRemoving
  BY DEF Init, IdWhileRemoving
<1>2. TypeOK /\ IdWhileRemoving /\ [Next]_wsVars => IdWhileRemoving'
  <2> SUFFICES ASSUME TypeOK, IdWhileRemoving, [Next]_wsVars
               PROVE  IdWhileRemoving'
    OBVIOUS
  <2> USE DEF TypeOK, IdWhileRemoving
  <2>1. ASSUME NEW s \in Socks, Accept(s) PROVE IdWhileRemoving'
    BY <2>1 DEF Accept
  <2>2. ASSUME NEW s \in Socks, NEW k \in Clients, InsertClient(s, k)
        PROVE  IdWhileRemoving'
    BY <2>2 DEF InsertClient
  <2>3. ASSUME NEW s \in Socks,
               \/ CountClient(s)
               \/ SendTaskEnds(s)
               \/ PanicInHandler(s)
               \/ UncountClient(s)
               \/ AbortSendTask(s)
        PROVE  IdWhileRemoving'
    BY <2>3 DEF CountClient, SendTaskEnds, PanicInHandler, UncountClient,
                AbortSendTask
  <2>4. ASSUME NEW s \in Socks, LeaveLoop(s) PROVE IdWhileRemoving'
    BY <2>4 DEF LeaveLoop
  <2>5. ASSUME NEW s \in Socks, RemoveEntry(s) PROVE IdWhileRemoving'
    BY <2>5 DEF RemoveEntry
  <2>6. ASSUME NEW s \in Socks, ReleaseOnClose(s) PROVE IdWhileRemoving'
    BY <2>6 DEF ReleaseOnClose
  <2>7. CASE UNCHANGED connVars
    BY <2>7 DEF connVars
  <2>8. QED
    BY <2>1, <2>2, <2>3, <2>4, <2>5, <2>6, <2>7
       DEF Next, SocketStep, Cleanup, ClaimOnResponse, ReleaseOnRouting,
           SetConversationOwner, ClearConversationOwner, wsVars, connVars
<1>3. QED
  BY <1>1, <1>2, TypeInvariant, PTL DEF Spec

\* The agreement of the ownership maps is kept by every step.
LEMMA StepAgrees ==
  ASSUME TypeOK, IdWhileRemoving, [Next]_wsVars
  PROVE  /\ OwnerTracked => OwnerTracked'
         /\ StaleOnlyAfterOverride => StaleOnlyAfterOverride'
<1> DEFINE Agrees == /\ OwnerTracked => OwnerTracked'
                     /\ StaleOnlyAfterOverride => StaleOnlyAfterOverride'
<1>1. ASSUME NEW s \in Socks, SocketStep(s) PROVE Agrees
  <2>1. CASE UNCHANGED ownerVars
    BY <2>1, UnchangedAgrees
  <2>2. CASE ReleaseOnClose(s)
    BY <2>2, ReleaseAgrees DEF ReleaseOnClose, IdWhileRemoving
  <2>3. ASSUME NEW c \in Convs, ClaimOnResponse(s, c) PROVE Agrees
    <3>1. clientId[s] \in Clients
      BY <2>3 DEF ClaimOnResponse, TypeOK
    <3>2. QED
      BY <2>3, <3>1, ClaimAgrees DEF ClaimOnResponse
  <2>4. QED
    BY <1>1, <2>1, <2>2, <2>3, ConnectionKeepsOwners DEF SocketStep, Cleanup
<1>2. ASSUME NEW k \in Clients, ReleaseOnRouting(k) PROVE Agrees
  BY <1>2, ReleaseAgrees DEF ReleaseOnRouting
<1>3. ASSUME NEW c \in Convs, NEW k \in Clients, SetConversationOwner(c, k)
      PROVE  Agrees
  BY <1>3, ConstantsAssumption
     DEF SetConversationOwner, CanClaim, TypeOK, OwnerTracked,
         StaleOnlyAfterOverride
<1>4. ASSUME NEW c \in Convs, ClearConversationOwner(c) PROVE Agrees
  BY <1>4, ConstantsAssumption
     DEF ClearConversationOwner, TypeOK, OwnerTracked, StaleOnlyAfterOverride
<1>5. CASE UNCHANGED wsVars
  BY <1>5, UnchangedAgrees DEF wsVars, ownerVars
<1>6. QED
  BY <1>1, <1>2, <1>3, <1>4, <1>5 DEF Next

\* Whoever owns a conversation has it in its own set, for any number of clients
\* and conversations.
THEOREM OwnerTrackedInvariant == Spec => []OwnerTracked
<1>1. Init => OwnerTracked
  BY DEF Init, OwnerTracked
<1>2. TypeOK /\ IdWhileRemoving /\ OwnerTracked /\ [Next]_wsVars => OwnerTracked'
  BY StepAgrees
<1>3. QED
  BY <1>1, <1>2, TypeInvariant, IdWhileRemovingInvariant, PTL DEF Spec

\* A client's set names a conversation it does not own only after an override.
THEOREM StaleInvariant == Spec => []StaleOnlyAfterOverride
<1>1. Init => StaleOnlyAfterOverride
  BY DEF Init, StaleOnlyAfterOverride
<1>2. TypeOK /\ IdWhileRemoving /\ StaleOnlyAfterOverride /\ [Next]_wsVars
        => StaleOnlyAfterOverride'
  BY StepAgrees
<1>3. QED
  BY <1>1, <1>2, TypeInvariant, IdWhileRemovingInvariant, PTL DEF Spec

-----------------------------------------------------------------------------

\* Only a conversation that was overridden is freed or given away behind the
\* back of the client that owns it.
THEOREM LawfulOwnership == Spec => OwnershipChangesLawfully
<1> DEFINE
      Lawful ==
        \A c \in Convs :
          /\ conversationOwners[c] # NoClient
          /\ conversationOwners'[c] # conversationOwners[c]
          => \/ c \in overridden'
             \/ /\ conversationOwners'[c] = NoClient
                /\ \A j \in Clients \ {conversationOwners[c]} :
                     clientConversations'[j] = clientConversations[j]
<1>1. ASSUME TypeOK, StaleOnlyAfterOverride, NEW k \in Clients,
             ReleaseConversations(k)
      PROVE  Lawful
  BY <1>1 DEF TypeOK, StaleOnlyAfterOverride, ReleaseConversations
<1>2. TypeOK /\ IdWhileRemoving /\ StaleOnlyAfterOverride /\ [Next]_wsVars
        => [Lawful]_wsVars
  <2> SUFFICES ASSUME TypeOK, IdWhileRemoving, StaleOnlyAfterOverride, Next
               PROVE  Lawful
    OBVIOUS
  <2>1. ASSUME NEW s \in Socks, SocketStep(s) PROVE Lawful
    <3>1. CASE UNCHANGED ownerVars
      BY <3>1 DEF ownerVars
    <3>2. CASE ReleaseOnClose(s)
      BY <3>2, <1>1 DEF ReleaseOnClose, IdWhileRemoving
    <3>3. ASSUME NEW c \in Convs, ClaimOnResponse(s, c) PROVE Lawful
      BY <3>3 DEF ClaimOnResponse, ClaimConversation, CanClaim, TypeOK
    <3>4. QED
      BY <2>1, <3>1, <3>2, <3>3, ConnectionKeepsOwners DEF SocketStep, Cleanup
  <2>2. ASSUME NEW k \in Clients, ReleaseOnRouting(k) PROVE Lawful
    BY <2>2, <1>1 DEF ReleaseOnRouting
  <2>3. ASSUME NEW c \in Convs, NEW k \in Clients, SetConversationOwner(c, k)
        PROVE  Lawful
    BY <2>3 DEF SetConversationOwner, CanClaim, TypeOK
  <2>4. ASSUME NEW c \in Convs, ClearConversationOwner(c) PROVE Lawful
    BY <2>4 DEF ClearConversationOwner, TypeOK
  <2>5. QED
    BY <2>1, <2>2, <2>3, <2>4 DEF Next
<1>3. QED
  BY <1>2, TypeInvariant, IdWhileRemovingInvariant, StaleInvariant, PTL
     DEF Spec, OwnershipChangesLawfully

\* A connection goes on serving its client, unless it authenticates under another
\* id, panics, finds no entry to remove, or has released what the client owned.
LEMMA ServingGoesOn ==
  ASSUME TypeOK, NEW s \in Socks, NEW k \in Clients, Serves(s, k), ~Serves(s, k)',
         [Next]_wsVars
  PROVE  \/ clientId'[s] # clientId[s]
         \/ loop'[s] = "panicked"
         \/ RemoveEntry(s) /\ clients[clientId[s]] = NoSock
         \/ ReleaseOnClose(s)
<1> DEFINE Left == \/ clientId'[s] # clientId[s]
                   \/ loop'[s] = "panicked"
                   \/ RemoveEntry(s) /\ clients[clientId[s]] = NoSock
                   \/ ReleaseOnClose(s)
<1> USE DEF Serves, TypeOK
<1>1. ASSUME UNCHANGED << loop, clientId >> PROVE FALSE
  BY <1>1
<1>2. ASSUME NEW t \in Socks, SocketStep(t), ~UNCHANGED << loop, clientId >>
      PROVE  Left
  <2>1. CASE Accept(t)
    BY <2>1 DEF Accept
  <2>2. ASSUME NEW j \in Clients, InsertClient(t, j) PROVE Left
    <3>1. s = t
      BY <2>2 DEF InsertClient
    <3>2. clientId'[s] = j /\ loop'[s] = "adding"
      BY <2>2, <3>1 DEF InsertClient
    <3>3. clientId'[s] # clientId[s]
      BY <3>2
    <3> QED
      BY <3>1, <3>3
  <2>7. CASE CountClient(t)
    BY <2>7 DEF CountClient
  <2>8. CASE LeaveLoop(t)
    BY <2>8, ConstantsAssumption DEF LeaveLoop
  <2>9. CASE PanicInHandler(t)
    <3>1. s = t
      BY <2>9 DEF PanicInHandler
    <3>2. loop'[s] = "panicked"
      BY <2>9, <3>1 DEF PanicInHandler
    <3> QED
      BY <3>1, <3>2
  <2>3. CASE UncountClient(t) \/ AbortSendTask(t)
    BY <2>3 DEF UncountClient, AbortSendTask
  <2>4. CASE RemoveEntry(t)
    <3>1. s = t /\ loop'[s] \notin {"uncount"}
      BY <2>4 DEF RemoveEntry
    <3>2. clients[clientId[s]] = NoSock
      BY <2>4, <3>1 DEF RemoveEntry
    <3> QED
      BY <2>4, <3>1, <3>2
  <2>5. CASE ReleaseOnClose(t)
    BY <2>5 DEF ReleaseOnClose
  <2>6. CASE SendTaskEnds(t) \/ \E c \in Convs : ClaimOnResponse(t, c)
    BY <1>2, <2>6 DEF SendTaskEnds, ClaimOnResponse, connVars
  <2> QED
    BY <1>2, <2>1, <2>2, <2>3, <2>4, <2>5, <2>6, <2>7, <2>8, <2>9
       DEF SocketStep, Cleanup
<1>3. ASSUME ~\E t \in Socks : SocketStep(t)
      PROVE  UNCHANGED << loop, clientId >>
  BY <1>3 DEF Next, ReleaseOnRouting, SetConversationOwner, ClearConversationOwner,
              connVars, wsVars
<1> QED
  BY <1>1, <1>2, <1>3

\* No disconnect leaves a conversation to a client that no connection serves,
\* however many connections share an id and whatever RMS overrides meanwhile.
THEOREM StrandedInvariant == Spec => StrandedHasCause
<1> DEFINE
      Caused(c) ==
        \/ \E k \in Clients : SetConversationOwner(c, k)
        \/ \E s \in Socks :
             /\ Serves(s, conversationOwners[c])
             /\ \/ clientId'[s] # clientId[s]
                \/ loop'[s] = "panicked"
                \/ RemoveEntry(s) /\ clients[clientId[s]] = NoSock
<1>1. TypeOK /\ IdWhileRemoving /\ OwnerTracked /\ [Next]_wsVars
        => \A c \in Convs : ~Stranded(c) /\ Stranded(c)' => Caused(c)
  <2> SUFFICES ASSUME TypeOK, IdWhileRemoving, OwnerTracked, [Next]_wsVars,
                      NEW c \in Convs, ~Stranded(c), Stranded(c)'
               PROVE  Caused(c)
    OBVIOUS
  <2> DEFINE k == conversationOwners[c]
  <2>1. CASE conversationOwners'[c] # k
    <3>1. conversationOwners'[c] # NoClient
      BY DEF Stranded
    <3>2. ASSUME NEW j \in Clients, ReleaseConversations(j) PROVE FALSE
      BY <2>1, <3>1, <3>2 DEF ReleaseConversations
    <3>3. ASSUME NEW s \in Socks, NEW d \in Convs, ClaimOnResponse(s, d) PROVE FALSE
      <4>1. /\ conversationOwners'[c] = clientId[s]
            /\ UNCHANGED << loop, clientId >> /\ loop[s] = "recv"
        BY <2>1, <3>3 DEF ClaimOnResponse, ClaimConversation, connVars, TypeOK
      <4>2. Serves(s, conversationOwners[c])'
        BY <4>1 DEF Serves
      <4> QED
        BY <4>2 DEF Stranded
    <3>4. ASSUME NEW d \in Convs, NEW j \in Clients, SetConversationOwner(d, j)
          PROVE  SetConversationOwner(c, j)
      BY <2>1, <3>4 DEF SetConversationOwner, TypeOK
    <3>5. ASSUME NEW d \in Convs, ClearConversationOwner(d) PROVE FALSE
      BY <2>1, <3>1, <3>5 DEF ClearConversationOwner, TypeOK
    <3>6. ~UNCHANGED ownerVars
      BY <2>1 DEF ownerVars
    <3> QED
      BY <3>2, <3>3, <3>4, <3>5, <3>6, ConnectionKeepsOwners
         DEF Next, SocketStep, Cleanup, ReleaseOnClose, ReleaseOnRouting,
             IdWhileRemoving, wsVars, ownerVars
  <2>2. CASE conversationOwners'[c] = k
    <3>1. PICK j \in Clients : j = k
      BY <2>2 DEF Stranded, TypeOK
    <3>2. PICK s \in Socks : Serves(s, j)
      BY <2>2, <3>1 DEF Stranded
    <3>3. ~Serves(s, j)'
      BY <2>2, <3>1 DEF Stranded
    <3>4. ~ReleaseOnClose(s)
      <4>1. clientId[s] = j /\ c \in clientConversations[j]
        BY <3>1, <3>2, ConstantsAssumption DEF Serves, OwnerTracked
      <4> QED
        BY <2>2, <3>1, <4>1, ConstantsAssumption
           DEF ReleaseOnClose, ReleaseConversations
    <3> QED
      BY <3>1, <3>2, <3>3, <3>4, ServingGoesOn
  <2> QED
    BY <2>1, <2>2
<1>2. QED
  BY <1>1, TypeInvariant, IdWhileRemovingInvariant, OwnerTrackedInvariant, PTL
     DEF Spec, StrandedHasCause

\* A connection that has cleaned up leaves no entry under its client id.
THEOREM GhostInvariant == Spec => []GhostOnlyAfterReauth
<1>1. Init => GhostOnlyAfterReauth
  BY ConstantsAssumption DEF Init, GhostOnlyAfterReauth
<1>2. TypeOK /\ IdWhileRemoving /\ GhostOnlyAfterReauth /\ [Next]_wsVars
        => GhostOnlyAfterReauth'
  <2> SUFFICES ASSUME TypeOK, IdWhileRemoving, GhostOnlyAfterReauth,
                      [Next]_wsVars
               PROVE  GhostOnlyAfterReauth'
    OBVIOUS
  <2> USE ConstantsAssumption DEF TypeOK, GhostOnlyAfterReauth
  <2>1. ASSUME NEW s \in Socks, Accept(s) PROVE GhostOnlyAfterReauth'
    BY <2>1 DEF Accept
  <2>2. ASSUME NEW s \in Socks, NEW k \in Clients, InsertClient(s, k)
        PROVE  GhostOnlyAfterReauth'
    BY <2>2 DEF InsertClient
  <2>3. ASSUME NEW s \in Socks,
               \/ CountClient(s)
               \/ SendTaskEnds(s)
               \/ PanicInHandler(s)
               \/ UncountClient(s)
               \/ AbortSendTask(s)
               \/ ReleaseOnClose(s)
        PROVE  GhostOnlyAfterReauth'
    BY <2>3 DEF CountClient, SendTaskEnds, PanicInHandler, UncountClient,
                AbortSendTask, ReleaseOnClose
  <2>4. ASSUME NEW s \in Socks, LeaveLoop(s) PROVE GhostOnlyAfterReauth'
    BY <2>4 DEF LeaveLoop
  <2>5. ASSUME NEW s \in Socks, RemoveEntry(s) PROVE GhostOnlyAfterReauth'
    BY <2>5 DEF RemoveEntry, IdWhileRemoving
  <2>6. CASE UNCHANGED connVars
    BY <2>6 DEF connVars
  <2>7. QED
    BY <2>1, <2>2, <2>3, <2>4, <2>5, <2>6
       DEF Next, SocketStep, Cleanup, ClaimOnResponse, ReleaseOnRouting,
           SetConversationOwner, ClearConversationOwner, wsVars, connVars
<1>3. QED
  BY <1>1, <1>2, TypeInvariant, IdWhileRemovingInvariant, PTL DEF Spec

-----------------------------------------------------------------------------

\* Sets of sockets and of client ids are finite, and one element more or less
\* changes their size by one.
LEMMA Sizes ==
  ASSUME NEW S, S \subseteq Socks \/ S \subseteq Clients
  PROVE  /\ Cardinality(S) \in Nat
         /\ \A x : x \notin S => Cardinality(S \cup {x}) = Cardinality(S) + 1
         /\ \A x \in S : Cardinality(S \ {x}) = Cardinality(S) - 1
<1>1. IsFiniteSet(S)
  BY FS_Subset, ConstantsAssumption
<1>2. QED
  BY <1>1, FS_CardinalityType, FS_AddElement, FS_RemoveElement

\* The sockets whose connection is in client_count: it has counted its last
\* registration and has not been taken off again.
Counted == {s \in Socks : /\ loop[s] \in {"recv", "unreg", "uncount"}
                          /\ clientId[s] # NoClient}

\* No connection takes itself off the count more than once, nor before it is
\* counted.
CountCovers == clientCount >= Cardinality(Counted)

\* client_count covers the connections that may still be taken off it.
LEMMA CountCoversInvariant == Spec => []CountCovers
<1>1. Init => CountCovers
  <2> SUFFICES ASSUME Init PROVE CountCovers
    OBVIOUS
  <2>1. Counted = {}
    BY DEF Init, Counted
  <2>2. QED
    BY <2>1, FS_EmptySet DEF Init, CountCovers
<1>2. TypeOK /\ IdWhileRemoving /\ CountCovers /\ [Next]_wsVars => CountCovers'
  <2> SUFFICES ASSUME TypeOK, IdWhileRemoving, CountCovers, [Next]_wsVars
               PROVE  CountCovers'
    OBVIOUS
  <2> USE DEF TypeOK
  <2>1. Counted \subseteq Socks /\ Counted' \subseteq Socks
    BY DEF Counted
  <2>2. ASSUME Counted' \subseteq Counted, clientCount' = clientCount
        PROVE  CountCovers'
    <3>1. IsFiniteSet(Counted)
      BY <2>1, FS_Subset, ConstantsAssumption
    <3>2. Cardinality(Counted') <= Cardinality(Counted)
      BY <2>2, <3>1, FS_Subset
    <3>3. Cardinality(Counted) \in Nat /\ Cardinality(Counted') \in Nat
      BY <2>1, Sizes
    <3>4. QED
      BY <2>2, <3>2, <3>3 DEF CountCovers
  <2>3. ASSUME NEW s \in Socks,
               \/ Accept(s)
               \/ \E k \in Clients : InsertClient(s, k)
               \/ SendTaskEnds(s)
               \/ LeaveLoop(s)
               \/ PanicInHandler(s)
               \/ RemoveEntry(s)
               \/ ReleaseOnClose(s)
               \/ AbortSendTask(s)
        PROVE  CountCovers'
    <3>1. Counted' \subseteq Counted
      BY <2>3 DEF Counted, Accept, InsertClient, SendTaskEnds, LeaveLoop,
                  PanicInHandler, RemoveEntry, ReleaseOnClose, AbortSendTask
    <3>2. clientCount' = clientCount
      BY <2>3 DEF Accept, InsertClient, SendTaskEnds, LeaveLoop,
                  PanicInHandler, RemoveEntry, ReleaseOnClose, AbortSendTask
    <3>3. QED
      BY <3>1, <3>2, <2>2
  <2>4. ASSUME NEW s \in Socks, CountClient(s) PROVE CountCovers'
    <3>1. s \notin Counted
      BY <2>4 DEF CountClient, Counted
    <3>2. Counted' = Counted \cup {s}
      BY <2>4, ConstantsAssumption DEF CountClient, Counted, IdWhileRemoving
    <3>3. Cardinality(Counted') = Cardinality(Counted) + 1
      BY <2>1, <3>1, <3>2, Sizes
    <3>4. QED
      BY <2>1, <2>4, <3>3, Sizes DEF CountClient, CountCovers
  <2>5. ASSUME NEW s \in Socks, UncountClient(s) PROVE CountCovers'
    <3>1. s \in Counted
      BY <2>5, ConstantsAssumption DEF UncountClient, Counted, IdWhileRemoving
    <3>2. Counted' = Counted \ {s}
      BY <2>5 DEF UncountClient, Counted
    <3>3. Cardinality(Counted') = Cardinality(Counted) - 1
      BY <2>1, <3>1, <3>2, Sizes
    <3>4. QED
      BY <2>1, <2>5, <3>3, Sizes DEF UncountClient, CountCovers
  <2>6. CASE UNCHANGED connVars
    <3>1. Counted' = Counted /\ clientCount' = clientCount
      BY <2>6 DEF connVars, Counted
    <3>2. QED
      BY <3>1 DEF CountCovers
  <2>7. QED
    BY <2>3, <2>4, <2>5, <2>6
       DEF Next, SocketStep, Cleanup, ClaimOnResponse, ReleaseOnRouting,
           SetConversationOwner, ClearConversationOwner, wsVars, connVars
<1>3. QED
  BY <1>1, <1>2, TypeInvariant, IdWhileRemovingInvariant, PTL DEF Spec

\* client_count never wraps round below zero, however many connections share an
\* id and in whatever order they register and clean up.
THEOREM CountNotNegative == Spec => []CountNeverNegative
<1>1. TypeOK /\ CountCovers => CountNeverNegative
  <2>1. Counted \subseteq Socks
    BY DEF Counted
  <2>2. Cardinality(Counted) \in Nat
    BY <2>1, Sizes
  <2>3. QED
    BY <2>2 DEF TypeOK, CountCovers, CountNeverNegative
<1>2. QED
  BY <1>1, TypeInvariant, CountCoversInvariant, PTL

\* The registered ids, and the replaced registrations, are what client_count counts.
THEOREM CountsEntriesInvariant == Spec => []CountsEntries
<1>1. Init => CountsEntries
  <2> SUFFICES ASSUME Init PROVE CountsEntries
    OBVIOUS
  <2>1. Registered = {} /\ InPhase("adding") = {} /\ InPhase("uncount") = {}
    BY DEF Init, Registered, InPhase
  <2>2. QED
    BY <2>1, FS_EmptySet DEF Init, CountsEntries
<1>2. TypeOK /\ IdWhileRemoving /\ CountsEntries /\ [Next]_wsVars
        => CountsEntries'
  <2> SUFFICES ASSUME TypeOK, IdWhileRemoving, CountsEntries, [Next]_wsVars
               PROVE  CountsEntries'
    OBVIOUS
  <2> USE DEF TypeOK
  <2> DEFINE R == Registered
             A == InPhase("adding")
             U == InPhase("uncount")
  <2>1. /\ R \subseteq Clients /\ A \subseteq Socks /\ U \subseteq Socks
        /\ R' \subseteq Clients /\ A' \subseteq Socks /\ U' \subseteq Socks
    BY DEF Registered, InPhase
  <2>2. /\ Cardinality(R) \in Nat
        /\ Cardinality(A) \in Nat
        /\ Cardinality(U) \in Nat
        /\ clientCount \in Int
        /\ overwrites \in Nat
    BY <2>1, Sizes
  <2>3. clientCount + Cardinality(A)
          = Cardinality(R) + overwrites + Cardinality(U)
    BY DEF CountsEntries
  <2>4. SUFFICES clientCount' + Cardinality(A')
                   = Cardinality(R') + overwrites' + Cardinality(U')
    BY DEF CountsEntries
  <2>5. ASSUME NEW s \in Socks,
               \/ Accept(s)
               \/ SendTaskEnds(s)
               \/ LeaveLoop(s)
               \/ PanicInHandler(s)
               \/ ReleaseOnClose(s)
               \/ AbortSendTask(s)
        PROVE  /\ A' = A /\ U' = U /\ R' = R
               /\ clientCount' = clientCount /\ overwrites' = overwrites
    BY <2>5 DEF Accept, SendTaskEnds, LeaveLoop, PanicInHandler,
                ReleaseOnClose, AbortSendTask, InPhase, Registered
  <2>6. ASSUME NEW s \in Socks, NEW k \in Clients, InsertClient(s, k)
        PROVE  clientCount' + Cardinality(A')
                 = Cardinality(R') + overwrites' + Cardinality(U')
    <3>1. A' = A \cup {s} /\ s \notin A
      BY <2>6 DEF InsertClient, InPhase
    <3>2. U' = U /\ clientCount' = clientCount
      BY <2>6 DEF InsertClient, InPhase
    <3>3. R' = R \cup {k}
      BY <2>6, ConstantsAssumption DEF InsertClient, Registered
    <3>4. Cardinality(A') = Cardinality(A) + 1
      BY <2>1, <3>1, Sizes
    <3>5. CASE clients[k] = NoSock
      <4>1. k \notin R /\ overwrites' = overwrites
        BY <2>6, <3>5 DEF InsertClient, Registered
      <4>2. Cardinality(R') = Cardinality(R) + 1
        BY <2>1, <3>3, <4>1, Sizes
      <4>3. QED
        BY <2>2, <2>3, <3>2, <3>4, <4>1, <4>2
    <3>6. CASE clients[k] # NoSock
      <4>1. R' = R /\ overwrites' = overwrites + 1
        BY <2>6, <3>3, <3>6 DEF InsertClient, Registered
      <4>2. QED
        BY <2>2, <2>3, <3>2, <3>4, <4>1
    <3>7. QED
      BY <3>5, <3>6
  <2>7. ASSUME NEW s \in Socks, CountClient(s)
        PROVE  clientCount' + Cardinality(A')
                 = Cardinality(R') + overwrites' + Cardinality(U')
    <3>1. A' = A \ {s} /\ s \in A
      BY <2>7 DEF CountClient, InPhase
    <3>2. /\ U' = U /\ R' = R
          /\ overwrites' = overwrites /\ clientCount' = clientCount + 1
      BY <2>7 DEF CountClient, InPhase, Registered
    <3>3. Cardinality(A') = Cardinality(A) - 1
      BY <2>1, <3>1, Sizes
    <3>4. QED
      BY <2>2, <2>3, <3>2, <3>3
  <2>8. ASSUME NEW s \in Socks, RemoveEntry(s)
        PROVE  clientCount' + Cardinality(A')
                 = Cardinality(R') + overwrites' + Cardinality(U')
    <3> DEFINE k == clientId[s]
    <3>1. k \in Clients
      BY <2>8 DEF RemoveEntry, IdWhileRemoving
    <3>2. /\ A' = A /\ R' = R \ {k}
          /\ clientCount' = clientCount /\ overwrites' = overwrites
      BY <2>8, <3>1 DEF RemoveEntry, InPhase, Registered
    <3>3. CASE clients[k] = NoSock
      <4>1. U' = U /\ R' = R
        BY <2>8, <3>2, <3>3 DEF RemoveEntry, InPhase, Registered
      <4>2. QED
        BY <2>3, <3>2, <4>1
    <3>4. CASE clients[k] # NoSock
      <4>1. U' = U \cup {s} /\ s \notin U /\ k \in R
        BY <2>8, <3>1, <3>4 DEF RemoveEntry, InPhase, Registered
      <4>2. Cardinality(U') = Cardinality(U) + 1
        BY <2>1, <4>1, Sizes
      <4>3. Cardinality(R') = Cardinality(R) - 1
        BY <2>1, <3>2, <4>1, Sizes
      <4>4. QED
        BY <2>2, <2>3, <3>2, <4>2, <4>3
    <3>5. QED
      BY <3>3, <3>4
  <2>9. ASSUME NEW s \in Socks, UncountClient(s)
        PROVE  clientCount' + Cardinality(A')
                 = Cardinality(R') + overwrites' + Cardinality(U')
    <3>1. U' = U \ {s} /\ s \in U
      BY <2>9 DEF UncountClient, InPhase
    <3>2. /\ A' = A /\ R' = R
          /\ overwrites' = overwrites /\ clientCount' = clientCount - 1
      BY <2>9 DEF UncountClient, InPhase, Registered
    <3>3. /\ Cardinality(U) = Cardinality(U') + 1
          /\ Cardinality(U') \in Nat
      BY <2>1, <2>2, <3>1, Sizes
    <3>4. clientCount = clientCount' + 1 /\ clientCount' \in Int
      BY <2>2, <3>2
    <3>5. (clientCount' + 1) + Cardinality(A)
            = Cardinality(R) + overwrites + (Cardinality(U') + 1)
      BY <2>3, <3>3, <3>4
    <3>6. clientCount' + Cardinality(A)
            = Cardinality(R) + overwrites + Cardinality(U')
      BY <2>2, <3>3, <3>4, <3>5
    <3>7. QED
      BY <3>2, <3>6
  <2>10. CASE UNCHANGED connVars
    <3>1. /\ A' = A /\ U' = U /\ R' = R
          /\ clientCount' = clientCount /\ overwrites' = overwrites
      BY <2>10 DEF connVars, InPhase, Registered
    <3>2. QED
      BY <2>3, <3>1
  <2>11. QED
    BY <2>3, <2>5, <2>6, <2>7, <2>8, <2>9, <2>10
       DEF Next, SocketStep, Cleanup, ClaimOnResponse, ReleaseOnRouting,
           SetConversationOwner, ClearConversationOwner, wsVars, connVars
<1>3. QED
  BY <1>1, <1>2, TypeInvariant, IdWhileRemovingInvariant, PTL DEF Spec

\* The exact account of client_count, which never wraps.
THEOREM CountAccountingInvariant == Spec => []CountAccounting
<1>1. CountsEntries /\ CountNeverNegative => CountAccounting
  BY DEF CountAccounting
<1>2. QED
  BY <1>1, CountsEntriesInvariant, CountNotNegative, PTL

-----------------------------------------------------------------------------

\* A step of the manager is one operation on the map of owners, or none.
LEMMA StepOnOwners ==
  ASSUME TypeOK, IdWhileRemoving, [Next]_wsVars
  PROVE  [Owner!OwnNext]_<< conversationOwners, clientConversations >>
<1> USE DEF TypeOK, Owner!OwnNext
<1>1. ASSUME NEW k \in Clients, ReleaseConversations(k)
      PROVE  Owner!OwnNext
  BY <1>1 DEF ReleaseConversations, Owner!Release
<1>2. ASSUME NEW s \in Socks, ReleaseOnClose(s)
      PROVE  Owner!OwnNext
  BY <1>1, <1>2 DEF ReleaseOnClose, IdWhileRemoving
<1>3. ASSUME NEW k \in Clients, ReleaseOnRouting(k)
      PROVE  Owner!OwnNext
  BY <1>1, <1>3 DEF ReleaseOnRouting
<1>4. ASSUME NEW s \in Socks, NEW c \in Convs, ClaimOnResponse(s, c)
      PROVE  [Owner!OwnNext]_<< conversationOwners, clientConversations >>
  <2>1. clientId[s] \in Clients
    BY <1>4 DEF ClaimOnResponse
  <2>2. CASE CanClaim(c, clientId[s])
    <3>1. Owner!Claim(c, clientId[s])
      BY <1>4, <2>2 DEF ClaimOnResponse, ClaimConversation, CanClaim,
                        Owner!Claim, Owner!Free
    <3>2. QED
      BY <2>1, <3>1
  <2>3. CASE ~CanClaim(c, clientId[s])
    BY <1>4, <2>3 DEF ClaimOnResponse, ClaimConversation
  <2>4. QED
    BY <2>2, <2>3
<1>5. ASSUME NEW c \in Convs, NEW k \in Clients, SetConversationOwner(c, k)
      PROVE  Owner!OwnNext
  BY <1>5 DEF SetConversationOwner, Owner!SetOwner
<1>6. ASSUME NEW c \in Convs, ClearConversationOwner(c)
      PROVE  Owner!OwnNext
  BY <1>6 DEF ClearConversationOwner, Owner!ClearOwner
<1>7. ASSUME UNCHANGED ownerVars
      PROVE  UNCHANGED << conversationOwners, clientConversations >>
  BY <1>7 DEF ownerVars
<1>8. ASSUME UNCHANGED wsVars
      PROVE  UNCHANGED << conversationOwners, clientConversations >>
  BY <1>8 DEF wsVars
<1>9. QED
  BY <1>2, <1>3, <1>4, <1>5, <1>6, <1>7, <1>8, ConnectionKeepsOwners
     DEF Next, SocketStep, Cleanup

\* To those who only use ownership, the manager with its sockets, cleanups,
\* routings and overrides is a map of owners with four atomic operations.
THEOREM OwnerMapImplemented == Spec => ImplementsOwnerMap
<1>1. Init => Owner!OwnInit
  BY DEF Init, Owner!OwnInit
<1>2. TypeOK /\ IdWhileRemoving /\ [Next]_wsVars
        => [Owner!OwnNext]_<< conversationOwners, clientConversations >>
  BY StepOnOwners
<1>3. [Owner!OwnNext]_<< conversationOwners, clientConversations >>
        => [Owner!OwnNext]_(Owner!ownVars)
  BY DEF Owner!ownVars
<1>4. QED
  BY <1>1, <1>2, <1>3, TypeInvariant, IdWhileRemovingInvariant, PTL
     DEF Spec, ImplementsOwnerMap, Owner!OwnSpec

=============================================================================
