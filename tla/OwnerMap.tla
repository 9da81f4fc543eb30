------------------------------- MODULE OwnerMap -------------------------------
(***************************************************************************)
(* What the WebSocket manager promises about conversation ownership to the  *)
(* parts that use it: two maps, conversation -> owner and client -> its own *)
(* conversations, and four operations, each atomic. WsManager, with its     *)
(* sockets and their cleanup, is shown to implement it; the relationship    *)
(* service and the ownership table are written against it.                  *)
(***************************************************************************)

CONSTANTS
  Clients,    \* client ids
  Convs,      \* LINE conversation ids
  NoClient    \* no client id

ASSUME NoClientAssumption == NoClient \notin Clients

VARIABLES
  owners,     \* conversation -> owning client
  held        \* client -> the conversations recorded as its own

ownVars == << owners, held >>

OwnInit ==
  /\ owners = [c \in Convs |-> NoClient]
  /\ held = [k \in Clients |-> {}]

\* claim_conversation succeeds unless another client owns c.
Free(c, k) == owners[c] \in {NoClient, k}

Claim(c, k) ==
  /\ Free(c, k)
  /\ owners' = [owners EXCEPT ![c] = k]
  /\ held' = [held EXCEPT ![k] = @ \cup {c}]

\* release_client_conversations: frees what the client's set names, whoever
\* owns it by now.
Release(k) ==
  /\ owners' = [c \in Convs |-> IF c \in held[k] THEN NoClient ELSE owners[c]]
  /\ held' = [held EXCEPT ![k] = {}]

\* set_conversation_owner: whoever owned c keeps it in its set.
SetOwner(c, k) ==
  /\ owners' = [owners EXCEPT ![c] = k]
  /\ held' = [held EXCEPT ![k] = @ \cup {c}]

\* clear_conversation_owner on a conversation that has one.
ClearOwner(c) ==
  /\ owners[c] # NoClient
  /\ owners' = [owners EXCEPT ![c] = NoClient]
  /\ held' = [held EXCEPT ![owners[c]] = @ \ {c}]

OwnNext ==
  \/ \E c \in Convs, k \in Clients : Claim(c, k) \/ SetOwner(c, k)
  \/ \E k \in Clients : Release(k)
  \/ \E c \in Convs : ClearOwner(c)

OwnSpec == OwnInit /\ [][OwnNext]_ownVars

=============================================================================
