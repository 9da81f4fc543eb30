--------------------------- MODULE OwnershipStore ---------------------------
(***************************************************************************)
(* Ownership that outlives the process: the WebSocket manager built with a  *)
(* storage (WebSocketManager::with_storage) and the table                   *)
(* conversation_ownership of src/storage/ownership.rs. Claims and releases  *)
(* write the table while they hold the manager's locks, so each is one      *)
(* step; a write that fails is only logged; RMS overrides do not write it.  *)
(* A restart reads it back with load_ownership_from_storage, if it is       *)
(* called at all. (main.rs builds the manager without a storage, and        *)
(* nothing calls the load: this is the library with its storage attached.)  *)
(***************************************************************************)
EXTENDS OwnerMap

VARIABLES
  up,       \* the server runs
  keyed,    \* the clients that have a set, empty or not, in client_conversations
  rows,     \* table: conversation -> client_id, NoClient without a row
  aged,     \* rows whose last_activity is over 30 minutes ago
  drift     \* history: what set table and memory apart on a conversation

storeVars == << up, keyed, rows, aged, drift >>

Note(S, cause) == drift' = [c \in Convs |-> IF c \in S THEN cause ELSE drift[c]]

StoreInit ==
  /\ OwnInit
  /\ up = FALSE
  /\ keyed = {}
  /\ rows = [c \in Convs |-> NoClient]
  /\ aged = {}
  /\ drift = [c \in Convs |-> "nothing"]

\* MUTANT of ClaimStored: a refreshed claim is not written again.
ClaimStoredOnce(c, k) ==
  /\ up
  /\ Claim(c, k)
  /\ keyed' = keyed \cup {k}
  /\ \/ /\ rows' = IF owners[c] = k THEN rows ELSE [rows EXCEPT ![c] = k]
        /\ aged' = aged \ {c}
        /\ Note({c}, "nothing")
     \/ /\ UNCHANGED << rows, aged >>
        /\ Note(IF rows[c] = k THEN {} ELSE {c}, "write failed")
  /\ UNCHANGED up

\* claim_conversation, refreshed or new: INSERT OR REPLACE, or a warning.
ClaimStored(c, k) ==
  /\ up
  /\ Claim(c, k)
  /\ keyed' = keyed \cup {k}
  /\ \/ /\ rows' = [rows EXCEPT ![c] = k]
        /\ aged' = aged \ {c}
        /\ Note({c}, "nothing")
     \/ /\ UNCHANGED << rows, aged >>
        /\ Note(IF rows[c] = k THEN {} ELSE {c}, "write failed")
  /\ UNCHANGED up

RowsOf(k) == {c \in Convs : rows[c] = k}

\* release_client_conversations: with a set of the client, even an empty one,
\* its rows are deleted by its name; the conversations are freed by the set.
\* The two differ where RMS has overridden an owner.
ReleaseStored(k) ==
  /\ up
  /\ k \in keyed
  /\ Release(k)
  /\ keyed' = keyed \ {k}
  /\ \/ /\ rows' = [c \in Convs |-> IF rows[c] = k THEN NoClient ELSE rows[c]]
        /\ aged' = aged \ RowsOf(k)
        /\ Note({c \in held[k] : owners[c] \notin {k, NoClient}}, "foreign release")
     \/ /\ UNCHANGED << rows, aged >>
        /\ Note(held[k] \cup RowsOf(k), "write failed")
  /\ UNCHANGED up

\* set_conversation_owner and clear_conversation_owner do not write the table.
OverrideUnstored(c, k) ==
  /\ up
  /\ SetOwner(c, k)
  /\ keyed' = keyed \cup {k}
  /\ Note({c}, "override")
  /\ UNCHANGED << up, rows, aged >>

ClearUnstored(c) ==
  /\ up
  /\ ClearOwner(c)
  /\ Note({c}, "override")
  /\ UNCHANGED << up, keyed, rows, aged >>

\* Half an hour without a claim of the conversation's owner: nothing else
\* touches last_activity.
RowAges(c) ==
  /\ rows[c] # NoClient
  /\ aged' = aged \cup {c}
  /\ UNCHANGED << up, keyed, rows, drift, ownVars >>

\* Storage::maintenance deletes the rows without activity, not the owners.
Maintenance ==
  /\ up
  /\ aged # {}
  /\ rows' = [c \in Convs |-> IF c \in aged THEN NoClient ELSE rows[c]]
  /\ aged' = {}
  /\ Note(aged, "expired")
  /\ UNCHANGED << up, keyed, ownVars >>

StoreCrash ==
  /\ up
  /\ up' = FALSE
  /\ owners' = [c \in Convs |-> NoClient]
  /\ held' = [k \in Clients |-> {}]
  /\ keyed' = {}
  /\ UNCHANGED << rows, aged, drift >>

\* MUTANT of RestartLoading: the clients' sets are not rebuilt.
RestartLoadingOwners ==
  /\ ~up
  /\ up' = TRUE
  /\ owners' = rows
  /\ keyed' = {rows[c] : c \in Convs} \ {NoClient}
  /\ Note(Convs, "nothing")
  /\ UNCHANGED << rows, aged, held >>

\* The server starts: load_ownership_from_storage fills both maps, with
\* the rows of clients that may never connect again, ...
RestartLoading ==
  /\ ~up
  /\ up' = TRUE
  /\ owners' = rows
  /\ held' = [k \in Clients |-> RowsOf(k)]
  /\ keyed' = {rows[c] : c \in Convs} \ {NoClient}
  /\ Note(Convs, "nothing")
  /\ UNCHANGED << rows, aged >>

\* ... or it is not called, or fails.
RestartEmpty ==
  /\ ~up
  /\ up' = TRUE
  /\ Note(Convs, "not loaded")
  /\ UNCHANGED << rows, aged, keyed, ownVars >>

StoreNext ==
  \/ \E c \in Convs, k \in Clients : ClaimStored(c, k) \/ OverrideUnstored(c, k)
  \/ \E k \in Clients : ReleaseStored(k)
  \/ \E c \in Convs : ClearUnstored(c) \/ RowAges(c)
  \/ Maintenance
  \/ StoreCrash
  \/ RestartLoading
  \/ RestartEmpty

StoreSpec == StoreInit /\ [][StoreNext]_<< storeVars, ownVars >>

-----------------------------------------------------------------------------
(***************************************************************************)
(* Properties                                                              *)
(***************************************************************************)

\* While the server runs, a crash would bring every conversation back to the
\* owner it has: table and memory differ only where a write failed, RMS
\* overrode or cleared the owner, the row expired, a release by a client that
\* no longer owns it freed it, or the table was not loaded at the last start.
DriftHasCause ==
  \A c \in Convs :
    \/ ~up
    \/ rows[c] = owners[c]
    \/ drift[c] # "nothing"

\* Whoever owns a conversation has it in its own set, after a restart too, so
\* that its disconnect frees the conversation and deletes its rows.
RestoredIsTracked ==
  \A c \in Convs :
    up /\ owners[c] # NoClient => c \in held[owners[c]] /\ owners[c] \in keyed

=============================================================================
