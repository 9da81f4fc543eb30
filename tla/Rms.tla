--------------------------------- MODULE Rms ---------------------------------
(***************************************************************************)
(* The relationship management service of src/rms: the relationships table  *)
(* ("this conversation belongs to that client"), the calls that read and    *)
(* write it, and the runtime owners of the WebSocket manager that some of   *)
(* them change as well (OwnerMap).                                          *)
(*                                                                          *)
(* A call holds the database lock for one statement only, so each statement *)
(* is a step. Calls come from tasks of the server (the REST routes) and     *)
(* from rms-cli, a process of its own on the same file, whose WebSocket     *)
(* manager is a dummy that never has a client. The RMS tables are taken as  *)
(* created, which only the tests do (run_migrations has no other caller).   *)
(***************************************************************************)
EXTENDS OwnerMap, Integers, FiniteSets

CONSTANTS
  Requests,   \* tasks of the server inside a REST route of RMS
  Commands,   \* processes of rms-cli
  Does,       \* bound: which caller makes which calls, pairs <<caller, call>>
  UsizeBits   \* width of the counts of get_status

ASSUME CallersAssumption ==
  /\ Requests \cap Commands = {}
  /\ UsizeBits \in Nat

\* A usize counts the rows of a table, which SQLite numbers with an i64.
ASSUME RowsCountable ==
  /\ IsFiniteSet(Convs)
  /\ Cardinality(Convs) < 2 ^ UsizeBits

VARIABLES
  entities,   \* table line_entities: the conversations that have a row
  assigned,   \* table relationships: client_id of the row, NoClient without one
  manual,     \* table relationships: the rows with is_manual = 1
  call,       \* what each caller is doing, see Calls
  apart,      \* history: why table and runtime may disagree on a conversation
  touched     \* history: the conversations of which others have changed the row or
              \* the owner since a caller's sync or count began; before, all

rmsVars == << entities, assigned, manual, call, apart, touched >>
tables  == << entities, assigned, manual >>

Callers == Requests \cup Commands

NoCall == [op |-> "none", at |-> "idle"]

At(t, p) == call[t].at = p
Goto(t, p) == call' = [call EXCEPT ![t].at = p]
Return(t) == call' = [call EXCEPT ![t] = NoCall]

\* set_relationship of RmsStorage: INSERT ... ON CONFLICT DO UPDATE, of a row that
\* REFERENCES the conversation's entity.
PutRow(c, k, m) ==
  /\ c \in entities
  /\ assigned' = [assigned EXCEPT ![c] = k]
  /\ manual' = IF m THEN manual \cup {c} ELSE manual \ {c}
  /\ UNCHANGED entities

DropRows(S) ==
  /\ assigned' = [c \in Convs |-> IF c \in S THEN NoClient ELSE assigned[c]]
  /\ manual' = manual \ S
  /\ UNCHANGED entities

\* The callers in T see the conversations in S changed by another.
Touch(T, S) ==
  touched' = [u \in Callers |-> IF u \in T THEN touched[u] \cup S ELSE touched[u]]

Others(t) == Callers \ {t}

Excuse(c, cause) == apart' = [apart EXCEPT ![c] = cause]

RmsInit ==
  /\ OwnInit
  /\ entities = {}
  /\ assigned = [c \in Convs |-> NoClient]
  /\ manual = {}
  /\ call = [t \in Callers |-> NoCall]
  /\ apart = [c \in Convs |-> "nothing"]
  /\ touched = [t \in Callers |-> Convs]

-----------------------------------------------------------------------------
\* Calls that write one conversation: set, import (of one entry: an import of
\* several is one such call after the other, up to the first error), remove.

\* The calls with their arguments, each where it begins.
Calls ==
  [op : {"set", "import"}, at : {"look"}, conv : Convs, client : Clients]
    \cup [op : {"remove"}, at : {"delete"}, conv : Convs]
    \cup [op : {"refresh"}, at : {"fetch"}, conv : Convs]
    \cup { [op |-> "clear", at |-> "clear"], [op |-> "sync", at |-> "owners"],
           [op |-> "status", at |-> "total"] }

Start(t) ==
  /\ call[t].at \in {"idle", "synced", "counted"}
  /\ \E new \in Calls : /\ << t, new.op >> \in Does
                        /\ call' = [call EXCEPT ![t] = new]
  /\ touched' = [touched EXCEPT ![t] = Convs]
  /\ UNCHANGED << tables, apart, ownVars >>

AfterEntity(t) == IF call[t].op = "set" THEN "upsert" ELSE "compare"

\* get_entity: a conversation without an entity row is fetched first.
LookUpEntity(t) ==
  /\ At(t, "look")
  /\ Goto(t, IF call[t].conv \in entities THEN AfterEntity(t) ELSE "fetch")
  /\ UNCHANGED << tables, apart, touched, ownVars >>

\* refresh_entity, also a call of its own: LINE's answer, any answer, is awaited;
\* then the entity is put.
RefreshEntity(t) ==
  /\ At(t, "fetch")
  /\ entities' = entities \cup {call[t].conv}
  /\ IF call[t].op = "refresh" THEN Return(t) ELSE Goto(t, AfterEntity(t))
  /\ UNCHANGED << assigned, manual, apart, touched, ownVars >>

\* import: an entry for the client the row names already is skipped, so that a
\* row sync has put stays automatic.
CompareRow(t) ==
  /\ At(t, "compare")
  /\ IF assigned[call[t].conv] = call[t].client
     THEN Return(t) ELSE Goto(t, "upsert")
  /\ UNCHANGED << tables, apart, touched, ownVars >>

\* Where a manual row comes from when the runtime is not told of it.
UntoldSource(t) == CASE t \in Commands -> "other process"
                     [] call[t].op = "import" -> "import"
                     [] OTHER -> apart[call[t].conv]

\* MUTANT of UpsertRow: the call returns without telling the runtime.
UpsertRowNotifiesNever(t) ==
  /\ At(t, "upsert")
  /\ PutRow(call[t].conv, call[t].client, TRUE)
  /\ Excuse(call[t].conv, UntoldSource(t))
  /\ Touch(Others(t), {call[t].conv})
  /\ Return(t)
  /\ UNCHANGED ownVars

\* Of an import nothing is left to do then but to answer.
UpsertRow(t) ==
  /\ At(t, "upsert")
  /\ PutRow(call[t].conv, call[t].client, TRUE)
  /\ Excuse(call[t].conv, UntoldSource(t))
  /\ Touch(Others(t), {call[t].conv})
  /\ IF call[t].op = "set" THEN Goto(t, "reread") ELSE Return(t)
  /\ UNCHANGED ownVars

\* The row is fetched under a lock of its own: gone by then, the call fails.
RereadRow(t) ==
  /\ At(t, "reread")
  /\ IF assigned[call[t].conv] = NoClient
     THEN Return(t)
     ELSE Goto(t, IF call[t].op = "set" THEN "notify" ELSE "put")
  /\ UNCHANGED << tables, apart, touched, ownVars >>

\* set_conversation_owner on the caller's own WebSocket manager: in rms-cli a
\* dummy, whose owners end with the process.
NotifyRuntime(t) ==
  LET c == call[t].conv  k == call[t].client IN
  /\ At(t, "notify")
  /\ Return(t)
  /\ IF t \in Requests
     THEN /\ SetOwner(c, k)
          /\ Excuse(c, IF assigned[c] = k /\ c \in manual
                       THEN "nothing" ELSE "overtaken")
          /\ Touch(Requests \ {t}, {c})
     ELSE UNCHANGED << apart, touched, ownVars >>
  /\ UNCHANGED tables

DeleteRow(t) ==
  LET c == call[t].conv IN
  /\ At(t, "delete")
  /\ DropRows({c})
  /\ IF assigned[c] = NoClient THEN Return(t) ELSE Goto(t, "forget")
  /\ Touch(Others(t), {c})
  /\ UNCHANGED << apart, ownVars >>

\* remove_relationship: clear_conversation_owner, if a row was removed.
ForgetOwner(t) ==
  LET c == call[t].conv IN
  /\ At(t, "forget")
  /\ Return(t)
  /\ IF t \in Requests /\ owners[c] # NoClient
     THEN /\ ClearOwner(c)
          /\ IF assigned[c] = NoClient THEN UNCHANGED apart
                                       ELSE Excuse(c, "overtaken")
          /\ Touch(Requests \ {t}, {c})
     ELSE UNCHANGED << apart, touched, ownVars >>
  /\ UNCHANGED tables

\* clear_manual_relationships leaves the runtime alone.
ClearManual(t) ==
  /\ At(t, "clear")
  /\ DropRows(manual)
  /\ Touch(Others(t), manual)
  /\ Return(t)
  /\ UNCHANGED << apart, ownVars >>

-----------------------------------------------------------------------------
\* sync_ownership: two snapshots, then one statement per conversation.

\* get_all_conversation_owners of the caller's own manager.
OwnersSeenBy(t) ==
  IF t \in Requests THEN owners ELSE [c \in Convs |-> NoClient]

SnapshotOwners(t) ==
  /\ At(t, "owners")
  /\ call' = [call EXCEPT ![t] =
       [op |-> "sync", at |-> "rows",
        owners |-> OwnersSeenBy(t)]]
  /\ touched' = [touched EXCEPT ![t] = {}]
  /\ UNCHANGED << tables, apart, ownVars >>

\* MUTANT of SnapshotRows: rows that name another client are left as they are.
SnapshotRowsNewOnly(t) ==
  LET own == call[t].owners
      owned == {c \in Convs : own[c] # NoClient}
  IN
  /\ At(t, "rows")
  /\ call' = [call EXCEPT ![t] =
       [op |-> "sync", at |-> "put", manual |-> manual,
        puts |-> {<< c, own[c] >> : c \in {d \in owned : assigned[d] = NoClient}},
        drops |-> {c \in Convs \ (owned \cup manual) : assigned[c] # NoClient}]]
  /\ UNCHANGED << tables, apart, touched, ownVars >>

\* The rows, and what the two snapshots together make the loops do: which
\* automatic rows are missing or name another client, which have no owner.
SnapshotRows(t) ==
  LET own == call[t].owners
      owned == {c \in Convs : own[c] # NoClient}
  IN
  /\ At(t, "rows")
  /\ call' = [call EXCEPT ![t] =
       [op |-> "sync", at |-> "put", manual |-> manual,
        puts |-> {<< c, own[c] >> : c \in {d \in owned \ manual : assigned[d] # own[d]}},
        drops |-> {c \in Convs \ (owned \cup manual) : assigned[c] # NoClient}]]
  /\ UNCHANGED << tables, apart, touched, ownVars >>

\* One automatic row is put, to be read back. The loop goes over a HashMap.
PutAutomatic(t) ==
  /\ At(t, "put")
  /\ \E p \in call[t].puts :
       /\ PutRow(p[1], p[2], FALSE)
       /\ call' = [call EXCEPT ![t] =
            [op |-> "sync", at |-> "reread", conv |-> p[1], manual |-> @.manual,
             puts |-> @.puts \ {p}, drops |-> @.drops]]
       /\ Touch(Others(t), {p[1]})
  /\ UNCHANGED << apart, ownVars >>

\* The foreign key refuses the row of a conversation that has no entity: sync
\* adds none, so it ends here, with what it has put so far.
PutRefused(t) ==
  /\ At(t, "put")
  /\ \E p \in call[t].puts : p[1] \notin entities
  /\ Return(t)
  /\ UNCHANGED << tables, apart, touched, ownVars >>

\* One automatic row without a runtime owner is removed, once all are put.
DropAutomatic(t) ==
  /\ At(t, "put")
  /\ call[t].puts = {}
  /\ \E c \in call[t].drops :
       /\ DropRows({c})
       /\ call' = [call EXCEPT ![t].drops = @ \ {c}]
       /\ Touch(Others(t), {c})
  /\ UNCHANGED << apart, ownVars >>

EndSync(t) ==
  /\ At(t, "put")
  /\ call[t].puts \cup call[t].drops = {}
  /\ call' = [call EXCEPT ![t] = [op |-> "sync", at |-> "synced", manual |-> @.manual]]
  /\ UNCHANGED << tables, apart, touched, ownVars >>

-----------------------------------------------------------------------------
\* get_status: the counts come from statements of their own.

\* MUTANT of CountRelationships: the conversations are counted.
CountEntities(t) ==
  /\ At(t, "total")
  /\ call' = [call EXCEPT ![t] =
       [op |-> "status", at |-> "manual", total |-> Cardinality(entities)]]
  /\ touched' = [touched EXCEPT ![t] = {}]
  /\ UNCHANGED << tables, apart, ownVars >>

CountRelationships(t) ==
  /\ At(t, "total")
  /\ call' = [call EXCEPT ![t] =
       [op |-> "status", at |-> "manual",
        total |-> Cardinality({c \in Convs : assigned[c] # NoClient})]]
  /\ touched' = [touched EXCEPT ![t] = {}]
  /\ UNCHANGED << tables, apart, ownVars >>

\* auto_relationships = total - manual, in usize. (A debug build panics where
\* the difference wraps.)
CountManual(t) ==
  /\ At(t, "manual")
  /\ call' = [call EXCEPT ![t] =
       [op |-> "status", at |-> "counted",
        auto |-> (call[t].total - Cardinality(manual)) % (2 ^ UsizeBits)]]
  /\ UNCHANGED << tables, apart, touched, ownVars >>

\* What get_dispatch_rule tells of a conversation: the client its row names, if
\* there is one, not the runtime's owner. (It says as well whether that client is
\* connected.)
DispatchRule(c) == [client |-> assigned[c], manual |-> c \in manual]

-----------------------------------------------------------------------------
\* What goes on around the calls.

\* A statement fails (the file is busy in the other process), or the caller of
\* a REST route hangs up while LINE is awaited: the call ends where it is.
CallFails(t) ==
  /\ call[t].at \notin {"idle", "synced", "counted", "owners", "notify", "forget"}
  /\ Return(t)
  /\ IF call[t].op = "set" /\ At(t, "reread")
     THEN Excuse(call[t].conv, "failed")
     ELSE UNCHANGED apart
  /\ UNCHANGED << tables, touched, ownVars >>

\* A worker's response claims a conversation.
RuntimeClaim(c, k) ==
  /\ Claim(c, k)
  /\ Touch(Requests, {c})
  /\ UNCHANGED << tables, call, apart >>

\* A client leaves, or routing finds it gone.
RuntimeRelease(k) ==
  /\ Release(k)
  /\ apart' = [c \in Convs |-> IF owners'[c] # owners[c] THEN "freed" ELSE apart[c]]
  /\ Touch(Requests, {c \in Convs : owners'[c] # owners[c]})
  /\ UNCHANGED << tables, call >>

\* The server restarts: the tables stay, the runtime owners are gone, since
\* main.rs gives the manager no storage to load them from.
ServerRestarts ==
  /\ owners' = [c \in Convs |-> NoClient]
  /\ held' = [k \in Clients |-> {}]
  /\ call' = [t \in Callers |-> IF t \in Requests THEN NoCall ELSE call[t]]
  /\ apart' = [c \in Convs |-> "freed"]
  /\ Touch(Requests, Convs)
  /\ UNCHANGED tables

CallStep(t) ==
  \/ Start(t)
  \/ LookUpEntity(t) \/ RefreshEntity(t) \/ CompareRow(t)
  \/ UpsertRow(t) \/ RereadRow(t) \/ NotifyRuntime(t)
  \/ DeleteRow(t) \/ ForgetOwner(t)
  \/ ClearManual(t)
  \/ SnapshotOwners(t) \/ SnapshotRows(t)
  \/ PutAutomatic(t) \/ PutRefused(t) \/ DropAutomatic(t) \/ EndSync(t)
  \/ CountRelationships(t) \/ CountManual(t)
  \/ CallFails(t)

RmsNext ==
  \/ \E t \in Callers : CallStep(t)
  \/ \E c \in Convs, k \in Clients : RuntimeClaim(c, k)
  \/ \E k \in Clients : RuntimeRelease(k)
  \/ ServerRestarts

RmsSpec == RmsInit /\ [][RmsNext]_<< rmsVars, ownVars >>

-----------------------------------------------------------------------------
(***************************************************************************)
(* Properties                                                              *)
(***************************************************************************)

\* A set of the server has put its row for c and has not yet told the runtime.
Telling(c) ==
  \E t \in Requests : /\ call[t].at \in {"reread", "notify"}
                      /\ call[t].op = "set"
                      /\ call[t].conv = c

\* The client that a manual dispatch rule names owns the conversation at
\* runtime, unless the owner has been released since, the row came from an
\* import or from the other process, the statement after the put failed, or
\* another call on the conversation overtook the one that put it.
ApartHasCause ==
  \A c \in Convs : DispatchRule(c).manual =>
    \/ owners[c] = DispatchRule(c).client
    \/ Telling(c)
    \/ apart[c] # "nothing"

\* However calls, claims and releases interleave with it, a sync that does not
\* fail leaves every conversation that no other has touched since it began as the
\* owners call for: a manual row stays as it was, any other names the owner in the
\* manager of the process that syncs, so that after rms-cli's there is none.
SyncExact ==
  \A t \in Callers : At(t, "synced") =>
    \A c \in Convs \ touched[t] :
      /\ c \in manual <=> c \in call[t].manual
      /\ c \notin manual => assigned[c] = OwnersSeenBy(t)[c]

\* The automatic relationships that get_status reports are those there are, but
\* for the conversations touched since: each can be counted once too often, as a
\* row that is gone, or twice too few, as a manual row that was not there yet and
\* that is automatic now. With too few of them the usize wraps below zero.
StatusExact ==
  \A t \in Callers : At(t, "counted") =>
    LET auto == Cardinality({c \in Convs : assigned[c] # NoClient} \ manual)
        n == Cardinality(touched[t])
    IN  \E d \in (-2) * n .. n : call[t].auto = (auto + d) % (2 ^ UsizeBits)

=============================================================================
