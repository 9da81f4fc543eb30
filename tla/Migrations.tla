------------------------------ MODULE Migrations ------------------------------
(***************************************************************************)
(* Who opens a database sets up its tables: the key-value storage           *)
(* (src/storage/schema.rs) those of version 1, the message database         *)
(* (src/db/sqlite.rs) its own four of the same names and then those of      *)
(* version 2. Every statement commits by itself, and IF NOT EXISTS leaves a *)
(* table alone whoever made it, so that the columns of a table are those of *)
(* the first to make it. The default path of the storage is what            *)
(* docs/DATABASE_RETRY.md:75 and src/src/db/config.rs:153 name for the      *)
(* database too: the two may meet in one file. The database may also be on  *)
(* a PostgreSQL server (src/db/postgres.rs), which the storage never meets  *)
(* but several proxies may.                                                 *)
(*                                                                          *)
(* Of a table the model keeps whose columns it has. The indexes of version  *)
(* 2 are left out: they are on tables that only the database makes.         *)
(***************************************************************************)
EXTENDS Naturals, Sequences, Functions

CONSTANT Openers  \* the processes that open the file, or server: proxies, rms-cli

VARIABLES
  kind,       \* what each opener is, see Kinds; never changes
  opening,    \* "closed", "reading" the version, "running" statements, "ready", "refused"
  statements, \* the statements each opener has still to run
  columns,    \* whose columns each table has; "none" without the table
  versions    \* the rows of schema_version

migrationVars == << kind, opening, statements, columns, versions >>

\* The storage and the database in a file, the database on a server.
Kinds == {"storage", "database", "server"}

Version == "schema_version"
Shared == << "conversation_ownership", "pending_messages", "metrics", "webhook_dedup" >>
Retained == << "contacts", "groups", "group_members", "messages", "outbound_queue",
               "inbound_queue" >>
Tables == {Version} \cup Range(Shared) \cup Range(Retained)

Create(t) == [do |-> "create", on |-> t]
Index(t) == [do |-> "index", on |-> t]    \* on columns of the opener's own
Record(v) == [do |-> "record", on |-> v]

-----------------------------------------------------------------------------

\* MUTANT of StoragePlan: the version first.
StoragePlanRecordFirst ==
  << Record(1) >> \o [i \in 1..4 |-> Create(Shared[i])]

\* migration_v1. Its index on client_id fits the tables of both.
StoragePlan ==
  << Create("conversation_ownership"),
     Create("pending_messages"), Index("pending_messages"),
     Create("metrics"), Index("metrics"),
     Create("webhook_dedup"),
     Record(1) >>

\* run_v1_schema, the tables the database shares names of with the storage.
LegacyPlan == [i \in 1..4 |-> Create(Shared[i])] \o << Record(1) >>

\* V2_MIGRATION_SQLITE.
RetentionPlan ==
  [i \in 1..Len(Retained) |-> Create(Retained[i])] \o << Record(2) >>

\* run_v1_schema and V2_MIGRATION_POSTGRES, the same tables on a server.
ServerPlan(v) ==
  (IF v < 1 THEN LegacyPlan ELSE << >>) \o (IF v < 2 THEN RetentionPlan ELSE << >>)

\* The row of schema_version with the highest number, or 0.
Current == IF 2 \in versions THEN 2 ELSE IF 1 \in versions THEN 1 ELSE 0

\* What is left to do at a version. An opener that knows less than the file has
\* finds nothing to do.
Plan(k, v) ==
  CASE k = "storage"  -> IF v < 1 THEN StoragePlan ELSE << >>
    [] k = "database" -> (IF v < 1 THEN LegacyPlan ELSE << >>)
                           \o (IF v < 2 THEN RetentionPlan ELSE << >>)
    [] k = "server"   -> ServerPlan(v)

\* A statement that names columns needs them. The storage inserts the version as
\* it is, the database lets a row that is there be.
Accepted(k, s) ==
  CASE s.do = "create" -> TRUE
    [] s.do = "index" -> columns[s.on] = k
    [] s.do = "record" -> columns[Version] = k /\ (k = "storage" => s.on \notin versions)

CreateIfMissing(k, t) ==
  columns' = [columns EXCEPT ![t] = IF @ = "none" THEN k ELSE @]

-----------------------------------------------------------------------------

MigrationInit ==
  /\ \/ kind \in [Openers -> {"storage", "database"}]
     \/ kind = [p \in Openers |-> "server"]
  /\ opening = [p \in Openers |-> "closed"]
  /\ statements = [p \in Openers |-> << >>]
  /\ columns = [t \in Tables |-> "none"]
  /\ versions = {}

\* Opens the file and makes sure of schema_version.
OpenFile(p) ==
  /\ opening[p] \in {"closed", "refused"}
  /\ CreateIfMissing(kind[p], Version)
  /\ opening' = [opening EXCEPT ![p] = "reading"]
  /\ UNCHANGED << kind, statements, versions >>

ReadVersion(p) ==
  /\ opening[p] = "reading"
  /\ statements' = [statements EXCEPT ![p] = Plan(kind[p], Current)]
  /\ opening' = [opening EXCEPT ![p] = "running"]
  /\ UNCHANGED << kind, columns, versions >>

\* The next statement; the first that is refused ends the opening with an error.
RunStatement(p) ==
  /\ opening[p] = "running"
  /\ statements[p] # << >>
  /\ LET s == Head(statements[p]) IN
       \/ /\ Accepted(kind[p], s)
          /\ IF s.do = "create" THEN CreateIfMissing(kind[p], s.on)
             ELSE UNCHANGED columns
          /\ versions' = IF s.do = "record" THEN versions \cup {s.on} ELSE versions
          /\ statements' = [statements EXCEPT ![p] = Tail(@)]
          /\ UNCHANGED opening
       \/ /\ ~Accepted(kind[p], s)
          /\ statements' = [statements EXCEPT ![p] = << >>]
          /\ opening' = [opening EXCEPT ![p] = "refused"]
          /\ UNCHANGED << columns, versions >>
  /\ UNCHANGED kind

Opened(p) ==
  /\ opening[p] = "running"
  /\ statements[p] = << >>
  /\ opening' = [opening EXCEPT ![p] = "ready"]
  /\ UNCHANGED << kind, statements, columns, versions >>

\* The process exits or crashes, or the disk refuses a statement.
CloseFile(p) ==
  /\ opening[p] # "closed"
  /\ statements' = [statements EXCEPT ![p] = << >>]
  /\ opening' = [opening EXCEPT ![p] = "closed"]
  /\ UNCHANGED << kind, columns, versions >>

MigrationNext ==
  \E p \in Openers :
    \/ OpenFile(p)
    \/ ReadVersion(p)
    \/ RunStatement(p)
    \/ Opened(p)
    \/ CloseFile(p)

MigrationSpec == MigrationInit /\ [][MigrationNext]_migrationVars

-----------------------------------------------------------------------------
(***************************************************************************)
(* Properties                                                              *)
(***************************************************************************)

\* The tables the queries of a kind of opener name.
Needs(k) == {Version} \cup Range(Shared) \cup (IF k = "storage" THEN {} ELSE Range(Retained))

Served(p) == \A t \in Needs(kind[p]) : columns[t] = kind[p]

\* A table the opener needs was made by the other kind.
Foreign(p) == \E t \in Needs(kind[p]) : columns[t] \notin {"none", kind[p]}

\* Whoever crashed on the way, an opener that reports success has every table its
\* queries name, with its own columns, unless the other kind made one of them;
\* and an opening is refused only for that cause, or to a storage that another
\* overtook between its reading of the version and its writing of it.
OpenMeansServed ==
  \A p \in Openers :
    /\ opening[p] = "ready" => (Served(p) \/ Foreign(p))
    /\ opening[p] = "refused" => (Foreign(p) \/ (kind[p] = "storage" /\ 1 \in versions))

=============================================================================
