---------------------------- MODULE StorageProofs ----------------------------
(***************************************************************************)
(* What holds of what the proxy keeps outside the process, for any clients,  *)
(* conversations, callers, files, lives and openers: the ownership maps and *)
(* their table, the relationships table, the hosted files, and the tables'  *)
(* migrations. Each part has an invariant of its own, StoreInv, ApartInv,   *)
(* SyncInv, StatusOK, HostingInv and MigrationInv, which every step keeps,  *)
(* through failed statements, crashes and restarts.                         *)
(***************************************************************************)
EXTENDS OwnershipStore, Rms, FileHosting, Migrations, FiniteSetTheorems,
        SequenceTheorems, TLAPS

-----------------------------------------------------------------------------
(***************************************************************************)
(* OwnershipStore: an owner has its conversations in its own set, and table *)
(* and memory come apart only by the causes the code has for it.            *)
(***************************************************************************)

\* The maps, the table and what is noted of them keep their types.
StoreTypeOK ==
  /\ owners \in [Convs -> Clients \cup {NoClient}]
  /\ held \in [Clients -> SUBSET Convs]
  /\ rows \in [Convs -> Clients \cup {NoClient}]
  /\ keyed \subseteq Clients
  /\ aged \subseteq Convs
  /\ up \in BOOLEAN
  /\ DOMAIN drift = Convs

\* RestoredIsTracked, of the memory of a process that died as well: it is empty.
Tracked ==
  \A c \in Convs :
    owners[c] # NoClient => c \in held[owners[c]] /\ owners[c] \in keyed

\* The invariant of the store.
StoreInv == StoreTypeOK /\ Tracked /\ DriftHasCause

\* Every step keeps the types.
LEMMA StoreTypeStep ==
  ASSUME StoreTypeOK, [StoreNext]_<< storeVars, ownVars >>
  PROVE  StoreTypeOK'
<1> USE NoClientAssumption DEF StoreTypeOK, Note
<1>1. ASSUME NEW c \in Convs, NEW k \in Clients, ClaimStored(c, k)
      PROVE  StoreTypeOK'
  <2>1. owners' \in [Convs -> Clients \cup {NoClient}]
        /\ held' \in [Clients -> SUBSET Convs]
    BY <1>1 DEF ClaimStored, Claim
  <2>2. rows' \in [Convs -> Clients \cup {NoClient}] /\ aged' \subseteq Convs
    <3>1. \/ rows' = [rows EXCEPT ![c] = k] /\ aged' = aged \ {c}
          \/ UNCHANGED << rows, aged >>
      BY <1>1 DEF ClaimStored
    <3>2. QED
      BY <3>1
  <2>3. keyed' \subseteq Clients /\ up' \in BOOLEAN /\ DOMAIN drift' = Convs
    BY <1>1 DEF ClaimStored
  <2>4. QED
    BY <2>1, <2>2, <2>3
<1>2. ASSUME NEW c \in Convs, NEW k \in Clients, OverrideUnstored(c, k)
      PROVE  StoreTypeOK'
  BY <1>2 DEF OverrideUnstored, SetOwner
<1>3. ASSUME NEW k \in Clients, ReleaseStored(k) PROVE StoreTypeOK'
  BY <1>3 DEF ReleaseStored, Release, RowsOf
<1>4. ASSUME NEW c \in Convs, ClearUnstored(c) PROVE StoreTypeOK'
  BY <1>4 DEF ClearUnstored, ClearOwner
<1>5. ASSUME NEW c \in Convs, RowAges(c) PROVE StoreTypeOK'
  BY <1>5 DEF RowAges, ownVars
<1>6. CASE Maintenance
  BY <1>6 DEF Maintenance, ownVars
<1>7. CASE StoreCrash
  BY <1>7 DEF StoreCrash
<1>8. CASE RestartLoading
  BY <1>8 DEF RestartLoading, RowsOf
<1>9. CASE RestartEmpty
  BY <1>9 DEF RestartEmpty, ownVars
<1>10. CASE UNCHANGED << storeVars, ownVars >>
  BY <1>10 DEF storeVars, ownVars
<1>11. QED
  BY <1>1, <1>2, <1>3, <1>4, <1>5, <1>6, <1>7, <1>8, <1>9, <1>10
     DEF StoreNext

\* Every step keeps owners in step with the sets of their clients: what a release
\* removes from a set it frees, and a restart fills both from the same rows.
LEMMA TrackedStep ==
  ASSUME StoreTypeOK, Tracked, [StoreNext]_<< storeVars, ownVars >>
  PROVE  Tracked'
<1> USE NoClientAssumption DEF StoreTypeOK, Tracked
<1>1. ASSUME NEW c \in Convs, NEW k \in Clients, ClaimStored(c, k)
      PROVE  Tracked'
  BY <1>1 DEF ClaimStored, Claim
<1>2. ASSUME NEW c \in Convs, NEW k \in Clients, OverrideUnstored(c, k)
      PROVE  Tracked'
  BY <1>2 DEF OverrideUnstored, SetOwner
<1>3. ASSUME NEW k \in Clients, ReleaseStored(k) PROVE Tracked'
  BY <1>3 DEF ReleaseStored, Release
<1>4. ASSUME NEW c \in Convs, ClearUnstored(c) PROVE Tracked'
  BY <1>4 DEF ClearUnstored, ClearOwner
<1>5. CASE StoreCrash
  BY <1>5 DEF StoreCrash
<1>6. CASE RestartLoading
  BY <1>6 DEF RestartLoading, RowsOf
<1>7. CASE UNCHANGED << keyed, ownVars >>
  BY <1>7 DEF ownVars
<1>8. QED
  BY <1>1, <1>2, <1>3, <1>4, <1>5, <1>6, <1>7
     DEF StoreNext, RowAges, Maintenance, RestartEmpty, storeVars

\* Every step that sets table and memory apart notes why. A release needs that an
\* owner is tracked: otherwise it would delete the row of one it does not free.
LEMMA DriftStep ==
  ASSUME StoreTypeOK, Tracked, DriftHasCause,
         [StoreNext]_<< storeVars, ownVars >>
  PROVE  DriftHasCause'
<1> USE NoClientAssumption DEF StoreTypeOK, DriftHasCause, Note
<1>1. ASSUME NEW c \in Convs, NEW k \in Clients, ClaimStored(c, k)
      PROVE  DriftHasCause'
  BY <1>1 DEF ClaimStored, Claim
<1>2. ASSUME NEW c \in Convs, NEW k \in Clients, OverrideUnstored(c, k)
      PROVE  DriftHasCause'
  BY <1>2 DEF OverrideUnstored, SetOwner
<1>3. ASSUME NEW k \in Clients, ReleaseStored(k) PROVE DriftHasCause'
  <2> SUFFICES ASSUME NEW c \in Convs, rows'[c] # owners'[c]
               PROVE  drift'[c] # "nothing"
    OBVIOUS
  <2>1. owners'[c] = IF c \in held[k] THEN NoClient ELSE owners[c]
    BY <1>3 DEF ReleaseStored, Release
  <2>2. owners[c] = k => c \in held[k]
    BY DEF Tracked
  <2>3. up /\ (rows[c] = owners[c] \/ drift[c] # "nothing")
    BY <1>3 DEF ReleaseStored
  <2>4. CASE /\ rows' = [d \in Convs |-> IF rows[d] = k THEN NoClient ELSE rows[d]]
             /\ Note({d \in held[k] : owners[d] \notin {k, NoClient}},
                     "foreign release")
    BY <2>1, <2>2, <2>3, <2>4
  <2>5. CASE UNCHANGED rows /\ Note(held[k] \cup RowsOf(k), "write failed")
    BY <2>1, <2>3, <2>5
  <2>6. QED
    BY <1>3, <2>4, <2>5 DEF ReleaseStored
<1>4. ASSUME NEW c \in Convs, ClearUnstored(c) PROVE DriftHasCause'
  BY <1>4 DEF ClearUnstored, ClearOwner
<1>5. ASSUME NEW c \in Convs, RowAges(c) PROVE DriftHasCause'
  BY <1>5 DEF RowAges, ownVars
<1>6. CASE Maintenance
  BY <1>6 DEF Maintenance, ownVars
<1>7. CASE StoreCrash
  BY <1>7 DEF StoreCrash
<1>8. CASE RestartLoading
  BY <1>8 DEF RestartLoading
<1>9. CASE RestartEmpty
  BY <1>9 DEF RestartEmpty
<1>10. CASE UNCHANGED << storeVars, ownVars >>
  BY <1>10 DEF storeVars, ownVars
<1>11. QED
  BY <1>1, <1>2, <1>3, <1>4, <1>5, <1>6, <1>7, <1>8, <1>9, <1>10
     DEF StoreNext

\* The three parts are inductive together.
LEMMA StoreInvariant == StoreSpec => []StoreInv
<1>1. StoreInit => StoreInv
  BY DEF StoreInit, OwnInit, StoreInv, StoreTypeOK, Tracked, DriftHasCause
<1>2. StoreInv /\ [StoreNext]_<< storeVars, ownVars >> => StoreInv'
  BY StoreTypeStep, TrackedStep, DriftStep DEF StoreInv
<1>3. QED
  BY <1>1, <1>2, PTL DEF StoreSpec

\* Through any restarts, with the table loaded or not, whoever owns a conversation
\* has it in its own set, so that a disconnect frees it.
THEOREM RestoredIsTrackedInvariant == StoreSpec => []RestoredIsTracked
<1>1. StoreInv => RestoredIsTracked
  BY DEF StoreInv, Tracked, RestoredIsTracked
<1>2. QED
  BY <1>1, StoreInvariant, PTL

\* Table and memory of a running server disagree on a conversation only where one
\* of the noted causes set them apart, whatever was written, lost or restored since.
THEOREM DriftHasCauseInvariant == StoreSpec => []DriftHasCause
BY StoreInvariant, PTL DEF StoreInv

-----------------------------------------------------------------------------
(***************************************************************************)
(* Rms: a manual row and the runtime owner come apart only with a cause,    *)
(* and a sync ends exact on every conversation that no other touches. A     *)
(* call carries what it works on with it (CallsOK), and its step moves no   *)
(* other call (OneCallMoves).                                               *)
(***************************************************************************)

\* The calls that put a row.
Puts == [op : {"set", "import"}, conv : Convs, client : Clients,
         at : {"look", "fetch", "compare", "upsert", "reread", "notify"}]

\* The calls that fetch an entity.
Refreshes == [op : {"refresh"}, conv : Convs, at : {"fetch"}]

\* The calls that remove a row.
Removals == [op : {"remove"}, conv : Convs, at : {"delete", "forget"}]

\* What the calls on one conversation carry with them, by where they are.
CallsOK ==
  /\ DOMAIN call = Callers
  /\ \A t \in Callers :
       /\ call[t].op \in {"set", "import"} => call[t] \in Puts
       /\ call[t].op = "remove" => call[t] \in Removals
       /\ call[t].op = "refresh" => call[t] \in Refreshes
       /\ call[t].at \in {"look", "compare", "upsert", "notify"}
            => call[t].op \in {"set", "import"}
       /\ call[t].at = "fetch" => call[t].op \in {"set", "import", "refresh"}
       /\ call[t].at = "notify" => call[t].op = "set"
       /\ call[t].at = "reread" => call[t].op \in {"set", "sync"}
       /\ call[t].at = "put" => call[t].op = "sync"
       /\ call[t].at \in {"delete", "forget"} => call[t].op = "remove"

\* The maps keep their domains, and a manual row names a client.
TablesOK ==
  /\ DOMAIN assigned = Convs
  /\ DOMAIN owners = Convs
  /\ DOMAIN apart = Convs
  /\ entities \subseteq Convs
  /\ manual \subseteq Convs
  /\ \A c \in manual : assigned[c] # NoClient

\* The invariant of manual rows and runtime owners.
ApartInv == CallsOK /\ TablesOK /\ ApartHasCause

\* The calls keep what they carry.
LEMMA CallsStep ==
  ASSUME CallsOK, NEW t \in Callers, CallStep(t)
  PROVE  CallsOK'
<1> USE DEF CallsOK
<1>1. ASSUME Start(t)
      PROVE  CallsOK'
  <2>1. PICK new \in Calls : call' = [call EXCEPT ![t] = new]
    BY <1>1 DEF Start
  <2>2. /\ new.op \in {"set", "import"} => new \in Puts /\ new.at = "look"
        /\ new.op = "remove" => new \in Removals
        /\ new.op = "refresh" => new \in Refreshes
        /\ new.at \in {"look", "fetch", "delete", "clear", "owners", "total"}
        /\ new.at = "look" => new.op \in {"set", "import"}
        /\ new.at = "fetch" => new.op = "refresh"
        /\ new.at = "delete" => new.op = "remove"
    BY DEF Calls, Puts, Removals, Refreshes
  <2> QED
    BY <2>1, <2>2
<1>2. ASSUME \/ LookUpEntity(t) \/ RefreshEntity(t) \/ CompareRow(t) \/ UpsertRow(t)
      PROVE  CallsOK'
  <2>1. call[t] \in Puts \/ call' = [call EXCEPT ![t] = NoCall]
    BY <1>2 DEF LookUpEntity, RefreshEntity, CompareRow, UpsertRow, At, Return
  <2>2. \/ call' = [call EXCEPT ![t] = NoCall]
        \/ \E p \in {"fetch", "compare", "upsert"} : call' = [call EXCEPT ![t].at = p]
        \/ call[t].op = "set" /\ call' = [call EXCEPT ![t].at = "reread"]
    BY <1>2 DEF LookUpEntity, RefreshEntity, CompareRow, UpsertRow, AfterEntity, Goto,
                Return
  <2> QED
    BY <2>1, <2>2 DEF Puts, NoCall
<1>3. ASSUME RereadRow(t)
      PROVE  CallsOK'
  <2>1. CASE call' = [call EXCEPT ![t] = NoCall]
    BY <2>1 DEF NoCall
  <2>2. CASE call[t].op = "set" /\ call' = [call EXCEPT ![t].at = "notify"]
    <3>1. call[t] \in Puts
      BY <2>2
    <3> QED
      BY <2>2, <3>1 DEF Puts
  <2>3. CASE call[t].op # "set" /\ call' = [call EXCEPT ![t].at = "put"]
    <3>1. /\ \A u \in Callers \ {t} : call'[u] = call[u]
          /\ DOMAIN call' = Callers
          /\ call[t].op = "sync" /\ call'[t].op = "sync"
          /\ call'[t].at = "put"
      BY <1>3, <2>3 DEF RereadRow, At
    <3> QED
      BY <3>1
  <2> QED
    BY <1>3, <2>1, <2>2, <2>3 DEF RereadRow, Goto, Return
<1>4. ASSUME \/ NotifyRuntime(t) \/ ForgetOwner(t) \/ ClearManual(t) \/ CallFails(t)
             \/ PutRefused(t)
      PROVE  CallsOK'
  <2>1. call' = [call EXCEPT ![t] = NoCall]
    BY <1>4 DEF NotifyRuntime, ForgetOwner, ClearManual, CallFails, PutRefused, Return
  <2> QED
    BY <2>1 DEF NoCall
<1>5. ASSUME DeleteRow(t)
      PROVE  CallsOK'
  <2>1. call[t] \in Removals
    BY <1>5 DEF DeleteRow, At
  <2>2. \/ call' = [call EXCEPT ![t] = NoCall]
        \/ call' = [call EXCEPT ![t].at = "forget"]
    BY <1>5 DEF DeleteRow, Goto, Return
  <2> QED
    BY <2>1, <2>2 DEF Removals, NoCall
<1>6. ASSUME \/ SnapshotOwners(t) \/ SnapshotRows(t) \/ PutAutomatic(t)
             \/ EndSync(t) \/ CountRelationships(t) \/ CountManual(t)
      PROVE  CallsOK'
  <2>1. /\ \A u \in Callers \ {t} : call'[u] = call[u]
        /\ DOMAIN call' = Callers
        /\ call'[t].op \in {"sync", "status"}
        /\ call'[t].at \in {"rows", "put", "reread", "synced", "manual", "counted"}
        /\ call'[t].at \in {"put", "reread"} => call'[t].op = "sync"
    <3>1. CASE SnapshotOwners(t)
      BY <3>1 DEF SnapshotOwners
    <3>2. CASE SnapshotRows(t)
      BY <3>2 DEF SnapshotRows
    <3>3. CASE PutAutomatic(t)
      BY <3>3 DEF PutAutomatic
    <3>4. CASE EndSync(t)
      BY <3>4 DEF EndSync
    <3>5. CASE CountRelationships(t)
      BY <3>5 DEF CountRelationships
    <3>6. CASE CountManual(t)
      BY <3>6 DEF CountManual
    <3> QED
      BY <1>6, <3>1, <3>2, <3>3, <3>4, <3>5, <3>6
  <2> QED
    BY <2>1
<1>7. ASSUME DropAutomatic(t)
      PROVE  CallsOK'
  <2>1. /\ \A u \in Callers \ {t} : call'[u] = call[u]
        /\ DOMAIN call' = Callers
        /\ call[t].op = "sync" /\ call'[t].op = "sync"
        /\ call[t].at = "put" /\ call'[t].at = "put"
    BY <1>7 DEF DropAutomatic, At
  <2> QED
    BY <2>1
<1> QED
  BY <1>1, <1>2, <1>3, <1>4, <1>5, <1>6, <1>7 DEF CallStep

\* The tables and maps keep their shape.
LEMMA TablesStep ==
  ASSUME CallsOK, TablesOK, NEW t \in Callers, CallStep(t)
  PROVE  TablesOK'
<1> USE DEF TablesOK
<1>1. CASE UNCHANGED << entities, assigned, manual, owners, apart >>
  BY <1>1
<1>2. CASE UpsertRow(t)
  <2>1. call[t] \in Puts
    BY <1>2 DEF CallsOK, UpsertRow, At
  <2>2. call[t].conv \in Convs /\ call[t].client # NoClient
    BY <2>1, NoClientAssumption DEF Puts
  <2> QED
    BY <1>2, <2>2 DEF UpsertRow, PutRow, Excuse, ownVars
<1>3. CASE NotifyRuntime(t) \/ ForgetOwner(t)
  BY <1>3 DEF NotifyRuntime, ForgetOwner, SetOwner, ClearOwner, Excuse, tables, ownVars
<1>4. CASE DeleteRow(t) \/ ClearManual(t)
  BY <1>4 DEF DeleteRow, ClearManual, DropRows, ownVars
<1>5. CASE PutAutomatic(t)
  <2>1. PICK p \in call[t].puts : PutRow(p[1], p[2], FALSE)
    BY <1>5 DEF PutAutomatic
  <2> QED
    BY <1>5, <2>1 DEF PutAutomatic, PutRow, ownVars
<1>6. CASE DropAutomatic(t)
  <2>1. PICK c \in call[t].drops : DropRows({c})
    BY <1>6 DEF DropAutomatic
  <2> QED
    BY <1>6, <2>1 DEF DropAutomatic, DropRows, ownVars
<1>7. CASE CallFails(t)
  BY <1>7 DEF CallFails, Excuse, tables, ownVars
<1>8. CASE \/ Start(t) \/ LookUpEntity(t) \/ CompareRow(t) \/ PutRefused(t)
           \/ RereadRow(t) \/ SnapshotOwners(t) \/ SnapshotRows(t) \/ EndSync(t)
           \/ CountRelationships(t) \/ CountManual(t)
  <2>1. UNCHANGED << entities, assigned, manual, owners, apart >>
    BY <1>8 DEF Start, LookUpEntity, CompareRow, RereadRow, PutRefused,
                SnapshotOwners, SnapshotRows, EndSync, CountRelationships, CountManual,
                tables, ownVars
  <2> QED
    BY <1>1, <2>1
<1>9. CASE RefreshEntity(t)
  <2>1. call[t].conv \in Convs
    BY <1>9 DEF CallsOK, RefreshEntity, At, Puts, Refreshes
  <2> QED
    BY <1>9, <2>1 DEF RefreshEntity, ownVars
<1> QED
  BY <1>2, <1>3, <1>4, <1>5, <1>6, <1>7, <1>8, <1>9 DEF CallStep

\* A step of one call leaves the others where they are.
LEMMA OneCallMoves ==
  ASSUME CallsOK, NEW t \in Callers, CallStep(t)
  PROVE  \A u \in Callers \ {t} : call'[u] = call[u]
<1> USE DEF CallsOK
<1>1. CASE \/ Start(t) \/ LookUpEntity(t) \/ RefreshEntity(t) \/ CompareRow(t)
           \/ UpsertRow(t) \/ RereadRow(t) \/ NotifyRuntime(t) \/ DeleteRow(t)
           \/ ForgetOwner(t) \/ ClearManual(t) \/ CallFails(t) \/ PutRefused(t)
  BY <1>1 DEF Start, LookUpEntity, RefreshEntity, CompareRow, UpsertRow, RereadRow,
              NotifyRuntime, DeleteRow, ForgetOwner, ClearManual, CallFails, PutRefused,
              Goto, Return
<1>2. CASE \/ SnapshotOwners(t) \/ SnapshotRows(t) \/ PutAutomatic(t)
           \/ DropAutomatic(t) \/ EndSync(t) \/ CountRelationships(t) \/ CountManual(t)
  BY <1>2 DEF SnapshotOwners, SnapshotRows, PutAutomatic, DropAutomatic, EndSync,
              CountRelationships, CountManual
<1> QED
  BY <1>1, <1>2 DEF CallStep

\* A step of a call takes a manual row and its runtime owner apart only with a
\* cause, or while a set has the row put and the runtime still to tell.
LEMMA ApartStep ==
  ASSUME ApartInv, NEW t \in Callers, CallStep(t)
  PROVE  ApartHasCause'
<1> USE DEF ApartInv, TablesOK, DispatchRule
<1> DEFINE TellingBy(u, c) == /\ call[u].at \in {"reread", "notify"}
                              /\ call[u].op = "set"
                              /\ call[u].conv = c
<1>1. ASSUME NEW c \in Convs, Telling(c), ~TellingBy(t, c)
      PROVE  Telling(c)'
  <2>1. PICK u \in Requests : TellingBy(u, c)
    BY <1>1 DEF Telling
  <2>2. call'[u] = call[u]
    BY <1>1, <2>1, OneCallMoves DEF Callers
  <2> QED
    BY <2>1, <2>2 DEF Telling
<1>2. ASSUME UNCHANGED << assigned, owners, apart >>, manual' \subseteq manual,
             \A c \in Convs : ~TellingBy(t, c)
      PROVE  ApartHasCause'
  BY <1>1, <1>2 DEF ApartHasCause
<1>3. CASE \/ Start(t) \/ LookUpEntity(t) \/ RefreshEntity(t) \/ CompareRow(t)
           \/ SnapshotOwners(t) \/ SnapshotRows(t) \/ PutRefused(t) \/ EndSync(t)
           \/ CountRelationships(t) \/ CountManual(t)
  <2>1. /\ UNCHANGED << assigned, manual, owners, apart >>
        /\ call[t].at \notin {"reread", "notify"}
    BY <1>3 DEF Start, LookUpEntity, RefreshEntity, CompareRow, SnapshotOwners,
                SnapshotRows, PutRefused, EndSync, CountRelationships, CountManual, At,
                tables, ownVars
  <2> QED
    BY <1>2, <2>1
<1>4. CASE UpsertRow(t)
  <2> DEFINE d == call[t].conv
             k == call[t].client
  <2>1. call[t] \in Puts /\ call[t].at = "upsert"
    BY <1>4 DEF CallsOK, UpsertRow, At
  <2>2. d \in Convs
    BY <2>1 DEF Puts
  <2>3. \A c \in Convs \ {d} :
          /\ assigned'[c] = assigned[c] /\ owners'[c] = owners[c]
          /\ apart'[c] = apart[c] /\ (c \in manual' <=> c \in manual)
    BY <1>4, <2>2 DEF UpsertRow, PutRow, Excuse, ownVars
  <2>4. \A c \in Convs : ~TellingBy(t, c)
    BY <2>1
  <2>5. ASSUME NEW c \in Convs, c = d
        PROVE  Telling(c)' \/ apart'[c] # "nothing"
    <3>1. CASE t \in Commands \/ call[t].op = "import"
      BY <1>4, <2>2, <2>5, <3>1 DEF UpsertRow, Excuse, UntoldSource
    <3>2. CASE t \in Requests /\ call[t].op = "set"
      <4>1. call'[t].at = "reread" /\ call'[t].op = "set" /\ call'[t].conv = d
        BY <1>4, <2>1, <3>2 DEF UpsertRow, Goto, CallsOK, Puts
      <4> QED
        BY <2>5, <3>2, <4>1 DEF Telling
    <3> QED
      BY <2>1, <3>1, <3>2 DEF Callers, Puts
  <2>6. ASSUME NEW c \in Convs \ {d}, c \in manual'
        PROVE  owners'[c] = assigned'[c] \/ Telling(c)' \/ apart'[c] # "nothing"
    <3>1. owners[c] = assigned[c] \/ Telling(c) \/ apart[c] # "nothing"
      BY <2>3, <2>6 DEF ApartHasCause
    <3> QED
      BY <1>1, <2>3, <2>4, <2>6, <3>1
  <2>7. \A c \in Convs : c \in manual' =>
          owners'[c] = assigned'[c] \/ Telling(c)' \/ apart'[c] # "nothing"
    BY <2>5, <2>6
  <2> QED
    BY <2>7 DEF ApartHasCause
<1>5. CASE RereadRow(t)
  <2>1. UNCHANGED << assigned, manual, owners, apart >>
    BY <1>5 DEF RereadRow, tables, ownVars
  <2>2. ASSUME NEW c \in Convs, TellingBy(t, c), t \in Requests, c \in manual
        PROVE  Telling(c)'
    <3>1. call[t] \in Puts /\ call[t].at = "reread" /\ call[t].op = "set"
      BY <1>5, <2>2 DEF CallsOK, RereadRow, At
    <3>2. call' = [call EXCEPT ![t].at = "notify"]
      BY <1>5, <2>2, <3>1 DEF RereadRow, Goto
    <3>3. call'[t].at = "notify" /\ call'[t].op = "set" /\ call'[t].conv = c
      BY <2>2, <3>1, <3>2 DEF CallsOK, Puts
    <3> QED
      BY <2>2, <3>3 DEF Telling
  <2>3. ASSUME NEW c \in Convs, Telling(c), c \in manual
        PROVE  Telling(c)'
    <3>1. PICK u \in Requests : TellingBy(u, c)
      BY <2>3 DEF Telling
    <3>2. CASE u = t
      BY <2>2, <2>3, <3>1, <3>2
    <3>3. CASE u # t
      BY <3>1, <3>3, OneCallMoves DEF Telling, Callers
    <3> QED
      BY <3>2, <3>3
  <2> QED
    BY <2>1, <2>3 DEF ApartHasCause
<1>6. CASE NotifyRuntime(t)
  <2> DEFINE d == call[t].conv
             k == call[t].client
  <2>1. d \in Convs
    BY <1>6 DEF CallsOK, NotifyRuntime, At, Puts
  <2>2. UNCHANGED << assigned, manual >>
    BY <1>6 DEF NotifyRuntime, tables
  <2>3. CASE t \in Requests
    <3>1. /\ owners' = [owners EXCEPT ![d] = k]
          /\ apart' = [apart EXCEPT ![d] = IF assigned[d] = k /\ d \in manual
                                           THEN "nothing" ELSE "overtaken"]
      BY <1>6, <2>3 DEF NotifyRuntime, SetOwner, Excuse
    <3> QED
      BY <1>1, <2>1, <2>2, <3>1 DEF ApartHasCause
  <2>4. CASE t \notin Requests
    <3>1. UNCHANGED << owners, apart >>
      BY <1>6, <2>4 DEF NotifyRuntime, ownVars
    <3>2. \A c \in Convs : Telling(c) => Telling(c)'
      BY <2>4, OneCallMoves DEF Telling, Callers
    <3> QED
      BY <2>2, <3>1, <3>2 DEF ApartHasCause
  <2> QED
    BY <2>3, <2>4
<1>7. CASE DeleteRow(t) \/ ClearManual(t)
  <2>1. \A c \in Convs : ~TellingBy(t, c)
    BY <1>7 DEF DeleteRow, ClearManual, At
  <2>2. /\ manual' \subseteq manual
        /\ UNCHANGED << owners, apart >>
        /\ \A c \in manual' : assigned'[c] = assigned[c]
    BY <1>7 DEF DeleteRow, ClearManual, DropRows, ownVars
  <2> QED
    BY <1>1, <2>1, <2>2 DEF ApartHasCause
<1>8. CASE ForgetOwner(t)
  <2> DEFINE d == call[t].conv
  <2>1. \A c \in Convs : ~TellingBy(t, c)
    BY <1>8 DEF ForgetOwner, At
  <2>2. UNCHANGED << assigned, manual >>
    BY <1>8 DEF ForgetOwner, tables
  <2>3. CASE UNCHANGED << owners, apart >>
    BY <1>2, <2>1, <2>2, <2>3
  <2>4. CASE /\ owners' = [owners EXCEPT ![d] = NoClient]
             /\ \/ assigned[d] = NoClient /\ UNCHANGED apart
                \/ apart' = [apart EXCEPT ![d] = "overtaken"]
    BY <1>1, <2>1, <2>2, <2>4 DEF ApartHasCause
  <2> QED
    BY <1>8, <2>3, <2>4 DEF ForgetOwner, ClearOwner, Excuse, ownVars
<1>9. CASE PutAutomatic(t)
  <2>1. PICK p \in call[t].puts : PutRow(p[1], p[2], FALSE)
    BY <1>9 DEF PutAutomatic
  <2>2. /\ UNCHANGED << owners, apart >>
        /\ \A c \in Convs : c \in manual' => c \in manual /\ assigned'[c] = assigned[c]
    BY <1>9, <2>1 DEF PutAutomatic, PutRow, ownVars
  <2>3. \A c \in Convs : ~TellingBy(t, c)
    BY <1>9 DEF PutAutomatic, At
  <2> QED
    BY <1>1, <2>2, <2>3 DEF ApartHasCause
<1>10. CASE DropAutomatic(t)
  <2>1. PICK d \in call[t].drops : DropRows({d})
    BY <1>10 DEF DropAutomatic
  <2>2. /\ UNCHANGED << owners, apart >>
        /\ \A c \in Convs : c \in manual' => c \in manual /\ assigned'[c] = assigned[c]
    BY <1>10, <2>1 DEF DropAutomatic, DropRows, ownVars
  <2>3. \A c \in Convs : ~TellingBy(t, c)
    BY <1>10 DEF DropAutomatic, At
  <2> QED
    BY <1>1, <2>2, <2>3 DEF ApartHasCause
<1>11. CASE CallFails(t)
  <2>1. UNCHANGED << assigned, manual, owners >> /\ call[t].at # "notify"
    BY <1>11 DEF CallFails, tables, ownVars
  <2>2. CASE call[t].op = "set" /\ call[t].at = "reread"
    <3>1. apart' = [apart EXCEPT ![call[t].conv] = "failed"]
      BY <1>11, <2>2 DEF CallFails, Excuse, At
    <3> QED
      BY <1>1, <2>1, <2>2, <3>1 DEF ApartHasCause
  <2>3. CASE ~(call[t].op = "set" /\ call[t].at = "reread")
    BY <1>2, <1>11, <2>1, <2>3 DEF CallFails, At
  <2> QED
    BY <2>2, <2>3
<1> QED
  BY <1>3, <1>4, <1>5, <1>6, <1>7, <1>8, <1>9, <1>10, <1>11 DEF CallStep

\* What goes on around the calls: claims go to conversations without an owner,
\* releases and restarts are causes.
LEMMA AroundStep ==
  ASSUME ApartInv,
         \/ \E c \in Convs, k \in Clients : RuntimeClaim(c, k)
         \/ \E k \in Clients : RuntimeRelease(k)
         \/ ServerRestarts
  PROVE  ApartInv'
<1> USE DEF ApartInv, TablesOK, DispatchRule
<1>1. ASSUME NEW d \in Convs, NEW k \in Clients, RuntimeClaim(d, k)
      PROVE  ApartInv'
  <2>1. /\ UNCHANGED << entities, assigned, manual, call, apart >>
        /\ owners' = [owners EXCEPT ![d] = k] /\ owners[d] \in {NoClient, k}
    BY <1>1 DEF RuntimeClaim, Claim, Free, tables
  <2>2. CallsOK' /\ TablesOK'
    BY <2>1 DEF CallsOK
  <2>3. ApartHasCause'
    BY <2>1 DEF ApartHasCause, Telling
  <2> QED
    BY <2>2, <2>3
<1>2. ASSUME NEW k \in Clients, RuntimeRelease(k)
      PROVE  ApartInv'
  <2>1. /\ UNCHANGED << entities, assigned, manual, call >>
        /\ DOMAIN owners' = Convs
        /\ apart' = [c \in Convs |->
                       IF owners'[c] # owners[c] THEN "freed" ELSE apart[c]]
    BY <1>2 DEF RuntimeRelease, Release, tables
  <2>2. CallsOK' /\ TablesOK'
    BY <2>1 DEF CallsOK
  <2>3. ApartHasCause'
    BY <2>1 DEF ApartHasCause, Telling
  <2> QED
    BY <2>2, <2>3
<1>3. ASSUME ServerRestarts
      PROVE  ApartInv'
  <2>1. /\ UNCHANGED << entities, assigned, manual >>
        /\ DOMAIN owners' = Convs
        /\ apart' = [c \in Convs |-> "freed"]
        /\ call' = [t \in Callers |-> IF t \in Requests THEN NoCall ELSE call[t]]
    BY <1>3 DEF ServerRestarts, tables
  <2>2. CallsOK' /\ TablesOK'
    BY <2>1 DEF CallsOK, NoCall
  <2>3. ApartHasCause'
    BY <2>1 DEF ApartHasCause
  <2> QED
    BY <2>2, <2>3
<1> QED
  BY <1>1, <1>2, <1>3

\* Every step of a call and of what goes on around it keeps ApartInv.
LEMMA ApartInvariant == RmsSpec => []ApartInv
<1>1. RmsInit => ApartInv
  BY DEF RmsInit, OwnInit, ApartInv, CallsOK, TablesOK, ApartHasCause, NoCall,
         DispatchRule
<1>2. ApartInv /\ [RmsNext]_<< rmsVars, ownVars >> => ApartInv'
  <2> SUFFICES ASSUME ApartInv, [RmsNext]_<< rmsVars, ownVars >>
               PROVE  ApartInv'
    OBVIOUS
  <2>1. CASE UNCHANGED << rmsVars, ownVars >>
    BY <2>1 DEF rmsVars, ownVars, ApartInv, CallsOK, TablesOK, ApartHasCause, Telling,
                DispatchRule
  <2>2. ASSUME NEW t \in Callers, CallStep(t)
        PROVE  ApartInv'
    BY <2>2, CallsStep, TablesStep, ApartStep DEF ApartInv
  <2> QED
    BY <2>1, <2>2, AroundStep DEF RmsNext
<1> QED
  BY <1>1, <1>2, PTL DEF RmsSpec

\* Manual rows and runtime owners come apart only by the causes the code has.
THEOREM ApartHasCauseInvariant == RmsSpec => []ApartHasCause
BY ApartInvariant, PTL DEF ApartInv

\* A sync on its two snapshots, not yet at its end.
Syncing(t) == call[t].op = "sync" /\ call[t].at \in {"put", "reread"}

\* Of the conversations no other has touched, a sync has the owners as they are
\* and, of the rows, what it has yet to put and to remove is what sets them apart.
SyncOK(t) ==
  LET untouched == Convs \ touched[t] IN
  /\ At(t, "rows") =>
       \A c \in untouched : call[t].owners[c] = OwnersSeenBy(t)[c]
  /\ Syncing(t) =>
       /\ call[t].drops \subseteq Convs
       /\ \A p \in call[t].puts : p[1] \in untouched =>
            p[2] = OwnersSeenBy(t)[p[1]] /\ p[1] \notin manual
       /\ \A c \in call[t].drops : c \in untouched =>
            c \notin manual /\ OwnersSeenBy(t)[c] = NoClient
       /\ \A c \in untouched :
            /\ c \in manual <=> c \in call[t].manual
            /\ c \notin manual => \/ assigned[c] = OwnersSeenBy(t)[c]
                                  \/ << c, OwnersSeenBy(t)[c] >> \in call[t].puts
                                  \/ c \in call[t].drops
  /\ At(t, "synced") =>
       \A c \in untouched :
         /\ c \in manual <=> c \in call[t].manual
         /\ c \notin manual => assigned[c] = OwnersSeenBy(t)[c]

\* The invariant of the syncs.
SyncInv ==
  /\ CallsOK /\ TablesOK
  /\ touched \in [Callers -> SUBSET Convs]
  /\ \A t \in Callers : SyncOK(t)

\* A step in which caller u does nothing: what changes of a conversation, u is
\* told of.
Aside(u) ==
  /\ call'[u] = call[u]
  /\ touched[u] \subseteq touched'[u]
  /\ \A c \in Convs \ touched'[u] :
       /\ assigned'[c] = assigned[c]
       /\ c \in manual' <=> c \in manual
       /\ u \in Commands \/ owners'[c] = owners[c]

\* Then u's sync stays as it should.
LEMMA SyncAside ==
  ASSUME NEW u \in Callers, SyncOK(u), Aside(u)
  PROVE  SyncOK(u)'
<1>1. \A c \in Convs \ touched'[u] :
        c \notin touched[u] /\ OwnersSeenBy(u)'[c] = OwnersSeenBy(u)[c]
  BY CallersAssumption DEF Aside, OwnersSeenBy, Callers
<1>2. call'[u] = call[u]
  BY DEF Aside
<1> QED
  BY <1>1, <1>2 DEF Aside, SyncOK, Syncing, At

\* While one caller makes a step, the others stand aside.
LEMMA OthersAside ==
  ASSUME SyncInv, NEW t \in Callers, NEW u \in Callers \ {t}, CallStep(t)
  PROVE  Aside(u)
<1> USE DEF SyncInv, Touch, Others
<1>1. call'[u] = call[u]
  BY OneCallMoves
<1>2. CASE UpsertRow(t)
  BY <1>1, <1>2 DEF Aside, UpsertRow, PutRow, TablesOK, ownVars
<1>3. CASE DeleteRow(t)
  BY <1>1, <1>3 DEF Aside, DeleteRow, DropRows, ownVars
<1>4. CASE ClearManual(t)
  BY <1>1, <1>4 DEF Aside, ClearManual, DropRows, ownVars
<1>5. CASE PutAutomatic(t)
  <2>1. PICK p \in call[t].puts :
          PutRow(p[1], p[2], FALSE) /\ Touch(Others(t), {p[1]})
    BY <1>5 DEF PutAutomatic
  <2> QED
    BY <1>1, <1>5, <2>1 DEF Aside, PutAutomatic, PutRow, TablesOK, ownVars
<1>6. CASE DropAutomatic(t)
  <2>1. PICK d \in call[t].drops : DropRows({d}) /\ Touch(Others(t), {d})
    BY <1>6 DEF DropAutomatic
  <2> QED
    BY <1>1, <1>6, <2>1 DEF Aside, DropAutomatic, DropRows, ownVars
<1>7. CASE NotifyRuntime(t)
  BY <1>1, <1>7 DEF Aside, NotifyRuntime, SetOwner, TablesOK, tables, ownVars, Callers
<1>8. CASE ForgetOwner(t)
  BY <1>1, <1>8 DEF Aside, ForgetOwner, ClearOwner, TablesOK, tables, ownVars, Callers
<1>9. CASE \/ Start(t) \/ LookUpEntity(t) \/ RefreshEntity(t) \/ CompareRow(t)
           \/ RereadRow(t) \/ SnapshotOwners(t) \/ SnapshotRows(t) \/ PutRefused(t)
           \/ EndSync(t) \/ CountRelationships(t) \/ CountManual(t) \/ CallFails(t)
  BY <1>1, <1>9 DEF Aside, Start, LookUpEntity, RefreshEntity, CompareRow, RereadRow,
     SnapshotOwners, SnapshotRows, PutRefused, EndSync, CountRelationships, CountManual,
     CallFails, tables, ownVars
<1> QED
  BY <1>2, <1>3, <1>4, <1>5, <1>6, <1>7, <1>8, <1>9 DEF CallStep

\* Of what goes on around the calls, every caller is told that is not restarted.
LEMMA AroundAside ==
  ASSUME SyncInv, NEW u \in Callers,
         \/ \E c \in Convs, k \in Clients : RuntimeClaim(c, k)
         \/ \E k \in Clients : RuntimeRelease(k)
         \/ ServerRestarts
  PROVE  Aside(u) \/ call'[u] = NoCall
<1> USE DEF SyncInv, Touch, Callers
<1>1. ASSUME NEW c \in Convs, NEW k \in Clients, RuntimeClaim(c, k)
      PROVE  Aside(u)
  BY <1>1 DEF Aside, RuntimeClaim, Claim, TablesOK, tables
<1>2. ASSUME NEW k \in Clients, RuntimeRelease(k)
      PROVE  Aside(u)
  BY <1>2 DEF Aside, RuntimeRelease, tables
<1>3. CASE ServerRestarts
  BY <1>3 DEF Aside, ServerRestarts, tables
<1> QED
  BY <1>1, <1>2, <1>3

\* What is touched are conversations.
LEMMA TouchedStep ==
  ASSUME SyncInv, [RmsNext]_<< rmsVars, ownVars >>
  PROVE  touched' \in [Callers -> SUBSET Convs]
<1> USE DEF SyncInv
<1>1. ASSUME NEW T, NEW S \in SUBSET Convs, Touch(T, S)
      PROVE  touched' \in [Callers -> SUBSET Convs]
  BY <1>1 DEF Touch
<1>2. CASE UNCHANGED touched
  BY <1>2
<1>3. ASSUME NEW t \in Callers, CallStep(t)
      PROVE  touched' \in [Callers -> SUBSET Convs]
  <2>1. CASE UpsertRow(t)
    <3>1. call[t].conv \in Convs
      BY <2>1 DEF UpsertRow, At, CallsOK, Puts
    <3> QED
      BY <1>1, <2>1, <3>1 DEF UpsertRow
  <2>2. CASE NotifyRuntime(t)
    <3>1. call[t].conv \in Convs
      BY <2>2 DEF NotifyRuntime, At, CallsOK, Puts
    <3> QED
      BY <1>1, <1>2, <2>2, <3>1 DEF NotifyRuntime
  <2>3. CASE DeleteRow(t) \/ ForgetOwner(t)
    <3>1. call[t].conv \in Convs
      BY <2>3 DEF DeleteRow, ForgetOwner, At, CallsOK, Removals
    <3> QED
      BY <1>1, <1>2, <2>3, <3>1 DEF DeleteRow, ForgetOwner
  <2>4. CASE ClearManual(t)
    BY <1>1, <2>4 DEF ClearManual, TablesOK
  <2>5. CASE PutAutomatic(t)
    <3>1. PICK p \in call[t].puts : p[1] \in entities /\ Touch(Others(t), {p[1]})
      BY <2>5 DEF PutAutomatic, PutRow
    <3> QED
      BY <1>1, <3>1 DEF TablesOK
  <2>6. CASE DropAutomatic(t)
    <3>1. PICK d \in call[t].drops : Touch(Others(t), {d})
      BY <2>6 DEF DropAutomatic
    <3>2. Syncing(t)
      BY <2>6 DEF DropAutomatic, At, CallsOK, Syncing
    <3> QED
      BY <1>1, <3>1, <3>2 DEF SyncOK
  <2>7. CASE \/ LookUpEntity(t) \/ RefreshEntity(t) \/ CompareRow(t) \/ RereadRow(t)
             \/ SnapshotRows(t) \/ PutRefused(t) \/ EndSync(t) \/ CountManual(t)
             \/ CallFails(t)
    BY <1>2, <2>7 DEF LookUpEntity, RefreshEntity, CompareRow, RereadRow, SnapshotRows,
       PutRefused, EndSync, CountManual, CallFails
  <2>8. CASE Start(t) \/ SnapshotOwners(t) \/ CountRelationships(t)
    BY <2>8 DEF Start, SnapshotOwners, CountRelationships
  <2> QED
    BY <1>3, <2>1, <2>2, <2>3, <2>4, <2>5, <2>6, <2>7, <2>8 DEF CallStep
<1>4. ASSUME NEW c \in Convs, NEW k \in Clients, RuntimeClaim(c, k)
      PROVE  touched' \in [Callers -> SUBSET Convs]
  BY <1>1, <1>4 DEF RuntimeClaim
<1>5. ASSUME NEW k \in Clients, RuntimeRelease(k)
      PROVE  touched' \in [Callers -> SUBSET Convs]
  BY <1>1, <1>5 DEF RuntimeRelease
<1>6. CASE ServerRestarts
  BY <1>1, <1>6 DEF ServerRestarts
<1> QED
  BY <1>2, <1>3, <1>4, <1>5, <1>6 DEF RmsNext, rmsVars

\* A sync goes on by its own steps.
LEMMA SyncStep ==
  ASSUME SyncInv, NEW t \in Callers, CallStep(t)
  PROVE  SyncOK(t)'
<1> USE DEF SyncInv
<1>1. CASE \/ LookUpEntity(t) \/ RefreshEntity(t) \/ CompareRow(t) \/ UpsertRow(t)
           \/ NotifyRuntime(t) \/ DeleteRow(t) \/ ForgetOwner(t) \/ ClearManual(t)
           \/ CallFails(t) \/ PutRefused(t) \/ CountRelationships(t) \/ CountManual(t)
           \/ Start(t)
  <2>1. CASE LookUpEntity(t) \/ RefreshEntity(t) \/ CompareRow(t) \/ UpsertRow(t)
    <3>1. call[t] \in Puts \/ call' = [call EXCEPT ![t] = NoCall]
      BY <2>1 DEF LookUpEntity, RefreshEntity, CompareRow, UpsertRow, At, CallsOK, Return
    <3>2. \/ call' = [call EXCEPT ![t] = NoCall]
          \/ \E p \in {"fetch", "compare", "upsert", "reread"} :
               call' = [call EXCEPT ![t].at = p]
      BY <2>1 DEF LookUpEntity, RefreshEntity, CompareRow, UpsertRow, AfterEntity, Goto,
                  Return
    <3>3. /\ call'[t].at \notin {"rows", "put", "synced"}
          /\ call'[t].op # "sync"
      BY <3>1, <3>2 DEF NoCall, CallsOK, Puts
    <3> QED
      BY <3>3 DEF SyncOK, At, Syncing
  <2>2. CASE \/ NotifyRuntime(t) \/ ForgetOwner(t) \/ ClearManual(t) \/ CallFails(t)
             \/ PutRefused(t)
    <3>1. call'[t] = NoCall
      BY <2>2 DEF NotifyRuntime, ForgetOwner, ClearManual, CallFails, PutRefused, Return,
                  CallsOK
    <3> QED
      BY <3>1 DEF SyncOK, At, Syncing, NoCall
  <2>3. CASE DeleteRow(t)
    <3>1. call[t] \in Removals
      BY <2>3 DEF DeleteRow, At, CallsOK
    <3>2. call'[t].at \in {"forget", "idle"}
      BY <2>3, <3>1 DEF DeleteRow, Goto, Return, NoCall, CallsOK, Removals
    <3> QED
      BY <3>2 DEF SyncOK, At, Syncing
  <2>4. CASE CountRelationships(t) \/ CountManual(t)
    <3>1. call'[t].at \in {"manual", "counted"}
      BY <2>4 DEF CountRelationships, CountManual, CallsOK
    <3> QED
      BY <3>1 DEF SyncOK, At, Syncing
  <2>5. CASE Start(t)
    <3>1. call'[t] \in Calls
      BY <2>5 DEF Start, CallsOK
    <3>2. call'[t].at \notin {"rows", "put", "reread", "synced"}
      BY <3>1 DEF Calls
    <3> QED
      BY <3>2 DEF SyncOK, At, Syncing
  <2> QED
    BY <1>1, <2>1, <2>2, <2>3, <2>4, <2>5
<1>2. CASE RereadRow(t)
  <2>1. /\ UNCHANGED << assigned, manual, owners, touched >>
        /\ call[t].at = "reread"
    BY <1>2 DEF RereadRow, At, tables, ownVars
  <2>2. CASE call[t].op = "set"
    <3>1. call[t] \in Puts
      BY <2>2 DEF CallsOK
    <3>2. call'[t].at \in {"notify", "idle"}
      BY <1>2, <2>2, <3>1 DEF RereadRow, Goto, Return, NoCall, CallsOK, Puts
    <3> QED
      BY <3>2 DEF SyncOK, At, Syncing
  <2>3. CASE call[t].op # "set" /\ call' = [call EXCEPT ![t] = NoCall]
    <3>1. call'[t] = NoCall
      BY <2>3 DEF CallsOK
    <3> QED
      BY <3>1 DEF SyncOK, At, Syncing, NoCall
  <2>4. CASE call[t].op # "set" /\ call' = [call EXCEPT ![t].at = "put"]
    <3>1. Syncing(t)
      BY <2>1, <2>4 DEF CallsOK, Syncing
    <3>2. /\ call'[t].at = "put"
          /\ call'[t].manual = call[t].manual
          /\ call'[t].puts = call[t].puts /\ call'[t].drops = call[t].drops
      BY <2>4 DEF CallsOK
    <3>3. OwnersSeenBy(t)' = OwnersSeenBy(t)
      BY <2>1 DEF OwnersSeenBy
    <3> QED
      BY <2>1, <3>1, <3>2, <3>3 DEF SyncOK, At, Syncing
  <2> QED
    BY <1>2, <2>2, <2>3, <2>4 DEF RereadRow, Goto, Return
<1>3. CASE SnapshotOwners(t)
  <2>1. /\ call'[t].at = "rows" /\ call'[t].owners = OwnersSeenBy(t)
        /\ OwnersSeenBy(t)' = OwnersSeenBy(t)
    BY <1>3 DEF SnapshotOwners, CallsOK, OwnersSeenBy, ownVars
  <2> QED
    BY <2>1 DEF SyncOK, At, Syncing
<1>4. CASE SnapshotRows(t)
  <2> DEFINE own == call[t].owners
             owned == {c \in Convs : own[c] # NoClient}
  <2>1. /\ call[t].at = "rows"
        /\ UNCHANGED << assigned, manual, owners, touched >>
        /\ call'[t].at = "put" /\ call'[t].manual = manual
        /\ call'[t].puts = {<< c, own[c] >> : c \in {d \in owned \ manual :
                                                       assigned[d] # own[d]}}
        /\ call'[t].drops = {c \in Convs \ (owned \cup manual) : assigned[c] # NoClient}
    BY <1>4 DEF SnapshotRows, At, CallsOK, tables, ownVars
  <2>2. \A c \in Convs \ touched[t] : own[c] = OwnersSeenBy(t)[c]
    BY <2>1 DEF SyncOK, At
  <2>3. OwnersSeenBy(t)' = OwnersSeenBy(t)
    BY <2>1 DEF OwnersSeenBy
  <2> HIDE DEF own
  <2>4. /\ call'[t].drops \subseteq Convs
        /\ \A p \in call'[t].puts : p[2] = own[p[1]] /\ p[1] \notin manual
        /\ \A c \in call'[t].drops : c \notin manual /\ own[c] = NoClient
        /\ \A c \in Convs \ manual : \/ assigned[c] = own[c]
                                     \/ << c, own[c] >> \in call'[t].puts
                                     \/ c \in call'[t].drops
    BY <2>1
  <2> QED
    BY <2>1, <2>2, <2>3, <2>4 DEF SyncOK, At, Syncing
<1>5. CASE PutAutomatic(t)
  <2>1. PICK p \in call[t].puts :
          /\ PutRow(p[1], p[2], FALSE)
          /\ call' = [call EXCEPT ![t] =
               [op |-> "sync", at |-> "reread", conv |-> p[1], manual |-> @.manual,
                puts |-> @.puts \ {p}, drops |-> @.drops]]
    BY <1>5 DEF PutAutomatic
  <2>2. /\ call[t].at = "put" /\ Syncing(t)
        /\ OwnersSeenBy(t)' = OwnersSeenBy(t)
        /\ touched'[t] = touched[t]
    BY <1>5 DEF PutAutomatic, At, CallsOK, Syncing, OwnersSeenBy, ownVars,
       Touch, Others, SyncInv
  <2>3. /\ call'[t].at = "reread" /\ call'[t].manual = call[t].manual
        /\ call'[t].puts = call[t].puts \ {p} /\ call'[t].drops = call[t].drops
    BY <2>1 DEF CallsOK
  <2>4. /\ manual' = manual \ {p[1]}
        /\ \A c \in Convs : assigned'[c] = IF c = p[1] THEN p[2] ELSE assigned[c]
    BY <2>1 DEF PutRow, TablesOK
  <2> QED
    BY <2>2, <2>3, <2>4 DEF SyncOK, At, Syncing
<1>6. CASE DropAutomatic(t)
  <2>1. PICK d \in call[t].drops :
          /\ DropRows({d})
          /\ call' = [call EXCEPT ![t].drops = @ \ {d}]
    BY <1>6 DEF DropAutomatic
  <2>2. /\ call[t].at = "put" /\ Syncing(t)
        /\ OwnersSeenBy(t)' = OwnersSeenBy(t)
        /\ touched'[t] = touched[t]
    BY <1>6 DEF DropAutomatic, At, CallsOK, Syncing, OwnersSeenBy, ownVars,
       Touch, Others, SyncInv
  <2>3. /\ call'[t].at = "put" /\ call'[t].manual = call[t].manual
        /\ call'[t].puts = call[t].puts /\ call'[t].drops = call[t].drops \ {d}
    BY <2>1, <2>2 DEF CallsOK
  <2>4. /\ manual' = manual \ {d}
        /\ \A c \in Convs : assigned'[c] = IF c = d THEN NoClient ELSE assigned[c]
    BY <2>1 DEF DropRows
  <2> QED
    BY <2>2, <2>3, <2>4 DEF SyncOK, At, Syncing
<1>7. CASE EndSync(t)
  <2>1. /\ UNCHANGED << assigned, manual, owners, touched >>
        /\ Syncing(t) /\ call[t].puts = {} /\ call[t].drops = {}
        /\ call'[t].at = "synced" /\ call'[t].manual = call[t].manual
    BY <1>7 DEF EndSync, At, CallsOK, Syncing, tables, ownVars
  <2>2. OwnersSeenBy(t)' = OwnersSeenBy(t)
    BY <2>1 DEF OwnersSeenBy
  <2>3. \A c \in Convs \ touched[t] :
          /\ c \in manual <=> c \in call[t].manual
          /\ c \notin manual => assigned[c] = OwnersSeenBy(t)[c]
    BY <2>1 DEF SyncOK
  <2> QED
    BY <2>1, <2>2, <2>3 DEF SyncOK, At, Syncing
<1> QED
  BY <1>1, <1>2, <1>3, <1>4, <1>5, <1>6, <1>7 DEF CallStep

\* A sync's own steps keep SyncOK, and so does standing aside.
LEMMA SyncInvariant == RmsSpec => []SyncInv
<1>1. RmsInit => SyncInv
  BY DEF RmsInit, OwnInit, SyncInv, CallsOK, TablesOK, SyncOK, Syncing, At, NoCall
<1>2. SyncInv /\ [RmsNext]_<< rmsVars, ownVars >> => SyncInv'
  <2> SUFFICES ASSUME SyncInv, [RmsNext]_<< rmsVars, ownVars >>
               PROVE  SyncInv'
    OBVIOUS
  <2>0. touched' \in [Callers -> SUBSET Convs]
    BY TouchedStep
  <2>1. CASE UNCHANGED << rmsVars, ownVars >>
    BY <2>1 DEF rmsVars, ownVars, SyncInv, CallsOK, TablesOK, SyncOK, Syncing, At,
                OwnersSeenBy
  <2>2. ASSUME NEW t \in Callers, CallStep(t)
        PROVE  SyncInv'
    <3>1. CallsOK' /\ TablesOK'
      BY <2>2, CallsStep, TablesStep DEF SyncInv
    <3>2. ASSUME NEW u \in Callers \ {t}
          PROVE  SyncOK(u)'
      BY <2>2, OthersAside, SyncAside DEF SyncInv
    <3> QED
      BY <2>0, <2>2, <3>1, <3>2, SyncStep DEF SyncInv
  <2>3. CASE \/ \E c \in Convs, k \in Clients : RuntimeClaim(c, k)
             \/ \E k \in Clients : RuntimeRelease(k)
             \/ ServerRestarts
    <3>1. CallsOK'
      <4>1. CASE call' = call
        BY <4>1 DEF SyncInv, CallsOK
      <4>2. CASE call' = [u \in Callers |-> IF u \in Requests THEN NoCall ELSE call[u]]
        BY <4>2 DEF SyncInv, CallsOK, NoCall
      <4> QED
        BY <2>3, <4>1, <4>2 DEF RuntimeClaim, RuntimeRelease, ServerRestarts
    <3>2. TablesOK'
      BY <2>3 DEF SyncInv, RuntimeClaim, RuntimeRelease, ServerRestarts, Claim, Release,
                  TablesOK, tables
    <3>3. ASSUME NEW u \in Callers
          PROVE  SyncOK(u)'
      <4>1. CASE Aside(u)
        BY <4>1, SyncAside DEF SyncInv
      <4>2. CASE call'[u] = NoCall
        BY <4>2 DEF SyncOK, Syncing, At, NoCall
      <4> QED
        BY <2>3, <4>1, <4>2, AroundAside
    <3> QED
      BY <2>0, <3>1, <3>2, <3>3 DEF SyncInv
  <2> QED
    BY <2>1, <2>2, <2>3 DEF RmsNext
<1> QED
  BY <1>1, <1>2, PTL DEF RmsSpec

\* However others interleave with it, a sync that does not fail leaves what they
\* have not touched with the rows that the owners call for, for any number of
\* callers, conversations and clients.
THEOREM SyncExactInvariant == RmsSpec => []SyncExact
<1>1. SyncInv => SyncExact
  BY DEF SyncInv, SyncOK, SyncExact
<1> QED
  BY <1>1, SyncInvariant, PTL

\* The conversations that have a row.
Assigned == {c \in Convs : assigned[c] # NoClient}

\* What get_status has counted differs from what there is by conversations that
\* have been touched since.
StatusOK(t) ==
  LET untouched == Convs \ touched[t] IN
  /\ At(t, "manual") => \E R \in SUBSET Convs :
       /\ call[t].total = Cardinality(R)
       /\ \A c \in untouched : c \in R <=> c \in Assigned
  /\ At(t, "counted") => \E R, M \in SUBSET Convs :
       /\ call[t].auto = (Cardinality(R) - Cardinality(M)) % (2 ^ UsizeBits)
       /\ \A c \in untouched : /\ c \in R <=> c \in Assigned
                               /\ c \in M <=> c \in manual

\* A set of conversations is counted by what is in T and what is not.
LEMMA CountedApart ==
  ASSUME NEW X \in SUBSET Convs, NEW T \in SUBSET Convs
  PROVE  /\ Cardinality(X \ T) \in Nat
         /\ Cardinality(X \cap T) \in Nat
         /\ Cardinality(T) \in Nat
         /\ Cardinality(X \cap T) <= Cardinality(T)
         /\ Cardinality(X) = Cardinality(X \ T) + Cardinality(X \cap T)
<1>1. IsFiniteSet(X) /\ IsFiniteSet(T) /\ IsFiniteSet(X \ T) /\ IsFiniteSet(X \cap T)
  <2>1. X \ T \subseteq Convs /\ X \cap T \subseteq Convs
    OBVIOUS
  <2> QED
    BY <2>1, RowsCountable, FS_Subset
<1>2. /\ Cardinality(X \ T) \in Nat /\ Cardinality(X \cap T) \in Nat
      /\ Cardinality(T) \in Nat /\ Cardinality(X) \in Nat
  BY <1>1, FS_CardinalityType
<1>3. Cardinality(X \ T) = Cardinality(X) - Cardinality(X \cap T)
  BY <1>1, FS_Difference
<1>4. Cardinality(X \cap T) <= Cardinality(T)
  <2>1. X \cap T \subseteq T
    OBVIOUS
  <2> QED
    BY <1>1, <2>1, FS_Subset
<1> QED
  BY <1>2, <1>3, <1>4

\* A conversation in T is counted once too often at most, or twice too few.
LEMMA CountsApart ==
  ASSUME TablesOK, NEW T \in SUBSET Convs,
         NEW R \in SUBSET Convs, NEW M \in SUBSET Convs,
         \A c \in Convs \ T : /\ c \in R <=> c \in Assigned
                              /\ c \in M <=> c \in manual
  PROVE  \E d \in (-2) * Cardinality(T) .. Cardinality(T) :
           Cardinality(R) - Cardinality(M) = Cardinality(Assigned \ manual) + d
<1>1. Assigned \in SUBSET Convs /\ manual \in SUBSET Convs /\ manual \subseteq Assigned
  BY DEF TablesOK, Assigned
<1>2. R \ T = Assigned \ T /\ M \ T = manual \ T
  BY <1>1
<1>3. Cardinality(manual \cap T) <= Cardinality(Assigned \cap T)
  <2>1. manual \cap T \subseteq Assigned \cap T
    BY <1>1
  <2>2. IsFiniteSet(Assigned \cap T)
    BY <1>1, RowsCountable, FS_Subset
  <2> QED
    BY <2>1, <2>2, FS_Subset
<1>4. Cardinality(Assigned) = Cardinality(Assigned \ manual) + Cardinality(manual)
  <2>1. Assigned \cap manual = manual
    BY <1>1
  <2> QED
    BY <1>1, <2>1, CountedApart
<1>5. Cardinality(Assigned \ manual) \in Nat
  BY <1>1, CountedApart
<1> DEFINE r == Cardinality(R \cap T)
           m == Cardinality(M \cap T)
           a == Cardinality(Assigned \cap T)
           b == Cardinality(manual \cap T)
           n == Cardinality(T)
           x == Cardinality(Assigned \ T)
           y == Cardinality(manual \ T)
           d == (r - m) - (a - b)
<1>6. /\ r \in Nat /\ m \in Nat /\ a \in Nat /\ b \in Nat /\ n \in Nat
      /\ x \in Nat /\ y \in Nat
      /\ r <= n /\ m <= n /\ a <= n /\ b <= a
  BY <1>1, <1>3, CountedApart
<1>7. /\ Cardinality(R) = x + r /\ Cardinality(M) = y + m
      /\ Cardinality(Assigned) = x + a /\ Cardinality(manual) = y + b
  BY <1>1, <1>2, CountedApart
<1> HIDE DEF r, m, a, b, n, x, y
<1>8. d \in (-2) * n .. n
  BY <1>6
<1>9. Cardinality(R) - Cardinality(M) = Cardinality(Assigned \ manual) + d
  <2>1. Cardinality(R) - Cardinality(M) = (x - y) + (r - m)
    BY <1>6, <1>7
  <2>2. x + a = Cardinality(Assigned \ manual) + (y + b)
    BY <1>4, <1>7
  <2>3. Cardinality(Assigned \ manual) = (x - y) + (a - b)
    BY <1>5, <1>6, <2>2
  <2> QED
    BY <1>6, <2>1, <2>3
<1> HIDE DEF d
<1> QED
  BY <1>8, <1>9 DEF n

\* A caller that stands aside keeps what it has counted.
LEMMA StatusAside ==
  ASSUME NEW u \in Callers, StatusOK(u), Aside(u)
  PROVE  StatusOK(u)'
<1>1. \A c \in Convs \ touched'[u] :
        /\ c \in Convs \ touched[u]
        /\ c \in Assigned' <=> c \in Assigned
        /\ c \in manual' <=> c \in manual
  BY DEF Aside, Assigned
<1>2. call'[u] = call[u]
  BY DEF Aside
<1>3. ASSUME call[u].at = "manual"
      PROVE  \E R \in SUBSET Convs :
               /\ call[u].total = Cardinality(R)
               /\ \A c \in Convs \ touched'[u] : c \in R <=> c \in Assigned'
  BY <1>1, <1>3 DEF StatusOK, At
<1>4. ASSUME call[u].at = "counted"
      PROVE  \E R, M \in SUBSET Convs :
               /\ call[u].auto = (Cardinality(R) - Cardinality(M)) % (2 ^ UsizeBits)
               /\ \A c \in Convs \ touched'[u] : /\ c \in R <=> c \in Assigned'
                                                 /\ c \in M <=> c \in manual'
  BY <1>1, <1>4 DEF StatusOK, At
<1> QED
  BY <1>2, <1>3, <1>4 DEF StatusOK, At

\* The call itself keeps what get_status has counted.
LEMMA StatusStep ==
  ASSUME SyncInv, NEW t \in Callers, StatusOK(t), CallStep(t)
  PROVE  StatusOK(t)'
<1> USE DEF SyncInv
<1>1. CASE Start(t)
  <2>1. call'[t] \in Calls
    BY <1>1 DEF Start, CallsOK
  <2>2. call'[t].at \notin {"manual", "counted"}
    BY <2>1 DEF Calls
  <2> QED
    BY <2>2 DEF StatusOK, At
<1>2. CASE CountRelationships(t)
  <2>1. /\ call'[t].total = Cardinality(Assigned) /\ call'[t].at = "manual"
        /\ assigned' = assigned
    BY <1>2 DEF CountRelationships, CallsOK, Assigned, tables
  <2>2. Assigned' = Assigned /\ Assigned \in SUBSET Convs
    BY <2>1 DEF Assigned
  <2> QED
    BY <2>1, <2>2 DEF StatusOK, At
<1>3. CASE CountManual(t)
  <2>1. /\ call'[t].auto = (call[t].total - Cardinality(manual)) % (2 ^ UsizeBits)
        /\ call'[t].at = "counted" /\ touched' = touched /\ At(t, "manual")
        /\ assigned' = assigned /\ manual' = manual
    BY <1>3 DEF CountManual, CallsOK, tables
  <2>2. PICK R \in SUBSET Convs :
          /\ call[t].total = Cardinality(R)
          /\ \A c \in Convs \ touched[t] : c \in R <=> c \in Assigned
    BY <2>1 DEF StatusOK
  <2>3. Assigned' = Assigned /\ manual \in SUBSET Convs
    BY <2>1 DEF Assigned, TablesOK
  <2>4. \E Q, M \in SUBSET Convs :
          /\ call'[t].auto = (Cardinality(Q) - Cardinality(M)) % (2 ^ UsizeBits)
          /\ \A c \in Convs \ touched[t] : /\ c \in Q <=> c \in Assigned
                                           /\ c \in M <=> c \in manual
    BY <2>1, <2>2, <2>3
  <2> QED
    BY <2>1, <2>3, <2>4 DEF StatusOK, At
<1>4. CASE \/ LookUpEntity(t) \/ RefreshEntity(t) \/ CompareRow(t)
           \/ UpsertRow(t) \/ RereadRow(t) \/ NotifyRuntime(t)
           \/ DeleteRow(t) \/ ForgetOwner(t) \/ ClearManual(t)
           \/ SnapshotOwners(t) \/ SnapshotRows(t)
           \/ PutAutomatic(t) \/ PutRefused(t) \/ DropAutomatic(t) \/ EndSync(t)
           \/ CallFails(t)
  <2>1. call'[t].at \notin {"manual", "counted"}
    <3>1. CASE \/ LookUpEntity(t) \/ RefreshEntity(t) \/ CompareRow(t)
               \/ UpsertRow(t) \/ NotifyRuntime(t)
               \/ DeleteRow(t) \/ ForgetOwner(t) \/ ClearManual(t) \/ CallFails(t)
               \/ PutRefused(t)
      <4>1. \/ call' = [call EXCEPT ![t] = NoCall]
            \/ \E p \in {"fetch", "compare", "upsert", "reread", "forget"} :
                 call' = [call EXCEPT ![t].at = p]
        BY <3>1 DEF LookUpEntity, RefreshEntity, CompareRow, UpsertRow, NotifyRuntime,
           DeleteRow, ForgetOwner, ClearManual, CallFails, PutRefused, Goto, Return,
           AfterEntity
      <4>2. CASE call' = [call EXCEPT ![t] = NoCall]
        BY <4>2 DEF CallsOK, NoCall
      <4>3. CASE \E p \in {"fetch", "compare", "upsert", "reread", "forget"} :
                   call' = [call EXCEPT ![t].at = p]
        <5>1. call[t] \in Puts \/ call[t] \in Removals \/ call' = [call EXCEPT ![t] = NoCall]
          BY <3>1 DEF LookUpEntity, RefreshEntity, CompareRow, UpsertRow, NotifyRuntime,
             DeleteRow, ForgetOwner, ClearManual, CallFails, PutRefused, CallsOK, At,
             Return
        <5> QED
          BY <4>2, <4>3, <5>1 DEF CallsOK, Puts, Removals
      <4> QED
        BY <4>1, <4>2, <4>3
    <3>2. CASE RereadRow(t)
      <4>1. \/ call' = [call EXCEPT ![t] = NoCall]
            \/ call' = [call EXCEPT ![t].at = "notify"]
            \/ call' = [call EXCEPT ![t].at = "put"]
        BY <3>2 DEF RereadRow, Goto, Return
      <4>2. CASE call' = [call EXCEPT ![t] = NoCall]
        BY <4>2 DEF CallsOK, NoCall
      <4>3. CASE call' = [call EXCEPT ![t].at = "notify"]
        <5>1. call'[t].at = "notify"
          BY <4>3 DEF CallsOK
        <5> QED
          BY <5>1
      <4>4. CASE call' = [call EXCEPT ![t].at = "put"]
        <5>1. call'[t].at = "put"
          BY <4>4 DEF CallsOK
        <5> QED
          BY <5>1
      <4> QED
        BY <4>1, <4>2, <4>3, <4>4
    <3>3. CASE SnapshotOwners(t) \/ SnapshotRows(t) \/ PutAutomatic(t) \/ EndSync(t)
      <4>1. CASE SnapshotOwners(t)
        BY <4>1 DEF SnapshotOwners, CallsOK
      <4>2. CASE SnapshotRows(t)
        BY <4>2 DEF SnapshotRows, CallsOK
      <4>3. CASE PutAutomatic(t)
        BY <4>3 DEF PutAutomatic, CallsOK
      <4>4. CASE EndSync(t)
        BY <4>4 DEF EndSync, CallsOK
      <4> QED
        BY <3>3, <4>1, <4>2, <4>3, <4>4
    <3>4. CASE DropAutomatic(t)
      BY <3>4 DEF DropAutomatic, At, CallsOK
    <3> QED
      BY <1>4, <3>1, <3>2, <3>3, <3>4
  <2> QED
    BY <2>1 DEF StatusOK, At
<1> QED
  BY <1>1, <1>2, <1>3, <1>4 DEF CallStep

\* What get_status reports is exact but for what has been touched between its two
\* counts or since, for any number of callers and conversations.
THEOREM StatusExactInvariant == RmsSpec => []StatusExact
<1> DEFINE Inv == \A t \in Callers : StatusOK(t)
<1>1. RmsInit => Inv
  BY DEF RmsInit, StatusOK, At, NoCall
<1>2. SyncInv /\ Inv /\ [RmsNext]_<< rmsVars, ownVars >> => Inv'
  <2> SUFFICES ASSUME SyncInv, Inv, [RmsNext]_<< rmsVars, ownVars >>
               PROVE  Inv'
    OBVIOUS
  <2>1. CASE UNCHANGED << rmsVars, ownVars >>
    BY <2>1 DEF rmsVars, StatusOK, At, Assigned
  <2>2. ASSUME NEW t \in Callers, CallStep(t), NEW u \in Callers
        PROVE  StatusOK(u)'
    <3>1. CASE u = t
      BY <2>2, <3>1, StatusStep
    <3>2. CASE u # t
      BY <2>2, <3>2, OthersAside, StatusAside
    <3> QED
      BY <3>1, <3>2
  <2>3. ASSUME \/ \E c \in Convs, k \in Clients : RuntimeClaim(c, k)
               \/ \E k \in Clients : RuntimeRelease(k)
               \/ ServerRestarts,
               NEW u \in Callers
        PROVE  StatusOK(u)'
    <3>1. CASE Aside(u)
      BY <3>1, StatusAside
    <3>2. CASE call'[u] = NoCall
      BY <3>2 DEF StatusOK, At, NoCall
    <3> QED
      BY <2>3, <3>1, <3>2, AroundAside
  <2> QED
    BY <2>1, <2>2, <2>3 DEF RmsNext
<1>3. SyncInv /\ Inv => StatusExact
  <2> SUFFICES ASSUME SyncInv, Inv, NEW t \in Callers, At(t, "counted")
      PROVE  \E d \in (-2) * Cardinality(touched[t]) .. Cardinality(touched[t]) :
               call[t].auto = (Cardinality(Assigned \ manual) + d) % (2 ^ UsizeBits)
    BY DEF StatusExact, Assigned
  <2>1. PICK R \in SUBSET Convs, M \in SUBSET Convs :
          /\ call[t].auto = (Cardinality(R) - Cardinality(M)) % (2 ^ UsizeBits)
          /\ \A c \in Convs \ touched[t] : /\ c \in R <=> c \in Assigned
                                           /\ c \in M <=> c \in manual
    BY DEF StatusOK
  <2>2. touched[t] \in SUBSET Convs /\ TablesOK
    BY DEF SyncInv
  <2>3. PICK d \in (-2) * Cardinality(touched[t]) .. Cardinality(touched[t]) :
          Cardinality(R) - Cardinality(M) = Cardinality(Assigned \ manual) + d
    BY <2>1, <2>2, CountsApart, Zenon
  <2>4. call[t].auto = (Cardinality(Assigned \ manual) + d) % (2 ^ UsizeBits)
    BY <2>1, <2>3
  <2> QED
    BY <2>4
<1> HIDE DEF Inv
<1> QED
  BY <1>1, <1>2, <1>3, SyncInvariant, PTL DEF RmsSpec

-----------------------------------------------------------------------------
(***************************************************************************)
(* FileHosting: what is on disk follows from how far its save and the       *)
(* cleanup have come (SavedOK, GoneOK, SweepOK), a pass has what is due     *)
(* ahead of it or in its hands (DueOK), and a download that comes to        *)
(* nothing has met an expired link or file (DownloadOK).                    *)
(***************************************************************************)

\* What there may be of a file on disk.
DiskStates == {"none", "partial", "whole"}

\* How a download may be answered.
Answers == {"expired", "not found", "failed", "served", "unnamed", "error"}

\* Where a download may be.
Downloads ==
  {NoDownload} \cup [at : {"content", "meta"}, file : Files]
    \cup [at : {"answered"}, file : Files, answer : Answers]

\* Where the cleanup may be.
Sweeps ==
  [at : {"idle", "entry"}, todo : SUBSET Files]
    \cup [at : {"entry", "content", "meta"}, file : Files, todo : SUBSET Files]

\* The state of a hosted file keeps its types; the cleanup and the download are
\* at a file when they are at one.
HostingTypeOK ==
  /\ clock \in Nat
  /\ saving \in [Files -> Saves]
  /\ content \in [Files -> DiskStates]
  /\ meta \in [Files -> DiskStates]
  /\ createdAt \in [Files -> Nat \cup {NoTime}]
  /\ expires \in [Files -> Nat \cup {NoTime}]
  /\ sweep \in Sweeps
  /\ download \in Downloads
  /\ due \subseteq Files

\* What is on disk while a file is saved.
SavedOK ==
  \A f \in Files :
    /\ saving[f] \in {"none", "content"} => content[f] = "none" /\ meta[f] = "none"
    /\ saving[f] = "writing" => content[f] = "partial" /\ meta[f] = "none"
    /\ saving[f] = "meta" => content[f] = "whole" /\ meta[f] = "none"
    /\ saving[f] = "describing" => content[f] = "whole" /\ meta[f] = "partial"
    /\ saving[f] # "none" => createdAt[f] \in Nat
    /\ saving[f] = "failed" => f \in cutSaves
    /\ expires[f] # NoTime => saving[f] = "linked"

\* A file goes only when it has expired.
GoneOK ==
  \A f \in Files : saving[f] \in {"saved", "linked"} =>
    \/ content[f] = "whole" /\ meta[f] = "whole"
    \/ Expired(f) /\ content[f] = "none"

\* The cleanup is removing a file that has whole metadata and has expired.
SweepOK ==
  sweep.at \in {"content", "meta"} =>
    /\ meta[sweep.file] = "whole"
    /\ Expired(sweep.file)
    /\ sweep.at = "meta" => content[sweep.file] = "none"

\* What is due is still ahead of the pass, in its hands, or gone.
DueOK ==
  /\ sweep.at = "idle" => due = {}
  /\ \A f \in due : saving[f] \in {"saved", "linked", "failed"}
  /\ \A f \in due : content[f] # "none" =>
       /\ meta[f] = "whole" /\ Expired(f)
       /\ f \in sweep.todo \/ (sweep.at = "content" /\ sweep.file = f)

\* A download is of a file with a link, and comes to nothing only after the link
\* or the file has expired.
DownloadOK ==
  download.at # "idle" =>
    /\ expires[download.file] # NoTime
    /\ download.at = "answered" =>
         \/ download.answer \in {"served", "failed"}
         \/ expires[download.file] <= clock
         \/ Expired(download.file)

\* The invariant of the hosted files.
HostingInv ==
  /\ HostingTypeOK /\ SavedOK /\ GoneOK /\ SweepOK /\ DueOK /\ DownloadOK
  /\ LeftoverHasCause

\* A save moves one file on, whose state no one else changes meanwhile.
LEMMA SaveStep ==
  ASSUME HostingInv, NEW f \in Files,
         BeginSave(f) \/ WriteContent(f) \/ WriteMeta(f) \/ SaveFails(f) \/ MakeLink(f)
  PROVE  HostingInv'
<1> USE HostingAssumption
    DEF HostingInv, HostingTypeOK, NoDownload, Downloads, Sweeps, Saves, DiskStates,
        save, disk, history, SaveGoesOn, Expired
<1>1. HostingTypeOK'
  BY DEF BeginSave, WriteContent, WriteMeta, SaveFails, MakeLink
<1>2. SavedOK'
  BY DEF BeginSave, WriteContent, WriteMeta, SaveFails, MakeLink, SavedOK, GoneOK
<1>3. GoneOK'
  BY DEF BeginSave, WriteContent, WriteMeta, SaveFails, MakeLink, SavedOK, GoneOK
<1>4. SweepOK'
  <2>1. UNCHANGED << clock, sweep >>
        /\ \A g \in Files \ {f} : UNCHANGED << content[g], meta[g], createdAt[g] >>
    BY DEF BeginSave, WriteContent, WriteMeta, SaveFails, MakeLink
  <2>2. meta[f] = "whole" => UNCHANGED << content[f], meta[f], createdAt[f] >>
    BY DEF BeginSave, WriteContent, WriteMeta, SaveFails, MakeLink, SavedOK
  <2>3. sweep.at \in {"content", "meta"} => sweep.file \in Files
    BY DEF Sweeps
  <2> QED
    BY <2>1, <2>2, <2>3 DEF SweepOK
<1>5. DueOK'
  <2>1. /\ UNCHANGED << clock, sweep, due >>
        /\ \A g \in Files \ {f} : UNCHANGED << content[g], meta[g], createdAt[g] >>
    BY DEF BeginSave, WriteContent, WriteMeta, SaveFails, MakeLink
  <2>2. f \in due => UNCHANGED << content[f], meta[f], createdAt[f] >>
                    /\ saving'[f] = "linked"
    BY DEF BeginSave, WriteContent, WriteMeta, SaveFails, MakeLink, DueOK
  <2>3. \A g \in Files \ {f} : saving'[g] = saving[g]
    BY DEF BeginSave, WriteContent, WriteMeta, SaveFails, MakeLink
  <2> QED
    BY <2>1, <2>2, <2>3 DEF DueOK
<1>6. DownloadOK'
  BY DEF BeginSave, WriteContent, WriteMeta, SaveFails, MakeLink, SavedOK, DownloadOK
<1>7. LeftoverHasCause'
  BY DEF BeginSave, WriteContent, WriteMeta, SaveFails, MakeLink, SavedOK,
         LeftoverHasCause, SweepOK
<1> QED
  BY <1>1, <1>2, <1>3, <1>4, <1>5, <1>6, <1>7

\* A pass of the cleanup takes away what it has found expired, the content first.
LEMMA CleanupStepInv ==
  ASSUME HostingInv, CleanupStep
  PROVE  HostingInv'
<1> USE HostingAssumption
    DEF HostingInv, HostingTypeOK, NoDownload, Downloads, Sweeps, Saves, DiskStates,
        save, disk, NoSweep,
        Expired
<1>1. ASSUME BeginPass \/ EndPass
      PROVE  HostingInv'
  <2>1. UNCHANGED << clock, save, disk, download, cutSaves, cutRemovals >>
    BY <1>1 DEF BeginPass, EndPass
  <2>2. /\ sweep.at \notin {"content", "meta"}
        /\ \/ sweep'.at = "idle" /\ due' = {}
           \/ /\ sweep'.at = "entry"
              /\ sweep'.todo = {f \in Files : content[f] # "none"}
              /\ due' = {f \in Files : content[f] # "none" /\ meta[f] = "whole"
                                         /\ Expired(f)}
    BY <1>1 DEF BeginPass, EndPass
  <2>a. sweep' \in Sweeps
    BY <1>1 DEF BeginPass, EndPass
  <2>3. HostingTypeOK'
    BY <2>1, <2>2, <2>a
  <2>4. SavedOK' /\ GoneOK' /\ SweepOK' /\ DownloadOK' /\ LeftoverHasCause'
    BY <2>1, <2>2 DEF SavedOK, GoneOK, SweepOK, DownloadOK, LeftoverHasCause
  <2>5. DueOK'
    BY <2>1, <2>2 DEF DueOK, SavedOK
  <2> QED
    BY <2>3, <2>4, <2>5
<1>2. ASSUME NEW f \in Files, Judge(f)
      PROVE  HostingInv'
  <2>1. /\ UNCHANGED << clock, save, disk, download, cutSaves, cutRemovals >>
        /\ sweep.at = "entry" /\ sweep'.file = f /\ sweep'.todo = sweep.todo \ {f}
        /\ \/ /\ sweep'.at = "content" /\ meta[f] = "whole" /\ Expired(f)
              /\ UNCHANGED due
           \/ /\ sweep'.at = "entry" /\ UNCHANGED due
              /\ ~(meta[f] = "whole" /\ Expired(f))
           \/ sweep'.at = "entry" /\ due' = due \ {f}
    BY <1>2 DEF Judge
  <2>a. sweep' \in Sweeps
    BY <1>2 DEF Judge
  <2>2. HostingTypeOK'
    BY <2>1, <2>a
  <2>3. SavedOK' /\ GoneOK' /\ SweepOK' /\ DownloadOK' /\ LeftoverHasCause'
    BY <2>1 DEF SavedOK, GoneOK, SweepOK, DownloadOK, LeftoverHasCause
  <2>4. DueOK'
    BY <2>1 DEF DueOK
  <2> QED
    BY <2>2, <2>3, <2>4
<1>3. ASSUME RemoveContent
      PROVE  HostingInv'
  <2> DEFINE f == sweep.file
  <2>1. /\ UNCHANGED << clock, save, meta, download, cutSaves, cutRemovals >>
        /\ f \in Files /\ sweep.at = "content"
        /\ sweep'.file = f /\ sweep'.todo = sweep.todo
        /\ \/ /\ content' = [content EXCEPT ![f] = "none"]
              /\ sweep'.at = "meta" /\ UNCHANGED due
           \/ /\ UNCHANGED content
              /\ sweep'.at = "entry" /\ due' = due \ {f}
    BY <1>3 DEF RemoveContent
  <2>2. meta[f] = "whole" /\ Expired(f)
    BY <2>1 DEF SweepOK
  <2>a. sweep' \in Sweeps
    BY <1>3 DEF RemoveContent
  <2> HIDE DEF f
  <2>3. HostingTypeOK'
    BY <2>1, <2>a
  <2>4. SavedOK' /\ GoneOK' /\ DownloadOK'
    BY <2>1, <2>2 DEF SavedOK, GoneOK, DownloadOK
  <2>5. SweepOK' /\ DueOK'
    BY <2>1, <2>2 DEF SweepOK, DueOK, f
  <2>6. LeftoverHasCause'
    BY <2>1, <2>2 DEF LeftoverHasCause
  <2> QED
    BY <2>3, <2>4, <2>5, <2>6
<1>4. ASSUME RemoveMeta
      PROVE  HostingInv'
  <2> DEFINE f == sweep.file
  <2>1. /\ UNCHANGED << clock, save, content, download, cutSaves, due >>
        /\ f \in Files /\ sweep.at = "meta"
        /\ sweep'.todo = sweep.todo /\ sweep'.at = "entry"
        /\ \/ meta' = [meta EXCEPT ![f] = "none"] /\ UNCHANGED cutRemovals
           \/ UNCHANGED meta /\ cutRemovals' = cutRemovals \cup {f}
    BY <1>4 DEF RemoveMeta
  <2>2. meta[f] = "whole" /\ Expired(f) /\ content[f] = "none"
    BY <2>1 DEF SweepOK
  <2>3. \A g \in Files \ {f} : meta'[g] = meta[g]
    BY <2>1
  <2>a. sweep' \in Sweeps
    BY <1>4 DEF RemoveMeta
  <2> HIDE DEF f
  <2>4. HostingTypeOK'
    BY <2>1, <2>a
  <2>5. SavedOK' /\ GoneOK' /\ DownloadOK'
    BY <2>1, <2>2, <2>3 DEF SavedOK, GoneOK, DownloadOK
  <2>6. SweepOK' /\ DueOK'
    BY <2>1, <2>2, <2>3 DEF SweepOK, DueOK
  <2>7. LeftoverHasCause'
    BY <2>1, <2>2, <2>3 DEF LeftoverHasCause, f
  <2> QED
    BY <2>4, <2>5, <2>6, <2>7
<1> QED
  BY <1>1, <1>2, <1>3, <1>4 DEF CleanupStep

\* A download answers by what it finds; the clock and a crash take nothing away.
LEMMA OtherStepInv ==
  ASSUME HostingInv, Tick \/ ServeDownload \/ HostingCrash
  PROVE  HostingInv'
<1> USE HostingAssumption
    DEF HostingInv, Saves, DiskStates, save, disk, history, Expired
<1>1. CASE Tick
  <2>1. /\ clock' = clock + 1 /\ clock \in Nat
        /\ \A f \in Files : createdAt[f] \in Nat => (Expired(f) => Expired(f)')
        /\ \A f \in Files :
             expires[f] \in Nat => (expires[f] <= clock => expires[f] <= clock')
        /\ UNCHANGED << save, disk, sweep, download, history >>
    BY <1>1 DEF Tick, HostingTypeOK
  <2>2. HostingTypeOK' /\ SavedOK' /\ LeftoverHasCause'
    BY <2>1 DEF HostingTypeOK, SavedOK, LeftoverHasCause
  <2>3. \A f \in Files : Expired(f) /\ saving[f] # "none" => Expired(f)'
    BY <2>1 DEF SavedOK
  <2>4. \A f \in Files : meta[f] = "whole" => saving[f] # "none"
    BY DEF SavedOK
  <2>5. GoneOK' /\ SweepOK' /\ DueOK'
    BY <2>1, <2>3, <2>4 DEF GoneOK, SweepOK, DueOK, HostingTypeOK, Sweeps
  <2>6. download.at # "idle" => download.file \in Files
    BY DEF HostingTypeOK, NoDownload, Downloads
  <2>7. DownloadOK'
    BY <2>1, <2>3, <2>6 DEF DownloadOK, SavedOK, HostingTypeOK
  <2> QED
    BY <2>2, <2>5, <2>7
<1>2. CASE ServeDownload
  <2>1. UNCHANGED << clock, save, disk, sweep, history >>
    BY <1>2 DEF ServeDownload, VerifyLink, ReadContent, ReadMeta
  <2>2. /\ download' \in Downloads
        /\ DownloadOK'
    <3>1. ASSUME NEW f \in Files, VerifyLink(f)
          PROVE  /\ download' \in Downloads
                 /\ DownloadOK'
      <4>1. \/ download' = [at |-> "content", file |-> f]
            \/ /\ download' = [at |-> "answered", file |-> f, answer |-> "expired"]
               /\ expires[f] <= clock
        <5>1. expires[f] \in Nat /\ clock \in Nat
          BY <3>1 DEF VerifyLink, HostingTypeOK
        <5> QED
          BY <3>1, <5>1 DEF VerifyLink
      <4>2. expires'[f] # NoTime
        BY <2>1, <3>1 DEF VerifyLink
      <4>3. download' \in Downloads
        <5>1. [at |-> "content", file |-> f]
                \in [at : {"content", "meta"}, file : Files]
          BY <3>1
        <5>2. [at |-> "answered", file |-> f, answer |-> "expired"]
                \in [at : {"answered"}, file : Files, answer : Answers]
          BY <3>1 DEF Answers
        <5> QED
          BY <4>1, <5>1, <5>2 DEF Downloads
      <4> QED
        BY <2>1, <4>1, <4>2, <4>3 DEF DownloadOK
    <3>2. ASSUME ReadContent \/ ReadMeta
          PROVE  /\ download' \in Downloads
                 /\ DownloadOK'
      <4> DEFINE f == download.file
      <4>1. download \in [at : {"content", "meta"}, file : Files]
        <5>1. download.at \in {"content", "meta"}
          BY <3>2 DEF ReadContent, ReadMeta
        <5>2. download \in Downloads
          BY DEF HostingTypeOK
        <5>3. NoDownload.at = "idle"
          BY DEF NoDownload
        <5>4. \A d \in [at : {"answered"}, file : Files, answer : Answers] :
                d.at = "answered"
          OBVIOUS
        <5> QED
          BY <5>1, <5>2, <5>3, <5>4 DEF Downloads
      <4>2. f \in Files /\ expires[f] # NoTime /\ download.at # "idle"
        BY <4>1 DEF DownloadOK
      <4>3. \/ content[f] = "whole" /\ meta[f] = "whole"
            \/ Expired(f)
        BY <4>2 DEF SavedOK, GoneOK
      <4>4. \/ download' = [at |-> "meta", file |-> f]
            \/ \E a \in Answers :
                 /\ download' = [at |-> "answered", file |-> f, answer |-> a]
                 /\ a \in {"served", "failed"} \/ Expired(f)
        <5>1. CASE ReadContent
          BY <4>1, <4>3, <5>1 DEF ReadContent, AnswerWith, Answers
        <5>2. CASE ReadMeta
          <6>1. meta[f] \in {"whole", "none", "partial"}
            BY <4>2 DEF HostingTypeOK
          <6> QED
            BY <4>1, <4>3, <5>2, <6>1 DEF ReadMeta, AnswerWith, Answers
        <5> QED
          BY <3>2, <5>1, <5>2
      <4> HIDE DEF f
      <4>5. download' \in Downloads
        BY <4>2, <4>4 DEF Downloads
      <4> QED
        BY <2>1, <4>2, <4>4, <4>5 DEF DownloadOK
    <3> QED
      BY <1>2, <3>1, <3>2 DEF ServeDownload
  <2>3. HostingTypeOK'
    BY <2>1, <2>2 DEF HostingTypeOK
  <2>4. SavedOK' /\ GoneOK' /\ SweepOK' /\ DueOK' /\ LeftoverHasCause'
    BY <2>1 DEF SavedOK, GoneOK, SweepOK, DueOK, LeftoverHasCause
  <2> QED
    BY <2>2, <2>3, <2>4
<1>3. CASE HostingCrash
  <2>1. /\ UNCHANGED << clock, createdAt, expires, disk >>
        /\ saving' = [f \in Files |-> IF saving[f] \in {"none", "linked"}
                                      THEN saving[f] ELSE "failed"]
        /\ cutSaves' = cutSaves \cup {f \in Files : saving'[f] = "failed"}
        /\ cutRemovals \subseteq cutRemovals'
        /\ sweep.at = "meta" => sweep.file \in cutRemovals'
        /\ sweep' = NoSweep /\ download' = NoDownload /\ due' = {}
    BY <1>3 DEF HostingCrash
  <2>2. HostingTypeOK'
    BY <2>1 DEF HostingTypeOK, NoSweep, Sweeps, Downloads
  <2>3. SavedOK' /\ GoneOK' /\ SweepOK' /\ DueOK' /\ DownloadOK'
    BY <2>1 DEF SavedOK, GoneOK, SweepOK, DueOK, DownloadOK, NoSweep, NoDownload,
                HostingTypeOK
  <2>4. LeftoverHasCause'
    BY <2>1 DEF LeftoverHasCause, NoSweep, HostingTypeOK, SavedOK
  <2> QED
    BY <2>2, <2>3, <2>4
<1> QED
  BY <1>1, <1>2, <1>3

\* Saves, the cleanup, downloads, the clock and crashes keep it.
LEMMA HostingInvariant == HostingSpec => []HostingInv
<1>1. HostingInit => HostingInv
  BY HostingAssumption
     DEF HostingInit, HostingInv, HostingTypeOK, Saves, DiskStates, NoSweep, NoDownload,
         Sweeps, Downloads, SavedOK, GoneOK, SweepOK, DueOK, DownloadOK,
         LeftoverHasCause
<1>2. HostingInv /\ [HostingNext]_hostingVars => HostingInv'
  <2> SUFFICES ASSUME HostingInv, [HostingNext]_hostingVars
               PROVE  HostingInv'
    OBVIOUS
  <2>1. CASE UNCHANGED hostingVars
    BY <2>1 DEF hostingVars, HostingInv, HostingTypeOK, SavedOK, GoneOK, SweepOK, DueOK,
                DownloadOK, LeftoverHasCause, Expired
  <2> QED
    BY <2>1, SaveStep, CleanupStepInv, OtherStepInv DEF HostingNext
<1> QED
  BY <1>1, <1>2, PTL DEF HostingSpec

\* What the cleanup can never remove was left by an interrupted save or removal,
\* for any files, any life and any number of passes, crashes and failures.
THEOREM LeftoverHasCauseInvariant == HostingSpec => []LeftoverHasCause
BY HostingInvariant, PTL DEF HostingInv

\* A pass that comes to its end has removed whatever was due when it began.
THEOREM PassRemovesDueInvariant == HostingSpec => []PassRemovesDue
<1>1. HostingInv => PassRemovesDue
  BY DEF HostingInv, DueOK, PassRemovesDue
<1> QED
  BY <1>1, HostingInvariant, PTL

\* A link made within a second of its file's timestamp serves the file until it
\* expires, whatever the cleanup does.
THEOREM PromptLinkServesInvariant == HostingSpec => []PromptLinkServes
<1>1. HostingInv => PromptLinkServes
  <2> SUFFICES ASSUME HostingInv,
                      download.at = "answered",
                      clock < expires[download.file],
                      expires[download.file] - TTL <= createdAt[download.file] + 1
               PROVE  download.answer \in {"served", "failed"}
    BY DEF PromptLinkServes
  <2> DEFINE f == download.file
  <2>1. f \in Files /\ clock \in Nat /\ TTL \in Nat
    BY HostingAssumption DEF HostingInv, HostingTypeOK, NoDownload, Downloads
  <2>2. expires[f] # NoTime /\ expires[f] \in Nat /\ createdAt[f] \in Nat
    BY <2>1 DEF HostingInv, HostingTypeOK, DownloadOK, SavedOK
  <2>3. ~(expires[f] <= clock) /\ ~Expired(f)
    BY <2>1, <2>2 DEF Expired
  <2> QED
    BY <2>3 DEF HostingInv, DownloadOK
<1> QED
  BY <1>1, HostingInvariant, PTL

-----------------------------------------------------------------------------
(***************************************************************************)
(* Migrations: what an opener has still to run is ordered (Ordered) and,    *)
(* with the tables there are, covers what it needs (Covered), at every      *)
(* point where it or another may stop or overtake.                          *)
(***************************************************************************)

\* What an opener may have to run.
Statements ==
  [do : {"create", "index"}, on : Tables] \cup [do : {"record"}, on : {1, 2}]

\* The tables a version stands for.
TablesOf(v) == IF v = 1 THEN Range(Shared) ELSE Range(Retained)

Made(t) == columns[t] # "none"

\* s is among the first n statements of q.
Among(s, q, n) == \E j \in 1 .. n : q[j] = s

\* An index comes after its table, a version after its tables and the earlier
\* version, whoever made and recorded them; the storage knows one version.
OrderedAt(k, q, i) ==
  /\ q[i].do = "index" =>
       /\ q[i].on \in Needs(k)
       /\ Made(q[i].on) \/ Among(Create(q[i].on), q, i - 1)
  /\ q[i].do = "record" =>
       /\ \A t \in TablesOf(q[i].on) : Made(t) \/ Among(Create(t), q, i - 1)
       /\ q[i].on = 2 => 1 \in versions \/ Among(Record(1), q, i - 1)
       /\ k = "storage" => q[i].on = 1

Ordered(k, q) == \A i \in 1 .. Len(q) : OrderedAt(k, q, i)

\* Whatever an opener needs is there or still to be made by it.
Covered(k, q) == \A t \in Needs(k) : Made(t) \/ Among(Create(t), q, Len(q))

MigrationTypeOK ==
  /\ kind \in [Openers -> Kinds]
  /\ DOMAIN opening = Openers
  /\ statements \in [Openers -> Seq(Statements)]
  /\ columns \in [Tables -> Kinds \cup {"none"}]
  /\ versions \subseteq {1, 2}

\* A recorded version has its tables, and the earlier one.
VersionsOK ==
  /\ \A v \in versions : \A t \in TablesOf(v) : Made(t)
  /\ 2 \in versions => 1 \in versions

OpenersOK ==
  \A p \in Openers :
    /\ opening[p] # "closed" => Made(Version)
    /\ opening[p] = "running" =>
         Ordered(kind[p], statements[p]) /\ Covered(kind[p], statements[p])
    /\ opening[p] = "ready" => \A t \in Needs(kind[p]) : Made(t)
    /\ opening[p] = "refused" => Foreign(p) \/ (kind[p] = "storage" /\ 1 \in versions)

MigrationInv == MigrationTypeOK /\ VersionsOK /\ OpenersOK

\* The tables by name.
LEMMA TableNames ==
  /\ Range(Shared) = {"conversation_ownership", "pending_messages", "metrics",
                      "webhook_dedup"}
  /\ Range(Retained) = {"contacts", "groups", "group_members", "messages",
                        "outbound_queue", "inbound_queue"}
<1>1. Range(Shared) = {Shared[1], Shared[2], Shared[3], Shared[4]}
  BY DEF Range, Shared
<1>2. Range(Retained) = {Retained[1], Retained[2], Retained[3], Retained[4], Retained[5],
                         Retained[6]}
  BY DEF Range, Retained
<1> QED
  BY <1>1, <1>2 DEF Shared, Retained

\* What a concatenation of statements has where.
LEMMA ConcatIs ==
  ASSUME NEW a \in Seq(Statements), NEW b \in Seq(Statements)
  PROVE  /\ a \o b \in Seq(Statements) /\ Len(a \o b) = Len(a) + Len(b)
         /\ \A i \in 1 .. Len(a) : (a \o b)[i] = a[i]
         /\ \A i \in 1 .. Len(b) : (a \o b)[i + Len(a)] = b[i]
<1>1. /\ a \o b \in Seq(Statements)
      /\ Len(a \o b) = Len(a) + Len(b)
      /\ \A i \in 1 .. Len(a) + Len(b) : (a \o b)[i] =
                     IF i <= Len(a) THEN a[i] ELSE b[i - Len(a)]
  BY ConcatProperties
<1>2. Len(a) \in Nat /\ Len(b) \in Nat
  BY LenProperties
<1>3. ASSUME NEW i \in 1 .. Len(b)
      PROVE  (a \o b)[i + Len(a)] = b[i]
  <2>1. i + Len(a) \in 1 .. Len(a) + Len(b) /\ ~(i + Len(a) <= Len(a))
        /\ (i + Len(a)) - Len(a) = i
    BY <1>2
  <2> QED
    BY <1>1, <2>1
<1> QED
  BY <1>1, <1>2, <1>3

\* The plans, statement by statement.
LEMMA LegacyPlanIs ==
  /\ LegacyPlan \in Seq(Statements) /\ Len(LegacyPlan) = 5
  /\ LegacyPlan[1] = Create("conversation_ownership")
  /\ LegacyPlan[2] = Create("pending_messages")
  /\ LegacyPlan[3] = Create("metrics")
  /\ LegacyPlan[4] = Create("webhook_dedup")
  /\ LegacyPlan[5] = Record(1)
<1> DEFINE created == [i \in 1..4 |-> Create(Shared[i])]
<1>1. /\ created \in Seq(Statements) /\ Len(created) = 4
      /\ created[1] = Create("conversation_ownership")
      /\ created[2] = Create("pending_messages")
      /\ created[3] = Create("metrics")
      /\ created[4] = Create("webhook_dedup")
  <2>1. \A i \in 1..4 : Create(Shared[i]) \in Statements
    BY TableNames DEF Statements, Create, Tables, Shared
  <2>2. created \in [1..4 -> Statements]
    BY <2>1
  <2>3. created \in Seq(Statements) /\ Len(created) = 4
    BY <2>2, SeqDef, LenProperties
  <2> QED
    BY <2>3 DEF Shared
<1> DEFINE last == << Record(1) >>
<1>2. last \in Seq(Statements) /\ Len(last) = 1 /\ last[1] = Record(1)
  BY DEF Statements, Record
<1>3. LegacyPlan = created \o last
  BY DEF LegacyPlan, created, last
<1> HIDE DEF created, last
<1>4. /\ created \o last \in Seq(Statements) /\ Len(created \o last) = Len(created) + Len(last)
      /\ \A i \in 1 .. Len(created) : (created \o last)[i] = created[i]
      /\ \A i \in 1 .. Len(last) : (created \o last)[i + Len(created)] = last[i]
  BY <1>1, <1>2, ConcatIs
<1>5. /\ \A i \in 1 .. 4 : (created \o last)[i] = created[i]
      /\ (created \o last)[5] = last[1]
  BY <1>1, <1>2, <1>4
<1> QED
  BY <1>1, <1>2, <1>3, <1>4, <1>5

\* The statements that a new message database runs.
LEMMA RetentionPlanIs ==
  /\ RetentionPlan \in Seq(Statements) /\ Len(RetentionPlan) = 7
  /\ RetentionPlan[1] = Create("contacts")
  /\ RetentionPlan[2] = Create("groups")
  /\ RetentionPlan[3] = Create("group_members")
  /\ RetentionPlan[4] = Create("messages")
  /\ RetentionPlan[5] = Create("outbound_queue")
  /\ RetentionPlan[6] = Create("inbound_queue")
  /\ RetentionPlan[7] = Record(2)
<1> DEFINE created == [i \in 1..6 |-> Create(Retained[i])]
<1>1. /\ created \in Seq(Statements) /\ Len(created) = 6
      /\ created[1] = Create("contacts")
      /\ created[2] = Create("groups")
      /\ created[3] = Create("group_members")
      /\ created[4] = Create("messages")
      /\ created[5] = Create("outbound_queue")
      /\ created[6] = Create("inbound_queue")
  <2>0. Len(Retained) = 6
    BY DEF Retained
  <2>1. \A i \in 1..6 : Create(Retained[i]) \in Statements
    BY TableNames DEF Statements, Create, Tables, Retained
  <2>2. created \in [1..6 -> Statements]
    BY <2>0, <2>1
  <2>3. created \in Seq(Statements) /\ DOMAIN created = 1..6
    BY <2>0, <2>2
  <2>4. Len(created) = 6
    BY <2>3, LenProperties
  <2> QED
    BY <2>0, <2>3, <2>4 DEF Retained
<1> DEFINE last == << Record(2) >>
<1>2. last \in Seq(Statements) /\ Len(last) = 1 /\ last[1] = Record(2)
  BY DEF Statements, Record
<1>3. RetentionPlan = created \o last
  <2>1. Len(Retained) = 6
    BY DEF Retained
  <2> QED
    BY <2>1 DEF RetentionPlan, created, last
<1> HIDE DEF created, last
<1>4. /\ created \o last \in Seq(Statements) /\ Len(created \o last) = Len(created) + Len(last)
      /\ \A i \in 1 .. Len(created) : (created \o last)[i] = created[i]
      /\ \A i \in 1 .. Len(last) : (created \o last)[i + Len(created)] = last[i]
  BY <1>1, <1>2, ConcatIs
<1>5. /\ \A i \in 1 .. 6 : (created \o last)[i] = created[i]
      /\ (created \o last)[7] = last[1]
  BY <1>1, <1>2, <1>4
<1> QED
  BY <1>1, <1>2, <1>3, <1>4, <1>5

\* The statements that a new storage runs.
LEMMA StoragePlanIs ==
  /\ StoragePlan \in Seq(Statements) /\ Len(StoragePlan) = 7
  /\ StoragePlan[1] = Create("conversation_ownership")
  /\ StoragePlan[2] = Create("pending_messages")
  /\ StoragePlan[3] = Index("pending_messages")
  /\ StoragePlan[4] = Create("metrics")
  /\ StoragePlan[5] = Index("metrics")
  /\ StoragePlan[6] = Create("webhook_dedup")
  /\ StoragePlan[7] = Record(1)
<1>1. {Create("conversation_ownership"), Create("pending_messages"),
       Index("pending_messages"), Create("metrics"), Index("metrics"),
       Create("webhook_dedup"), Record(1)} \subseteq Statements
  BY TableNames DEF Statements, Create, Index, Record, Tables
<1> QED
  BY <1>1 DEF StoragePlan

\* A plan read at the version of the file is ordered and covers what is needed.
LEMMA PlanFits ==
  ASSUME MigrationTypeOK, VersionsOK, Made(Version), NEW k \in Kinds
  PROVE  /\ Plan(k, Current) \in Seq(Statements)
         /\ Ordered(k, Plan(k, Current)) /\ Covered(k, Plan(k, Current))
<1> DEFINE q == Plan(k, Current)
<1>0. /\ Current \in {0, 1, 2}
      /\ Current >= 1 => \A t \in Range(Shared) : Made(t)
      /\ Current >= 1 => 1 \in versions
      /\ Current >= 2 => \A t \in Range(Retained) : Made(t)
  BY DEF Current, VersionsOK, MigrationTypeOK, TablesOf
<1>1. CASE q = << >>  /\ (k = "storage" => Current >= 1) /\ (k # "storage" => Current >= 2)
  BY <1>0, <1>1 DEF Ordered, Covered, Needs
<1>2. CASE k = "storage" /\ q = StoragePlan
  <2>1. \A t \in Range(Shared) : Among(Create(t), q, 6)
    BY <1>2, StoragePlanIs, TableNames DEF Among
  <2>2. Among(Create("pending_messages"), q, 2) /\ Among(Create("metrics"), q, 4)
    BY <1>2, StoragePlanIs DEF Among
  <2>3. Covered(k, q)
    BY <1>2, <2>1, StoragePlanIs DEF Covered, Needs, Among
  <2>4. Ordered(k, q)
    <3> SUFFICES ASSUME NEW i \in 1 .. 7
        PROVE  OrderedAt(k, q, i)
      BY <1>2, StoragePlanIs DEF Ordered
    <3>1. CASE i \in {1, 2, 4, 6}
      BY <1>2, <3>1, StoragePlanIs DEF Create, OrderedAt
    <3>2. CASE i \in {3, 5}
      BY <1>2, <2>2, <3>2, StoragePlanIs, TableNames DEF Index, Needs, OrderedAt
    <3>3. CASE i = 7
      BY <1>2, <2>1, <3>3, StoragePlanIs DEF Record, TablesOf, OrderedAt
    <3> QED
      BY <3>1, <3>2, <3>3
  <2> QED
    BY <1>2, <2>3, <2>4, StoragePlanIs
<1>3. CASE k # "storage" /\ q = RetentionPlan /\ Current >= 1
  <2>1. \A t \in Range(Retained) : Among(Create(t), q, 6)
    BY <1>3, RetentionPlanIs, TableNames DEF Among
  <2>2. Covered(k, q)
    BY <1>0, <1>3, <2>1, RetentionPlanIs DEF Covered, Needs, Among
  <2>3. Ordered(k, q)
    <3> SUFFICES ASSUME NEW i \in 1 .. 7
        PROVE  OrderedAt(k, q, i)
      BY <1>3, RetentionPlanIs DEF Ordered
    <3>1. CASE i \in 1 .. 6
      BY <1>3, <3>1, RetentionPlanIs DEF Create, OrderedAt
    <3>2. CASE i = 7
      BY <1>0, <1>3, <2>1, <3>2, RetentionPlanIs DEF Record, TablesOf, OrderedAt
    <3> QED
      BY <3>1, <3>2
  <2> QED
    BY <1>3, <2>2, <2>3, RetentionPlanIs
<1>4. CASE k # "storage" /\ q = LegacyPlan \o RetentionPlan
  <2>0. /\ q \in Seq(Statements) /\ Len(q) = 12
        /\ \A i \in 1 .. 5 : q[i] = LegacyPlan[i]
        /\ \A i \in 1 .. 7 : q[i + 5] = RetentionPlan[i]
    <3>1. /\ LegacyPlan \in Seq(Statements) /\ Len(LegacyPlan) = 5
          /\ RetentionPlan \in Seq(Statements) /\ Len(RetentionPlan) = 7
      BY LegacyPlanIs, RetentionPlanIs
    <3> DEFINE r == LegacyPlan \o RetentionPlan
    <3>2. /\ r \in Seq(Statements) /\ Len(r) = Len(LegacyPlan) + Len(RetentionPlan)
          /\ \A i \in 1 .. Len(LegacyPlan) : r[i] = LegacyPlan[i]
          /\ \A i \in 1 .. Len(RetentionPlan) : r[i + Len(LegacyPlan)] = RetentionPlan[i]
      BY <3>1, ConcatIs
    <3>3. q = r
      BY <1>4
    <3> HIDE DEF q, r
    <3> QED
      BY <3>1, <3>2, <3>3
  <2> HIDE DEF q
  <2>1. /\ q[1] = Create("conversation_ownership") /\ q[2] = Create("pending_messages")
        /\ q[3] = Create("metrics") /\ q[4] = Create("webhook_dedup")
        /\ q[5] = Record(1)
        /\ q[6] = Create("contacts") /\ q[7] = Create("groups")
        /\ q[8] = Create("group_members") /\ q[9] = Create("messages")
        /\ q[10] = Create("outbound_queue") /\ q[11] = Create("inbound_queue")
        /\ q[12] = Record(2)
    BY <2>0, LegacyPlanIs, RetentionPlanIs
  <2>2. /\ \A t \in Range(Shared) : Among(Create(t), q, 4)
        /\ \A t \in Range(Retained) : Among(Create(t), q, 11)
        /\ Among(Record(1), q, 11)
    BY <2>1, TableNames DEF Among
  <2>3. Covered(k, q)
    BY <2>0, <2>2 DEF Covered, Needs, Among
  <2>4. Ordered(k, q)
    <3> SUFFICES ASSUME NEW i \in 1 .. 12
        PROVE  OrderedAt(k, q, i)
      BY <2>0 DEF Ordered
    <3>1. CASE i \in 1 .. 4 \cup 6 .. 11
      BY <2>1, <3>1 DEF Create, OrderedAt
    <3>2. CASE i = 5
      <4>1. q[i] = Record(1) /\ i - 1 = 4
        BY <2>1, <3>2
      <4> QED
        BY <1>4, <2>2, <4>1 DEF Record, TablesOf, OrderedAt
    <3>3. CASE i = 12
      <4>1. q[i] = Record(2) /\ i - 1 = 11
        BY <2>1, <3>3
      <4> QED
        BY <1>4, <2>2, <4>1 DEF Record, TablesOf, OrderedAt
    <3> QED
      BY <3>1, <3>2, <3>3
  <2> QED
    BY <2>0, <2>3, <2>4 DEF q
<1> QED
  <2>1. /\ << >> \o RetentionPlan = RetentionPlan
        /\ << >> \o << >> = << >>
    BY RetentionPlanIs, ConcatEmptySeq
  <2>2. CASE k = "storage"
    BY <1>0, <1>1, <1>2, <2>2 DEF Plan
  <2>3. CASE k # "storage" /\ Current = 0
    BY <1>4, <2>3 DEF Plan, ServerPlan, Kinds
  <2>4. CASE k # "storage" /\ Current = 1
    BY <1>3, <2>1, <2>4 DEF Plan, ServerPlan, Kinds
  <2>5. CASE k # "storage" /\ Current = 2
    BY <1>1, <2>1, <2>5 DEF Plan, ServerPlan, Kinds
  <2> QED
    BY <1>0, <2>2, <2>3, <2>4, <2>5

-----------------------------------------------------------------------------

\* The invariant holds of an empty database.
LEMMA MigrationInitially ==
  MigrationInit => MigrationInv
<1> SUFFICES ASSUME MigrationInit
    PROVE  MigrationInv
  OBVIOUS
<1>1. MigrationTypeOK
  BY DEF MigrationInit, MigrationTypeOK, Kinds
<1>2. VersionsOK /\ OpenersOK
  BY DEF MigrationInit, VersionsOK, OpenersOK
<1> QED
  BY <1>1, <1>2 DEF MigrationInv

\* What is made and recorded once stays so, and what an opener has still to do
\* goes on fitting, whoever else makes tables and records versions meanwhile.
LEMMA GrowthKeeps ==
  ASSUME MigrationTypeOK, MigrationTypeOK', versions \subseteq versions', UNCHANGED kind,
         \A t \in Tables : Made(t) => columns'[t] = columns[t]
  PROVE  /\ \A t \in Tables : Made(t) => Made(t)'
         /\ \A p \in Openers : Foreign(p) => Foreign(p)'
         /\ \A k \in Kinds, q \in Seq(Statements) :
              /\ Ordered(k, q) => Ordered(k, q)'
              /\ Covered(k, q) => Covered(k, q)'
<1>1. \A t \in Tables : Made(t) => Made(t)'
  BY DEF Made
<1>2. \A k \in Kinds : Needs(k) \subseteq Tables
  BY DEF Needs, Tables
<1>3. ASSUME NEW p \in Openers, Foreign(p)
      PROVE  Foreign(p)'
  <2>1. PICK t \in Needs(kind[p]) : columns[t] \notin {"none", kind[p]}
    BY <1>3 DEF Foreign
  <2>2. t \in Tables
    BY <1>2 DEF MigrationTypeOK
  <2>3. columns'[t] = columns[t]
    BY <2>1, <2>2 DEF Made
  <2> QED
    BY <2>1, <2>3 DEF Foreign
<1>4. ASSUME NEW k \in Kinds, NEW q \in Seq(Statements), Ordered(k, q)
      PROVE  Ordered(k, q)'
  <2> SUFFICES ASSUME NEW i \in 1 .. Len(q)
      PROVE  OrderedAt(k, q, i)'
    BY DEF Ordered
  <2>1. OrderedAt(k, q, i) /\ q[i] \in Statements
    BY <1>4 DEF Ordered
  <2>2. CASE q[i].do = "index"
    BY <1>1, <1>2, <2>1, <2>2 DEF OrderedAt, Among
  <2>3. CASE q[i].do = "record"
    <3>1. TablesOf(q[i].on) \subseteq Tables
      BY DEF TablesOf, Tables
    <3> QED
      BY <1>1, <2>1, <2>3, <3>1 DEF OrderedAt, Among
  <2> QED
    BY <2>1, <2>2, <2>3 DEF OrderedAt
<1>5. ASSUME NEW k \in Kinds, NEW q \in Seq(Statements), Covered(k, q)
      PROVE  Covered(k, q)'
  BY <1>1, <1>2, <1>5 DEF Covered, Among
<1> QED
  BY <1>1, <1>3, <1>4, <1>5

\* Making a table that is missing disturbs none that is there.
LEMMA CreateKeeps ==
  ASSUME MigrationTypeOK, NEW k \in Kinds, NEW t \in Tables, CreateIfMissing(k, t)
  PROVE  /\ columns' \in [Tables -> Kinds \cup {"none"}]
         /\ columns'[t] # "none"
         /\ \A u \in Tables : Made(u) => columns'[u] = columns[u]
BY DEF MigrationTypeOK, CreateIfMissing, Made, Kinds

\* The head of an ordered list done, its tail is ordered.
LEMMA TailOrdered ==
  ASSUME NEW k \in Kinds, NEW q \in Seq(Statements), q # << >>,
         Ordered(k, q), Covered(k, q),
         MigrationTypeOK, MigrationTypeOK',
         q[1].do = "create" => Made(q[1].on)',
         q[1].do = "record" => q[1].on \in versions',
         versions \subseteq versions',
         \A t \in Tables : Made(t) => Made(t)'
  PROVE  /\ Tail(q) \in Seq(Statements)
         /\ Ordered(k, Tail(q))' /\ Covered(k, Tail(q))'
<1> DEFINE r == Tail(q)
<1>1. /\ r \in Seq(Statements) /\ Len(q) \in Nat /\ Len(r) = Len(q) - 1
      /\ \A i \in 1 .. Len(r) : r[i] = q[i + 1]
  BY HeadTailProperties, LenProperties
<1>2. ASSUME NEW s, NEW n \in 0 .. Len(r), Among(s, q, n + 1)
      PROVE  s = q[1] \/ Among(s, r, n)
  <2>1. PICK j \in 1 .. n + 1 : q[j] = s
    BY <1>2 DEF Among
  <2>2. CASE j # 1
    <3>1. j - 1 \in 1 .. n /\ j - 1 \in 1 .. Len(r) /\ (j - 1) + 1 = j
      BY <1>1, <2>2
    <3>2. r[j - 1] = s
      BY <1>1, <2>1, <3>1
    <3> HIDE DEF r
    <3> QED
      BY <3>1, <3>2 DEF Among
  <2> QED
    BY <2>1, <2>2
<1>3. ASSUME NEW t \in Tables, NEW n \in 0 .. Len(r),
             Made(t) \/ Among(Create(t), q, n + 1)
      PROVE  Made(t)' \/ Among(Create(t), r, n)
  <2>1. CASE Made(t)
    BY <2>1
  <2>2. CASE Create(t) = q[1]
    BY <2>2 DEF Create
  <2> QED
    BY <1>2, <1>3, <2>1, <2>2
<1>4. Needs(k) \subseteq Tables
  BY DEF Needs, Tables
<1> HIDE DEF r
<1>5. Covered(k, r)'
  <2> SUFFICES ASSUME NEW t \in Needs(k)
      PROVE  Made(t)' \/ Among(Create(t), r, Len(r))
    BY DEF Covered, Among
  <2>1. Made(t) \/ Among(Create(t), q, Len(q))
    BY DEF Covered
  <2>2. Len(r) \in 0 .. Len(r) /\ Len(r) + 1 = Len(q)
    BY <1>1, LenProperties
  <2> QED
    BY <1>3, <1>4, <2>1, <2>2
<1>6. ASSUME NEW i \in 1 .. Len(r)
      PROVE  OrderedAt(k, r, i)'
  <2>1. /\ i + 1 \in 1 .. Len(q) /\ (i + 1) - 1 = (i - 1) + 1 /\ i - 1 \in 0 .. Len(r)
        /\ r[i] = q[i + 1]
    BY <1>1, LenProperties
  <2>2. OrderedAt(k, q, i + 1)
    BY <2>1 DEF Ordered
  <2>3. CASE r[i].do = "index"
    BY <1>3, <1>4, <2>1, <2>2, <2>3 DEF OrderedAt, Among
  <2>4. CASE r[i].do = "record"
    <3>1. TablesOf(r[i].on) \subseteq Tables
      BY DEF TablesOf, Tables
    <3>2. \A t \in TablesOf(r[i].on) : Made(t)' \/ Among(Create(t), r, i - 1)
      BY <1>3, <2>1, <2>2, <2>4, <3>1 DEF OrderedAt
    <3>3. r[i].on = 2 => 1 \in versions' \/ Among(Record(1), r, i - 1)
      BY <1>2, <2>1, <2>2, <2>4 DEF OrderedAt, Record
    <3> QED
      BY <2>1, <2>2, <2>4, <3>2, <3>3 DEF OrderedAt, Among
  <2> QED
    BY <2>1, <2>2, <2>3, <2>4 DEF OrderedAt
<1> QED
  BY <1>1, <1>5, <1>6 DEF Ordered, r

\* What the invariant says of one opener.
OpenerOK(p) ==
  /\ opening[p] # "closed" => Made(Version)
  /\ opening[p] = "running" =>
       Ordered(kind[p], statements[p]) /\ Covered(kind[p], statements[p])
  /\ opening[p] = "ready" => \A t \in Needs(kind[p]) : Made(t)
  /\ opening[p] = "refused" => Foreign(p) \/ (kind[p] = "storage" /\ 1 \in versions)

\* A list is as ordered as the one it is equal to.
LEMMA SameList ==
  ASSUME NEW k, NEW q, NEW p, kind'[p] = k, statements'[p] = q
  PROVE  /\ Ordered(k, q)' => Ordered(kind[p], statements[p])'
         /\ Covered(k, q)' => Covered(kind[p], statements[p])'
<1>1. ASSUME Ordered(k, q)'
      PROVE  Ordered(kind[p], statements[p])'
  <2>1. \A i \in 1 .. Len(q) : OrderedAt(k, q, i)'
    BY <1>1 DEF Ordered
  <2>2. ASSUME NEW i \in 1 .. Len(q)
        PROVE  OrderedAt(kind[p], statements[p], i)'
    <3>1. OrderedAt(k, q, i)'
      BY <2>1
    <3> QED
      BY <3>1 DEF OrderedAt, Among
  <2> QED
    BY <2>2 DEF Ordered
<1>2. ASSUME Covered(k, q)'
      PROVE  Covered(kind[p], statements[p])'
  BY <1>2 DEF Covered, Among
<1> QED
  BY <1>1, <1>2

\* A step of one opener leaves the others as they are.
LEMMA OthersUndisturbed ==
  ASSUME MigrationInv, MigrationTypeOK', versions \subseteq versions', UNCHANGED kind,
         \A t \in Tables : Made(t) => columns'[t] = columns[t],
         NEW p \in Openers, OpenerOK(p)',
         \A q \in Openers \ {p} : /\ opening'[q] = opening[q]
                                  /\ statements'[q] = statements[q]
  PROVE  OpenersOK'
<1>1. /\ \A t \in Tables : Made(t) => Made(t)'
      /\ \A q \in Openers : Foreign(q) => Foreign(q)'
      /\ \A k \in Kinds, q \in Seq(Statements) :
           /\ Ordered(k, q) => Ordered(k, q)'
           /\ Covered(k, q) => Covered(k, q)'
  BY GrowthKeeps DEF MigrationInv
<1>2. Version \in Tables /\ \A k \in Kinds : Needs(k) \subseteq Tables
  BY DEF Needs, Tables
<1> SUFFICES ASSUME NEW q \in Openers
    PROVE  OpenerOK(q)'
  BY DEF OpenersOK, OpenerOK
<1>3. CASE q = p
  BY <1>3
<1>4. CASE q # p
  <2>1. /\ opening'[q] = opening[q] /\ statements'[q] = statements[q]
        /\ kind'[q] = kind[q] /\ kind[q] \in Kinds /\ statements[q] \in Seq(Statements)
    BY <1>4 DEF MigrationInv, MigrationTypeOK
  <2>2. OpenerOK(q)
    BY DEF MigrationInv, OpenersOK, OpenerOK
  <2>3. opening[q] = "running" =>
          Ordered(kind[q], statements[q])' /\ Covered(kind[q], statements[q])'
    <3> SUFFICES ASSUME opening[q] = "running"
        PROVE  Ordered(kind[q], statements[q])' /\ Covered(kind[q], statements[q])'
      OBVIOUS
    <3>1. Ordered(kind[q], statements[q]) /\ Covered(kind[q], statements[q])
      BY <2>2 DEF OpenerOK
    <3>2. ASSUME NEW k, NEW l, k = kind[q], l = statements[q]
          PROVE  Ordered(kind[q], statements[q])' /\ Covered(kind[q], statements[q])'
      <4>1. Ordered(k, l) /\ Covered(k, l) /\ k \in Kinds /\ l \in Seq(Statements)
        BY <2>1, <3>1, <3>2
      <4>2. Ordered(k, l)' /\ Covered(k, l)'
        BY <1>1, <4>1
      <4> QED
        BY <2>1, <3>2, <4>2, SameList
    <3> QED
      BY <3>2
  <2> QED
    BY <1>1, <1>2, <2>1, <2>2, <2>3 DEF OpenerOK
<1> QED
  BY <1>3, <1>4

\* To open the file makes the version table, if it is not there.
LEMMA OpenFileKeeps ==
  ASSUME MigrationInv, NEW p \in Openers, OpenFile(p)
  PROVE  MigrationInv'
<1>1. /\ columns' \in [Tables -> Kinds \cup {"none"}] /\ Made(Version)'
      /\ \A u \in Tables : Made(u) => columns'[u] = columns[u]
  <2>1. kind[p] \in Kinds /\ Version \in Tables
    BY DEF MigrationInv, MigrationTypeOK, Tables
  <2> QED
    BY <2>1, CreateKeeps DEF MigrationInv, OpenFile, Made
<1>2. MigrationTypeOK'
  BY <1>1 DEF MigrationInv, MigrationTypeOK, OpenFile
<1>3. VersionsOK'
  <2>1. \A v \in versions : TablesOf(v) \subseteq Tables
    BY DEF TablesOf, Tables
  <2> QED
    BY <1>1, <2>1 DEF MigrationInv, VersionsOK, OpenFile, Made, TablesOf
<1>4. OpenerOK(p)'
  BY <1>1 DEF MigrationInv, MigrationTypeOK, OpenFile, OpenerOK
<1>5. OpenersOK'
  BY <1>1, <1>2, <1>4, OthersUndisturbed DEF MigrationInv, MigrationTypeOK, OpenFile
<1> QED
  BY <1>2, <1>3, <1>5 DEF MigrationInv

\* The version that is read says what has been made and is not planned again.
LEMMA ReadVersionKeeps ==
  ASSUME MigrationInv, NEW p \in Openers, ReadVersion(p)
  PROVE  MigrationInv'
<1>0. kind[p] \in Kinds /\ Made(Version)
  BY DEF MigrationInv, MigrationTypeOK, OpenersOK, ReadVersion
<1> DEFINE plan == Plan(kind[p], Current)
<1>1. plan \in Seq(Statements) /\ Ordered(kind[p], plan) /\ Covered(kind[p], plan)
  BY <1>0, PlanFits DEF MigrationInv
<1> HIDE DEF plan
<1>a. statements' = [statements EXCEPT ![p] = plan]
  BY DEF ReadVersion, plan
<1>2. MigrationTypeOK'
  BY <1>1, <1>a DEF MigrationInv, MigrationTypeOK, ReadVersion
<1>3. VersionsOK'
  BY DEF MigrationInv, VersionsOK, ReadVersion, Made, TablesOf
<1>4. OpenerOK(p)'
  <2>1. statements'[p] = plan /\ opening'[p] = "running" /\ kind' = kind
    BY <1>a DEF MigrationInv, MigrationTypeOK, ReadVersion
  <2>2. Made(Version)'
    BY <1>0 DEF Made, ReadVersion
  <2>3. Ordered(kind[p], statements[p])' /\ Covered(kind[p], statements[p])'
    BY <1>1, <2>1 DEF Ordered, OrderedAt, Covered, Among, Made, ReadVersion
  <2> QED
    BY <2>1, <2>2, <2>3 DEF OpenerOK
<1>5. OpenersOK'
  BY <1>2, <1>4, <1>a, OthersUndisturbed DEF MigrationInv, MigrationTypeOK, ReadVersion
<1> QED
  BY <1>2, <1>3, <1>5 DEF MigrationInv

\* A statement that goes through.
LEMMA StatementRunsKeeps ==
  ASSUME MigrationInv, NEW p \in Openers, RunStatement(p),
         Accepted(kind[p], Head(statements[p]))
  PROVE  MigrationInv'
<1> DEFINE q == statements[p]
           s == q[1]
           k == kind[p]
<1>1. /\ q \in Seq(Statements) /\ q # << >> /\ s \in Statements /\ Head(q) = s
      /\ Tail(q) \in Seq(Statements) /\ k \in Kinds /\ 1 \in 1 .. Len(q)
      /\ opening[p] = "running"
  <2>1. q \in Seq(Statements) /\ q # << >> /\ k \in Kinds /\ opening[p] = "running"
    BY DEF MigrationInv, MigrationTypeOK, RunStatement
  <2>2. Len(q) \in Nat /\ Len(q) # 0
    BY <2>1, EmptySeq, LenProperties
  <2>3. 1 \in 1 .. Len(q)
    BY <2>2
  <2>4. s \in Statements
    BY <2>1, <2>3, ElementOfSeq
  <2> QED
    BY <2>1, <2>3, <2>4, HeadTailProperties
<1>2. /\ Ordered(k, q) /\ Covered(k, q) /\ Made(Version)
  BY <1>1 DEF MigrationInv, OpenersOK
<1>3. OrderedAt(k, q, 1)
  BY <1>1, <1>2 DEF Ordered
<1>4. /\ IF s.do = "create" THEN CreateIfMissing(k, s.on) ELSE UNCHANGED columns
      /\ versions' = IF s.do = "record" THEN versions \cup {s.on} ELSE versions
      /\ statements' = [statements EXCEPT ![p] = Tail(q)]
      /\ UNCHANGED << opening, kind >>
  BY <1>1 DEF RunStatement
<1>a. \A x, n : ~Among(x, q, 1 - 1)
  BY DEF Among
<1>b. Version \in Tables
  BY DEF Tables
<1>c. k' = k
  BY <1>4
<1> HIDE DEF q, s, k
<1>5. /\ columns' \in [Tables -> Kinds \cup {"none"}]
      /\ \A u \in Tables : Made(u) => columns'[u] = columns[u]
      /\ s.do = "create" => columns'[s.on] # "none"
  <2>1. CASE s.do = "create"
    <3>1. s.on \in Tables
      BY <1>1, <2>1 DEF Statements
    <3> QED
      <4>1. CreateIfMissing(k, s.on)
        BY <1>4, <2>1
      <4> QED
        BY <1>1, <2>1, <3>1, <4>1, CreateKeeps DEF MigrationInv
  <2>2. CASE s.do # "create"
    BY <1>4, <2>2 DEF MigrationInv, MigrationTypeOK
  <2> QED
    BY <2>1, <2>2
<1>6. \A u \in Tables : Made(u) => Made(u)'
  BY <1>5 DEF Made
<1>7. versions \subseteq versions' /\ versions' \subseteq {1, 2}
  <2>1. s.do = "record" => s.on \in {1, 2}
    BY <1>1 DEF Statements
  <2> QED
    BY <1>4, <2>1 DEF MigrationInv, MigrationTypeOK
<1>8. MigrationTypeOK'
  BY <1>1, <1>4, <1>5, <1>7 DEF MigrationInv, MigrationTypeOK
<1>9. VersionsOK'
  <2>1. \A v : TablesOf(v) \subseteq Tables
    BY DEF TablesOf, Tables
  <2>2. s.do = "record" => /\ \A t \in TablesOf(s.on) : Made(t)
                           /\ s.on = 2 => 1 \in versions
    BY <1>3, <1>a DEF OrderedAt, s
  <2>3. \A v \in versions' : \A t \in TablesOf(v) : Made(t)
    BY <1>4, <2>2 DEF MigrationInv, VersionsOK
  <2>4. 2 \in versions' => 1 \in versions'
    BY <1>4, <2>2 DEF MigrationInv, VersionsOK
  <2>5. \A v \in versions' : \A t \in TablesOf(v) : Made(t)'
    BY <1>6, <2>1, <2>3
  <2> QED
    BY <2>4, <2>5 DEF VersionsOK, TablesOf
<1>10. OpenerOK(p)'
  <2>1. ASSUME NEW kp, NEW l, kp = k, l = q
        PROVE  Ordered(kind[p], statements[p])' /\ Covered(kind[p], statements[p])'
    <3>1. l[1].do = "create" => Made(l[1].on)'
      BY <1>5, <2>1 DEF s, Made
    <3>2. l[1].do = "record" => l[1].on \in versions'
      BY <1>4, <2>1 DEF s
    <3>3. /\ kp \in Kinds /\ l \in Seq(Statements) /\ l # << >>
          /\ Ordered(kp, l) /\ Covered(kp, l)
      BY <1>1, <1>2, <2>1
    <3>4. Ordered(kp, Tail(l))' /\ Covered(kp, Tail(l))'
      BY <1>6, <1>7, <1>8, <3>1, <3>2, <3>3, TailOrdered DEF MigrationInv
    <3>5. kind'[p] = kp /\ statements'[p] = Tail(l)
      BY <1>4, <2>1 DEF MigrationInv, MigrationTypeOK, k
    <3> QED
      BY <3>4, <3>5, SameList
  <2>2. Ordered(kind[p], statements[p])' /\ Covered(kind[p], statements[p])'
    BY <2>1
  <2>3. opening'[p] = "running"
    BY <1>1, <1>4 DEF MigrationInv, MigrationTypeOK
  <2> QED
    BY <1>2, <1>6, <1>b, <2>2, <2>3 DEF OpenerOK
<1>11. OpenersOK'
  BY <1>4, <1>5, <1>7, <1>8, <1>10, OthersUndisturbed DEF MigrationInv, MigrationTypeOK
<1> QED
  BY <1>8, <1>9, <1>11 DEF MigrationInv

\* A statement that is refused is so because of columns the other kind made, or
\* of a version that was recorded meanwhile.
LEMMA RefusalKeeps ==
  ASSUME MigrationInv, NEW p \in Openers, RunStatement(p),
         ~Accepted(kind[p], Head(statements[p]))
  PROVE  MigrationInv'
<1> DEFINE q == statements[p]
           s == q[1]
           k == kind[p]
<1>1. /\ q \in Seq(Statements) /\ q # << >> /\ s \in Statements /\ Head(q) = s
      /\ k \in Kinds /\ 1 \in 1 .. Len(q) /\ opening[p] = "running"
  <2>1. q \in Seq(Statements) /\ q # << >> /\ k \in Kinds /\ opening[p] = "running"
    BY DEF MigrationInv, MigrationTypeOK, RunStatement
  <2>2. Len(q) \in Nat /\ Len(q) # 0
    BY <2>1, EmptySeq, LenProperties
  <2>3. 1 \in 1 .. Len(q)
    BY <2>2
  <2>4. s \in Statements
    BY <2>1, <2>3, ElementOfSeq
  <2> QED
    BY <2>1, <2>3, <2>4, HeadTailProperties
<1>2. Ordered(k, q) /\ Made(Version)
  BY <1>1 DEF MigrationInv, OpenersOK
<1>3. OrderedAt(k, q, 1)
  BY <1>1, <1>2 DEF Ordered
<1>4. /\ statements' = [statements EXCEPT ![p] = << >>]
      /\ opening' = [opening EXCEPT ![p] = "refused"]
      /\ UNCHANGED << columns, versions, kind >>
  BY DEF RunStatement
<1>a. \A x : ~Among(x, q, 1 - 1)
  BY DEF Among
<1>5. Foreign(p) \/ (k = "storage" /\ 1 \in versions)
  <2>1. CASE s.do = "create"
    BY <1>1, <2>1 DEF Accepted
  <2>2. CASE s.do = "index"
    <3>1. s.on \in Needs(k) /\ Made(s.on)
      BY <1>3, <1>a, <2>2 DEF OrderedAt
    <3>2. columns[s.on] # k
      BY <1>1, <2>2 DEF Accepted
    <3> QED
      BY <3>1, <3>2 DEF Foreign, Made
  <2>3. CASE s.do = "record"
    <3>1. columns[Version] # k \/ (k = "storage" /\ s.on \in versions)
      BY <1>1, <2>3 DEF Accepted
    <3>2. Version \in Needs(k)
      BY DEF Needs
    <3>3. k = "storage" => s.on = 1
      BY <1>3, <2>3 DEF OrderedAt
    <3> QED
      BY <1>2, <3>1, <3>2, <3>3 DEF Foreign, Made
  <2> QED
    BY <1>1, <2>1, <2>2, <2>3 DEF Statements
<1>6. MigrationTypeOK'
  BY <1>4 DEF MigrationInv, MigrationTypeOK
<1>7. VersionsOK'
  BY <1>4 DEF MigrationInv, VersionsOK, Made, TablesOf
<1>8. OpenerOK(p)'
  BY <1>2, <1>4, <1>5 DEF MigrationInv, MigrationTypeOK, OpenerOK, Made, Foreign
<1>9. OpenersOK'
  BY <1>4, <1>6, <1>8, OthersUndisturbed DEF MigrationInv, MigrationTypeOK
<1> QED
  BY <1>6, <1>7, <1>9 DEF MigrationInv

\* An opener with nothing left to run has what it needs.
LEMMA OpenedKeeps ==
  ASSUME MigrationInv, NEW p \in Openers, Opened(p)
  PROVE  MigrationInv'
<1>1. MigrationTypeOK' /\ VersionsOK'
  BY DEF MigrationInv, MigrationTypeOK, VersionsOK, Opened, Made, TablesOf
<1>2. Made(Version) /\ \A t \in Needs(kind[p]) : Made(t)
  BY DEF MigrationInv, OpenersOK, Covered, Among, Opened
<1>3. OpenerOK(p)'
  BY <1>2 DEF MigrationInv, MigrationTypeOK, OpenerOK, Made, Opened
<1>4. OpenersOK'
  BY <1>1, <1>3, OthersUndisturbed DEF MigrationInv, MigrationTypeOK, Opened
<1> QED
  BY <1>1, <1>4 DEF MigrationInv

\* An opener that closes the file, fails or dies has nothing left to run.
LEMMA CloseFileKeeps ==
  ASSUME MigrationInv, NEW p \in Openers, CloseFile(p)
  PROVE  MigrationInv'
<1>1. MigrationTypeOK' /\ VersionsOK'
  BY DEF MigrationInv, MigrationTypeOK, VersionsOK, CloseFile, Made, TablesOf
<1>3. OpenerOK(p)'
  BY DEF MigrationInv, MigrationTypeOK, OpenerOK, CloseFile
<1>4. OpenersOK'
  BY <1>1, <1>3, OthersUndisturbed DEF MigrationInv, MigrationTypeOK, CloseFile
<1> QED
  BY <1>1, <1>4 DEF MigrationInv

\* Every step keeps the invariant.
LEMMA MigrationStep ==
  MigrationInv /\ [MigrationNext]_migrationVars => MigrationInv'
<1> SUFFICES ASSUME MigrationInv, [MigrationNext]_migrationVars
    PROVE  MigrationInv'
  OBVIOUS
<1>1. CASE UNCHANGED migrationVars
  BY <1>1 DEF migrationVars, MigrationInv, MigrationTypeOK, VersionsOK, OpenersOK, Made,
              Foreign, Ordered, OrderedAt, Covered, Among, TablesOf
<1>2. ASSUME NEW p \in Openers, RunStatement(p)
      PROVE  MigrationInv'
  BY <1>2, RefusalKeeps, StatementRunsKeeps
<1> QED
  BY <1>1, <1>2, OpenFileKeeps, ReadVersionKeeps, OpenedKeeps, CloseFileKeeps
  DEF MigrationNext

\* The tables and the versions recorded keep to each other, and so does what each
\* opener has yet to run.
THEOREM MigrationInvariant ==
  MigrationSpec => []MigrationInv
BY MigrationInitially, MigrationStep, PTL DEF MigrationSpec

\* Whoever opens, crashes or retries, in whatever order and number: an opener
\* that reports success has its tables, or the other kind made one of them.
THEOREM OpenMeansServedInvariant ==
  MigrationSpec => []OpenMeansServed
<1>1. MigrationInv => OpenMeansServed
  <2> SUFFICES ASSUME MigrationInv, NEW p \in Openers
      PROVE  /\ opening[p] = "ready" => Served(p) \/ Foreign(p)
             /\ opening[p] = "refused" => Foreign(p) \/ (kind[p] = "storage" /\ 1 \in versions)
    BY DEF OpenMeansServed
  <2> QED
    BY DEF MigrationInv, OpenersOK, Served, Foreign, Made
<1> QED
  BY <1>1, MigrationInvariant, PTL

=============================================================================
