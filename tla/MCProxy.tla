------------------------------- MODULE MCProxy -------------------------------
(***************************************************************************)
(* The components that share no state with one another, in one model: the   *)
(* scene says which of them moves, the others stay where they begin. Since  *)
(* no step of one reads or writes a variable of another, and the properties *)
(* are invariants of one component each, nothing is lost by that. (Rms and  *)
(* OwnershipStore both extend OwnerMap: two scenes with the same owners. In  *)
(* that of Rms the server with a storage never starts.)                     *)
(***************************************************************************)
EXTENDS Rms, OwnershipStore, WebhookIntake, FileHosting, SplitText, TaskLocks,
        Migrations

CONSTANTS
  Set, Route, Cli, \* the callers of RMS
  Empty, Full      \* the shards of the registry

VARIABLE scene

Scenes == {"rms", "store", "intake", "hosting", "split", "locks", "schema"}

\* One caller makes every call, one races it with a set, and rms-cli imports
\* and syncs from outside.
AllFromOne ==
  ({Set} \X {"set", "import", "remove", "refresh", "clear", "sync", "status"})
    \cup {<< Route, "set" >>} \cup ({Cli} \X {"import", "sync"})

\* One webhook request of two events.
TwoEvents == [b \in Batches |-> << "first", "second" >>]

\* All clients in one of two shards, as their hashes may have it: the iterator
\* passes the empty one first.
InFull == [k \in Peers |-> Full]

EmptyFirst == << Empty, Full >>

\* Clients, peers, files, webhook tasks and openers are interchangeable; two of
\* each, by the same two names, so that there is one permutation to try on a state.
Alike == Permutations(Clients \cup Peers \cup Files \cup WebhookTasks \cup Openers)

ProxyInit ==
  /\ scene \in Scenes
  /\ RmsInit
  /\ StoreInit
  /\ HostingInit
  /\ LockInit
  /\ MigrationInit
  /\ scene # "schema" => kind = [p \in Openers |-> "storage"]
  /\ SplitInit
  /\ scene # "split" => source = << >>
  /\ IntakeInit
  /\ scene # "intake" =>
       /\ config.dedup /\ config.redeliveries
       /\ nature = [e \in Events |-> "message"]

ProxyNext ==
  /\ UNCHANGED scene
  /\ \/ /\ scene = "rms"
        /\ RmsNext
        /\ UNCHANGED << storeVars, intakeVars, hostingVars, splitVars, lockVars, migrationVars >>
     \/ /\ scene = "store"
        /\ StoreNext
        /\ UNCHANGED << rmsVars, intakeVars, hostingVars, splitVars, lockVars, migrationVars >>
     \/ /\ scene = "intake"
        /\ IntakeNext
        /\ UNCHANGED << ownVars, rmsVars, storeVars, hostingVars, splitVars, lockVars, migrationVars >>
     \/ /\ scene = "hosting"
        /\ HostingNext
        /\ UNCHANGED << ownVars, rmsVars, storeVars, intakeVars, splitVars, lockVars, migrationVars >>
     \/ /\ scene = "split"
        /\ SplitNext
        /\ UNCHANGED << ownVars, rmsVars, storeVars, intakeVars, hostingVars, lockVars, migrationVars >>
     \/ /\ scene = "locks"
        /\ LockNext
        /\ UNCHANGED << ownVars, rmsVars, storeVars, intakeVars, hostingVars, splitVars,
                        migrationVars >>
     \/ /\ scene = "schema"
        /\ MigrationNext
        /\ UNCHANGED << ownVars, rmsVars, storeVars, intakeVars, hostingVars, splitVars, lockVars >>

ProxySpec ==
  ProxyInit /\ [][ProxyNext]_<< scene, ownVars, rmsVars, storeVars, intakeVars,
                                hostingVars, splitVars, lockVars, migrationVars >>

=============================================================================
