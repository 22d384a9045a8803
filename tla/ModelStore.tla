------------------------------ MODULE ModelStore -----------------------------
(***************************************************************************)
(* The cache of one model identity on disk: ModelStore's status, load,     *)
(* import and delete, the Installer's transaction, the repair journal      *)
(* (marker, staging, backup) they share, the file lock that serialises     *)
(* them, and what killed processes, power losses, failing system calls     *)
(* and decaying files do to it.                                            *)
(*                                                                         *)
(* A directory tree is "none", "partial" (no readable manifest), "corrupt" *)
(* (an artifact does not match the manifest), "written" (complete, its     *)
(* entries not all synced) or "good" (complete and synced).                *)
(*                                                                         *)
(* The file system is a journalling one: a rename is atomic and metadata   *)
(* reaches the disk in order.  `possible` holds the states a power loss    *)
(* may leave behind: all those since the last sync.                        *)
(***************************************************************************)
EXTENDS Naturals

CONSTANTS
    Proc,       \* callers, in any number of processes
    Kinds,      \* the operations they call
    None,       \* nobody holds the exclusive lock
    MaxFaults,  \* system calls that fail
    MaxCrashes, \* power losses
    MaxKills,   \* callers that are killed, or aborted as tasks
    MaxDecays,  \* times an installed file goes bad
    MaxMishaps  \* all of these together

ASSUME StoreAssumption ==
    /\ Kinds \subseteq {"status", "load", "import", "install", "delete"}
    /\ None \notin Proc
    /\ {MaxFaults, MaxCrashes, MaxKills, MaxDecays, MaxMishaps} \subseteq Nat

Tree == {"none", "partial", "corrupt", "written", "good"}
Disk == [final : Tree, staging : Tree, backup : Tree, tombstone : Tree, marker : BOOLEAN]

VARIABLES
    fs,       \* the directories of the identity, as running processes see them
    possible, \* what a power loss may make of them
    owner,    \* who holds the exclusive lock of the identity
    leases,   \* who holds it shared
    call,     \* the operation each caller is in
    promised, \* what the last call that changed the cache and returned Ok said
    budget    \* faults, crashes, kills and decays so far

disk == <<fs, possible>>
locks == <<owner, leases>>
vars == <<fs, possible, owner, leases, call, promised, budget>>

Label ==
    {"idle", "marker", "check", "recheck", "lock", "lease", "verify", "leased", "fail",
     "reconcile", "resume", "replace", "restore", "quarantine", "unmark", "unmarked", "stage", "fill",
     "commit", "manifest", "tree", "mark", "marked", "first", "displace", "swap", "rollback",
     "undo", "promoted", "bury", "target", "entomb", "sweep"}

Call ==
    [kind : Kinds \cup {"status"},
     at : Label,         \* the step it comes to next
     ret : Label,        \* where it goes after reconciling
     renamed : BOOLEAN,  \* between the rename and the syncs of durable_rename
     staged : BOOLEAN,   \* in the part of an import whose failure clears staging
     gate : {"open", "cancelled", "crossed"}]  \* InstallCommitGate

Idle == [kind |-> "status", at |-> "idle", ret |-> "idle", renamed |-> FALSE,
         staged |-> FALSE, gate |-> "open"]

Init ==
    /\ fs = [final |-> "none", staging |-> "none", backup |-> "none",
             tombstone |-> "none", marker |-> FALSE]
    /\ possible = {fs}
    /\ owner = None
    /\ leases = {}
    /\ call = [p \in Proc |-> Idle]
    /\ promised = "nothing"
    /\ budget = [faults |-> 0, crashes |-> 0, kills |-> 0, decays |-> 0]

-----------------------------------------------------------------------------
Exists(tree) == tree # "none"

\* read_contained_manifest finds the manifest of this identity.
Readable(tree) == tree \in {"corrupt", "written", "good"}

\* Every artifact is there with the size and the hash the manifest gives it.
Verified(tree) == Readable(tree) /\ tree # "corrupt"

Spend(what, limit) ==
    /\ budget[what] < limit
    /\ budget.faults + budget.crashes + budget.kills + budget.decays < MaxMishaps
    /\ budget' = [budget EXCEPT ![what] = @ + 1]

\* A system call of p fails, and p goes to its error path.
Fault == Spend("faults", MaxFaults)

At(p, label) == call[p].at = label

Goto(p, label) == call' = [call EXCEPT ![p].at = label]

\* Goto, with a place to return to.
GotoRet(p, label, ret) == call' = [call EXCEPT ![p].at = label, ![p].ret = ret]

\* A change to the directories that no sync has followed yet.
Change(new) == fs' = new /\ possible' = possible \cup {new}

\* A change that ends in the syncs of every directory it touched.
ChangeDurably(new) == fs' = new /\ possible' = {new}

\* sync_directory: everything before it is on disk.
Sync == fs' = fs /\ possible' = {fs}

Leave(p) == call' = [call EXCEPT ![p] = Idle]

\* The caller is done, whatever the outcome; the lock file's handle is closed.
Finish(p) ==
    /\ Leave(p)
    /\ owner' = IF owner = p THEN None ELSE owner

Free == owner = None /\ leases = {}

-----------------------------------------------------------------------------
(* Entering an operation, the lock, and the unlocked looks at the disk.        *)

Enter(p, k) ==
    /\ At(p, "idle")
    /\ call' = [call EXCEPT ![p].kind = k, ![p].ret = "bury",
                            ![p].at = IF k = "delete" THEN "lock" ELSE "marker"]
    /\ UNCHANGED <<disk, locks, promised, budget>>

\* status_with_cancel and verified_model look for a marker without the lock.
LookForMarker(p) ==
    /\ At(p, "marker")
    /\ LET next == IF call[p].kind = "load" THEN "lease" ELSE "check"
       IN  GotoRet(p, IF fs.marker THEN "lock" ELSE next, next)
    /\ UNCHANGED <<disk, locks, promised, budget>>

\* Mutant: no second status under the lock.
CheckOnce(p) ==
    /\ call[p].at \in {"check", "recheck"}
    /\ IF call[p].kind = "status" \/ (At(p, "check") /\ Verified(fs.final))
       THEN Finish(p)
       ELSE /\ IF At(p, "recheck") THEN Goto(p, "stage") ELSE GotoRet(p, "lock", "recheck")
            /\ UNCHANGED owner
    /\ UNCHANGED <<disk, leases, promised, budget>>

\* status_inner, by a caller that holds no lock or the exclusive one.  What is
\* installed already ends an import or an installation.
Check(p) ==
    /\ call[p].at \in {"check", "recheck"}
    /\ IF call[p].kind = "status" \/ Verified(fs.final)
       THEN Finish(p)
       ELSE /\ IF At(p, "recheck") THEN Goto(p, "stage") ELSE GotoRet(p, "lock", "recheck")
            /\ UNCHANGED owner
    /\ UNCHANGED <<disk, leases, promised, budget>>

\* acquire_store_lock, acquire_lock: try_lock_exclusive succeeded.
Lock(p) ==
    /\ At(p, "lock")
    /\ Free
    /\ owner' = p
    /\ Goto(p, "reconcile")
    /\ UNCHANGED <<disk, leases, promised, budget>>

\* The wait limit passes (Error::Busy), or an installation sees its cancellation
\* while it waits.
LockRefused(p) ==
    /\ At(p, "lock") /\ call[p].kind # "delete"
    /\ ~Free \/ call[p].gate = "cancelled"
    /\ Finish(p)
    /\ UNCHANGED <<disk, leases, promised, budget>>

\* acquire_delete_lock does not wait for a holder (Error::InUse).
DeleteRefused(p) ==
    /\ At(p, "lock") /\ call[p].kind = "delete"
    /\ ~Free
    /\ Finish(p)
    /\ UNCHANGED <<disk, leases, promised, budget>>

\* acquire_shared_store_lock, then the second look for a marker.
Lease(p) ==
    /\ At(p, "lease")
    /\ owner = None
    /\ leases' = leases \cup {p}
    /\ Goto(p, "verify")
    /\ UNCHANGED <<disk, owner, promised, budget>>

LeaseRefused(p) ==
    /\ At(p, "lease")
    /\ owner # None
    /\ Leave(p)
    /\ UNCHANGED <<disk, locks, promised, budget>>

\* Mutant: no second look for a marker once the lease is held.
VerifyOnce(p) ==
    /\ At(p, "verify")
    /\ CASE Verified(fs.final) -> Goto(p, "leased") /\ UNCHANGED leases
         [] OTHER -> Leave(p) /\ leases' = leases \ {p}
    /\ UNCHANGED <<disk, owner, promised, budget>>

Verify(p) ==
    /\ At(p, "verify")
    /\ CASE fs.marker -> Goto(p, "marker") /\ leases' = leases \ {p}
         [] ~fs.marker /\ Verified(fs.final) -> Goto(p, "leased") /\ UNCHANGED leases
         [] OTHER -> Leave(p) /\ leases' = leases \ {p}
    /\ UNCHANGED <<disk, owner, promised, budget>>

\* The last VerifiedModel of a load is dropped.
DropLease(p) ==
    /\ At(p, "leased")
    /\ leases' = leases \ {p}
    /\ Leave(p)
    /\ UNCHANGED <<disk, owner, promised, budget>>

-----------------------------------------------------------------------------
(* The repair journal.                                                         *)

\* Any error below: the caller returns it.  An import clears its staging first,
\* and that removal may stop half way without anybody noticing.
Fail(p) ==
    /\ At(p, "fail")
    /\ IF call[p].kind = "import" /\ call[p].staged /\ Exists(fs.staging)
       THEN \E left \in {"none", "partial"} : Change([fs EXCEPT !.staging = left])
       ELSE UNCHANGED disk
    /\ Finish(p)
    /\ UNCHANGED <<leases, promised, budget>>

Moved(from, to) ==
    IF to = "quarantine" THEN [fs EXCEPT ![from] = "none"]
    ELSE [fs EXCEPT ![from] = "none", ![to] = fs[from]]

\* A rename needs its source, and does not replace a directory with entries.
CanRename(from, to) == Exists(fs[from]) /\ (to \in DOMAIN fs => ~Exists(fs[to]))

\* durable_rename: the syncs before the rename and the rename itself, then the
\* syncs after it.  An error of the latter leaves the rename done.
DurableRename(p, label, from, to, ok, error) ==
    /\ At(p, label)
    /\ \/ /\ ~call[p].renamed /\ CanRename(from, to)
          /\ fs' = Moved(from, to)
          /\ possible' = {fs, Moved(from, to)}
          /\ call' = [call EXCEPT ![p].renamed = TRUE]
          /\ UNCHANGED budget
       \/ /\ ~call[p].renamed
          /\ IF CanRename(from, to) THEN Fault ELSE UNCHANGED budget
          /\ Goto(p, error)
          /\ UNCHANGED disk
       \/ /\ call[p].renamed
          /\ Sync
          /\ call' = [call EXCEPT ![p].renamed = FALSE, ![p].at = ok]
          /\ UNCHANGED budget
       \/ /\ call[p].renamed /\ Fault
          /\ call' = [call EXCEPT ![p].renamed = FALSE, ![p].at = error]
          /\ UNCHANGED disk

\* Back from reconciling: to the caller's next step, without the lock if it was
\* taken only for this.
Return(p) ==
    /\ Goto(p, call[p].ret)
    /\ owner' = IF call[p].ret \in {"check", "lease"} THEN None ELSE owner

\* reconcile_repair_with_operations: what is there decides what is left to do.
Reconcile(p) ==
    /\ At(p, "reconcile")
    /\ IF ~fs.marker
       THEN Return(p)
       ELSE /\ Goto(p, LET final == Exists(fs.final)
                           staging == Exists(fs.staging)
                           backup == Exists(fs.backup)
                       IN  CASE final /\ staging /\ ~backup -> "resume"
                             [] ~final /\ staging /\ backup -> "replace"
                             [] ~final /\ ~staging /\ backup -> "restore"
                             [] final /\ (backup \/ ~staging) -> "quarantine"
                             [] OTHER -> "fail")
            /\ UNCHANGED owner
    /\ UNCHANGED <<disk, leases, promised, budget>>

ReconcileRename(p) ==
    /\ \/ DurableRename(p, "resume", "final", "backup", "replace", "fail")
       \/ DurableRename(p, "replace", "staging", "final", "quarantine", "fail")
       \/ DurableRename(p, "restore", "backup", "final", "quarantine", "fail")
    /\ UNCHANGED <<locks, promised>>

\* quarantine_backup_with_operations, shared with promote_with_operations.
Quarantine(p) ==
    /\ \/ /\ Exists(fs.backup) \/ call[p].renamed
          /\ DurableRename(p, "quarantine", "backup", "quarantine", "unmark", "fail")
       \/ /\ At(p, "quarantine") /\ ~call[p].renamed /\ ~Exists(fs.backup)
          /\ Goto(p, "unmark")
          /\ UNCHANGED <<disk, budget>>
    /\ UNCHANGED <<locks, promised>>

\* remove_file(marker)
Unmark(p) ==
    /\ At(p, "unmark")
    /\ \/ Change([fs EXCEPT !.marker = FALSE]) /\ Goto(p, "unmarked") /\ UNCHANGED budget
       \/ Fault /\ Goto(p, "fail") /\ UNCHANGED disk
    /\ UNCHANGED <<locks, promised>>

\* sync_dir(transaction_root)
Unmarked(p) ==
    /\ At(p, "unmarked")
    /\ \/ Sync /\ Return(p) /\ UNCHANGED budget
       \/ Fault /\ Goto(p, "fail") /\ UNCHANGED <<disk, owner>>
    /\ UNCHANGED <<leases, promised>>

-----------------------------------------------------------------------------
(* Importing and installing.                                                   *)

\* prepare_staging: an empty staging directory, everything before it synced.
Stage(p) ==
    /\ At(p, "stage")
    /\ \/ /\ ChangeDurably([fs EXCEPT !.staging = "partial"])
          /\ call' = [call EXCEPT ![p].staged = TRUE, ![p].at = "fill"]
          /\ UNCHANGED budget
       \/ /\ Fault
          /\ \E left \in {fs.staging, "none", "partial"} : Change([fs EXCEPT !.staging = left])
          /\ Goto(p, "fail")
    /\ UNCHANGED <<locks, promised>>

\* Every artifact is copied and authenticated twice, or one is not.
Copy(p) ==
    /\ At(p, "fill") /\ call[p].kind = "import"
    /\ \/ Goto(p, "manifest") /\ UNCHANGED budget
       \/ Goto(p, "fail") /\ Fault
    /\ UNCHANGED <<disk, locks, promised>>

\* Every artifact is downloaded and authenticated, or one is not.
Download(p) ==
    /\ At(p, "fill") /\ call[p].kind = "install"
    /\ \/ Goto(p, "commit") /\ UNCHANGED budget
       \/ Goto(p, "fail") /\ Fault
    /\ UNCHANGED <<disk, locks, promised>>

\* begin_commit, the last thing that cancellation can stop.
Commit(p) ==
    /\ At(p, "commit")
    /\ IF call[p].gate = "open"
       THEN call' = [call EXCEPT ![p].gate = "crossed", ![p].at = "manifest"]
       ELSE Goto(p, "fail")
    /\ UNCHANGED <<disk, locks, promised, budget>>

\* The manifest goes into staging, and promote begins by reconciling.
Manifest(p) ==
    /\ At(p, "manifest")
    /\ \/ /\ Change([fs EXCEPT !.staging = "written"])
          /\ GotoRet(p, "reconcile", "tree")
          /\ UNCHANGED budget
       \/ Fault /\ Goto(p, "fail") /\ UNCHANGED disk
    /\ UNCHANGED <<locks, promised>>

\* Mutant: the entries of the staged tree are not synced.
SyncTreeSkipped(p) ==
    /\ At(p, "tree")
    /\ \/ /\ Sync
          /\ GotoRet(p, IF Exists(fs.final) THEN "mark" ELSE "first", "promoted")
          /\ UNCHANGED budget
       \/ Fault /\ Goto(p, "fail") /\ UNCHANGED disk
    /\ UNCHANGED <<locks, promised>>

\* sync_staged_tree_with_operations, and the choice of promote_with_operations.
SyncTree(p) ==
    /\ At(p, "tree")
    /\ \/ /\ ChangeDurably([fs EXCEPT !.staging = "good"])
          /\ GotoRet(p, IF Exists(fs.final) THEN "mark" ELSE "first", "promoted")
          /\ UNCHANGED budget
       \/ Fault /\ Goto(p, "fail") /\ UNCHANGED disk
    /\ UNCHANGED <<locks, promised>>

\* The durable marker; an error leaves it behind or not.
Mark(p) ==
    /\ At(p, "mark")
    /\ \/ /\ ~Exists(fs.backup) /\ ~fs.marker
          /\ Change([fs EXCEPT !.marker = TRUE])
          /\ Goto(p, "marked")
       \/ /\ Exists(fs.backup) \/ fs.marker
          /\ Goto(p, "fail")
          /\ UNCHANGED disk
    /\ UNCHANGED <<locks, promised, budget>>

Marked(p) ==
    /\ At(p, "marked")
    /\ \/ Sync /\ Goto(p, "displace") /\ UNCHANGED budget
       \/ Fault /\ Goto(p, "fail") /\ UNCHANGED disk
    /\ UNCHANGED <<locks, promised>>

\* A rename into or out of the installed place makes an older promise void.
Voids(promise) == promised' = IF fs'.final # fs.final /\ promised = promise
                              THEN "nothing" ELSE promised

\* Mutant: the backup is quarantined though the replacement is not in place.
PromoteRenameOnwards(p) ==
    /\ \/ DurableRename(p, "first", "staging", "final", "promoted", "fail")
       \/ DurableRename(p, "displace", "final", "backup", "swap", "undo")
       \/ DurableRename(p, "swap", "staging", "final", "quarantine", "quarantine")
       \/ DurableRename(p, "rollback", "backup", "final", "undo", "fail")
    /\ Voids("deleted")
    /\ UNCHANGED locks

PromoteRename(p) ==
    /\ \/ DurableRename(p, "first", "staging", "final", "promoted", "fail")
       \/ DurableRename(p, "displace", "final", "backup", "swap", "undo")
       \/ DurableRename(p, "swap", "staging", "final", "quarantine", "rollback")
       \/ DurableRename(p, "rollback", "backup", "final", "undo", "fail")
    /\ Voids("deleted")
    /\ UNCHANGED locks

\* After a failed displacement or a successful rollback: the previous tree is
\* in place, so the marker goes; otherwise it stays for a later call.
Undo(p) ==
    /\ At(p, "undo")
    /\ LET unmarked == [fs EXCEPT !.marker = FALSE]
       IN  \/ Exists(fs.final) /\ ChangeDurably(unmarked) /\ UNCHANGED budget
           \/ Exists(fs.final) /\ Fault /\ (Change(unmarked) \/ UNCHANGED disk)
           \/ ~Exists(fs.final) /\ UNCHANGED <<disk, budget>>
    /\ Goto(p, "fail")
    /\ UNCHANGED <<locks, promised>>

\* promote returned Ok.  The installer drops its lock, an import keeps it; both
\* end with a status that cannot be cancelled.
Promoted(p) ==
    /\ At(p, "promoted")
    /\ promised' = "installed"
    /\ owner' = IF call[p].kind = "install" THEN None ELSE owner
    /\ call' = [call EXCEPT ![p] = [Idle EXCEPT !.at = "marker"]]
    /\ UNCHANGED <<disk, leases, budget>>

\* request_cancel: the lifecycle owner of an installation gives it up.
RequestCancel(p) ==
    /\ call[p].kind = "install" /\ call[p].at # "idle" /\ call[p].gate = "open"
    /\ call' = [call EXCEPT ![p].gate = "cancelled"]
    /\ UNCHANGED <<disk, locks, promised, budget>>

\* is_cancelled, where the transaction looks at its token.
SeeCancel(p) ==
    /\ call[p].kind = "install" /\ call[p].gate = "cancelled"
    /\ call[p].at \in {"marker", "check", "fill"}
    /\ Goto(p, "fail")
    /\ UNCHANGED <<disk, locks, promised, budget>>

-----------------------------------------------------------------------------
(* Deleting.                                                                   *)

\* The syncs of the transaction root, and remove_deletion_tombstone for what an
\* interrupted deletion left.
Bury(p) ==
    /\ At(p, "bury")
    /\ \/ /\ ChangeDurably([fs EXCEPT !.tombstone = "none"])
          /\ Goto(p, "target")
          /\ UNCHANGED budget
       \/ /\ Fault
          /\ \E left \in {"none", "partial", fs.tombstone} :
                /\ Exists(fs.tombstone) \/ left = "none"
                /\ Change([fs EXCEPT !.tombstone = left])
          /\ Goto(p, "fail")
    /\ UNCHANGED <<locks, promised>>

\* A tree without a readable manifest of this identity is not deleted.
Target(p) ==
    /\ At(p, "target")
    /\ CASE fs.final = "none" -> Finish(p) /\ promised' = "deleted"
         [] fs.final # "none" /\ ~Readable(fs.final) -> Goto(p, "fail") /\ UNCHANGED <<owner, promised>>
         [] OTHER -> Goto(p, "entomb") /\ UNCHANGED <<owner, promised>>
    /\ UNCHANGED <<disk, leases, budget>>

Entomb(p) ==
    /\ DurableRename(p, "entomb", "final", "tombstone", "sweep", "fail")
    /\ Voids("installed")
    /\ UNCHANGED locks

\* remove_deletion_tombstone for this deletion.
Sweep(p) ==
    /\ At(p, "sweep")
    /\ \/ /\ ChangeDurably([fs EXCEPT !.tombstone = "none"])
          /\ Finish(p)
          /\ promised' = "deleted"
          /\ UNCHANGED budget
       \/ /\ Fault
          /\ \E left \in {"none", "partial", fs.tombstone} :
                Change([fs EXCEPT !.tombstone = left])
          /\ Goto(p, "fail")
          /\ UNCHANGED <<owner, promised>>
    /\ UNCHANGED leases

-----------------------------------------------------------------------------
(* What happens to the callers and to the disk.                                *)

\* A process is killed, or the task of an installation aborted: its handles are
\* closed and the directories stay as they are.
Kill(p) ==
    /\ call[p].at # "idle"
    /\ Spend("kills", MaxKills)
    /\ Finish(p)
    /\ leases' = leases \ {p}
    /\ UNCHANGED <<disk, promised>>

\* A tree whose entries were not synced may lose some of them.
Survives(tree) == IF tree = "written" THEN {"good", "partial"} ELSE {tree}

PowerLoss ==
    /\ Spend("crashes", MaxCrashes)
    /\ \E s \in possible :
        \E t \in [final : Survives(s.final), staging : Survives(s.staging),
                  backup : Survives(s.backup), tombstone : Survives(s.tombstone),
                  marker : {s.marker}] :
            ChangeDurably(t)
    /\ owner' = None
    /\ leases' = {}
    /\ call' = [p \in Proc |-> Idle]
    /\ UNCHANGED promised

\* A file of a model at rest goes bad: an artifact, or the manifest.
Decay ==
    /\ owner = None
    /\ Spend("decays", MaxDecays)
    /\ Verified(fs.final)
    /\ \E bad \in {"corrupt", "partial"} :
        /\ fs' = [fs EXCEPT !.final = bad]
        /\ possible' = {[s EXCEPT !.final = IF Verified(@) THEN bad ELSE @] : s \in possible}
    /\ promised' = IF promised = "installed" THEN "nothing" ELSE promised
    /\ UNCHANGED <<locks, call>>

Step(p) ==
    \/ LookForMarker(p) \/ Check(p) \/ Lock(p) \/ LockRefused(p) \/ DeleteRefused(p)
    \/ Lease(p) \/ LeaseRefused(p) \/ Verify(p)
    \/ Fail(p) \/ Reconcile(p) \/ ReconcileRename(p) \/ Quarantine(p) \/ Unmark(p) \/ Unmarked(p)
    \/ Stage(p) \/ Copy(p) \/ Download(p) \/ Commit(p) \/ Manifest(p) \/ SyncTree(p)
    \/ Mark(p) \/ Marked(p) \/ PromoteRename(p) \/ Undo(p) \/ Promoted(p)
    \/ SeeCancel(p) \/ Bury(p) \/ Target(p) \/ Entomb(p) \/ Sweep(p)

Next ==
    \/ \E p \in Proc :
        \/ Step(p) \/ DropLease(p) \/ RequestCancel(p) \/ Kill(p)
        \/ \E k \in Kinds : Enter(p, k)
    \/ PowerLoss
    \/ Decay

Spec == Init /\ [][Next]_vars

-----------------------------------------------------------------------------
\* What reconciling makes of a disk that nobody is working on.
Recovered(s) ==
    CASE s.marker /\ Exists(s.staging) /\ Exists(s.final) # Exists(s.backup) -> s.staging
      [] s.marker /\ ~Exists(s.final) /\ ~Exists(s.staging) -> s.backup
      [] OTHER -> s.final

\* The types of the variables; and a caller outside the locked part of an
\* operation never holds the exclusive lock.
TypeOK ==
    /\ fs \in possible /\ possible \subseteq Disk
    /\ owner \in Proc \cup {None} /\ leases \subseteq Proc
    /\ call \in [Proc -> Call]
    /\ promised \in {"nothing", "installed", "deleted"}
    /\ owner # None => call[owner].at \notin {"idle", "lock", "lease", "verify", "leased"}
    /\ owner # None => leases = {}

\* "After it is granted, no legitimate promotion can begin": while a loaded model
\* holds its shared lease, no repair is open and its directory stays in place.
LeasePinsFinal ==
    \A p \in Proc : At(p, "leased") => ~fs.marker /\ Exists(fs.final)

\* reconcile_repair never meets a transaction it "cannot reconcile safely": with
\* a marker on the disk, whatever the crash, one of the trees it needs is there.
RepairIsRecoverable ==
    TypeOK /\ \A s \in possible : s.marker => Exists(s.final) \/ Exists(s.backup)

\* What a caller was told of the model stays so.  Once an import or an installation
\* has promoted its tree and returned, no kill, power loss or later reconciliation
\* takes the model away: only a deletion, or decay, does.  Once a deletion has
\* returned, the model is gone on every disk a crash may leave, and no repair record
\* recreates it.
PromiseIsDurable ==
    \A s \in possible :
        /\ promised = "installed" => Recovered(s) = "good"
        /\ promised = "deleted" => Recovered(s) = "none"

\* What is verified in place is moved away by a deletion only: a repair displaces
\* what is broken and never a tree that another caller has completed.
OnlyDeletionDisplaces ==
    [][(Verified(fs.final) /\ ~Exists(fs'.final) /\ budget'.crashes = budget.crashes)
          => (\E p \in Proc : At(p, "entomb"))]_vars
=============================================================================
