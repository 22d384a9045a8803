--------------------------- MODULE InstallProofs ---------------------------
(***************************************************************************)
(* Proofs about the cache: the store on disk, and the installs that change *)
(* it.                                                                     *)
(*                                                                         *)
(* ModelStore, for any set of callers and any number of faults, kills,     *)
(* power losses and decays: what a repair marker, a lease and a returned   *)
(* call mean for the disk.  The exclusive lock makes the disk the business *)
(* of one caller at a time, so the invariant has two halves.  StateInv     *)
(* says what every disk has in common that a power loss may leave.  Own(p) *)
(* says what p's position implies: about p, about the lock and, while p    *)
(* holds it, about the disk.  A step of p keeps StateInv, re-establishes   *)
(* Own(p), and changes nothing that Own(q) of another caller speaks of.    *)
(*                                                                         *)
(* InstallLifecycle, for any disjoint sets of installs, other operations   *)
(* and shutdown calls.  It implements WorkAdmission, so the theorems of    *)
(* WorkAdmissionProofs, taken as the instance AP, speak of the permits of  *)
(* installs and of the flight that waits for them.  GateInv                *)
(* says where an install is with its commit gate, FenceInv that no install *)
(* behind a shutdown's fence finds its gate open.                          *)
(***************************************************************************)
EXTENDS ModelStore, FiniteSets, TLAPS

Budget == [faults : Nat, crashes : Nat, kills : Nat, decays : Nat]

Types ==
    /\ fs \in possible /\ possible \subseteq Disk
    /\ owner \in Proc \cup {None} /\ leases \subseteq Proc
    /\ owner # None => leases = {}
    /\ call \in [Proc -> Call]
    /\ promised \in {"nothing", "installed", "deleted"}
    /\ budget \in Budget

\* A marker stands for a repair: one of the two places has a tree, and as long as the
\* replacement is still in staging, what is in them is broken.
DiskInv ==
    \A s \in possible :
        /\ s.marker => Exists(s.final) \/ Exists(s.backup)
        /\ s.marker /\ Exists(s.staging) => ~Verified(s.final) /\ ~Verified(s.backup)

\* As long as a promise stands, no disk has a repair on it.
PromiseInv ==
    \A s \in possible :
        /\ promised = "installed" => ~s.marker /\ s.final = "good"
        /\ promised = "deleted" => ~s.marker /\ s.final = "none"

StateInv == Types /\ DiskInv /\ PromiseInv

\* What a caller's position says of the caller and of the locks.
CallerInv(p) ==
    LET c == call[p] IN
    /\ c.at \notin {"idle", "marker", "check", "lock", "lease", "verify", "leased", "fail"} => owner = p
    /\ c.at \in {"idle", "lock", "lease", "verify", "leased"} => owner # p
    /\ c.at \in {"verify", "leased"} => p \in leases
    /\ c.staged =>
           /\ owner = p
           /\ c.at \notin {"marker", "check"}
           /\ c.ret \notin {"check", "lease", "bury"}
    /\ c.renamed => c.at \in {"resume", "replace", "restore", "quarantine", "first", "displace",
                              "swap", "rollback", "entomb"}
    /\ c.at \in {"lock", "reconcile", "resume", "replace", "restore", "quarantine", "unmark", "unmarked"} =>
           \/ c.ret \in {"bury", "check", "lease", "recheck"}
           \/ c.ret = "tree" /\ c.at = "reconcile"
           \/ c.ret = "promoted" /\ c.at \in {"quarantine", "unmark", "unmarked"}
    /\ c.at \in {"first", "mark", "marked", "displace", "swap", "rollback", "undo"} => c.ret = "promoted"

\* What the position of the caller that holds the lock says of the disk: whether a
\* repair is open, which tree is broken and which one is complete.
PlaceInv(c) ==
    /\ c.at \in {"resume", "replace", "restore", "quarantine", "unmark", "marked", "displace",
                 "swap", "rollback", "undo"} => fs.marker
    /\ c.at \in {"marker", "check", "unmarked", "recheck", "stage", "fill", "commit", "manifest", "tree",
                 "mark", "first", "promoted", "bury", "target", "entomb", "sweep"} => ~fs.marker
    /\ c.at \in {"marker", "check"} => c.kind = "status"
    /\ c.at = "reconcile" /\ c.ret = "tree" => ~fs.marker /\ ~Verified(fs.final)
    /\ c.at \in {"stage", "fill", "commit", "manifest", "tree", "mark", "marked"} => ~Verified(fs.final)
    /\ c.at \in {"mark", "marked", "displace"} => fs.staging = "good"
    /\ c.at = "mark" => Exists(fs.final)
    /\ c.at = "displace" /\ ~c.renamed => ~Verified(fs.final)
    /\ c.at \in {"first", "swap"} => IF c.renamed THEN fs.final = "good" ELSE fs.staging = "good"
    /\ c.at = "first" /\ ~c.renamed => ~Exists(fs.final)
    /\ c.at = "resume" => Exists(fs.staging)
    /\ c.at = "restore" => ~Exists(fs.staging)
    /\ c.at \in {"replace", "restore"} /\ c.renamed => Exists(fs.final)
    /\ c.at = "quarantine" => Exists(fs.final)
    /\ c.at \in {"quarantine", "unmark", "unmarked"} /\ c.ret = "promoted" => fs.final = "good"
    /\ c.at = "promoted" => fs.final = "good"
    /\ c.at \in {"promoted", "target"} => possible = {fs}
    /\ c.at = "entomb" /\ c.renamed => ~Exists(fs.final)
    /\ c.at = "sweep" => ~Exists(fs.final)

Own(p) ==
    /\ CallerInv(p)
    /\ owner = p => PlaceInv(call[p])
    /\ At(p, "leased") => ~fs.marker /\ Exists(fs.final)

StoreInv == StateInv /\ \A p \in Proc : Own(p)

\* What a step of p leaves alone.
Others(p) ==
    /\ \A q \in Proc \ {p} : /\ call'[q] = call[q]
                             /\ owner' = q <=> owner = q
                             /\ q \in leases' <=> q \in leases
    /\ owner = p \/ UNCHANGED disk

Kept(p) == StateInv' /\ Own(p)' /\ Others(p)

-----------------------------------------------------------------------------
(* The operators that the actions are made of.                                 *)

\* Goto, GotoRet, Leave and durable_rename keep the calls well-formed.
LEMMA CallTypes ==
    ASSUME call \in [Proc -> Call], NEW p \in Proc, NEW at \in Label, NEW ret \in Label
    PROVE  /\ Goto(p, at) => call' \in [Proc -> Call]
           /\ GotoRet(p, at, ret) => call' \in [Proc -> Call]
           /\ Leave(p) => call' \in [Proc -> Call]
           /\ [call EXCEPT ![p].renamed = TRUE] \in [Proc -> Call]
           /\ [call EXCEPT ![p].renamed = FALSE, ![p].at = at] \in [Proc -> Call]
<1>1. /\ [call[p] EXCEPT !.at = at] \in Call
      /\ [call[p] EXCEPT !.at = at, !.ret = ret] \in Call
      /\ [call[p] EXCEPT !.renamed = TRUE] \in Call
      /\ [call[p] EXCEPT !.renamed = FALSE, !.at = at] \in Call
  BY Zenon DEF Call
<1>2. Idle \in Call
  BY Zenon DEF Idle, Call, Label
<1>3. \A c \in Call : [call EXCEPT ![p] = c] \in [Proc -> Call]
  BY Zenon
<1> QED
  BY <1>1, <1>2, <1>3, Zenon DEF Goto, GotoRet, Leave

\* Only a fault, a kill, a power loss or a decay is counted.
LEMMA BudgetTypes ==
    ASSUME budget \in Budget
    PROVE  /\ Fault => budget' \in Budget
           /\ \A limit : Spend("kills", limit) => budget' \in Budget
           /\ \A limit : Spend("decays", limit) => budget' \in Budget
           /\ \A limit : Spend("crashes", limit) => budget' \in Budget
                                                    /\ budget'.crashes # budget.crashes
BY DEF Budget, Fault, Spend

\* durable_rename keeps the types.
LEMMA RenameTypes ==
    ASSUME Types, NEW p \in Proc,
           NEW from \in {"final", "staging", "backup"},
           NEW to \in {"final", "backup", "tombstone", "quarantine"},
           NEW label, NEW ok \in Label, NEW error \in Label,
           DurableRename(p, label, from, to, ok, error)
    PROVE  /\ fs' \in possible' /\ possible' \subseteq Disk
           /\ call' \in [Proc -> Call]
           /\ budget' \in Budget
<1>1. fs \in Disk /\ Moved(from, to) \in Disk
  BY Zenon DEF Types, Moved, Disk, Tree
<1>2. fs' \in possible' /\ possible' \subseteq Disk
  BY <1>1, Zenon DEF Types, DurableRename, Sync, disk
<1>3. call' \in [Proc -> Call]
  <2>1. /\ Goto(p, error) => call' \in [Proc -> Call]
        /\ [call EXCEPT ![p].renamed = TRUE] \in [Proc -> Call]
        /\ [call EXCEPT ![p].renamed = FALSE, ![p].at = ok] \in [Proc -> Call]
        /\ [call EXCEPT ![p].renamed = FALSE, ![p].at = error] \in [Proc -> Call]
    BY CallTypes, Zenon DEF Types
  <2> QED
    BY <2>1, Zenon DEF DurableRename
<1>4. budget' \in Budget
  BY BudgetTypes, Zenon DEF Types, DurableRename
<1> QED
  BY <1>2, <1>3, <1>4, Zenon

\* A caller that has left its operation has no lock and no place to answer for.
LEMMA LeaveOwn ==
    ASSUME StateInv, NEW p \in Proc, Leave(p), owner' # p
    PROVE  Own(p)'
BY Zenon DEF StateInv, Types, Leave, Idle, Own, CallerInv, At

\* What Own of another caller speaks of does not change.
LEMMA OthersOwn ==
    ASSUME StoreInv, NEW p \in Proc, Kept(p)
    PROVE  StoreInv'
<1> SUFFICES ASSUME NEW q \in Proc, q # p
             PROVE  Own(q)'
  BY Zenon DEF Kept, StoreInv
<1>1. /\ call'[q] = call[q]
      /\ owner' = q <=> owner = q
      /\ q \in leases' <=> q \in leases
      /\ Own(q)
  BY Zenon DEF Kept, Others, StoreInv
<1>2. CallerInv(q)'
  BY <1>1, Zenon DEF Own, CallerInv
<1>3. owner' = q => PlaceInv(call[q])'
  BY <1>1, ZenonT(30) DEF Kept, Others, Own, PlaceInv, disk
<1>4. At(q, "leased")' => ~fs'.marker /\ Exists(fs'.final)
  <2> SUFFICES ASSUME At(q, "leased")
               PROVE  UNCHANGED fs
    BY <1>1, Zenon DEF Own, At
  <2>1. q \in leases
    BY <1>1, Zenon DEF Own, CallerInv, At
  <2>2. owner = None
    BY <2>1, Zenon DEF StoreInv, StateInv, Types
  <2> QED
    BY <2>2, StoreAssumption, Zenon DEF Kept, Others, disk
<1> QED
  BY <1>2, <1>3, <1>4, Zenon DEF Own

-----------------------------------------------------------------------------
(* One lemma for each action.                                                  *)

\* A call begins.
LEMMA EnterKept ==
    ASSUME StateInv, NEW p \in Proc, Own(p), NEW k \in Kinds, Enter(p, k)
    PROVE  Kept(p)
<1>1. call[p] \in Call /\ fs \in Disk /\ None \notin Proc
  BY StoreAssumption, Zenon DEF StateInv, Types
<1>3. Types'
  <2>1. call' \in [Proc -> Call]
    BY <1>1 DEF Enter, At, disk, locks, StateInv, Types, Call, Label
  <2> QED
    BY <1>1, <2>1, Zenon DEF Enter, At, disk, locks, StateInv, Types
<1>4. Others(p)
  BY <1>1, Zenon DEF Enter, At, disk, locks, Others, StateInv, Types
<1>5. DiskInv' /\ PromiseInv'
  BY Zenon DEF Enter, disk, StateInv, DiskInv, PromiseInv
<1>6. Own(p)'
  BY <1>1 DEF Enter, At, disk, locks, StateInv, Own, CallerInv, PlaceInv, Types,
              Disk, Call, Exists, Verified, Readable
<1> QED
  BY <1>3, <1>4, <1>5, <1>6, Zenon DEF Kept, StateInv

\* status_with_cancel, verified_model: the unlocked look for a marker.
LEMMA LookForMarkerKept ==
    ASSUME StateInv, NEW p \in Proc, Own(p), LookForMarker(p)
    PROVE  Kept(p)
<1>1. call[p] \in Call /\ fs \in Disk /\ None \notin Proc
  BY StoreAssumption, Zenon DEF StateInv, Types
<1>3. Types'
  <2>1. call' \in [Proc -> Call]
    BY <1>1, CallTypes, ZenonT(30) DEF LookForMarker, At, disk, locks, StateInv, Types,
                           CallerInv, Own, Label
  <2> QED
    BY <1>1, <2>1, Zenon DEF LookForMarker, At, disk, locks, StateInv, Types
<1>4. Others(p)
  BY <1>1, Zenon DEF LookForMarker, At, GotoRet, disk, locks, Others, StateInv, Types
<1>5. DiskInv' /\ PromiseInv'
  BY Zenon DEF LookForMarker, disk, StateInv, DiskInv, PromiseInv
<1>6. Own(p)'
  BY <1>1 DEF LookForMarker, At, GotoRet, disk, locks, StateInv, Own, CallerInv,
              PlaceInv, Types, Disk, Call, Exists, Verified, Readable
<1> QED
  BY <1>3, <1>4, <1>5, <1>6, Zenon DEF Kept, StateInv

\* status_inner.  Under the lock it finds the installed tree broken before a repair
\* begins.
LEMMA CheckKept ==
    ASSUME StateInv, NEW p \in Proc, Own(p), Check(p)
    PROVE  Kept(p)
<1>1. call[p] \in Call /\ fs \in Disk /\ None \notin Proc
  BY StoreAssumption, Zenon DEF StateInv, Types
<1>3. Types'
  <2>1. call' \in [Proc -> Call]
    BY <1>1, CallTypes, ZenonT(30) DEF Check, Finish, At, disk, StateInv, Types, CallerInv, Own,
                           Label
  <2> QED
    BY <1>1, <2>1, Zenon DEF Check, Finish, At, disk, StateInv, Types
<1>4. Others(p)
  BY <1>1, Zenon DEF Check, Finish, At, Goto, GotoRet, disk, Leave, Idle, Others, StateInv,
              Types
<1>5. DiskInv' /\ PromiseInv'
  BY Zenon DEF Check, disk, StateInv, DiskInv, PromiseInv
<1>6. Own(p)'
  BY <1>1 DEF Check, Finish, At, Goto, GotoRet, disk, Leave, Idle, StateInv, Own,
              CallerInv, PlaceInv, Types, Disk, Call, Exists, Verified, Readable
<1> QED
  BY <1>3, <1>4, <1>5, <1>6, Zenon DEF Kept, StateInv

\* The exclusive lock is granted while nobody has it in either mode.
LEMMA LockKept ==
    ASSUME StateInv, NEW p \in Proc, Own(p), Lock(p)
    PROVE  Kept(p)
<1>1. call[p] \in Call /\ fs \in Disk /\ None \notin Proc
  BY StoreAssumption, Zenon DEF StateInv, Types
<1>3. Types'
  <2>1. call' \in [Proc -> Call]
    BY <1>1, Zenon DEF Lock, At, Free, Goto, disk, StateInv, Types, Call, Label
  <2> QED
    BY <1>1, <2>1, Zenon DEF Lock, At, Free, disk, StateInv, Types
<1>4. Others(p)
  BY <1>1, Zenon DEF Lock, At, Free, Goto, disk, Others, StateInv, Types
<1>5. DiskInv' /\ PromiseInv'
  BY Zenon DEF Lock, disk, StateInv, DiskInv, PromiseInv
<1>6. Own(p)'
  BY <1>1 DEF Lock, At, Free, Goto, disk, StateInv, Own, CallerInv, PlaceInv, Types,
              Disk, Call, Exists, Verified, Readable
<1> QED
  BY <1>3, <1>4, <1>5, <1>6, Zenon DEF Kept, StateInv

\* Busy.
LEMMA LockRefusedKept ==
    ASSUME StateInv, NEW p \in Proc, Own(p), LockRefused(p)
    PROVE  Kept(p)
<1>1. call[p] \in Call /\ fs \in Disk /\ None \notin Proc
  BY StoreAssumption, Zenon DEF StateInv, Types
<1>3. Types'
  <2>1. call' \in [Proc -> Call]
    BY <1>1, Zenon DEF LockRefused, At, Free, Finish, disk, Leave, Idle, StateInv, Types,
                Call, Label
  <2> QED
    BY <1>1, <2>1, Zenon DEF LockRefused, At, Free, Finish, disk, StateInv, Types
<1>4. Others(p)
  BY <1>1, Zenon DEF LockRefused, At, Free, Finish, disk, Leave, Idle, Others, StateInv,
              Types
<1>5. DiskInv' /\ PromiseInv'
  BY Zenon DEF LockRefused, disk, StateInv, DiskInv, PromiseInv
<1>6. Own(p)'
  BY <1>1, LeaveOwn, Zenon DEF LockRefused, At, Finish, StateInv, Types, Own, CallerInv
<1> QED
  BY <1>3, <1>4, <1>5, <1>6, Zenon DEF Kept, StateInv

\* InUse.
LEMMA DeleteRefusedKept ==
    ASSUME StateInv, NEW p \in Proc, Own(p), DeleteRefused(p)
    PROVE  Kept(p)
<1>1. call[p] \in Call /\ fs \in Disk /\ None \notin Proc
  BY StoreAssumption, Zenon DEF StateInv, Types
<1>3. Types'
  <2>1. call' \in [Proc -> Call]
    BY <1>1, Zenon DEF DeleteRefused, At, Free, Finish, disk, Leave, Idle, StateInv, Types,
                Call, Label
  <2> QED
    BY <1>1, <2>1, Zenon DEF DeleteRefused, At, Free, Finish, disk, StateInv, Types
<1>4. Others(p)
  BY <1>1, Zenon DEF DeleteRefused, At, Free, Finish, disk, Leave, Idle, Others, StateInv,
              Types
<1>5. DiskInv' /\ PromiseInv'
  BY Zenon DEF DeleteRefused, disk, StateInv, DiskInv, PromiseInv
<1>6. Own(p)'
  BY <1>1, LeaveOwn, Zenon DEF DeleteRefused, At, Finish, StateInv, Types, Own, CallerInv
<1> QED
  BY <1>3, <1>4, <1>5, <1>6, Zenon DEF Kept, StateInv

\* The shared lock is granted while nobody has the exclusive one.
LEMMA LeaseKept ==
    ASSUME StateInv, NEW p \in Proc, Own(p), Lease(p)
    PROVE  Kept(p)
<1>1. call[p] \in Call /\ fs \in Disk /\ None \notin Proc
  BY StoreAssumption, Zenon DEF StateInv, Types
<1>3. Types'
  <2>1. call' \in [Proc -> Call]
    BY <1>1, ZenonT(30) DEF Lease, At, Goto, disk, StateInv, Types, Call, Label
  <2> QED
    BY <1>1, <2>1, Zenon DEF Lease, At, disk, StateInv, Types
<1>4. Others(p)
  BY <1>1, Zenon DEF Lease, At, Goto, disk, Others, StateInv, Types
<1>5. DiskInv' /\ PromiseInv'
  BY Zenon DEF Lease, disk, StateInv, DiskInv, PromiseInv
<1>6. Own(p)'
  BY <1>1, ZenonT(30) DEF Lease, At, Goto, disk, StateInv, Own, CallerInv, PlaceInv, Types,
              Disk, Call, Exists, Verified, Readable
<1> QED
  BY <1>3, <1>4, <1>5, <1>6, Zenon DEF Kept, StateInv

\* A load that meets the exclusive lock.
LEMMA LeaseRefusedKept ==
    ASSUME StateInv, NEW p \in Proc, Own(p), LeaseRefused(p)
    PROVE  Kept(p)
<1>1. call[p] \in Call /\ fs \in Disk /\ None \notin Proc
  BY StoreAssumption, Zenon DEF StateInv, Types
<1>3. Types'
  <2>1. call' \in [Proc -> Call]
    BY <1>1, Zenon DEF LeaseRefused, At, Leave, disk, locks, Idle, StateInv, Types, Call,
                Label
  <2> QED
    BY <1>1, <2>1, Zenon DEF LeaseRefused, At, disk, locks, StateInv, Types
<1>4. Others(p)
  BY <1>1, Zenon DEF LeaseRefused, At, Leave, disk, locks, Idle, Others, StateInv, Types
<1>5. DiskInv' /\ PromiseInv'
  BY Zenon DEF LeaseRefused, disk, StateInv, DiskInv, PromiseInv
<1>6. Own(p)'
  BY <1>1, LeaveOwn, Zenon DEF LeaseRefused, At, locks, StateInv, Types, Own, CallerInv
<1> QED
  BY <1>3, <1>4, <1>5, <1>6, Zenon DEF Kept, StateInv

\* The second look for a marker, and what it is good for.
LEMMA VerifyKept ==
    ASSUME StateInv, NEW p \in Proc, Own(p), Verify(p)
    PROVE  Kept(p)
<1>1. call[p] \in Call /\ fs \in Disk /\ None \notin Proc
  BY StoreAssumption, Zenon DEF StateInv, Types
<1>3. Types'
  <2>1. call' \in [Proc -> Call]
    BY <1>1, CallTypes, ZenonT(30) DEF Verify, At, disk, StateInv, Types, CallerInv, Own, Label
  <2> QED
    BY <1>1, <2>1, Zenon DEF Verify, At, disk, StateInv, Types
<1>4. Others(p)
  BY <1>1, Zenon DEF Verify, At, Goto, Leave, disk, Idle, Others, StateInv, Types
<1>5. DiskInv' /\ PromiseInv'
  BY Zenon DEF Verify, disk, StateInv, DiskInv, PromiseInv
<1>6. Own(p)'
  BY <1>1 DEF Verify, At, Goto, Leave, disk, Idle, StateInv, Own, CallerInv,
              PlaceInv, Types, Disk, Call, Exists, Verified, Readable
<1> QED
  BY <1>3, <1>4, <1>5, <1>6, Zenon DEF Kept, StateInv

\* A loaded model is dropped.
LEMMA DropLeaseKept ==
    ASSUME StateInv, NEW p \in Proc, Own(p), DropLease(p)
    PROVE  Kept(p)
<1>1. call[p] \in Call /\ fs \in Disk /\ None \notin Proc
  BY StoreAssumption, Zenon DEF StateInv, Types
<1>3. Types'
  <2>1. call' \in [Proc -> Call]
    BY <1>1, Zenon DEF DropLease, At, Leave, disk, Idle, StateInv, Types, Call, Label
  <2> QED
    BY <1>1, <2>1, Zenon DEF DropLease, At, disk, StateInv, Types
<1>4. Others(p)
  BY <1>1, Zenon DEF DropLease, At, Leave, disk, Idle, Others, StateInv, Types
<1>5. DiskInv' /\ PromiseInv'
  BY Zenon DEF DropLease, disk, StateInv, DiskInv, PromiseInv
<1>6. Own(p)'
  BY <1>1, LeaveOwn, Zenon DEF DropLease, At, StateInv, Types, Own, CallerInv
<1> QED
  BY <1>3, <1>4, <1>5, <1>6, Zenon DEF Kept, StateInv

\* request_cancel.
LEMMA RequestCancelKept ==
    ASSUME StateInv, NEW p \in Proc, Own(p), RequestCancel(p)
    PROVE  Kept(p)
<1>1. call[p] \in Call /\ fs \in Disk /\ None \notin Proc
  BY StoreAssumption, Zenon DEF StateInv, Types
<1>3. Types'
  <2>1. call' \in [Proc -> Call]
    BY <1>1, Zenon DEF RequestCancel, disk, locks, StateInv, Types, Call, Label
  <2> QED
    BY <1>1, <2>1, Zenon DEF RequestCancel, disk, locks, StateInv, Types
<1>4. Others(p)
  BY <1>1, Zenon DEF RequestCancel, disk, locks, Others, StateInv, Types
<1>5. DiskInv' /\ PromiseInv'
  BY Zenon DEF RequestCancel, disk, StateInv, DiskInv, PromiseInv
<1>6. Own(p)'
  <2>1. /\ call'[p].kind = call[p].kind /\ call'[p].at = call[p].at /\ call'[p].ret = call[p].ret
        /\ call'[p].renamed = call[p].renamed /\ call'[p].staged = call[p].staged
    BY <1>1, Zenon DEF RequestCancel, StateInv, Types, Call
  <2> QED
    BY <2>1 DEF RequestCancel, Own, CallerInv, PlaceInv, At, disk, locks
<1> QED
  BY <1>3, <1>4, <1>5, <1>6, Zenon DEF Kept, StateInv

\* is_cancelled.
LEMMA SeeCancelKept ==
    ASSUME StateInv, NEW p \in Proc, Own(p), SeeCancel(p)
    PROVE  Kept(p)
<1>1. call[p] \in Call /\ fs \in Disk /\ None \notin Proc
  BY StoreAssumption, Zenon DEF StateInv, Types
<1>3. Types'
  <2>1. call' \in [Proc -> Call]
    BY <1>1, Zenon DEF SeeCancel, Goto, disk, locks, StateInv, Types, Call, Label
  <2> QED
    BY <1>1, <2>1, Zenon DEF SeeCancel, disk, locks, StateInv, Types
<1>4. Others(p)
  BY <1>1, Zenon DEF SeeCancel, Goto, disk, locks, Others, StateInv, Types
<1>5. DiskInv' /\ PromiseInv'
  BY Zenon DEF SeeCancel, disk, StateInv, DiskInv, PromiseInv
<1>6. Own(p)'
  <2>1. /\ call'[p].at = "fail" /\ call'[p].ret = call[p].ret
        /\ call'[p].renamed = call[p].renamed /\ call'[p].staged = call[p].staged
    BY <1>1, Zenon DEF SeeCancel, Goto, StateInv, Types, Call
  <2>2. ~call[p].renamed
    BY Zenon DEF SeeCancel, Own, CallerInv
  <2> QED
    BY <2>1, <2>2, Zenon DEF SeeCancel, Own, CallerInv, PlaceInv, At, disk, locks
<1> QED
  BY <1>3, <1>4, <1>5, <1>6, Zenon DEF Kept, StateInv

\* A killed caller.
LEMMA KillKept ==
    ASSUME StateInv, NEW p \in Proc, Own(p), Kill(p)
    PROVE  Kept(p)
<1>1. call[p] \in Call /\ fs \in Disk /\ None \notin Proc
  BY StoreAssumption, Zenon DEF StateInv, Types
<1>3. Types'
  <2>1. call' \in [Proc -> Call]
    BY <1>1, Zenon DEF Kill, Finish, disk, Leave, Idle, StateInv, Types, Call, Label
  <2>3. budget' \in Budget
    BY BudgetTypes, Zenon DEF Kill, disk, StateInv, Types
  <2> QED
    BY <1>1, <2>1, <2>3, Zenon DEF Kill, Finish, disk, StateInv, Types
<1>4. Others(p)
  BY <1>1, Zenon DEF Kill, Finish, disk, Leave, Idle, Others, StateInv, Types
<1>5. DiskInv' /\ PromiseInv'
  BY Zenon DEF Kill, disk, StateInv, DiskInv, PromiseInv
<1>6. Own(p)'
  BY <1>1, LeaveOwn, Zenon DEF Kill, Finish, StateInv, Types, Own, CallerInv
<1> QED
  BY <1>3, <1>4, <1>5, <1>6, Zenon DEF Kept, StateInv

\* The error path: only an import that holds the lock clears its staging.
LEMMA FailKept ==
    ASSUME StateInv, NEW p \in Proc, Own(p), Fail(p)
    PROVE  Kept(p)
<1>1. call[p] \in Call /\ fs \in Disk /\ None \notin Proc
  BY StoreAssumption, Zenon DEF StateInv, Types
<1>2. owner # p => UNCHANGED disk
  BY Zenon DEF Fail, At, Change, disk, Finish, Leave, Idle, Own, CallerInv
<1>3. Types'
  <2>1. call' \in [Proc -> Call]
    BY <1>1, Zenon DEF Fail, At, Change, disk, Finish, Leave, Idle, StateInv, Types, Call,
                Label
  <2>2. fs' \in possible' /\ possible' \subseteq Disk
    BY <1>1 DEF Fail, At, Change, disk, Finish, StateInv, Types, Disk, Tree
  <2> QED
    BY <1>1, <1>2, <2>1, <2>2, Zenon DEF Fail, At, Finish, StateInv, Types
<1>4. Others(p)
  BY <1>1, <1>2, Zenon DEF Fail, At, Change, disk, Finish, Leave, Idle, Others, StateInv,
                    Types
<1>5. DiskInv'
  BY <1>1, <1>2 DEF Fail, At, Change, disk, Finish, Leave, Idle, StateInv, DiskInv,
                    Own, PlaceInv, Types, Disk, Tree, Exists, Verified, Readable
<1>6. PromiseInv'
  BY <1>1, <1>2 DEF Fail, At, Change, disk, Finish, Leave, Idle, StateInv,
                    PromiseInv, Own, PlaceInv, Types, Disk, Tree, Exists, Verified,
                    Readable
<1>7. Own(p)'
  BY <1>1, LeaveOwn, Zenon DEF Fail, At, Finish, StateInv, Types, Own, CallerInv
<1> QED
  BY <1>3, <1>4, <1>5, <1>6, <1>7, Zenon DEF Kept, StateInv

\* reconcile_repair: what is on the disk decides the next step.
LEMMA ReconcileKept ==
    ASSUME StateInv, NEW p \in Proc, Own(p), Reconcile(p)
    PROVE  Kept(p)
<1>1. call[p] \in Call /\ fs \in Disk /\ None \notin Proc
  BY StoreAssumption, Zenon DEF StateInv, Types
<1>2. owner = p
  BY Zenon DEF At, Reconcile, Own, CallerInv
<1>3. Types'
  <2>1. call' \in [Proc -> Call]
    <3>1. call[p].ret \in Label
      BY <1>1, Zenon DEF Call
    <3>2. \E label \in Label : Goto(p, label)
      BY <3>1, Zenon DEF Reconcile, Return, Label
    <3> QED
      BY <3>1, <3>2, CallTypes, Zenon DEF StateInv, Types
  <2> QED
    BY <1>1, <1>2, <2>1, Zenon DEF Reconcile, Return, disk, StateInv, Types
<1>4. Others(p)
  BY <1>1, <1>2, Zenon DEF Reconcile, At, Return, Goto, disk, Others, StateInv, Types
<1>5. DiskInv' /\ PromiseInv'
  BY Zenon DEF Reconcile, disk, StateInv, DiskInv, PromiseInv
<1>6. Own(p)'
  BY <1>1, <1>2 DEF Reconcile, At, Return, Goto, disk, StateInv, Own, CallerInv,
                    PlaceInv, Types, Disk, Call, Exists, Verified, Readable
<1> QED
  BY <1>3, <1>4, <1>5, <1>6, Zenon DEF Kept, StateInv

\* The renames of reconcile_repair.
LEMMA ReconcileRenameKept ==
    ASSUME StateInv, NEW p \in Proc, Own(p), ReconcileRename(p)
    PROVE  Kept(p)
<1>1. call[p] \in Call /\ fs \in Disk /\ None \notin Proc
  BY StoreAssumption, Zenon DEF StateInv, Types
<1>2. owner = p
  BY Zenon DEF At, DurableRename, ReconcileRename, Own, CallerInv
<1>3. Types'
  <2>1. Types /\ {"replace", "quarantine", "fail"} \subseteq Label
    BY Zenon DEF StateInv, Label
  <2>2. /\ call' \in [Proc -> Call] /\ budget' \in Budget
        /\ fs' \in possible' /\ possible' \subseteq Disk
    BY <2>1, RenameTypes, Zenon DEF ReconcileRename
  <2> QED
    BY <2>1, <2>2, Zenon DEF ReconcileRename, locks, Types
<1>4. Others(p)
  BY <1>1, <1>2, Zenon DEF ReconcileRename, DurableRename, locks, At, CanRename, Moved,
                    Goto, disk, Sync, Others, StateInv, Types
<1>5. DiskInv'
  BY <1>1, <1>2 DEF ReconcileRename, DurableRename, locks, At, CanRename, Moved,
                    Goto, disk, Sync, StateInv, DiskInv, Own, PlaceInv, Types, Disk,
                    Tree, Exists, Verified, Readable
<1>6. PromiseInv'
  BY <1>1, <1>2, Zenon DEF ReconcileRename, DurableRename, locks, At, CanRename, Moved,
                    Goto, disk, Sync, StateInv, PromiseInv, Own, PlaceInv, Types,
                    Disk, Tree, Exists, Verified, Readable
<1>7. Own(p)'
  <2>1. CASE DurableRename(p, "resume", "final", "backup", "replace", "fail")
    BY <1>1, <1>2, <2>1 DEF ReconcileRename, DurableRename, At, Goto, Moved, CanRename, Sync, disk,
                         locks, StateInv, Own, CallerInv, PlaceInv, Types, Disk, Call, Exists
  <2>2. CASE DurableRename(p, "replace", "staging", "final", "quarantine", "fail")
    BY <1>1, <1>2, <2>2 DEF ReconcileRename, DurableRename, At, Goto, Moved, CanRename, Sync, disk,
                         locks, StateInv, Own, CallerInv, PlaceInv, Types, Disk, Call, Exists
  <2>3. CASE DurableRename(p, "restore", "backup", "final", "quarantine", "fail")
    BY <1>1, <1>2, <2>3 DEF ReconcileRename, DurableRename, At, Goto, Moved, CanRename, Sync, disk,
                         locks, StateInv, Own, CallerInv, PlaceInv, Types, Disk, Call, Exists
  <2> QED
    BY <2>1, <2>2, <2>3, Zenon DEF ReconcileRename
<1> QED
  BY <1>3, <1>4, <1>5, <1>6, <1>7, Zenon DEF Kept, StateInv

\* The backup goes once the installed place has a tree.
LEMMA QuarantineKept ==
    ASSUME StateInv, NEW p \in Proc, Own(p), Quarantine(p)
    PROVE  Kept(p)
<1>1. call[p] \in Call /\ fs \in Disk /\ None \notin Proc
  BY StoreAssumption, Zenon DEF StateInv, Types
<1>2. owner = p
  BY Zenon DEF At, DurableRename, Quarantine, Own, CallerInv
<1>3. Types'
  <2>1. Types /\ {"unmark", "fail"} \subseteq Label
    BY Zenon DEF StateInv, Label
  <2>2. /\ call' \in [Proc -> Call] /\ budget' \in Budget
        /\ fs' \in possible' /\ possible' \subseteq Disk
    <3>1. CASE DurableRename(p, "quarantine", "backup", "quarantine", "unmark", "fail")
      BY <2>1, <3>1, RenameTypes, Zenon
    <3>2. CASE Goto(p, "unmark") /\ UNCHANGED <<disk, budget>>
      BY <2>1, <3>2, CallTypes, Zenon DEF Types, disk
    <3> QED
      BY <3>1, <3>2, Zenon DEF Quarantine
  <2> QED
    BY <2>1, <2>2, Zenon DEF Quarantine, locks, Types
<1>4. Others(p)
  BY <1>1, <1>2, Zenon DEF Quarantine, DurableRename, At, Goto, disk, locks, CanRename,
                    Moved, Sync, Others, StateInv, Types
<1>5. DiskInv'
  BY <1>1, <1>2 DEF Quarantine, DurableRename, At, Goto, disk, locks, CanRename,
                    Moved, Sync, StateInv, DiskInv, Own, PlaceInv, Types, Disk,
                    Tree, Exists, Verified, Readable
<1>6. PromiseInv'
  BY <1>1, <1>2, Zenon DEF Quarantine, DurableRename, At, Goto, disk, locks, CanRename,
                    Moved, Sync, StateInv, PromiseInv, Own, PlaceInv, Types, Disk,
                    Tree, Exists, Verified, Readable
<1>7. Own(p)'
  BY <1>1, <1>2 DEF Quarantine, DurableRename, At, Goto, disk, locks, CanRename,
                    Moved, Sync, StateInv, Own, CallerInv, PlaceInv, Types, Disk,
                    Call, Exists, Verified, Readable
<1> QED
  BY <1>3, <1>4, <1>5, <1>6, <1>7, Zenon DEF Kept, StateInv

\* The marker goes.
LEMMA UnmarkKept ==
    ASSUME StateInv, NEW p \in Proc, Own(p), Unmark(p)
    PROVE  Kept(p)
<1>1. call[p] \in Call /\ fs \in Disk /\ None \notin Proc
  BY StoreAssumption, Zenon DEF StateInv, Types
<1>2. owner = p
  BY Zenon DEF At, Unmark, Own, CallerInv
<1>3. Types'
  <2>1. call' \in [Proc -> Call]
    BY <1>1 DEF Unmark, At, Change, Goto, disk, locks, StateInv, Types, Call, Label
  <2>2. fs' \in possible' /\ possible' \subseteq Disk
    BY <1>1, Zenon DEF Unmark, At, Change, disk, locks, StateInv, Types, Disk, Tree
  <2>3. budget' \in Budget
    BY BudgetTypes, Zenon DEF Unmark, disk, locks, StateInv, Types
  <2> QED
    BY <1>1, <1>2, <2>1, <2>2, <2>3, Zenon DEF Unmark, At, locks, StateInv, Types
<1>4. Others(p)
  BY <1>1, <1>2, Zenon DEF Unmark, At, Change, Goto, disk, locks, Others, StateInv, Types
<1>5. DiskInv'
  BY <1>1, <1>2 DEF Unmark, At, Change, Goto, disk, locks, StateInv, DiskInv, Own,
                    PlaceInv, Types, Disk, Tree, Exists, Verified, Readable
<1>6. PromiseInv'
  BY <1>1, <1>2, Zenon DEF Unmark, At, Change, Goto, disk, locks, StateInv, PromiseInv,
                    Own, PlaceInv, Types, Disk, Tree, Exists, Verified, Readable
<1>7. Own(p)'
  BY <1>1, <1>2 DEF Unmark, At, Change, Goto, disk, locks, StateInv, Own, CallerInv,
                    PlaceInv, Types, Disk, Call, Exists, Verified, Readable
<1> QED
  BY <1>3, <1>4, <1>5, <1>6, <1>7, Zenon DEF Kept, StateInv

\* Its removal is synced.
LEMMA UnmarkedKept ==
    ASSUME StateInv, NEW p \in Proc, Own(p), Unmarked(p)
    PROVE  Kept(p)
<1>1. call[p] \in Call /\ fs \in Disk /\ None \notin Proc
  BY StoreAssumption, Zenon DEF StateInv, Types
<1>2. owner = p
  BY Zenon DEF At, Unmarked, Own, CallerInv
<1>3. Types'
  <2>1. call' \in [Proc -> Call]
    BY <1>1 DEF Unmarked, At, Sync, Return, Goto, disk, StateInv, Types, Call, Label
  <2>2. fs' \in possible' /\ possible' \subseteq Disk
    BY <1>1, Zenon DEF Unmarked, At, Sync, Return, disk, StateInv, Types, Disk, Tree
  <2>3. budget' \in Budget
    BY BudgetTypes, Zenon DEF Unmarked, disk, StateInv, Types
  <2> QED
    BY <1>1, <1>2, <2>1, <2>2, <2>3, Zenon DEF Unmarked, At, Return, StateInv, Types
<1>4. Others(p)
  BY <1>1, <1>2, Zenon DEF Unmarked, At, Sync, Return, Goto, disk, Others, StateInv, Types
<1>5. DiskInv'
  BY <1>1, <1>2, ZenonT(30) DEF Unmarked, At, Sync, Return, Goto, disk, StateInv, DiskInv, Own,
                    PlaceInv, Types, Disk, Tree, Exists, Verified, Readable
<1>6. PromiseInv'
  BY <1>1, <1>2, ZenonT(30) DEF Unmarked, At, Sync, Return, Goto, disk, StateInv, PromiseInv,
                    Own, PlaceInv, Types, Disk, Tree, Exists, Verified, Readable
<1>7. Own(p)'
  BY <1>1, <1>2 DEF Unmarked, At, Sync, Return, Goto, disk, StateInv, Own,
                    CallerInv, PlaceInv, Types, Disk, Call, Exists, Verified,
                    Readable
<1> QED
  BY <1>3, <1>4, <1>5, <1>6, <1>7, Zenon DEF Kept, StateInv

\* prepare_staging.
LEMMA StageKept ==
    ASSUME StateInv, NEW p \in Proc, Own(p), Stage(p)
    PROVE  Kept(p)
<1>1. call[p] \in Call /\ fs \in Disk /\ None \notin Proc
  BY StoreAssumption, Zenon DEF StateInv, Types
<1>2. owner = p
  BY Zenon DEF At, Stage, Own, CallerInv
<1>3. Types'
  <2>1. call' \in [Proc -> Call]
    BY <1>1 DEF Stage, At, ChangeDurably, Change, Goto, locks, StateInv, Types,
                Call, Label
  <2>2. fs' \in possible' /\ possible' \subseteq Disk
    BY <1>1 DEF Stage, At, ChangeDurably, Change, locks, StateInv, Types, Disk, Tree
  <2>3. budget' \in Budget
    BY BudgetTypes, Zenon DEF Stage, locks, StateInv, Types
  <2> QED
    BY <1>1, <1>2, <2>1, <2>2, <2>3, Zenon DEF Stage, At, locks, StateInv, Types
<1>4. Others(p)
  BY <1>1, <1>2, Zenon DEF Stage, At, ChangeDurably, Change, Goto, locks, Others, StateInv,
                    Types
<1>5. DiskInv'
  BY <1>1, <1>2 DEF Stage, At, ChangeDurably, Change, Goto, locks, StateInv,
                    DiskInv, Own, PlaceInv, Types, Disk, Tree, Exists, Verified,
                    Readable
<1>6. PromiseInv'
  BY <1>1, <1>2 DEF Stage, At, ChangeDurably, Change, Goto, locks, StateInv,
                    PromiseInv, Own, PlaceInv, Types, Disk, Tree, Exists, Verified,
                    Readable
<1>7. Own(p)'
  BY <1>1, <1>2 DEF Stage, At, ChangeDurably, Change, Goto, locks, StateInv, Own,
                    CallerInv, PlaceInv, Types, Disk, Call, Exists, Verified,
                    Readable
<1> QED
  BY <1>3, <1>4, <1>5, <1>6, <1>7, Zenon DEF Kept, StateInv

\* import fills the staging.
LEMMA CopyKept ==
    ASSUME StateInv, NEW p \in Proc, Own(p), Copy(p)
    PROVE  Kept(p)
<1>1. call[p] \in Call /\ fs \in Disk /\ None \notin Proc
  BY StoreAssumption, Zenon DEF StateInv, Types
<1>2. owner = p
  BY Zenon DEF At, Copy, Own, CallerInv
<1>3. Types'
  <2>1. call' \in [Proc -> Call]
    BY <1>1 DEF Copy, At, Goto, disk, locks, StateInv, Types, Call, Label
  <2>3. budget' \in Budget
    BY BudgetTypes, Zenon DEF Copy, disk, locks, StateInv, Types
  <2> QED
    BY <1>1, <1>2, <2>1, <2>3, Zenon DEF Copy, At, disk, locks, StateInv, Types
<1>4. Others(p)
  BY <1>1, <1>2, Zenon DEF Copy, At, Goto, disk, locks, Others, StateInv, Types
<1>5. DiskInv' /\ PromiseInv'
  BY Zenon DEF Copy, disk, StateInv, DiskInv, PromiseInv
<1>6. Own(p)'
  BY <1>1, <1>2 DEF Copy, At, Goto, disk, locks, StateInv, Own, CallerInv, PlaceInv,
                    Types, Disk, Call, Exists, Verified, Readable
<1> QED
  BY <1>3, <1>4, <1>5, <1>6, Zenon DEF Kept, StateInv

\* install fills the staging.
LEMMA DownloadKept ==
    ASSUME StateInv, NEW p \in Proc, Own(p), Download(p)
    PROVE  Kept(p)
<1>1. call[p] \in Call /\ fs \in Disk /\ None \notin Proc
  BY StoreAssumption, Zenon DEF StateInv, Types
<1>2. owner = p
  BY Zenon DEF At, Download, Own, CallerInv
<1>3. Types'
  <2>1. call' \in [Proc -> Call]
    BY <1>1 DEF Download, At, Goto, disk, locks, StateInv, Types, Call, Label
  <2>3. budget' \in Budget
    BY BudgetTypes, Zenon DEF Download, disk, locks, StateInv, Types
  <2> QED
    BY <1>1, <1>2, <2>1, <2>3, Zenon DEF Download, At, disk, locks, StateInv, Types
<1>4. Others(p)
  BY <1>1, <1>2, Zenon DEF Download, At, Goto, disk, locks, Others, StateInv, Types
<1>5. DiskInv' /\ PromiseInv'
  BY Zenon DEF Download, disk, StateInv, DiskInv, PromiseInv
<1>6. Own(p)'
  BY <1>1, <1>2 DEF Download, At, Goto, disk, locks, StateInv, Own, CallerInv,
                    PlaceInv, Types, Disk, Call, Exists, Verified, Readable
<1> QED
  BY <1>3, <1>4, <1>5, <1>6, Zenon DEF Kept, StateInv

\* begin_commit.
LEMMA CommitKept ==
    ASSUME StateInv, NEW p \in Proc, Own(p), Commit(p)
    PROVE  Kept(p)
<1>1. call[p] \in Call /\ fs \in Disk /\ None \notin Proc
  BY StoreAssumption, Zenon DEF StateInv, Types
<1>2. owner = p
  BY Zenon DEF At, Commit, Own, CallerInv
<1>3. Types'
  <2>1. call' \in [Proc -> Call]
    BY <1>1 DEF Commit, At, Goto, disk, locks, StateInv, Types, Call, Label
  <2> QED
    BY <1>1, <1>2, <2>1, Zenon DEF Commit, At, disk, locks, StateInv, Types
<1>4. Others(p)
  BY <1>1, <1>2, Zenon DEF Commit, At, Goto, disk, locks, Others, StateInv, Types
<1>5. DiskInv' /\ PromiseInv'
  BY Zenon DEF Commit, disk, StateInv, DiskInv, PromiseInv
<1>6. Own(p)'
  BY <1>1, <1>2 DEF Commit, At, Goto, disk, locks, StateInv, Own, CallerInv,
                    PlaceInv, Types, Disk, Call, Exists, Verified, Readable
<1> QED
  BY <1>3, <1>4, <1>5, <1>6, Zenon DEF Kept, StateInv

\* The manifest is written.
LEMMA ManifestKept ==
    ASSUME StateInv, NEW p \in Proc, Own(p), Manifest(p)
    PROVE  Kept(p)
<1>1. call[p] \in Call /\ fs \in Disk /\ None \notin Proc
  BY StoreAssumption, Zenon DEF StateInv, Types
<1>2. owner = p
  BY Zenon DEF At, Manifest, Own, CallerInv
<1>3. Types'
  <2>1. call' \in [Proc -> Call]
    BY <1>1 DEF Manifest, At, Change, GotoRet, Goto, disk, locks, StateInv, Types,
                Call, Label
  <2>2. fs' \in possible' /\ possible' \subseteq Disk
    BY <1>1, ZenonT(30) DEF Manifest, At, Change, disk, locks, StateInv, Types, Disk, Tree
  <2>3. budget' \in Budget
    BY BudgetTypes, Zenon DEF Manifest, disk, locks, StateInv, Types
  <2> QED
    BY <1>1, <1>2, <2>1, <2>2, <2>3, Zenon DEF Manifest, At, locks, StateInv, Types
<1>4. Others(p)
  BY <1>1, <1>2, Zenon DEF Manifest, At, Change, GotoRet, Goto, disk, locks, Others,
                    StateInv, Types
<1>5. DiskInv'
  BY <1>1, <1>2 DEF Manifest, At, Change, GotoRet, Goto, disk, locks, StateInv,
                    DiskInv, Own, PlaceInv, Types, Disk, Tree, Exists, Verified,
                    Readable
<1>6. PromiseInv'
  BY <1>1, <1>2 DEF Manifest, At, Change, GotoRet, Goto, disk, locks, StateInv,
                    PromiseInv, Own, PlaceInv, Types, Disk, Tree, Exists, Verified,
                    Readable
<1>7. Own(p)'
  BY <1>1, <1>2 DEF Manifest, At, Change, GotoRet, Goto, disk, locks, StateInv, Own,
                    CallerInv, PlaceInv, Types, Disk, Call, Exists, Verified,
                    Readable
<1> QED
  BY <1>3, <1>4, <1>5, <1>6, <1>7, Zenon DEF Kept, StateInv

\* The staged tree is synced.
LEMMA SyncTreeKept ==
    ASSUME StateInv, NEW p \in Proc, Own(p), SyncTree(p)
    PROVE  Kept(p)
<1>1. call[p] \in Call /\ fs \in Disk /\ None \notin Proc
  BY StoreAssumption, Zenon DEF StateInv, Types
<1>2. owner = p
  BY Zenon DEF At, SyncTree, Own, CallerInv
<1>3. Types'
  <2>1. call' \in [Proc -> Call]
    BY <1>1 DEF SyncTree, At, ChangeDurably, GotoRet, Goto, disk, locks, StateInv,
                Types, Call, Label
  <2>2. fs' \in possible' /\ possible' \subseteq Disk
    BY <1>1, ZenonT(30) DEF SyncTree, At, ChangeDurably, disk, locks, StateInv, Types, Disk,
                Tree
  <2>3. budget' \in Budget
    BY BudgetTypes, Zenon DEF SyncTree, disk, locks, StateInv, Types
  <2> QED
    BY <1>1, <1>2, <2>1, <2>2, <2>3, Zenon DEF SyncTree, At, locks, StateInv, Types
<1>4. Others(p)
  BY <1>1, <1>2, Zenon DEF SyncTree, At, ChangeDurably, GotoRet, Goto, disk, locks, Others,
                    StateInv, Types
<1>5. DiskInv'
  BY <1>1, <1>2 DEF SyncTree, At, ChangeDurably, GotoRet, Goto, disk, locks,
                    StateInv, DiskInv, Own, PlaceInv, Types, Disk, Tree, Exists,
                    Verified, Readable
<1>6. PromiseInv'
  BY <1>1, <1>2 DEF SyncTree, At, ChangeDurably, GotoRet, Goto, disk, locks,
                    StateInv, PromiseInv, Own, PlaceInv, Types, Disk, Tree, Exists,
                    Verified, Readable
<1>7. Own(p)'
  BY <1>1, <1>2 DEF SyncTree, At, ChangeDurably, GotoRet, Goto, disk, locks,
                    StateInv, Own, CallerInv, PlaceInv, Types, Disk, Call, Exists,
                    Verified, Readable
<1> QED
  BY <1>3, <1>4, <1>5, <1>6, <1>7, Zenon DEF Kept, StateInv

\* The marker is written over a broken tree and a complete replacement.
LEMMA MarkKept ==
    ASSUME StateInv, NEW p \in Proc, Own(p), Mark(p)
    PROVE  Kept(p)
<1>1. call[p] \in Call /\ fs \in Disk /\ None \notin Proc
  BY StoreAssumption, Zenon DEF StateInv, Types
<1>2. owner = p
  BY Zenon DEF At, Mark, Own, CallerInv
<1>3. Types'
  <2>1. call' \in [Proc -> Call]
    BY <1>1 DEF Mark, At, Change, Goto, disk, locks, StateInv, Types, Call, Label
  <2>2. fs' \in possible' /\ possible' \subseteq Disk
    BY <1>1, Zenon DEF Mark, At, Change, disk, locks, StateInv, Types, Disk, Tree
  <2> QED
    BY <1>1, <1>2, <2>1, <2>2, Zenon DEF Mark, At, locks, StateInv, Types
<1>4. Others(p)
  BY <1>1, <1>2, Zenon DEF Mark, At, Change, Goto, disk, locks, Others, StateInv, Types
<1>5. DiskInv'
  BY <1>1, <1>2 DEF Mark, At, Change, Goto, disk, locks, StateInv, DiskInv, Own,
                    PlaceInv, Types, Disk, Tree, Exists, Verified, Readable
<1>6. PromiseInv'
  BY <1>1, <1>2, Zenon DEF Mark, At, Change, Goto, disk, locks, StateInv, PromiseInv, Own,
                    PlaceInv, Types, Disk, Tree, Exists, Verified, Readable
<1>7. Own(p)'
  BY <1>1, <1>2 DEF Mark, At, Change, Goto, disk, locks, StateInv, Own, CallerInv,
                    PlaceInv, Types, Disk, Call, Exists, Verified, Readable
<1> QED
  BY <1>3, <1>4, <1>5, <1>6, <1>7, Zenon DEF Kept, StateInv

\* The marker is synced.
LEMMA MarkedKept ==
    ASSUME StateInv, NEW p \in Proc, Own(p), Marked(p)
    PROVE  Kept(p)
<1>1. call[p] \in Call /\ fs \in Disk /\ None \notin Proc
  BY StoreAssumption, Zenon DEF StateInv, Types
<1>2. owner = p
  BY Zenon DEF At, Marked, Own, CallerInv
<1>3. Types'
  <2>1. call' \in [Proc -> Call]
    BY <1>1 DEF Marked, At, Sync, Goto, disk, locks, StateInv, Types, Call, Label
  <2>2. fs' \in possible' /\ possible' \subseteq Disk
    BY <1>1, Zenon DEF Marked, At, Sync, disk, locks, StateInv, Types, Disk, Tree
  <2>3. budget' \in Budget
    BY BudgetTypes, Zenon DEF Marked, disk, locks, StateInv, Types
  <2> QED
    BY <1>1, <1>2, <2>1, <2>2, <2>3, Zenon DEF Marked, At, locks, StateInv, Types
<1>4. Others(p)
  BY <1>1, <1>2, Zenon DEF Marked, At, Sync, Goto, disk, locks, Others, StateInv, Types
<1>5. DiskInv'
  BY <1>1, <1>2 DEF Marked, At, Sync, Goto, disk, locks, StateInv, DiskInv, Own,
                    PlaceInv, Types, Disk, Tree, Exists, Verified, Readable
<1>6. PromiseInv'
  BY <1>1, <1>2, Zenon DEF Marked, At, Sync, Goto, disk, locks, StateInv, PromiseInv, Own,
                    PlaceInv, Types, Disk, Tree, Exists, Verified, Readable
<1>7. Own(p)'
  BY <1>1, <1>2 DEF Marked, At, Sync, Goto, disk, locks, StateInv, Own, CallerInv,
                    PlaceInv, Types, Disk, Call, Exists, Verified, Readable
<1> QED
  BY <1>3, <1>4, <1>5, <1>6, <1>7, Zenon DEF Kept, StateInv

\* The renames of promote_with_operations.
LEMMA PromoteRenameKept ==
    ASSUME StateInv, NEW p \in Proc, Own(p), PromoteRename(p)
    PROVE  Kept(p)
<1>1. call[p] \in Call /\ fs \in Disk /\ None \notin Proc
  BY StoreAssumption, Zenon DEF StateInv, Types
<1>2. owner = p
  BY Zenon DEF At, DurableRename, PromoteRename, Own, CallerInv
<1>3. Types'
  <2>1. Types /\ {"promoted", "swap", "undo", "quarantine", "rollback", "fail"} \subseteq Label
    BY Zenon DEF StateInv, Label
  <2>2. /\ call' \in [Proc -> Call] /\ budget' \in Budget
        /\ fs' \in possible' /\ possible' \subseteq Disk
    BY <2>1, RenameTypes, ZenonT(30) DEF PromoteRename
  <2> QED
    BY <2>1, <2>2, Zenon DEF PromoteRename, Voids, locks, Types
<1>4. Others(p)
  BY <1>1, <1>2, Zenon DEF PromoteRename, DurableRename, Voids, locks, At, CanRename,
                    Moved, Goto, disk, Sync, Others, StateInv, Types
<1>5. DiskInv'
  BY <1>1, <1>2 DEF PromoteRename, DurableRename, Voids, locks, At, CanRename,
                    Moved, Goto, disk, Sync, StateInv, DiskInv, Own, PlaceInv,
                    Types, Disk, Tree, Exists, Verified, Readable
<1>6. PromiseInv'
  BY <1>1, <1>2, SMTT(30) DEF PromoteRename, DurableRename, Voids, locks, At, CanRename,
                    Moved, Goto, disk, Sync, StateInv, PromiseInv, Own, PlaceInv,
                    Types, Disk, Tree, Exists, Verified, Readable
<1>7. Own(p)'
  BY <1>1, <1>2 DEF PromoteRename, DurableRename, Voids, locks, At, CanRename,
                    Moved, Goto, disk, Sync, StateInv, Own, CallerInv, PlaceInv,
                    Types, Disk, Call, Exists, Verified, Readable
<1> QED
  BY <1>3, <1>4, <1>5, <1>6, <1>7, Zenon DEF Kept, StateInv

\* The marker goes where the previous tree is back.
LEMMA UndoKept ==
    ASSUME StateInv, NEW p \in Proc, Own(p), Undo(p)
    PROVE  Kept(p)
<1>1. call[p] \in Call /\ fs \in Disk /\ None \notin Proc
  BY StoreAssumption, Zenon DEF StateInv, Types
<1>2. owner = p
  BY Zenon DEF At, Undo, Own, CallerInv
<1>3. Types'
  <2>1. call' \in [Proc -> Call]
    BY <1>1, ZenonT(30) DEF Undo, At, ChangeDurably, Change, disk, Goto, locks, StateInv, Types,
                Call, Label
  <2>2. fs' \in possible' /\ possible' \subseteq Disk
    BY <1>1, Zenon DEF Undo, At, ChangeDurably, Change, disk, locks, StateInv, Types, Disk,
                Tree
  <2>3. budget' \in Budget
    BY BudgetTypes, Zenon DEF Undo, disk, locks, StateInv, Types
  <2> QED
    BY <1>1, <1>2, <2>1, <2>2, <2>3, Zenon DEF Undo, At, locks, StateInv, Types
<1>4. Others(p)
  BY <1>1, <1>2, Zenon DEF Undo, At, ChangeDurably, Change, disk, Goto, locks, Others,
                    StateInv, Types
<1>5. DiskInv'
  BY <1>1, <1>2 DEF Undo, At, ChangeDurably, Change, disk, Goto, locks, StateInv,
                    DiskInv, Own, PlaceInv, Types, Disk, Tree, Exists, Verified,
                    Readable
<1>6. PromiseInv'
  BY <1>1, <1>2, Zenon DEF Undo, At, ChangeDurably, Change, disk, Goto, locks, StateInv,
                    PromiseInv, Own, PlaceInv, Types, Disk, Tree, Exists, Verified,
                    Readable
<1>7. Own(p)'
  BY <1>1, <1>2 DEF Undo, At, ChangeDurably, Change, disk, Goto, locks, StateInv,
                    Own, CallerInv, PlaceInv, Types, Disk, Call, Exists, Verified,
                    Readable
<1> QED
  BY <1>3, <1>4, <1>5, <1>6, <1>7, Zenon DEF Kept, StateInv

\* promote returns: the one disk there can be has the complete tree and no marker.
LEMMA PromotedKept ==
    ASSUME StateInv, NEW p \in Proc, Own(p), Promoted(p)
    PROVE  Kept(p)
<1>1. call[p] \in Call /\ fs \in Disk /\ None \notin Proc
  BY StoreAssumption, Zenon DEF StateInv, Types
<1>2. owner = p
  BY Zenon DEF At, Promoted, Own, CallerInv
<1>3. Types'
  <2>1. call' \in [Proc -> Call]
    BY <1>1, ZenonT(30) DEF Promoted, At, Idle, disk, StateInv, Types, Call, Label
  <2> QED
    BY <1>1, <1>2, <2>1, Zenon DEF Promoted, At, disk, StateInv, Types
<1>4. Others(p)
  BY <1>1, <1>2, Zenon DEF Promoted, At, Idle, disk, Others, StateInv, Types
<1>5. DiskInv'
  BY <1>1, <1>2, Zenon DEF Promoted, At, Idle, disk, StateInv, DiskInv, Own, PlaceInv,
                    Types, Disk, Tree, Exists, Verified, Readable
<1>6. PromiseInv'
  BY <1>1, <1>2, Zenon DEF Promoted, At, Idle, disk, StateInv, PromiseInv, Own, PlaceInv,
                    Types, Disk, Tree, Exists, Verified, Readable
<1>7. Own(p)'
  BY <1>1, <1>2 DEF Promoted, At, Idle, disk, StateInv, Own, CallerInv, PlaceInv,
                    Types, Disk, Call, Exists, Verified, Readable
<1> QED
  BY <1>3, <1>4, <1>5, <1>6, <1>7, Zenon DEF Kept, StateInv

\* An older tombstone goes.
LEMMA BuryKept ==
    ASSUME StateInv, NEW p \in Proc, Own(p), Bury(p)
    PROVE  Kept(p)
<1>1. call[p] \in Call /\ fs \in Disk /\ None \notin Proc
  BY StoreAssumption, Zenon DEF StateInv, Types
<1>2. owner = p
  BY Zenon DEF At, Bury, Own, CallerInv
<1>3. Types'
  <2>1. call' \in [Proc -> Call]
    BY <1>1 DEF Bury, At, ChangeDurably, Goto, Change, locks, StateInv, Types, Call,
                Label
  <2>2. fs' \in possible' /\ possible' \subseteq Disk
    BY <1>1 DEF Bury, At, ChangeDurably, Change, locks, StateInv, Types, Disk, Tree
  <2>3. budget' \in Budget
    BY BudgetTypes, Zenon DEF Bury, locks, StateInv, Types
  <2> QED
    BY <1>1, <1>2, <2>1, <2>2, <2>3, Zenon DEF Bury, At, locks, StateInv, Types
<1>4. Others(p)
  BY <1>1, <1>2, Zenon DEF Bury, At, ChangeDurably, Goto, Change, locks, Others, StateInv,
                    Types
<1>5. DiskInv'
  BY <1>1, <1>2 DEF Bury, At, ChangeDurably, Goto, Change, locks, StateInv, DiskInv,
                    Own, PlaceInv, Types, Disk, Tree, Exists, Verified, Readable
<1>6. PromiseInv'
  BY <1>1, <1>2 DEF Bury, At, ChangeDurably, Goto, Change, locks, StateInv,
                    PromiseInv, Own, PlaceInv, Types, Disk, Tree, Exists, Verified,
                    Readable
<1>7. Own(p)'
  BY <1>1, <1>2 DEF Bury, At, ChangeDurably, Goto, Change, locks, StateInv, Own,
                    CallerInv, PlaceInv, Types, Disk, Call, Exists, Verified,
                    Readable
<1> QED
  BY <1>3, <1>4, <1>5, <1>6, <1>7, Zenon DEF Kept, StateInv

\* There may be nothing to delete.
LEMMA TargetKept ==
    ASSUME StateInv, NEW p \in Proc, Own(p), Target(p)
    PROVE  Kept(p)
<1>1. call[p] \in Call /\ fs \in Disk /\ None \notin Proc
  BY StoreAssumption, Zenon DEF StateInv, Types
<1>2. owner = p
  BY Zenon DEF At, Target, Own, CallerInv
<1>3. Types'
  <2>1. call' \in [Proc -> Call]
    BY <1>1, <1>2, CallTypes, ZenonT(30) DEF Target, At, Finish, disk, StateInv, Types,
                                 CallerInv, Own, Label
  <2> QED
    BY <1>1, <1>2, <2>1, Zenon DEF Target, At, Finish, disk, StateInv, Types
<1>4. Others(p)
  BY <1>1, <1>2, Zenon DEF Target, At, Finish, Goto, disk, Leave, Idle, Others, StateInv,
                    Types
<1>5. DiskInv'
  BY <1>1, <1>2, Zenon DEF Target, At, Finish, Goto, disk, Leave, Idle, StateInv, DiskInv,
                    Own, PlaceInv, Types, Disk, Tree, Exists, Verified, Readable
<1>6. PromiseInv'
  BY <1>1, <1>2, Zenon DEF Target, At, Finish, Goto, disk, Leave, Idle, StateInv,
                    PromiseInv, Own, PlaceInv, Types, Disk, Tree, Exists, Verified,
                    Readable
<1>7. Own(p)'
  BY <1>1, <1>2 DEF Target, At, Finish, Goto, disk, Leave, Idle, StateInv, Own,
                    CallerInv, PlaceInv, Types, Disk, Call, Exists, Verified,
                    Readable
<1> QED
  BY <1>3, <1>4, <1>5, <1>6, <1>7, Zenon DEF Kept, StateInv

\* The one rename that moves a verified tree away.
LEMMA EntombKept ==
    ASSUME StateInv, NEW p \in Proc, Own(p), Entomb(p)
    PROVE  Kept(p)
<1>1. call[p] \in Call /\ fs \in Disk /\ None \notin Proc
  BY StoreAssumption, Zenon DEF StateInv, Types
<1>2. owner = p
  BY Zenon DEF At, DurableRename, Entomb, Own, CallerInv
<1>3. Types'
  <2>1. Types /\ {"sweep", "fail"} \subseteq Label
    BY Zenon DEF StateInv, Label
  <2>2. /\ call' \in [Proc -> Call] /\ budget' \in Budget
        /\ fs' \in possible' /\ possible' \subseteq Disk
    BY <2>1, RenameTypes, Zenon DEF Entomb
  <2> QED
    BY <2>1, <2>2, Zenon DEF Entomb, Voids, locks, Types
<1>4. Others(p)
  BY <1>1, <1>2, Zenon DEF Entomb, DurableRename, Voids, locks, At, CanRename, Moved, Goto,
                    disk, Sync, Others, StateInv, Types
<1>5. DiskInv'
  BY <1>1, <1>2 DEF Entomb, DurableRename, Voids, locks, At, CanRename, Moved, Goto,
                    disk, Sync, StateInv, DiskInv, Own, PlaceInv, Types, Disk, Tree,
                    Exists, Verified, Readable
<1>6. PromiseInv'
  BY <1>1, <1>2 DEF Entomb, DurableRename, Voids, locks, At, CanRename, Moved, Goto,
                    disk, Sync, StateInv, PromiseInv, Own, PlaceInv, Types, Disk,
                    Tree, Exists, Verified, Readable
<1>7. Own(p)'
  BY <1>1, <1>2 DEF Entomb, DurableRename, Voids, locks, At, CanRename, Moved, Goto,
                    disk, Sync, StateInv, Own, CallerInv, PlaceInv, Types, Disk,
                    Call, Exists, Verified, Readable
<1> QED
  BY <1>3, <1>4, <1>5, <1>6, <1>7, Zenon DEF Kept, StateInv

\* The deletion returns: the one disk there can be has no tree and no marker.
LEMMA SweepKept ==
    ASSUME StateInv, NEW p \in Proc, Own(p), Sweep(p)
    PROVE  Kept(p)
<1>1. call[p] \in Call /\ fs \in Disk /\ None \notin Proc
  BY StoreAssumption, Zenon DEF StateInv, Types
<1>2. owner = p
  BY Zenon DEF At, Sweep, Own, CallerInv
<1>3. Types'
  <2>1. call' \in [Proc -> Call]
    BY <1>1, <1>2, CallTypes, ZenonT(30) DEF Sweep, At, ChangeDurably, Finish, Change, StateInv,
                                 Types, CallerInv, Own, Label
  <2>2. fs' \in possible' /\ possible' \subseteq Disk
    BY <1>1 DEF Sweep, At, ChangeDurably, Finish, Change, StateInv, Types, Disk,
                Tree
  <2>3. budget' \in Budget
    BY BudgetTypes, Zenon DEF Sweep, StateInv, Types
  <2> QED
    BY <1>1, <1>2, <2>1, <2>2, <2>3, Zenon DEF Sweep, At, Finish, StateInv, Types
<1>4. Others(p)
  BY <1>1, <1>2, Zenon DEF Sweep, At, ChangeDurably, Finish, Change, Goto, Leave, Idle,
                    Others, StateInv, Types
<1>5. DiskInv'
  BY <1>1, <1>2 DEF Sweep, At, ChangeDurably, Finish, Change, Goto, Leave, Idle,
                    StateInv, DiskInv, Own, PlaceInv, Types, Disk, Tree, Exists,
                    Verified, Readable
<1>6. PromiseInv'
  BY <1>1, <1>2 DEF Sweep, At, ChangeDurably, Finish, Change, Goto, Leave, Idle,
                    StateInv, PromiseInv, Own, PlaceInv, Types, Disk, Tree, Exists,
                    Verified, Readable
<1>7. Own(p)'
  BY <1>1, <1>2 DEF Sweep, At, ChangeDurably, Finish, Change, Goto, Leave, Idle,
                    StateInv, Own, CallerInv, PlaceInv, Types, Disk, Call, Exists,
                    Verified, Readable
<1> QED
  BY <1>3, <1>4, <1>5, <1>6, <1>7, Zenon DEF Kept, StateInv

\* A power loss leaves one of the possible disks, with the unsynced trees whole or
\* not, and nobody working on it.
LEMMA PowerLossKept ==
    ASSUME StoreInv, PowerLoss
    PROVE  StoreInv'
<1>1. PICK s \in possible :
        \E t \in [final : Survives(s.final), staging : Survives(s.staging),
                  backup : Survives(s.backup), tombstone : Survives(s.tombstone),
                  marker : {s.marker}] : ChangeDurably(t)
  BY Zenon DEF PowerLoss
<1>2. PICK t \in [final : Survives(s.final), staging : Survives(s.staging),
                  backup : Survives(s.backup), tombstone : Survives(s.tombstone),
                  marker : {s.marker}] : ChangeDurably(t)
  BY <1>1, Zenon
<1>3. s \in Disk
  BY Zenon DEF StoreInv, StateInv, Types
<1>4. /\ fs' = t /\ possible' = {t} /\ t.marker = s.marker
      /\ t.final \in Survives(s.final) /\ t.staging \in Survives(s.staging)
      /\ t.backup \in Survives(s.backup) /\ t.tombstone \in Survives(s.tombstone)
  BY <1>2, Zenon DEF ChangeDurably
<1>5. t \in Disk
  BY <1>2, <1>3, Zenon DEF Disk, Tree, Survives
<1>6. Types'
  <2>1. call' \in [Proc -> Call]
    BY DEF PowerLoss, Idle, Call, Label
  <2> QED
    BY <1>4, <1>5, <2>1, BudgetTypes, Zenon DEF PowerLoss, StoreInv, StateInv, Types
<1>7. DiskInv'
  BY <1>3, <1>4 DEF StoreInv, StateInv, DiskInv, Survives, Exists, Verified, Readable
<1>8. PromiseInv'
  BY <1>3, <1>4, Zenon DEF StoreInv, StateInv, PromiseInv, Survives, PowerLoss
<1>9. ASSUME NEW p \in Proc
      PROVE  Own(p)'
  BY StoreAssumption, Zenon DEF PowerLoss, Idle, Own, CallerInv, At
<1> QED
  BY <1>6, <1>7, <1>8, <1>9, Zenon DEF StoreInv, StateInv

\* A file goes bad while nobody has the exclusive lock: the tree stays in its place,
\* and what was promised of it is void.
LEMMA DecayKept ==
    ASSUME StoreInv, Decay
    PROVE  StoreInv'
<1>1. PICK bad \in {"corrupt", "partial"} :
        /\ fs' = [fs EXCEPT !.final = bad]
        /\ possible' = {[s EXCEPT !.final = IF Verified(@) THEN bad ELSE @] : s \in possible}
  BY Zenon DEF Decay
<1>2. /\ fs \in Disk /\ fs \in possible /\ Verified(fs.final)
      /\ owner = None /\ UNCHANGED <<owner, leases, call>>
  BY Zenon DEF Decay, locks, StoreInv, StateInv, Types
<1>3. ASSUME NEW t \in possible'
      PROVE  \E s \in possible : /\ s \in Disk /\ t \in Disk
                                 /\ t.marker = s.marker /\ t.staging = s.staging /\ t.backup = s.backup
                                 /\ t.final = IF Verified(s.final) THEN bad ELSE s.final
  <2>1. PICK s \in possible : t = [s EXCEPT !.final = IF Verified(@) THEN bad ELSE @]
    BY <1>1, <1>3, Zenon
  <2>2. s \in Disk
    BY Zenon DEF StoreInv, StateInv, Types
  <2> QED
    BY <2>1, <2>2, Zenon DEF Disk, Tree
<1>4. Types'
  <2>1. fs' \in possible'
    BY <1>1, <1>2, Zenon
  <2>2. possible' \subseteq Disk
    BY <1>3, Zenon
  <2>3. budget' \in Budget
    BY BudgetTypes, Zenon DEF Decay, StoreInv, StateInv, Types
  <2> QED
    BY <1>2, <2>1, <2>2, <2>3, Zenon DEF Decay, StoreInv, StateInv, Types
<1>5. DiskInv'
  BY <1>3 DEF StoreInv, StateInv, DiskInv, Exists, Verified, Readable
<1>6. PromiseInv'
  BY <1>2, <1>3, Zenon DEF StoreInv, StateInv, PromiseInv, Decay, Verified, Readable
<1>7. ASSUME NEW p \in Proc
      PROVE  Own(p)'
  <2>1. fs'.marker = fs.marker /\ Exists(fs'.final)
    BY <1>1, <1>2, Zenon DEF Disk, Exists
  <2>2. Own(p) /\ owner # p
    BY <1>2, StoreAssumption, Zenon DEF StoreInv
  <2> QED
    BY <1>2, <2>1, <2>2, Zenon DEF Own, CallerInv, At
<1> QED
  BY <1>4, <1>5, <1>6, <1>7, Zenon DEF StoreInv, StateInv

-----------------------------------------------------------------------------
(* The theorems.                                                               *)

\* Nothing is installed and nobody calls.
LEMMA StoreInit ==
    ASSUME Init
    PROVE  StoreInv
<1>1. Types
  BY DEF Init, Types, Disk, Tree, Idle, Call, Label, Budget
<1>2. DiskInv /\ PromiseInv
  BY DEF Init, DiskInv, PromiseInv
<1>3. ASSUME NEW p \in Proc
      PROVE  Own(p)
  BY StoreAssumption, Zenon DEF Init, Idle, Own, CallerInv, At
<1> QED
  BY <1>1, <1>2, <1>3, Zenon DEF StoreInv, StateInv

\* Every step of a caller.
LEMMA CallerKept ==
    ASSUME StoreInv, NEW p \in Proc,
           \/ Step(p) \/ DropLease(p) \/ RequestCancel(p) \/ Kill(p)
           \/ \E k \in Kinds : Enter(p, k)
    PROVE  Kept(p)
<1>1. StateInv /\ Own(p)
  BY Zenon DEF StoreInv
<1> QED
  BY <1>1, EnterKept, LookForMarkerKept, CheckKept, LockKept, LockRefusedKept, DeleteRefusedKept,
     LeaseKept, LeaseRefusedKept, VerifyKept, DropLeaseKept, RequestCancelKept, SeeCancelKept,
     KillKept, FailKept, ReconcileKept, ReconcileRenameKept, QuarantineKept, UnmarkKept,
     UnmarkedKept, StageKept, CopyKept, DownloadKept, CommitKept, ManifestKept, SyncTreeKept,
     MarkKept, MarkedKept, PromoteRenameKept, UndoKept, PromotedKept, BuryKept, TargetKept,
     EntombKept, SweepKept, ZenonT(30) DEF Step

\* StoreInv is inductive.
LEMMA StoreNext ==
    ASSUME StoreInv, [Next]_vars
    PROVE  StoreInv'
<1>1. CASE UNCHANGED vars
  BY <1>1 DEF vars, StoreInv, StateInv, Types, DiskInv, PromiseInv, Own, CallerInv, PlaceInv, At
<1>2. CASE PowerLoss \/ Decay
  BY <1>2, PowerLossKept, DecayKept, Zenon
<1>3. ASSUME NEW p \in Proc,
             \/ Step(p) \/ DropLease(p) \/ RequestCancel(p) \/ Kill(p)
             \/ \E k \in Kinds : Enter(p, k)
      PROVE  StoreInv'
  BY <1>3, CallerKept, OthersOwn, Zenon
<1> QED
  BY <1>1, <1>2, <1>3, Zenon DEF Next

\* The store's invariant.
THEOREM StoreSafe == Spec => []StoreInv
BY StoreInit, StoreNext, PTL DEF Spec

\* reconcile_repair never meets a transaction it "cannot reconcile safely": on every
\* disk that any number of faults, kills and power losses may leave, a marker has one
\* of the trees beside it that reconciling needs.
THEOREM RepairAlwaysRecoverable == Spec => []RepairIsRecoverable
<1>1. StoreInv => RepairIsRecoverable
  <2> SUFFICES ASSUME StoreInv
               PROVE  RepairIsRecoverable
    BY Zenon
  <2>1. owner # None => call[owner].at \notin {"idle", "lock", "lease", "verify", "leased"}
    BY Zenon DEF StoreInv, StateInv, Types, Own, CallerInv
  <2> QED
    BY <2>1, Zenon DEF StoreInv, StateInv, Types, DiskInv, RepairIsRecoverable, TypeOK
<1> QED
  BY <1>1, StoreSafe, PTL

\* What an import, an installation or a deletion returned stays true of every disk
\* that a power loss may leave, until a deletion, an installation or decay changes it.
THEOREM PromisesAreDurable == Spec => []PromiseIsDurable
<1>1. StoreInv => PromiseIsDurable
  BY Zenon DEF StoreInv, StateInv, Types, PromiseInv, PromiseIsDurable, Recovered
<1> QED
  BY <1>1, StoreSafe, PTL

\* No repair opens, and no directory goes, under a loaded model.
THEOREM LeasesPinFinal == Spec => []LeasePinsFinal
<1>1. StoreInv => LeasePinsFinal
  BY Zenon DEF StoreInv, Own, LeasePinsFinal
<1> QED
  BY <1>1, StoreSafe, PTL

\* A verified tree leaves the installed place through the rename of a deletion only:
\* what promote displaces was found broken under the lock that is still held, and what
\* reconcile displaces stands beside its replacement, behind a marker.
LEMMA DisplacedByDeletion ==
    ASSUME StoreInv, NEW p \in Proc,
           \/ Step(p) \/ DropLease(p) \/ RequestCancel(p) \/ Kill(p)
           \/ \E k \in Kinds : Enter(p, k),
           Verified(fs.final), ~Exists(fs'.final)
    PROVE  At(p, "entomb")
<1>1. fs \in Disk /\ Exists(fs.final)
  BY Zenon DEF StoreInv, StateInv, Types, Verified, Readable, Exists
<1>2. fs'.final # fs.final
  BY <1>1, Zenon
<1>3. CASE ReconcileRename(p)
  <2>1. owner = p
    BY <1>3, Zenon DEF ReconcileRename, DurableRename, At, StoreInv, Own, CallerInv
  <2>2. At(p, "resume") => ~Verified(fs.final)
    BY <1>1, <2>1, Zenon DEF StoreInv, StateInv, Types, DiskInv, Own, PlaceInv, At
  <2> QED
    BY <1>1, <1>2, <1>3, <2>1, <2>2, Zenon
    DEF ReconcileRename, DurableRename, Moved, CanRename, Sync, disk, Disk, Exists
<1>4. CASE PromoteRename(p)
  <2>1. owner = p
    BY <1>4, Zenon DEF PromoteRename, DurableRename, At, StoreInv, Own, CallerInv
  <2>2. At(p, "displace") /\ ~call[p].renamed => ~Verified(fs.final)
    BY <2>1, Zenon DEF StoreInv, Own, PlaceInv, At
  <2> QED
    BY <1>1, <1>2, <1>4, <2>1, <2>2, Zenon
    DEF PromoteRename, DurableRename, Moved, CanRename, Sync, disk, Disk, Exists
<1>5. CASE Quarantine(p)
  BY <1>1, <1>2, <1>5, Zenon DEF Quarantine, DurableRename, Moved, Sync, disk, Disk
<1>6. CASE Entomb(p)
  BY <1>6, Zenon DEF Entomb, DurableRename
<1>7. CASE Fail(p) \/ Unmark(p) \/ Unmarked(p) \/ Stage(p) \/ Manifest(p) \/ SyncTree(p) \/ Mark(p)
           \/ Marked(p) \/ Undo(p) \/ Bury(p) \/ Sweep(p)
  BY <1>1, <1>2, <1>7, Zenon
  DEF Fail, Unmark, Unmarked, Stage, Manifest, SyncTree, Mark, Marked, Undo, Bury, Sweep,
                          Change, ChangeDurably, Sync, disk, Disk
<1>8. CASE UNCHANGED fs
  BY <1>2, <1>8, Zenon
<1> QED
  BY <1>3, <1>4, <1>5, <1>6, <1>7, <1>8, Zenon
  DEF Step, LookForMarker, Check, Lock, LockRefused, DeleteRefused,
     Lease, LeaseRefused, Verify, DropLease, RequestCancel, SeeCancel, Kill, Enter, Reconcile, Copy, Download,
     Commit, Promoted, Target, disk

\* What is verified in place is moved away by a deletion only.
THEOREM DeletionAloneDisplaces == Spec => OnlyDeletionDisplaces
<1> DEFINE A == (Verified(fs.final) /\ ~Exists(fs'.final) /\ budget'.crashes = budget.crashes)
                   => (\E p \in Proc : At(p, "entomb"))
<1>1. StoreInv /\ [Next]_vars => [A]_vars
  <2> SUFFICES ASSUME StoreInv, Next, Verified(fs.final), ~Exists(fs'.final),
                      budget'.crashes = budget.crashes
               PROVE  \E p \in Proc : At(p, "entomb")
    BY Zenon
  <2>1. ~PowerLoss
    BY BudgetTypes, Zenon DEF PowerLoss, StoreInv, StateInv, Types
  <2>2. ~Decay
    BY Zenon DEF Decay, StoreInv, StateInv, Types, Disk, Exists
  <2> QED
    BY <2>1, <2>2, DisplacedByDeletion, Zenon DEF Next
<1> QED
  BY <1>1, StoreSafe, PTL DEF Spec, OnlyDeletionDisplaces

-----------------------------------------------------------------------------
(* InstallLifecycle: the task that installs, its caller and the shutdown.      *)

CONSTANTS Install, Work, Caller, Earlier

VARIABLES
    admin, draining, coordinator, coordActive, admitted, permit, zeroLatch, waiter, flight,
    drained, deadline, unseen, caller, gone, client, outcome, task, aborted, result, gate, token,
    lock, repair, durable, checking, registered, forceStop, awaiting, stage

I == INSTANCE InstallLifecycle

-----------------------------------------------------------------------------
(* The composition implements WorkAdmission. *)

\* The initial states agree.
LEMMA AdmissionInit == I!Init => I!A!Init
BY Zenon DEF I!Init

\* Every step is a step of admission, or leaves it alone.
LEMMA AdmissionStep == [I!Next]_(I!vars) => [I!A!Next]_(I!A!vars)
<1> SUFFICES ASSUME [I!Next]_(I!vars)
             PROVE  I!A!Next \/ UNCHANGED I!A!vars
  BY Zenon
<1> USE DEF I!admissionVars, I!A!vars
<1>1. CASE UNCHANGED I!vars
  BY <1>1, Zenon DEF I!vars
<1>2. ASSUME NEW i \in Install,
             \/ I!BeginEnter(i) \/ I!ClientStep(i) \/ I!CallerDropped(i)
             \/ I!StatusStarts(i) \/ I!StatusEnds(i) \/ I!TakeLock(i)
             \/ I!BeginCommit(i) \/ I!ChangeCache(i) \/ I!OperationReturns(i)
             \/ I!OperationPanics(i) \/ I!TaskAborts(i) \/ I!Unregister(i)
      PROVE  I!A!Next \/ UNCHANGED I!A!vars
  <2>1. i \in I!Op
    BY Zenon DEF I!Op
  <2>2. CASE I!BeginEnter(i) \/ I!BeginRegister(i)
    BY <2>1, <2>2, Zenon DEF I!BeginEnter, I!BeginRegister, I!A!Next
  <2> QED
    BY <1>2, <2>2, Zenon
    DEF I!ClientStep, I!StartTask, I!ReceiveResult, I!ReceiveClosed, I!ReceiveForced,
       I!CallerDropped, I!StatusStarts, I!StatusEnds, I!TakeLock, I!BeginCommit, I!ChangeCache,
       I!OperationReturns, I!OperationPanics, I!TaskAborts, I!Unregister
<1>3. ASSUME NEW o \in I!Op, I!ReleasePermit(o)
      PROVE  I!A!Next
  BY <1>3, Zenon DEF I!ReleasePermit, I!A!Next
<1>4. ASSUME NEW w \in Work, I!WorkEnter(w) \/ I!WorkAwait(w)
      PROVE  I!A!Next \/ UNCHANGED I!A!vars
  <2>1. w \in I!Op
    BY Zenon DEF I!Op
  <2> QED
    BY <1>4, <2>1, Zenon DEF I!WorkEnter, I!WorkAwait, I!A!Next
<1>5. ASSUME NEW c \in Caller, I!ShutdownCall(c)
      PROVE  I!A!Next
  BY <1>5, Zenon DEF I!ShutdownCall, I!A!Next
<1>6. CASE I!FlightWait
  BY <1>6, Zenon DEF I!FlightWait, I!A!Next, I!A!Flight
<1>7. CASE I!ShutdownStage
  BY <1>7, Zenon DEF I!ShutdownStage, I!ShutdownCancelInstalls, I!ShutdownForce, I!ShutdownRest,
     I!A!Next, I!A!Flight
<1>8. CASE I!Clock \/ I!DropRuntime \/ I!OtherReconciles
  BY <1>8, Zenon DEF I!Clock, I!DropRuntime, I!OtherReconciles, I!A!Next
<1> QED
  BY <1>1, <1>2, <1>3, <1>4, <1>5, <1>6, <1>7, <1>8, ZenonT(30) DEF I!Next

\* An install, whatever its caller and its task do, uses admission as
\* WorkAdmission describes it, so all that holds there holds here.
THEOREM ImplementsAdmission == I!Spec => I!AdmissionSpec
BY AdmissionInit, AdmissionStep, PTL DEF I!Spec, I!AdmissionSpec, I!A!Spec

-----------------------------------------------------------------------------
(* The commit gate. *)

\* The variables of the installs are well typed, admission aside.
InstallTypes ==
    /\ client \in [Install -> {"idle", "entering", "begun", "waiting", "late",
                               "returned", "dropped"}]
    /\ outcome \in [Install -> {"none", "ok", "failed", "lost", "shutting_down"}]
    /\ task \in [Install -> {"none", "running", "committing", "dropping", "releasing"}]
    /\ aborted \subseteq Install
    /\ result \in [Install -> {"none", "ok", "failed"}]
    /\ gate \in [Install -> {"open", "cancelled", "crossed"}]
    /\ token \subseteq Install
    /\ lock \in Install \cup {None}
    /\ repair \in Install \cup {None, Earlier}
    /\ durable \subseteq Install /\ checking \subseteq Install
    /\ registered \subseteq Install
    /\ forceStop \in BOOLEAN
    /\ awaiting \subseteq Work
    /\ stage \in {"idle", "installs", "force", "coordinator", "finish"}

\* Where an install is decides what its gate, its result and its outcome can be.
\* Nothing has happened before the task is spawned; a tree is promoted, or a marker
\* set for it, behind a crossed gate only, whoever finishes the repair; whoever said "shutting_down", or aborted, closed the gate
\* first; and a result is sent once, before the caller is told of it.
Gated(i) ==
    /\ client[i] \in {"idle", "entering", "begun"} =>
           task[i] = "none" /\ outcome[i] = "none"
    /\ client[i] \in {"waiting", "late"} => task[i] # "none"
    /\ task[i] = "none" => gate[i] # "crossed" /\ i \notin aborted
    /\ task[i] \in {"none", "running", "committing"} => result[i] = "none"
    /\ task[i] = "running" => gate[i] # "crossed"
    /\ task[i] = "committing" => gate[i] = "crossed"
    /\ i \in durable \/ repair = i => gate[i] = "crossed"
    /\ outcome[i] = "shutting_down" \/ i \in aborted => gate[i] = "cancelled"
    /\ outcome[i] # "none" => client[i] = "returned"
    /\ outcome[i] \in {"ok", "failed"} => result[i] = outcome[i]
    /\ outcome[i] = "lost" => result[i] = "none" /\ task[i] \in {"dropping", "releasing"}

GateInv == InstallTypes /\ \A i \in Install : Gated(i)

\* Nothing has happened to any install yet.
LEMMA InitGate ==
    ASSUME I!InstallAssumption, I!Init
    PROVE  GateInv
BY ZenonT(30) DEF I!InstallAssumption, I!Init, GateInv, InstallTypes, Gated

\* Reconciliation promotes only what a crossed gate let through, whoever does it.
LEMMA ReconcilesCrossed ==
    ASSUME I!InstallAssumption, GateInv, I!Reconciled
    PROVE  /\ repair' = None
           /\ durable' \subseteq Install
           /\ \A j \in Install : j \in durable' \/ repair' = j => gate[j] = "crossed"
<1>1. durable' \subseteq durable \cup ({repair} \cap Install)
  BY Zenon DEF I!Reconciled
<1>2. repair' = None /\ None \notin Install
  BY Zenon DEF I!Reconciled, I!InstallAssumption
<1>3. durable \subseteq Install /\ \A j \in Install : j \in durable \/ repair = j => gate[j] = "crossed"
  BY Zenon DEF GateInv, InstallTypes, Gated
<1> QED
  BY <1>1, <1>2, <1>3, SMT

\* Steps that reconcile and change nothing else that GateInv speaks of but the lock.
LEMMA GateOfReconciliation ==
    ASSUME I!InstallAssumption, GateInv,
           UNCHANGED <<I!gateVars, I!taskVars, I!clientVars, registered, forceStop, awaiting, stage>>,
           lock' \in Install \cup {None}, checking' \subseteq Install,
           I!Reconciled \/ UNCHANGED <<repair, durable>>
    PROVE  GateInv'
<1> USE DEF I!gateVars, I!taskVars, I!clientVars
<1>1. /\ repair' \in Install \cup {None, Earlier}
      /\ durable' \subseteq Install
      /\ \A j \in Install : j \in durable' \/ repair' = j => gate[j] = "crossed"
  <2>1. CASE I!Reconciled
    BY <2>1, ReconcilesCrossed, Zenon
  <2>2. CASE UNCHANGED <<repair, durable>>
    BY <2>2, Zenon DEF GateInv, InstallTypes, Gated
  <2> QED
    BY <2>1, <2>2, Zenon
<1>2. InstallTypes'
  BY <1>1, ZenonT(30) DEF GateInv, InstallTypes
<1>3. \A j \in Install : Gated(j)'
  BY <1>1, ZenonT(30) DEF GateInv, Gated
<1> QED
  BY <1>2, <1>3, Zenon DEF GateInv

\* The end of a task gives up its lock, and with a result it may reconcile once more.
LEMMA GateOfTaskEnd ==
    ASSUME I!InstallAssumption, GateInv, NEW i \in Install,
           I!OperationReturns(i) \/ I!OperationPanics(i) \/ I!TaskAborts(i)
    PROVE  GateInv'
<1>1. /\ task' = [task EXCEPT ![i] = "dropping"]
      /\ task[i] \in {"running", "committing"}
      /\ lock' \in Install \cup {None}
      /\ UNCHANGED <<gate, token, aborted, checking, client, outcome, registered, forceStop,
                     awaiting, stage>>
      /\ result' \in [Install -> {"none", "ok", "failed"}]
      /\ \A j \in Install : j # i => result'[j] = result[j]
  <2> USE DEF I!DropTask, I!gateVars, I!clientVars, GateInv, InstallTypes
  <2>1. CASE I!OperationReturns(i)
    BY <2>1, SMTT(30) DEF I!OperationReturns
  <2>2. CASE I!OperationPanics(i)
    BY <2>2, SMTT(30) DEF I!OperationPanics
  <2>3. CASE I!TaskAborts(i)
    BY <2>3, SMTT(30) DEF I!TaskAborts
  <2> QED
    BY <2>1, <2>2, <2>3, Zenon
<1>2. /\ repair' \in Install \cup {None, Earlier}
      /\ durable' \subseteq Install
      /\ \A j \in Install : j \in durable' \/ repair' = j => gate[j] = "crossed"
  <2>1. CASE I!Reconciled
    BY <2>1, ReconcilesCrossed, Zenon
  <2>2. CASE UNCHANGED durable /\ repair' \in {repair, None}
    <3>1. \A j \in Install : j # None /\ (j \in durable \/ repair = j => gate[j] = "crossed")
      BY Zenon DEF GateInv, Gated, I!InstallAssumption
    <3> QED
      BY <2>2, <3>1, SMT DEF GateInv, InstallTypes
  <2> QED
    BY <2>1, <2>2, ZenonT(30) DEF I!OperationReturns, I!OperationPanics, I!TaskAborts
<1>3. InstallTypes'
  BY <1>1, <1>2, ZenonT(30) DEF GateInv, InstallTypes
<1>4. ASSUME NEW j \in Install
      PROVE  Gated(j)'
  <2>1. Gated(j) /\ client[j] \in {"idle", "entering", "begun", "waiting", "late", "returned", "dropped"}
    BY Zenon DEF GateInv, InstallTypes
  <2>2. CASE j = i
    <3>1. task'[i] = "dropping"
      BY <1>1, Zenon DEF GateInv, InstallTypes
    <3>2. result[i] = "none"
      BY <1>1, <2>1, <2>2, Zenon DEF Gated
    <3> QED
      BY <1>1, <1>2, <2>1, <2>2, <3>1, <3>2, ZenonT(30) DEF Gated
  <2>3. CASE j # i
    <3>1. task'[j] = task[j] /\ result'[j] = result[j]
      BY <1>1, <2>3, ZenonT(30) DEF GateInv, InstallTypes
    <3> QED
      BY <1>1, <1>2, <2>1, <3>1, ZenonT(30) DEF Gated
  <2> QED
    BY <2>2, <2>3, Zenon
<1> QED
  BY <1>3, <1>4, Zenon DEF GateInv

\* A step of an install that does not ask for a cancellation keeps GateInv.
LEMMA GateOfInstall ==
    ASSUME I!InstallAssumption, GateInv, NEW i \in Install,
           \/ I!BeginEnter(i) \/ I!BeginRegister(i) \/ I!ReceiveResult(i) \/ I!ReceiveClosed(i)
           \/ I!StatusStarts(i) \/ I!StatusEnds(i) \/ I!TakeLock(i)
           \/ I!BeginCommit(i) \/ I!ChangeCache(i) \/ I!OperationReturns(i)
           \/ I!OperationPanics(i) \/ I!TaskAborts(i) \/ I!Unregister(i)
    PROVE  GateInv'
<1> USE DEF GateInv, InstallTypes, Gated, I!gateVars, I!taskVars, I!cacheVars, I!clientVars
<1>1. CASE I!BeginEnter(i) \/ I!BeginRegister(i)
  BY <1>1, SMTT(30) DEF I!BeginEnter, I!BeginRegister
<1>2. CASE I!ReceiveResult(i) \/ I!ReceiveClosed(i)
  BY <1>2 DEF I!ReceiveResult, I!ReceiveClosed
<1>3. CASE I!BeginCommit(i)
  BY <1>3 DEF I!BeginCommit
<1>4. CASE I!ChangeCache(i)
  BY <1>4, SMTT(30) DEF I!ChangeCache, I!InstallAssumption
<1>5. CASE I!StatusStarts(i) \/ I!StatusEnds(i) \/ I!TakeLock(i)
  <2> HIDE DEF Gated, I!gateVars, I!taskVars, I!clientVars
  <2>1. /\ UNCHANGED <<I!gateVars, I!taskVars, I!clientVars, registered, forceStop, awaiting, stage>>
        /\ lock' \in Install \cup {None}
        /\ checking' \subseteq Install
        /\ I!Reconciled \/ UNCHANGED <<repair, durable>>
    BY <1>5, ZenonT(30) DEF I!StatusStarts, I!StatusEnds, I!TakeLock
  <2> HIDE DEF GateInv, InstallTypes
  <2> QED
    BY <2>1, GateOfReconciliation, Zenon
<1>6. CASE I!OperationReturns(i) \/ I!OperationPanics(i) \/ I!TaskAborts(i)
  BY <1>6, GateOfTaskEnd, Zenon
<1>7. CASE I!Unregister(i)
  BY <1>7, SMTT(30) DEF I!Unregister
<1> QED
  BY <1>1, <1>2, <1>3, <1>4, <1>5, <1>6, <1>7, Zenon

\* Cancellation closes the gates that are open and leaves the crossed ones.
LEMMA CancelClosesGates ==
    ASSUME GateInv, NEW S \in SUBSET Install, I!CancelBeforeCommit(S)
    PROVE  /\ gate' \in [Install -> {"open", "cancelled", "crossed"}]
           /\ token' \subseteq Install
           /\ \A j \in Install : /\ gate'[j] = "crossed" <=> gate[j] = "crossed"
                                 /\ gate[j] = "cancelled" => gate'[j] = "cancelled"
                                 /\ j \in S => gate'[j] # "open"
                                 /\ gate'[j] = "open" => gate[j] = "open"
BY Zenon DEF I!CancelBeforeCommit, GateInv, InstallTypes

\* A caller that gives up asks the gate first.
LEMMA GateOfCaller ==
    ASSUME GateInv, NEW i \in Install, I!StartTask(i) \/ I!ReceiveForced(i) \/ I!CallerDropped(i)
    PROVE  GateInv'
<1> USE DEF GateInv, InstallTypes, Gated, I!gateVars, I!taskVars, I!cacheVars, I!clientVars
<1>1. {i} \in SUBSET Install
  OBVIOUS
<1>2. CASE I!StartTask(i) /\ forceStop
  BY <1>1, <1>2, CancelClosesGates, SMTT(30) DEF I!StartTask
<1>3. CASE I!StartTask(i) /\ ~forceStop
  BY <1>3, SMTT(30) DEF I!StartTask
<1>4. CASE I!ReceiveForced(i)
  BY <1>1, <1>4, CancelClosesGates, SMTT(30) DEF I!ReceiveForced
<1>5. CASE I!CallerDropped(i)
  BY <1>1, <1>5, CancelClosesGates DEF I!CallerDropped
<1> QED
  BY <1>2, <1>3, <1>4, <1>5, Zenon

\* Steps of admission and of the flight touch no gate, except to close them.
LEMMA GateOfShutdown ==
    ASSUME I!InstallAssumption, GateInv,
           \/ \E o \in I!Op : I!ReleasePermit(o)
           \/ \E w \in Work : I!WorkEnter(w) \/ I!WorkAwait(w)
           \/ \E c \in Caller : I!ShutdownCall(c)
           \/ I!FlightWait \/ I!ShutdownStage \/ I!Clock \/ I!DropRuntime \/ I!OtherReconciles
    PROVE  GateInv'
<1> USE DEF GateInv, InstallTypes, I!gateVars, I!taskVars, I!cacheVars, I!clientVars
<1>1. CASE \E o \in I!Op : I!ReleasePermit(o)
  BY <1>1, SMTT(30) DEF I!ReleasePermit, Gated
<1>2. CASE \E w \in Work : I!WorkEnter(w) \/ I!WorkAwait(w)
  BY <1>2, SMTT(30) DEF I!WorkEnter, I!WorkAwait, Gated
<1>3. CASE \E c \in Caller : I!ShutdownCall(c)
  BY <1>3, SMTT(30) DEF I!ShutdownCall, I!EnterStage, Gated
<1>4. CASE I!FlightWait \/ I!Clock
  BY <1>4, SMTT(30) DEF I!FlightWait, I!EnterStage, I!Clock, Gated
<1>5. CASE I!ShutdownForce \/ I!ShutdownRest
  <2>1. forceStop' \in BOOLEAN
    BY <1>5, ZenonT(30) DEF I!ShutdownForce, I!ForceStopSent, I!ShutdownRest
  <2> QED
    BY <1>5, <2>1 DEF I!ShutdownForce, I!ShutdownRest, Gated
<1>6. CASE I!ShutdownCancelInstalls
  BY <1>6, CancelClosesGates, SMTT(30) DEF I!ShutdownCancelInstalls, Gated
<1>7. CASE I!DropRuntime
  <2>1. forceStop' \in BOOLEAN
    BY <1>7, Zenon DEF I!DropRuntime, I!ForceStopSent
  <2> QED
    BY <1>7, <2>1, CancelClosesGates DEF I!DropRuntime, Gated
<1>8. CASE I!OtherReconciles
  <2>1. lock' \in Install \cup {None} /\ checking' \subseteq Install
    BY <1>8, Zenon DEF I!OtherReconciles
  <2>2. UNCHANGED <<I!gateVars, I!taskVars, I!clientVars, registered, forceStop, awaiting, stage>>
    BY <1>8, Zenon DEF I!OtherReconciles
  <2> HIDE DEF GateInv, InstallTypes, I!gateVars, I!taskVars, I!cacheVars, I!clientVars
  <2> QED
    BY <1>8, <2>1, <2>2, GateOfReconciliation, Zenon DEF I!OtherReconciles
<1> QED
  BY <1>1, <1>2, <1>3, <1>4, <1>5, <1>6, <1>7, <1>8, ZenonT(30) DEF I!ShutdownStage

\* No step breaks GateInv.
LEMMA NextGate ==
    ASSUME I!InstallAssumption
    PROVE  GateInv /\ [I!Next]_(I!vars) => GateInv'
<1> SUFFICES ASSUME GateInv, [I!Next]_(I!vars)
             PROVE  GateInv'
  BY Zenon
<1>1. CASE UNCHANGED I!vars
  BY <1>1, ZenonT(30) DEF I!vars, GateInv, InstallTypes, Gated, I!gateVars, I!taskVars, I!cacheVars,
     I!clientVars
<1> QED
  BY <1>1, GateOfInstall, GateOfCaller, GateOfShutdown, Zenon DEF I!Next, I!ClientStep

-----------------------------------------------------------------------------
(* A shutdown and the installs it finds. *)

\* How far finish_shutdown is agrees with the flight that runs it.
StageAgrees ==
    /\ stage \in {"installs", "force", "coordinator"} <=> flight = "fencing"
    /\ stage = "finish" <=> flight = "closing"
    /\ stage \in {"installs", "force"} => ~drained

\* An install holds its permit, and its registration, from begin_install until its
\* task drops them: a shutdown sees every install that may still commit.
Uncommitted(i) == client[i] = "begun" \/ task[i] = "running"
Held(i) ==
    /\ client[i] = "entering" <=> permit[i] = "entering"
    /\ Uncommitted(i) => permit[i] = "held" /\ i \in registered
    /\ task[i] \in {"committing", "dropping"} => permit[i] = "held"

\* The flight is past the installs, or there is no runtime any more.
PastInstalls == stage \in {"force", "coordinator", "finish"} \/ flight = "done" \/ gone

\* Behind that point no install that may still commit finds its gate open.
Fenced ==
    PastInstalls => \A i \in Install : Uncommitted(i) => gate[i] # "open"

FenceInv == StageAgrees /\ (\A i \in Install : Held(i)) /\ Fenced

\* What the proof needs of admission: the facts below follow from the inductive
\* invariant of WorkAdmission.
AdmissionSound ==
    /\ permit \in [I!Op -> {"none", "entering", "held", "notify", "half"}]
    /\ drained \in BOOLEAN
    /\ flight # "none" <=> draining
    /\ gone => flight \in {"done", "aborted"}
    /\ draining => \A o \in I!Op : permit[o] # "entering"
    /\ flight \in {"fencing", "closing", "done"} /\ drained =>
           \A o \in I!Op : permit[o] \notin {"entering", "held"}

\* Nothing is admitted and nothing is shut down yet.
LEMMA InitFence == I!Init => FenceInv
BY DEF I!Init, I!A!Init, FenceInv, StageAgrees, Held, Uncommitted, Fenced, PastInstalls, I!Op

\* An install and its caller, on the way in.
LEMMA FenceOfEntry ==
    ASSUME AdmissionSound, GateInv, FenceInv, NEW i \in Install, I!BeginEnter(i) \/ I!BeginRegister(i)
    PROVE  FenceInv'
<1> USE DEF AdmissionSound, FenceInv
<1>1. i \in I!Op /\ Install \subseteq I!Op
  BY Zenon DEF I!Op
<1>2. UNCHANGED <<stage, flight, drained, draining, gone, gate, task>>
  BY Zenon
  DEF I!BeginEnter, I!BeginRegister, I!A!AdmitCoordinator, I!A!AdmitCount, I!gateVars, I!taskVars
<1>3. StageAgrees'
  BY <1>2, Zenon DEF StageAgrees
<1>4. CASE I!BeginEnter(i)
  <2>1. \A j \in Install : Held(j)'
    BY <1>1, <1>4 DEF I!BeginEnter, I!A!AdmitCoordinator, Held, Uncommitted, GateInv,
       InstallTypes, I!taskVars
  <2>2. Fenced'
    BY <1>2, <1>4, ZenonT(30)
    DEF I!BeginEnter, Fenced, PastInstalls, Uncommitted, GateInv, InstallTypes
  <2> QED
    BY <1>3, <2>1, <2>2, ZenonT(30)
<1>5. CASE I!BeginRegister(i)
  <2>1. \A j \in Install : Held(j)'
    BY <1>1, <1>5 DEF I!BeginRegister, I!A!AdmitCount, Held, Uncommitted, GateInv,
       InstallTypes, Gated, I!taskVars
  <2>2. permit[i] = "entering"
    BY <1>5, Zenon DEF I!BeginRegister, I!A!AdmitCount
  <2>3. ~PastInstalls
    BY <1>1, <2>2, Zenon DEF PastInstalls, StageAgrees
  <2>4. Fenced'
    BY <1>2, <2>3, Zenon DEF Fenced, PastInstalls
  <2> QED
    BY <1>3, <2>1, <2>4, Zenon
<1> QED
  BY <1>4, <1>5, Zenon

\* The other steps of an install neither reopen its gate nor bring it back among
\* those that may commit.
LEMMA FenceOfInstall ==
    ASSUME GateInv, FenceInv, NEW i \in Install,
           \/ I!StartTask(i) \/ I!ReceiveResult(i) \/ I!ReceiveClosed(i) \/ I!ReceiveForced(i)
           \/ I!StatusStarts(i) \/ I!StatusEnds(i) \/ I!TakeLock(i)
           \/ I!CallerDropped(i) \/ I!BeginCommit(i) \/ I!ChangeCache(i) \/ I!OperationReturns(i)
           \/ I!OperationPanics(i) \/ I!TaskAborts(i) \/ I!Unregister(i)
    PROVE  FenceInv'
<1> USE DEF GateInv, FenceInv
<1>1. UNCHANGED I!admissionVars /\ UNCHANGED stage
  BY Zenon
  DEF I!StartTask, I!ReceiveResult, I!ReceiveClosed, I!ReceiveForced, I!CallerDropped, I!BeginCommit,
     I!StatusStarts, I!StatusEnds, I!TakeLock, I!ChangeCache, I!OperationReturns, I!OperationPanics,
     I!TaskAborts, I!Unregister
<1>2. StageAgrees' /\ (PastInstalls' <=> PastInstalls)
  BY <1>1, Zenon DEF StageAgrees, PastInstalls, I!admissionVars
<1>3. {i} \in SUBSET Install
  BY Zenon
<1>4. \A j \in Install : gate'[j] = "open" => gate[j] = "open"
  <2>1. CASE I!StartTask(i)
    BY <1>3, <2>1, CancelClosesGates, Zenon DEF I!StartTask, I!gateVars
  <2>2. CASE I!ReceiveForced(i)
    BY <1>3, <2>2, CancelClosesGates, Zenon DEF I!ReceiveForced, I!gateVars
  <2>3. CASE I!CallerDropped(i)
    BY <1>3, <2>3, CancelClosesGates, Zenon DEF I!CallerDropped, I!gateVars
  <2>4. CASE I!BeginCommit(i)
    BY <2>4, ZenonT(30) DEF I!BeginCommit, InstallTypes
  <2>5. CASE \/ I!ReceiveResult(i) \/ I!ReceiveClosed(i) \/ I!ChangeCache(i)
             \/ I!StatusStarts(i) \/ I!StatusEnds(i) \/ I!TakeLock(i)
             \/ I!OperationReturns(i) \/ I!OperationPanics(i) \/ I!TaskAborts(i) \/ I!Unregister(i)
    <3>1. UNCHANGED I!gateVars
      BY <2>5, Zenon
      DEF I!ReceiveResult, I!ReceiveClosed, I!ChangeCache, I!StatusStarts, I!StatusEnds,
         I!TakeLock, I!OperationReturns, I!OperationPanics, I!TaskAborts, I!Unregister
    <3> QED
      BY <3>1, Zenon DEF I!gateVars
  <2> QED
    BY <2>1, <2>2, <2>3, <2>4, <2>5, ZenonT(30)
<1>5. \A j \in Install : /\ client'[j] = "entering" <=> client[j] = "entering"
                         /\ Uncommitted(j)' => Uncommitted(j) /\ (j \in registered => j \in registered')
                         /\ task'[j] \in {"committing", "dropping"} =>
                                task[j] \in {"committing", "dropping"} \/ Uncommitted(j)
  <2> USE DEF InstallTypes, Gated, Uncommitted, I!gateVars, I!taskVars, I!clientVars
  <2>1. CASE I!StartTask(i)
    BY <2>1, SMTT(30) DEF I!StartTask
  <2>2. CASE I!ReceiveResult(i) \/ I!ReceiveClosed(i)
    BY <2>2, SMTT(30) DEF I!ReceiveResult, I!ReceiveClosed
  <2>3. CASE I!ReceiveForced(i)
    BY <2>3, SMTT(30) DEF I!ReceiveForced
  <2>4. CASE I!CallerDropped(i)
    BY <2>4, SMTT(30) DEF I!CallerDropped
  <2>5. CASE I!BeginCommit(i)
    BY <2>5 DEF I!BeginCommit
  <2>6. CASE I!ChangeCache(i) \/ I!StatusStarts(i) \/ I!StatusEnds(i) \/ I!TakeLock(i)
    <3>1. UNCHANGED <<task, client, registered>>
      BY <2>6, ZenonT(30) DEF I!ChangeCache, I!StatusStarts, I!StatusEnds, I!TakeLock
    <3> QED
      BY <3>1, Zenon
  <2>7. CASE I!OperationReturns(i) \/ I!OperationPanics(i)
    BY <2>7, SMTT(30) DEF I!OperationReturns, I!OperationPanics, I!DropTask
  <2>8. CASE I!TaskAborts(i)
    BY <2>8, SMTT(30) DEF I!TaskAborts, I!DropTask
  <2>9. CASE I!Unregister(i)
    BY <2>9, SMTT(30) DEF I!Unregister
  <2> QED
    BY <2>1, <2>2, <2>3, <2>4, <2>5, <2>6, <2>7, <2>8, <2>9, ZenonT(30)
<1>6. \A j \in Install : Held(j)'
  <2>1. permit' = permit
    BY <1>1, Zenon DEF I!admissionVars
  <2> QED
    BY <1>5, <2>1, Zenon DEF Held
<1>7. Fenced'
  BY <1>2, <1>4, <1>5, Zenon DEF Fenced
<1> QED
  BY <1>2, <1>6, <1>7, Zenon

\* What the three parts of a release do to the permits, and what they leave alone.
LEMMA ReleaseEffect ==
    ASSUME NEW o \in I!Op, I!ReleasePermit(o), permit \in [I!Op -> {"none", "entering", "held", "notify", "half"}]
    PROVE  /\ UNCHANGED <<stage, flight, drained, gone, gate, task, client, registered>>
           /\ permit[o] # "entering" /\ permit'[o] # "entering"
           /\ permit[o] = "held" /\ o \in Install => task[o] = "releasing"
           /\ \A j \in I!Op : j # o => permit'[j] = permit[j]
<1>1. UNCHANGED <<stage, gate, task, client, registered>>
  BY Zenon DEF I!ReleasePermit, I!gateVars, I!taskVars, I!clientVars
<1>2. CASE I!A!ReleaseCount(o)
  <2>1. permit[o] = "held" /\ (o \in Install => task[o] = "releasing")
    BY <1>2, Zenon DEF I!ReleasePermit, I!A!ReleaseCount, I!A!NotifyZero, I!A!ReleaseCoordinator
  <2> QED
    BY <1>1, <1>2, <2>1, Zenon DEF I!A!ReleaseCount
<1>3. CASE I!A!NotifyZero(o)
  BY <1>1, <1>3, Zenon DEF I!A!NotifyZero
<1>4. CASE I!A!ReleaseCoordinator(o)
  BY <1>1, <1>4, Zenon DEF I!A!ReleaseCoordinator
<1> QED
  BY <1>2, <1>3, <1>4, Zenon DEF I!ReleasePermit

\* A call of shutdown starts the flight, or leaves the flight alone.
LEMMA ShutdownCallEffect ==
    ASSUME NEW c \in Caller, I!ShutdownCall(c)
    PROVE  /\ UNCHANGED <<permit, gone, gate, task, client, registered>>
           /\ \/ UNCHANGED <<stage, flight, drained>>
              \/ /\ flight \notin {"fencing", "closing", "done", "aborted"}
                 /\ flight' \notin {"closing", "done", "aborted"}
                 /\ stage' = I!EnterStage
<1>1. UNCHANGED <<gate, task, client, registered>>
  BY Zenon DEF I!ShutdownCall, I!gateVars, I!taskVars, I!clientVars
<1>2. ASSUME NEW requested \in {"none", "ahead"}, I!A!BeginShutdown(c, requested), stage' = I!EnterStage
      PROVE  /\ UNCHANGED <<permit, gone>>
             /\ flight \notin {"fencing", "closing", "done", "aborted"}
             /\ flight' \notin {"closing", "done", "aborted"}
  BY <1>2, Zenon DEF I!A!BeginShutdown
<1>3. ASSUME NEW requested \in {"none", "ahead"}, I!A!JoinShutdown(c, requested)
      PROVE  UNCHANGED <<permit, gone, flight, drained>>
  BY <1>3, Zenon DEF I!A!JoinShutdown
<1>4. CASE I!A!ReturnVerdict(c) /\ UNCHANGED stage
  BY <1>1, <1>4, Zenon DEF I!A!ReturnVerdict
<1>5. CASE I!A!AbandonShutdown(c) /\ UNCHANGED stage
  BY <1>1, <1>5, Zenon DEF I!A!AbandonShutdown
<1>6. CASE \E requested \in {"none", "ahead"} : I!A!BeginShutdown(c, requested) /\ stage' = I!EnterStage
  BY <1>1, <1>2, <1>6, Zenon
<1>7. CASE \E requested \in {"none", "ahead"} : I!A!JoinShutdown(c, requested) /\ UNCHANGED stage
  BY <1>1, <1>3, <1>7, Zenon
<1> QED
  BY <1>4, <1>5, <1>6, <1>7, Zenon DEF I!ShutdownCall

\* A permit leaves "held" only at the end of its install's task, and other
\* operations have permits of their own.
LEMMA FenceOfPermits ==
    ASSUME I!InstallAssumption, AdmissionSound, GateInv, FenceInv,
           \/ \E o \in I!Op : I!ReleasePermit(o)
           \/ \E w \in Work : I!WorkEnter(w) \/ I!WorkAwait(w)
    PROVE  FenceInv'
<1> USE DEF AdmissionSound, FenceInv
<1>1. UNCHANGED <<stage, flight, drained, gone, gate, task, client, registered>>
  <2>1. CASE \E o \in I!Op : I!ReleasePermit(o)
    BY <2>1, ReleaseEffect, Zenon
  <2>2. CASE \E w \in Work : I!WorkEnter(w)
    BY <2>2, Zenon DEF I!WorkEnter, I!A!AdmitCoordinator, I!A!AdmitCount, I!gateVars, I!taskVars,
       I!clientVars
  <2>3. CASE \E w \in Work : I!WorkAwait(w)
    BY <2>3, Zenon DEF I!WorkAwait, I!admissionVars, I!gateVars, I!taskVars, I!clientVars
  <2> QED
    BY <2>1, <2>2, <2>3, Zenon
<1>2. StageAgrees' /\ Fenced'
  BY <1>1, Zenon DEF StageAgrees, Fenced, PastInstalls, Uncommitted
<1>3. ASSUME NEW j \in Install
      PROVE  (permit'[j] = "entering" <=> permit[j] = "entering") /\
             (permit[j] = "held" /\ task[j] # "releasing" => permit'[j] = "held")
  <2>1. j \in I!Op /\ j \notin Work
    BY Zenon DEF I!InstallAssumption, I!Op
  <2>2. CASE \E o \in I!Op : I!ReleasePermit(o)
    <3>1. PICK o \in I!Op : I!ReleasePermit(o)
      BY <2>2, Zenon
    <3>2. /\ permit[o] # "entering" /\ permit'[o] # "entering"
          /\ permit[o] = "held" /\ o \in Install => task[o] = "releasing"
          /\ \A k \in I!Op : k # o => permit'[k] = permit[k]
      BY <3>1, ReleaseEffect, Zenon
    <3> QED
      BY <2>1, <3>2, Zenon
  <2>3. CASE \E w \in Work : I!WorkEnter(w) \/ I!WorkAwait(w)
    BY <2>1, <2>3, ZenonT(30)
    DEF I!WorkEnter, I!WorkAwait, I!A!AdmitCoordinator, I!A!AdmitCount, I!admissionVars
  <2> QED
    BY <2>2, <2>3, Zenon
<1>4. \A j \in Install : Uncommitted(j) => task[j] # "releasing"
  BY Zenon DEF Uncommitted, GateInv, Gated
<1>5. \A j \in Install : Held(j)'
  <2> SUFFICES ASSUME NEW j \in Install
               PROVE  Held(j)'
    BY Zenon
  <2>1. Held(j) /\ (Uncommitted(j)' <=> Uncommitted(j))
    BY <1>1, Zenon DEF Uncommitted
  <2>2. /\ permit'[j] = "entering" <=> permit[j] = "entering"
        /\ permit[j] = "held" /\ task[j] # "releasing" => permit'[j] = "held"
        /\ Uncommitted(j) => task[j] # "releasing"
    BY <1>3, <1>4, Zenon
  <2> QED
    BY <1>1, <2>1, <2>2, Zenon DEF Held
<1> QED
  BY <1>2, <1>5, Zenon

\* The flight that gets its verdict goes past the installs at once only when it
\* drained: then no install holds a permit.
LEMMA FenceOfVerdict ==
    ASSUME AdmissionSound, AdmissionSound', GateInv, FenceInv,
           (\E c \in Caller : I!ShutdownCall(c)) \/ I!FlightWait \/ I!Clock
    PROVE  FenceInv'
<1> USE DEF FenceInv
<1>1. UNCHANGED <<permit, gone, gate, task, client, registered>>
  <2> USE DEF I!gateVars, I!taskVars, I!clientVars
  <2>1. CASE \E c \in Caller : I!ShutdownCall(c)
    BY <2>1, ShutdownCallEffect, Zenon
  <2>2. CASE I!FlightWait
    <3>1. CASE I!A!ArmWaiter
      BY <2>2, <3>1, Zenon DEF I!FlightWait, I!A!ArmWaiter
    <3>2. CASE I!A!CheckDeadline
      BY <2>2, <3>2, Zenon DEF I!FlightWait, I!A!CheckDeadline
    <3>3. CASE I!A!CheckCount
      BY <2>2, <3>3, Zenon DEF I!FlightWait, I!A!CheckCount
    <3>4. CASE I!A!WakeDeadlineChanged
      BY <2>2, <3>4, Zenon DEF I!FlightWait, I!A!WakeDeadlineChanged
    <3>5. CASE I!A!WakeTimer
      BY <2>2, <3>5, Zenon DEF I!FlightWait, I!A!WakeTimer
    <3>6. CASE I!A!WakeNotified
      BY <2>2, <3>6, Zenon DEF I!FlightWait, I!A!WakeNotified
    <3> QED
      BY <2>2, <3>1, <3>2, <3>3, <3>4, <3>5, <3>6, ZenonT(30) DEF I!FlightWait
  <2>3. CASE I!Clock
    BY <2>3, Zenon DEF I!Clock, I!A!ClockPasses
  <2> QED
    BY <2>1, <2>2, <2>3, Zenon
<1>2. \A j \in Install : Held(j)'
  BY <1>1, ZenonT(30) DEF Held, Uncommitted
<1>3. \/ UNCHANGED <<stage, flight, drained>>
      \/ /\ flight \notin {"fencing", "closing", "done", "aborted"}
         /\ flight' \notin {"closing", "done", "aborted"}
         /\ stage' = I!EnterStage
  <2>1. CASE \E c \in Caller : I!ShutdownCall(c)
    BY <2>1, ShutdownCallEffect, Zenon
  <2>2. CASE I!FlightWait
    <3>1. CASE I!A!ArmWaiter
      BY <2>2, <3>1, Zenon DEF I!FlightWait, I!A!ArmWaiter
    <3>2. CASE I!A!CheckDeadline
      BY <2>2, <3>2, Zenon DEF I!FlightWait, I!A!CheckDeadline
    <3>3. CASE I!A!CheckCount
      BY <2>2, <3>3, Zenon DEF I!FlightWait, I!A!CheckCount
    <3>4. CASE I!A!WakeDeadlineChanged
      BY <2>2, <3>4, Zenon DEF I!FlightWait, I!A!WakeDeadlineChanged
    <3>5. CASE I!A!WakeTimer
      BY <2>2, <3>5, Zenon DEF I!FlightWait, I!A!WakeTimer
    <3>6. CASE I!A!WakeNotified
      BY <2>2, <3>6, Zenon DEF I!FlightWait, I!A!WakeNotified
    <3> QED
      BY <2>2, <3>1, <3>2, <3>3, <3>4, <3>5, <3>6, ZenonT(30) DEF I!FlightWait
  <2>3. CASE I!Clock
    BY <2>3, Zenon DEF I!Clock, I!A!ClockPasses
  <2> QED
    BY <2>1, <2>2, <2>3, Zenon
<1>4. CASE UNCHANGED <<stage, flight, drained>>
  BY <1>1, <1>2, <1>4, Zenon DEF StageAgrees, Fenced, PastInstalls, Uncommitted
<1>5. CASE /\ flight \notin {"fencing", "closing", "done", "aborted"}
           /\ flight' \notin {"closing", "done", "aborted"}
           /\ stage' = I!EnterStage
  <2>1. stage = "idle"
    BY <1>5, Zenon DEF StageAgrees, GateInv, InstallTypes
  <2>2. StageAgrees'
    BY <1>5, <2>1, Zenon DEF StageAgrees, I!EnterStage
  <2>3. ~gone'
    BY <1>1, <1>5, Zenon DEF AdmissionSound
  <2>4. CASE flight' = "fencing" /\ drained'
    <3>1. \A j \in Install : permit'[j] # "held"
      BY <2>4, Zenon DEF AdmissionSound, I!Op
    <3>2. Fenced'
      BY <1>2, <3>1, Zenon DEF Fenced, Held
    <3> QED
      BY <1>2, <2>2, <3>2, Zenon
  <2>5. CASE ~(flight' = "fencing" /\ drained')
    <3>1. ~PastInstalls'
      BY <1>5, <2>1, <2>3, <2>5, Zenon DEF PastInstalls, I!EnterStage
    <3> QED
      BY <1>2, <2>2, <3>1, Zenon DEF Fenced
  <2> QED
    BY <2>4, <2>5, Zenon
<1> QED
  BY <1>3, <1>4, <1>5, Zenon

\* Before finish_shutdown passes the installs, and before the runtime goes, the
\* gate of every registered install is closed.
LEMMA FenceOfStages ==
    ASSUME AdmissionSound, GateInv, FenceInv, I!ShutdownStage \/ I!DropRuntime
    PROVE  FenceInv'
<1> USE DEF AdmissionSound, FenceInv
<1>1. UNCHANGED <<permit, drained, task, client, registered>>
  BY Zenon
  DEF I!ShutdownStage, I!ShutdownCancelInstalls, I!ShutdownForce, I!ShutdownRest, I!DropRuntime,
     I!A!ForceStopCoordinator, I!A!FinishFlight, I!A!DropInner, I!admissionVars, I!taskVars, I!clientVars
<1>2. \A j \in Install : Held(j)' /\ (Uncommitted(j)' <=> Uncommitted(j))
  BY <1>1, Zenon DEF Held, Uncommitted
<1>3. CASE I!ShutdownCancelInstalls
  <2>1. StageAgrees'
    BY <1>3, Zenon DEF I!ShutdownCancelInstalls, StageAgrees, I!admissionVars
  <2>2. registered \in SUBSET Install
    BY Zenon DEF GateInv, InstallTypes
  <2>3. Fenced'
    BY <1>2, <1>3, <2>2, CancelClosesGates, Zenon DEF I!ShutdownCancelInstalls, Fenced, Held
  <2> QED
    BY <1>2, <2>1, <2>3, Zenon
<1>4. CASE I!ShutdownForce
  <2>1. StageAgrees' /\ PastInstalls
    BY <1>4, Zenon DEF I!ShutdownForce, StageAgrees, PastInstalls, I!admissionVars
  <2>2. Fenced'
    BY <1>2, <1>4, <2>1, ZenonT(30) DEF I!ShutdownForce, Fenced, I!gateVars
  <2> QED
    BY <1>2, <2>1, <2>2, ZenonT(30)
<1>5. CASE I!ShutdownRest
  <2>1. StageAgrees' /\ PastInstalls
    BY <1>5, Zenon DEF I!ShutdownRest, StageAgrees, PastInstalls, I!A!ForceStopCoordinator,
       I!A!FinishFlight
  <2>2. Fenced'
    BY <1>2, <1>5, <2>1, ZenonT(30) DEF I!ShutdownRest, Fenced, I!gateVars
  <2> QED
    BY <1>2, <2>1, <2>2, Zenon
<1>6. CASE I!DropRuntime
  <2>1. StageAgrees'
    BY <1>6, Zenon DEF I!DropRuntime, StageAgrees, I!A!DropInner
  <2>2. registered \in SUBSET Install
    BY Zenon DEF GateInv, InstallTypes
  <2>3. Fenced'
    BY <1>2, <1>6, <2>2, CancelClosesGates, ZenonT(30) DEF I!DropRuntime, Fenced, Held
  <2> QED
    BY <1>2, <2>1, <2>3, Zenon
<1> QED
  BY <1>3, <1>4, <1>5, <1>6, Zenon DEF I!ShutdownStage

\* No step breaks FenceInv.
LEMMA NextFence ==
    ASSUME I!InstallAssumption
    PROVE  AdmissionSound /\ AdmissionSound' /\ GateInv /\ FenceInv /\ [I!Next]_(I!vars) => FenceInv'
<1> SUFFICES ASSUME AdmissionSound, AdmissionSound', GateInv, FenceInv, [I!Next]_(I!vars)
             PROVE  FenceInv'
  BY Zenon
<1>1. CASE UNCHANGED I!vars \/ I!OtherReconciles
  <2>1. UNCHANGED <<stage, flight, drained, gone, permit, gate, task, client, registered>>
    BY <1>1, Zenon
    DEF I!vars, I!OtherReconciles, I!admissionVars, I!gateVars, I!taskVars, I!clientVars
  <2> QED
    BY <2>1, Zenon DEF FenceInv, StageAgrees, Held, Fenced, PastInstalls, Uncommitted
<1> QED
  BY <1>1, FenceOfEntry, FenceOfInstall, FenceOfPermits, FenceOfVerdict, FenceOfStages, ZenonT(30)
  DEF I!Next, I!ClientStep

\* The only step that crosses a gate finds it open.
LEMMA OnlyOpenGatesAreCrossed ==
    ASSUME GateInv, [I!Next]_(I!vars), NEW i \in Install, gate'[i] = "crossed", gate[i] # "crossed"
    PROVE  task[i] = "running" /\ gate[i] = "open"
<1> USE DEF GateInv, InstallTypes
<1>1. ASSUME NEW S \in SUBSET Install, I!CancelBeforeCommit(S)
      PROVE  FALSE
  BY <1>1, CancelClosesGates, Zenon
<1>2. ASSUME NEW j \in Install, I!BeginCommit(j)
      PROVE  task[i] = "running" /\ gate[i] = "open"
  BY <1>2, Zenon DEF I!BeginCommit
<1>3. CASE UNCHANGED gate
  BY <1>3, ZenonT(30)
<1>4. ASSUME NEW j \in Install, I!StartTask(j) \/ I!ReceiveForced(j) \/ I!CallerDropped(j)
      PROVE  UNCHANGED gate
  <2>1. {j} \in SUBSET Install
    BY Zenon
  <2> QED
    BY <1>1, <1>4, <2>1, ZenonT(30) DEF I!StartTask, I!ReceiveForced, I!CallerDropped, I!gateVars
<1>5. ASSUME I!ShutdownStage \/ I!DropRuntime
      PROVE  UNCHANGED gate
  BY <1>1, <1>5, ZenonT(30)
  DEF I!ShutdownStage, I!ShutdownCancelInstalls, I!ShutdownForce, I!ShutdownRest,
     I!DropRuntime, I!gateVars
<1>6. \/ \E j \in Install : I!BeginCommit(j) \/ I!StartTask(j) \/ I!ReceiveForced(j) \/ I!CallerDropped(j)
      \/ I!ShutdownStage \/ I!DropRuntime
      \/ UNCHANGED gate
  BY Zenon
  DEF I!Next, I!vars, I!gateVars, I!ClientStep, I!BeginEnter, I!BeginRegister, I!ReceiveResult,
     I!ReceiveClosed, I!StatusStarts, I!StatusEnds, I!TakeLock, I!ChangeCache, I!OperationReturns,
     I!OperationPanics, I!TaskAborts, I!Unregister, I!ReleasePermit, I!WorkEnter, I!WorkAwait,
     I!ShutdownCall, I!FlightWait, I!Clock, I!OtherReconciles
<1> QED
  BY <1>2, <1>3, <1>4, <1>5, <1>6, ZenonT(30)

-----------------------------------------------------------------------------
(* The invariant of admission, carried over from WorkAdmissionProofs. *)

\* What is proved of admission by itself.
AP == INSTANCE WorkAdmissionProofs WITH Op <- I!Op, Detached <- Install, NoOp <- None

\* What the library proves of finite sets.
Finite == INSTANCE FiniteSetTheorems

\* The constants meet the assumption of WorkAdmission.
LEMMA AdmissionConstants ==
    ASSUME I!InstallAssumption
    PROVE  AP!IsFiniteSet(I!Op) /\ Install \subseteq I!Op /\ None \notin I!Op
<1>1. Finite!IsFiniteSet(Install) /\ Finite!IsFiniteSet(Work)
  BY ZenonT(30) DEF I!InstallAssumption, I!IsFiniteSet, Finite!IsFiniteSet
<1>2. Finite!IsFiniteSet(I!Op)
  BY <1>1, Finite!FS_Union, ZenonT(30) DEF I!Op
<1>3. AP!IsFiniteSet(I!Op)
  BY <1>2, ZenonT(30) DEF Finite!IsFiniteSet, AP!IsFiniteSet
<1> QED
  BY <1>3, ZenonT(30) DEF I!InstallAssumption, I!Op

\* The two instances of WorkAdmission have the same steps.
LEMMA SameSteps == [I!A!Next]_(I!A!vars) => [AP!Next]_(AP!vars)
<1>1. ASSUME NEW o \in I!Op
      PROVE  /\ I!A!AdmitCoordinator(o) => AP!AdmitCoordinator(o)
             /\ I!A!AdmitCount(o) => AP!AdmitCount(o)
             /\ I!A!ReleaseCount(o) => AP!ReleaseCount(o)
             /\ I!A!NotifyZero(o) => AP!NotifyZero(o)
             /\ I!A!ReleaseCoordinator(o) => AP!ReleaseCoordinator(o)
  BY ZenonT(30) DEF I!A!AdmitCoordinator, AP!AdmitCoordinator, I!A!AdmitCount, AP!AdmitCount,
     I!A!ReleaseCount, AP!ReleaseCount, I!A!NotifyZero, AP!NotifyZero,
     I!A!ReleaseCoordinator, AP!ReleaseCoordinator
<1>2. ASSUME NEW c \in Caller, NEW requested \in {"none", "ahead"}
      PROVE  /\ I!A!BeginShutdown(c, requested) => AP!BeginShutdown(c, requested)
             /\ I!A!JoinShutdown(c, requested) => AP!JoinShutdown(c, requested)
             /\ I!A!ReturnVerdict(c) => AP!ReturnVerdict(c)
             /\ I!A!AbandonShutdown(c) => AP!AbandonShutdown(c)
  BY ZenonT(30) DEF I!A!BeginShutdown, AP!BeginShutdown, I!A!CoordinatorBegin, AP!CoordinatorBegin,
     I!A!JoinShutdown, AP!JoinShutdown, I!A!ReturnVerdict, AP!ReturnVerdict,
     I!A!AbandonShutdown, AP!AbandonShutdown
<1>3. I!A!Flight => AP!Flight
  BY ZenonT(30)
  DEF I!A!Flight, AP!Flight, I!A!ArmWaiter, AP!ArmWaiter, I!A!CheckDeadline, AP!CheckDeadline,
     I!A!CheckCount, AP!CheckCount, I!A!WakeDeadlineChanged, AP!WakeDeadlineChanged,
     I!A!WakeTimer, AP!WakeTimer, I!A!WakeNotified, AP!WakeNotified, I!A!DropWaiter,
     AP!DropWaiter, I!A!ForceStopCoordinator, AP!ForceStopCoordinator, I!A!FinishFlight,
     AP!FinishFlight
<1>4. (I!A!ClockPasses => AP!ClockPasses) /\ (I!A!DropInner => AP!DropInner)
  BY ZenonT(30) DEF I!A!ClockPasses, AP!ClockPasses, I!A!DropInner, AP!DropInner, I!A!DropWaiter,
     AP!DropWaiter
<1>5. I!A!Next => AP!Next
  BY <1>1, <1>2, <1>3, <1>4, SMTT(30) DEF I!A!Next, AP!Next
<1> QED
  BY <1>5, ZenonT(30) DEF I!A!vars, AP!vars

\* The inductive invariant of admission holds of the composition.
LEMMA AdmissionInvariant ==
    ASSUME I!InstallAssumption
    PROVE  I!Spec => []AP!IInv
<1>1. I!A!Init => AP!Init
  BY ZenonT(30) DEF I!A!Init, AP!Init
<1>2. I!A!Spec => AP!Spec
  BY <1>1, SameSteps, PTL DEF I!A!Spec, AP!Spec
<1>3. AP!Spec => []AP!IInv
  BY AP!Invariance, AdmissionConstants, PTL
<1> QED
  BY <1>2, <1>3, ImplementsAdmission, PTL DEF I!AdmissionSpec

\* The invariant of admission gives what the proofs above needed of it.
LEMMA AdmissionFacts ==
    ASSUME I!InstallAssumption
    PROVE  AP!IInv => AdmissionSound
<1> SUFFICES ASSUME AP!IInv
             PROVE  AdmissionSound
  BY ZenonT(30)
<1> USE DEF AP!IInv
<1>1. permit \in [I!Op -> {"none", "entering", "held", "notify", "half"}] /\ drained \in BOOLEAN
  BY ZenonT(30) DEF AP!TypeOK, AP!PermitState
<1>2. draining => \A o \in I!Op : permit[o] # "entering"
  BY AdmissionConstants, ZenonT(30) DEF AP!Closed, AP!AdminOwner
<1>3. flight \in {"fencing", "closing", "done"} /\ drained =>
          \A o \in I!Op : permit[o] \notin {"entering", "held"}
  BY ZenonT(30) DEF AP!DrainedIsQuiescent, AP!Decided, AP!Live
<1> QED
  BY <1>1, <1>2, <1>3, SMTT(30) DEF AP!Closed, AdmissionSound

-----------------------------------------------------------------------------
(* The results. *)

\* What the caller of an install is told is true, for any number of installs racing
\* any number of shutdown callers, dropped callers and a dropped runtime, and for any
\* operation that finishes a repair it finds: an install that was cancelled is not
\* promoted by anybody.
THEOREM VerdictsAreTruthful ==
    ASSUME I!InstallAssumption
    PROVE  I!Spec => []I!VerdictIsTruthful
<1>1. AP!IInv => I!A!TypeOK
  BY ZenonT(30) DEF AP!IInv, AP!TypeOK, I!A!TypeOK, AP!PermitState, I!A!PermitState, AP!FlightState,
     I!A!FlightState
<1>2. GateInv /\ I!A!TypeOK => I!VerdictIsTruthful
  BY DEF GateInv, InstallTypes, Gated, I!VerdictIsTruthful, I!TypeOK
<1> QED
  BY <1>1, <1>2, InitGate, NextGate, AdmissionInvariant, PTL DEF I!Spec

\* Once a shutdown has gone past the installs, or the runtime is gone, only
\* installs that were already committing go on to promote: no caller that registers
\* late, and no task that is scheduled late, passes the gate.
THEOREM StopIsFinalForInstalls ==
    ASSUME I!InstallAssumption
    PROVE  I!Spec => I!NoCommitBehindStop
<1>1. GateInv /\ FenceInv /\ [I!Next]_(I!vars)
      => [(stage \in {"force", "coordinator", "finish"} \/ flight = "done" \/ gone)
            => (\A i \in Install : gate'[i] = "crossed" => gate[i] = "crossed")]_(I!vars)
  BY OnlyOpenGatesAreCrossed, ZenonT(30) DEF FenceInv, Fenced, PastInstalls, Uncommitted
<1>2. I!Spec => []GateInv
  BY InitGate, NextGate, PTL DEF I!Spec
<1>3. I!Spec => []FenceInv
  BY <1>2, InitFence, NextFence, AdmissionFacts, AdmissionInvariant, PTL DEF I!Spec
<1> QED
  BY <1>1, <1>2, <1>3, PTL DEF I!Spec, I!NoCommitBehindStop
=============================================================================
