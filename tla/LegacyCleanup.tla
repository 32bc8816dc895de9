---------------------------- MODULE LegacyCleanup ----------------------------
(***************************************************************************)
(* Reversible clean-up, internal/cleanup: Apply moves recognised files and *)
(* links out of the way behind a durable backup and receipt, Restore puts  *)
(* them back.  A file is one of four things at its original path: absent,  *)
(* the reviewed content, the reviewed content with a second hard link left *)
(* in a restoration workspace, or anything else.  What a process writes is *)
(* durable only after the directory it is in has been synchronised; a      *)
(* crash loses any part of the rest.  The administrator may edit the paths *)
(* at any moment, and any system call may fail.  Digests, modes, owners    *)
(* and link counts are one comparison: does the entry match the receipt.   *)
(***************************************************************************)
EXTENDS Integers

CONSTANTS
    Rules,            \* the compiled rules, in the order they are processed
    Symlinks,         \* the rules whose entry is a symbolic link
    MaxTransactions,  \* bound: runs of Apply that create a backup
    MaxRestores,      \* bound: runs of Restore
    MaxFaults,        \* bound: failed calls and crashes
    MaxEdits          \* bound: edits by the administrator

ASSUME RulesAssumption == Rules \subseteq Nat
ASSUME SymlinksAssumption == Symlinks \subseteq Rules
ASSUME BoundsAssumption == /\ MaxTransactions \in Nat /\ MaxRestores \in Nat
                           /\ MaxFaults \in Nat /\ MaxEdits \in Nat

Tx == 1 .. MaxTransactions

Contents == {"absent", "reviewed", "linked", "other"}
Quarantined == {"none", "empty", "reviewed", "other"}
Copies   == {"none", "reviewed", "other", "torn"}
Json     == {"none", "torn", "whole"}

FileSystems == [orig : [Rules -> Contents],
                quarantine : [Tx \X Rules -> Quarantined],
                backup  : [Tx \X Rules -> Copies],
                pending : [Tx -> Json],
                final   : [Tx -> Json]]

VARIABLES
    fs,       \* what processes see
    disk,     \* what would survive a crash
    changes,  \* the entries each transaction's receipts name
    \* the running process
    pc, tx,   \* step and transaction
    todo,     \* entries the current loop still has to handle
    plan,     \* the reviewed scan
    result,   \* how the last run ended
    \* bounds and history
    used, restores, faults, edits,
    touched   \* entries the administrator has edited

vars == <<fs, disk, changes, pc, tx, todo, plan, result, used, restores, faults,
          edits, touched>>
counts == <<used, restores, edits, touched>>

ApplySteps == {"quarantine", "verify", "copy", "persist", "pending", "syncpending",
               "check", "rename", "moved", "remove", "removed", "final",
               "syncfinal", "drop"}
Loops == {"quarantine", "verify", "copy", "persist", "check", "rename", "moved",
          "remove", "removed"}
RestoreSteps == {"inspect", "publish", "published", "unlink"}

Init ==
    /\ \E o \in [Rules -> {"absent", "reviewed", "other"}] :
          fs = [orig |-> o,
                quarantine |-> [e \in Tx \X Rules |-> "none"],
                backup  |-> [e \in Tx \X Rules |-> "none"],
                pending |-> [t \in Tx |-> "none"],
                final   |-> [t \in Tx |-> "none"]]
    /\ disk = fs /\ changes = [t \in Tx |-> {}]
    /\ pc = "idle" /\ tx = 0 /\ todo = {} /\ result = "none"
    /\ plan = [r \in Rules |-> "absent"]
    /\ used = 0 /\ restores = 0 /\ faults = 0 /\ edits = 0 /\ touched = {}

First(r) == r \in todo /\ \A q \in todo : r <= q

-----------------------------------------------------------------------------
(* Synchronising a directory makes what is in it durable.  A rename is     *)
(* atomic, so an original is never saved without its quarantines.          *)

SyncPlace(f, r) ==
    [disk EXCEPT !.orig[r] = f.orig[r],
                 !.quarantine = [e \in Tx \X Rules |->
                     IF e[2] = r THEN f.quarantine[e] ELSE disk.quarantine[e]]]

SyncBackup(f, r) == [disk EXCEPT !.backup[<<tx, r>>] = f.backup[<<tx, r>>]]

SyncReceipts(f) == [disk EXCEPT !.pending[tx] = f.pending[tx], !.final[tx] = f.final[tx]]

(* How a run ends, and how a failed call ends it.                          *)
End(answer) == pc' = "idle" /\ result' = answer /\ todo' = {}

Fault == faults < MaxFaults /\ faults' = faults + 1

(* removeAnchoredEmptyDirectories, on the errors that precede the receipt. *)
WithoutEmpty(f) ==
    [f EXCEPT !.quarantine = [e \in Tx \X Rules |->
        IF e[1] = tx /\ f.quarantine[e] = "empty" THEN "none" ELSE f.quarantine[e]]]

Abandon(f, d) == /\ End("failed") /\ fs' = WithoutEmpty(f) /\ disk' = WithoutEmpty(d)

(* The next entry of this loop, or the step after it with every entry.     *)
Continue(r, step, next, again) ==
    IF todo = {r} THEN pc' = next /\ todo' = again
                  ELSE pc' = step /\ todo' = todo \ {r}

-----------------------------------------------------------------------------
(* Apply, before its first mutation.                                       *)

(* Only the reviewed content, with one link, is recognised.                *)
Recognized == {r \in Rules : plan[r] = "reviewed"}

ScanPlan ==
    /\ pc = "idle" /\ used < MaxTransactions
    /\ plan' = fs.orig /\ pc' = "planned"
    /\ UNCHANGED <<fs, disk, changes, tx, todo, result, faults, counts>>

UnchangedSincePlan == \A r \in Rules : plan[r] # "absent" => fs.orig[r] = plan[r]

BeginApply ==
    /\ pc = "planned"
    /\ \/ /\ UnchangedSincePlan /\ Recognized # {}
          /\ used' = used + 1 /\ tx' = used + 1
          /\ changes' = [changes EXCEPT ![used + 1] = Recognized]
          /\ pc' = "quarantine" /\ todo' = Recognized /\ result' = "none"
       \/ UnchangedSincePlan /\ Recognized = {} /\ End("complete")
          /\ UNCHANGED <<used, tx, changes>>
       \/ ~UnchangedSincePlan /\ End("failed") /\ UNCHANGED <<used, tx, changes>>
    /\ UNCHANGED <<fs, disk, plan, restores, faults, edits, touched>>

(* The backup directory cannot be created or protected.                    *)
NoBackupDirectory ==
    /\ pc = "planned" /\ Fault /\ End("failed")
    /\ UNCHANGED <<fs, disk, changes, tx, plan, counts>>

MakeQuarantine == \E r \in todo :
    /\ pc = "quarantine" /\ First(r)
    /\ \/ /\ fs' = [fs EXCEPT !.quarantine[<<tx, r>>] = "empty"]
          /\ disk' = [disk EXCEPT !.quarantine[<<tx, r>>] = "empty"]
          /\ Continue(r, "quarantine", "verify", changes[tx])
          /\ UNCHANGED <<result, faults>>
       \/ Fault /\ Abandon(fs, disk)
    /\ UNCHANGED <<changes, tx, plan, counts>>

VerifyTarget == \E r \in todo :
    /\ pc = "verify" /\ First(r)
    /\ \/ fs.orig[r] = "reviewed" /\ pc' = "copy"
          /\ UNCHANGED <<fs, disk, todo, result, faults>>
       \/ fs.orig[r] # "reviewed" /\ Abandon(fs, disk) /\ UNCHANGED faults
       \/ Fault /\ Abandon(fs, disk)
    /\ UNCHANGED <<changes, tx, plan, counts>>

CopyBackup == \E r \in todo :
    /\ pc = "copy" /\ First(r)
    /\ \/ /\ fs.orig[r] \in {"reviewed", "other"} /\ pc' = "persist"
          /\ fs' = [fs EXCEPT !.backup[<<tx, r>>] = fs.orig[r]]
          /\ UNCHANGED <<disk, todo, result, faults>>
       \/ fs.orig[r] = "absent" /\ Abandon(fs, disk) /\ UNCHANGED faults
       \/ Fault /\ Abandon(fs, disk)
    /\ UNCHANGED <<changes, tx, plan, counts>>

(* The copy is synchronised, read back and compared with the receipt.      *)
PersistBackup == \E r \in todo :
    /\ pc = "persist" /\ First(r)
    /\ \/ /\ fs.backup[<<tx, r>>] = "reviewed" /\ disk' = SyncBackup(fs, r)
          /\ Continue(r, "verify", "pending", {})
          /\ UNCHANGED <<fs, result, faults>>
       \/ fs.backup[<<tx, r>>] # "reviewed" /\ Abandon(fs, SyncBackup(fs, r)) /\ UNCHANGED faults
       \/ Fault /\ Abandon(fs, disk)
    /\ UNCHANGED <<changes, tx, plan, counts>>

WritePending ==
    /\ pc = "pending"
    /\ \/ fs' = [fs EXCEPT !.pending[tx] = "whole"] /\ pc' = "syncpending"
          /\ UNCHANGED <<disk, todo, result, faults>>
       \/ Fault /\ \E j \in {"none", "torn"} :
                      Abandon([fs EXCEPT !.pending[tx] = j], disk)
    /\ UNCHANGED <<changes, tx, plan, counts>>

(* Slip: the first original is moved while the receipt is in the cache.    *)
MutantSyncPending ==
    /\ pc = "syncpending" /\ pc' = "check" /\ todo' = changes[tx]
    /\ UNCHANGED <<fs, disk, result, faults, changes, tx, plan, counts>>

SyncPending ==
    /\ pc = "syncpending"
    /\ \/ disk' = SyncReceipts(fs) /\ pc' = "check" /\ todo' = changes[tx]
          /\ UNCHANGED <<result, faults>>
       \/ Fault /\ End("failed") /\ UNCHANGED disk
    /\ UNCHANGED <<fs, changes, tx, plan, counts>>

-----------------------------------------------------------------------------
(* Apply, one entry at a time; an error keeps the prepared receipt.        *)

CheckTarget == \E r \in todo :
    /\ pc = "check" /\ First(r)
    /\ \/ fs.orig[r] = "reviewed" /\ pc' = "rename" /\ UNCHANGED <<todo, result, faults>>
       \/ fs.orig[r] # "reviewed" /\ End("failed") /\ UNCHANGED faults
       \/ Fault /\ End("failed")
    /\ UNCHANGED <<fs, disk, changes, tx, plan, counts>>

(* The name is moved, whatever the administrator has put there meanwhile.  *)
Rename == \E r \in todo :
    /\ pc = "rename" /\ First(r)
    /\ \/ /\ fs.orig[r] \in {"reviewed", "other"} /\ pc' = "moved"
          /\ fs' = [fs EXCEPT !.quarantine[<<tx, r>>] = fs.orig[r], !.orig[r] = "absent"]
          /\ UNCHANGED <<todo, result, faults>>
       \/ fs.orig[r] = "absent" /\ End("failed") /\ UNCHANGED <<fs, faults>>
       \/ Fault /\ End("failed") /\ UNCHANGED fs
    /\ UNCHANGED <<disk, changes, tx, plan, counts>>

(* Slip: the quarantined entry is removed without being verified again.    *)
MutantVerifyQuarantined == \E r \in todo :
    /\ pc = "moved" /\ First(r)
    /\ disk' = SyncPlace(fs, r) /\ pc' = "remove"
    /\ UNCHANGED <<fs, todo, result, faults, changes, tx, plan, counts>>

(* Both directories are synchronised, then the moved entry is compared     *)
(* with the plan once more.                                                *)
VerifyQuarantined == \E r \in todo :
    /\ pc = "moved" /\ First(r)
    /\ \/ /\ disk' = SyncPlace(fs, r)
          /\ IF fs.quarantine[<<tx, r>>] = "reviewed"
             THEN pc' = "remove" /\ UNCHANGED <<todo, result>>
             ELSE End("failed")
          /\ UNCHANGED faults
       \/ Fault /\ End("failed") /\ UNCHANGED disk
    /\ UNCHANGED <<fs, changes, tx, plan, counts>>

RemoveQuarantined == \E r \in todo :
    /\ pc = "remove" /\ First(r)
    /\ \/ fs' = [fs EXCEPT !.quarantine[<<tx, r>>] = "empty"] /\ pc' = "removed"
          /\ UNCHANGED <<todo, result, faults>>
       \/ Fault /\ End("failed") /\ UNCHANGED fs
    /\ UNCHANGED <<disk, changes, tx, plan, counts>>

(* The quarantine directory goes, and both steps are synchronised.         *)
RemoveDirectory == \E r \in todo :
    /\ pc = "removed" /\ First(r)
    /\ LET gone == [fs EXCEPT !.quarantine[<<tx, r>>] = "none"] IN
       \/ /\ fs' = gone /\ disk' = SyncPlace(gone, r)
          /\ Continue(r, "check", "final", {})
          /\ UNCHANGED <<result, faults>>
       \/ Fault /\ End("failed") /\ fs' \in {fs, gone} /\ disk' \in {disk, SyncPlace(fs, r)}
    /\ UNCHANGED <<changes, tx, plan, counts>>

WriteFinal ==
    /\ pc = "final"
    /\ \/ fs' = [fs EXCEPT !.final[tx] = "whole"] /\ pc' = "syncfinal"
          /\ UNCHANGED <<todo, result, faults>>
       \/ Fault /\ End("failed")
          /\ \E j \in {"none", "torn", "whole"} : fs' = [fs EXCEPT !.final[tx] = j]
    /\ UNCHANGED <<disk, changes, tx, plan, counts>>

SyncFinal ==
    /\ pc = "syncfinal"
    /\ \/ disk' = SyncReceipts(fs) /\ pc' = "drop" /\ UNCHANGED <<todo, result, faults>>
       \/ Fault /\ End("failed") /\ UNCHANGED disk
    /\ UNCHANGED <<fs, changes, tx, plan, counts>>

DropPending ==
    /\ pc = "drop"
    /\ LET dropped == [fs EXCEPT !.pending[tx] = "none"] IN
       \/ fs' = dropped /\ disk' = SyncReceipts(dropped) /\ End("complete")
          /\ UNCHANGED faults
       \/ Fault /\ End("failed") /\ fs' \in {fs, dropped} /\ UNCHANGED disk
    /\ UNCHANGED <<changes, tx, plan, counts>>

-----------------------------------------------------------------------------
(* Restore, from either receipt.                                           *)

BeginRestore ==
    /\ pc = "idle" /\ restores < MaxRestores /\ restores' = restores + 1
    /\ \E t \in Tx :
        /\ fs.pending[t] = "whole" \/ fs.final[t] = "whole"
        /\ changes[t] # {} /\ tx' = t /\ todo' = changes[t]
    /\ pc' = "inspect" /\ result' = "none"
    /\ UNCHANGED <<fs, disk, changes, plan, used, faults, edits, touched>>

(* Slip: an entry that is already there is inspected again.                *)
MutantNextEntry(r) ==
    IF fs.orig[r] = "reviewed" THEN pc' = "inspect" /\ UNCHANGED <<todo, result>>
    ELSE pc' = "inspect" /\ todo' = todo \ {r} /\ UNCHANGED result

NextEntry(r) ==
    IF todo = {r} THEN End("restored")
                  ELSE pc' = "inspect" /\ todo' = todo \ {r} /\ UNCHANGED result

HasSource(r) == fs.backup[<<tx, r>>] = "reviewed" \/ fs.quarantine[<<tx, r>>] = "reviewed"

(* An entry that is there must match the receipt, with one hard link.      *)
Inspect == \E r \in todo :
    /\ pc = "inspect" /\ First(r)
    /\ \/ fs.orig[r] = "reviewed" /\ NextEntry(r) /\ UNCHANGED faults
       \/ fs.orig[r] \in {"linked", "other"} /\ End("refused") /\ UNCHANGED faults
       \/ fs.orig[r] = "absent" /\ HasSource(r) /\ pc' = "publish"
          /\ UNCHANGED <<todo, result, faults>>
       \/ fs.orig[r] = "absent" /\ ~HasSource(r) /\ End("nocopy") /\ UNCHANGED faults
       \/ Fault /\ End("failed")
    /\ UNCHANGED <<fs, disk, changes, tx, plan, counts>>

Publishable(r) == fs.orig[r] = "absent"

(* A link is created in place; a file is prepared in a workspace and       *)
(* hard-linked, so that for a while it has two names.                      *)
Publish == \E r \in todo :
    /\ pc = "publish" /\ First(r)
    /\ \/ /\ Publishable(r) /\ pc' = "published"
          /\ fs' = [fs EXCEPT !.orig[r] = IF r \in Symlinks THEN "reviewed" ELSE "linked"]
          /\ UNCHANGED <<todo, result, faults>>
       \/ ~Publishable(r) /\ End("failed") /\ UNCHANGED <<fs, faults>>
       \/ Fault /\ End("failed") /\ UNCHANGED fs
    /\ UNCHANGED <<disk, changes, tx, plan, counts>>

(* removeAnchoredEntryIfSame: what was published goes, an edit stays.      *)
Withdrawn(r) == IF fs.orig[r] = "other" THEN fs ELSE [fs EXCEPT !.orig[r] = "absent"]

PersistPublished == \E r \in todo :
    /\ pc = "published" /\ First(r)
    /\ \/ /\ fs.orig[r] \in {"reviewed", "linked"} /\ disk' = SyncPlace(fs, r)
          /\ IF r \in Symlinks THEN NextEntry(r)
                               ELSE pc' = "unlink" /\ UNCHANGED <<todo, result>>
          /\ UNCHANGED <<fs, faults>>
       \/ fs.orig[r] \in {"absent", "other"} /\ End("failed") /\ UNCHANGED <<fs, disk, faults>>
       \/ Fault /\ End("failed") /\ fs' \in {fs, Withdrawn(r)} /\ UNCHANGED disk
    /\ UNCHANGED <<changes, tx, plan, counts>>

(* Slip: the workspace's name for the file is left behind.                 *)
MutantSingle(r) == fs

Single(r) == IF fs.orig[r] = "linked" THEN [fs EXCEPT !.orig[r] = "reviewed"] ELSE fs

RemoveWorkspace == \E r \in todo :
    /\ pc = "unlink" /\ First(r)
    /\ \/ fs' = Single(r) /\ disk' = SyncPlace(Single(r), r) /\ NextEntry(r)
          /\ UNCHANGED faults
       \/ Fault /\ End("failed") /\ fs' \in {fs, Single(r)} /\ UNCHANGED disk
    /\ UNCHANGED <<changes, tx, plan, counts>>

-----------------------------------------------------------------------------
(* The environment.                                                        *)

(* The administrator replaces or removes an entry, durably.                *)
Edit ==
    /\ edits < MaxEdits /\ edits' = edits + 1
    /\ \E r \in Rules, c \in {"other", "absent"} :
        /\ fs' = [fs EXCEPT !.orig[r] = c] /\ disk' = SyncPlace(fs', r)
        /\ touched' = touched \cup {r}
    /\ UNCHANGED <<changes, pc, tx, todo, plan, result, used, restores, faults>>

(* Or tidies away recovery copies, while no process runs.                  *)
Discard ==
    /\ pc = "idle" /\ edits < MaxEdits /\ edits' = edits + 1
    /\ \E t \in Tx, r \in Rules :
        /\ fs.backup[<<t, r>>] = "reviewed"
        /\ fs' = [fs EXCEPT !.backup[<<t, r>>] = "none"]
        /\ disk' = [disk EXCEPT !.backup[<<t, r>>] = "none"]
        /\ touched' = touched \cup {r}
    /\ UNCHANGED <<changes, pc, tx, todo, plan, result, used, restores, faults>>

(* A crash takes some of what was not synchronised: the lost entries fall  *)
(* back to what is on disk, and of the new files some are torn.            *)
Fallen(seen, kept, lost, torn) ==
    IF ~lost THEN seen ELSE IF torn /\ kept = "none" /\ seen # "none" THEN "torn" ELSE kept

UnsavedPlaces == {r \in Rules : \/ fs.orig[r] # disk.orig[r]
                                \/ \E t \in Tx : fs.quarantine[<<t, r>>] # disk.quarantine[<<t, r>>]}
UnsavedCopies   == {e \in Tx \X Rules : fs.backup[e] # disk.backup[e]}
UnsavedReceipts == {<<t, "pending">> : t \in {u \in Tx : fs.pending[u] # disk.pending[u]}}
                   \cup {<<t, "final">> : t \in {u \in Tx : fs.final[u] # disk.final[u]}}

Crash ==
    /\ Fault
    /\ \E places \in SUBSET UnsavedPlaces, copies \in SUBSET UnsavedCopies,
          receipts \in SUBSET UnsavedReceipts :
       \E torn \in SUBSET (copies \cup receipts) :
          fs' = [orig |-> [r \in Rules |-> IF r \in places THEN disk.orig[r] ELSE fs.orig[r]],
                  quarantine |-> [e \in Tx \X Rules |-> IF e[2] \in places
                                    THEN disk.quarantine[e] ELSE fs.quarantine[e]],
                  backup |-> [e \in Tx \X Rules |->
                      Fallen(fs.backup[e], disk.backup[e], e \in copies, e \in torn)],
                  pending |-> [t \in Tx |-> Fallen(fs.pending[t], disk.pending[t],
                      <<t, "pending">> \in receipts, <<t, "pending">> \in torn)],
                  final |-> [t \in Tx |-> Fallen(fs.final[t], disk.final[t],
                      <<t, "final">> \in receipts, <<t, "final">> \in torn)]]
    /\ disk' = fs' /\ End("none")
    /\ UNCHANGED <<changes, tx, plan, counts>>

-----------------------------------------------------------------------------
Step == \/ BeginApply \/ NoBackupDirectory \/ MakeQuarantine \/ VerifyTarget \/ CopyBackup
        \/ PersistBackup \/ WritePending \/ SyncPending \/ CheckTarget
        \/ Rename \/ VerifyQuarantined \/ RemoveQuarantined
        \/ RemoveDirectory \/ WriteFinal \/ SyncFinal \/ DropPending
        \/ Inspect \/ Publish \/ PersistPublished \/ RemoveWorkspace

Next == ScanPlan \/ BeginRestore \/ Step \/ Edit \/ Discard \/ Crash

Spec == Init /\ [][Next]_vars /\ WF_vars(Step)

-----------------------------------------------------------------------------
(* Every variable keeps to its set; a running process has a transaction,   *)
(* and a loop has an entry to work on.                                     *)
TypeOK ==
    /\ fs \in FileSystems /\ disk \in FileSystems
    /\ changes \in [Tx -> SUBSET Rules]
    /\ \A t \in Tx : t > used => changes[t] = {}
    /\ pc \in {"idle", "planned"} \cup ApplySteps \cup RestoreSteps
    /\ tx \in 0 .. MaxTransactions
    /\ pc \in ApplySteps \cup RestoreSteps => tx # 0 /\ changes[tx] # {}
    /\ pc = "planned" => used < MaxTransactions
    /\ pc \in Loops \cup RestoreSteps => todo # {} /\ todo \subseteq changes[tx]
    /\ todo \in SUBSET Rules /\ plan \in [Rules -> Contents]
    /\ result \in {"none", "complete", "failed", "restored", "refused", "nocopy"}
    /\ used \in 0 .. MaxTransactions /\ tx <= used /\ restores \in Nat
    /\ faults \in Nat /\ edits \in Nat /\ touched \in SUBSET Rules

HasReceipt(f, t) == f.pending[t] = "whole" \/ f.final[t] = "whole"

Recoverable(f, r) == \E t \in Tx :
    /\ HasReceipt(f, t) /\ r \in changes[t]
    /\ f.backup[<<t, r>>] = "reviewed" \/ f.quarantine[<<t, r>>] = "reviewed"

Ours == UNION {changes[t] : t \in Tx}

(* An entry that Apply takes away, and that nobody else has touched, is    *)
(* either in place or named by a readable receipt with an intact copy, both *)
(* for running processes and on the disk a crash would leave.              *)
NothingLost ==
    \A r \in Ours \ touched, f \in {fs, disk} :
        f.orig[r] \in {"reviewed", "linked"} \/ Recoverable(f, r)

(* A receipt that can be read, prepared or completed, names only entries   *)
(* whose verified backup is already durable.                               *)
ReceiptsNameCopies ==
    \A t \in Tx, f \in {fs, disk} : HasReceipt(f, t) =>
        \A r \in changes[t] \ touched : disk.backup[<<t, r>>] = "reviewed"

(* A restoration that reports success has put every entry nobody touched   *)
(* back, as a file with a single name.                                     *)
RestoredMeansInPlace ==
    result = "restored" => \A r \in changes[tx] \ touched : fs.orig[r] = "reviewed"

(* Restore finds no recovery copy only where somebody tidied it away.      *)
CopiesAreFound == result = "nocopy" => changes[tx] \cap touched # {}

(* Content the administrator put at a rule's path is never deleted by the  *)
(* program: if a rename catches it, it stays in quarantine.                *)
Somewhere(f, r) == f.orig[r] = "other" \/ \E t \in Tx : f.quarantine[<<t, r>>] = "other"

ForeignContentKept ==
    [][\A r \in Rules : Somewhere(fs, r) /\ edits' = edits => Somewhere(fs', r)]_vars

(* A run of Apply or Restore ends.                                         *)
RunsEnd == (pc \in ApplySteps \cup RestoreSteps) ~> (pc = "idle")

-----------------------------------------------------------------------------
(* The inductive invariant behind these properties.                        *)

Preparing == {"quarantine", "verify", "copy", "persist", "pending"}
Moving    == {"check", "rename", "moved", "remove", "removed", "final", "syncfinal",
              "drop"}

(* One of the two receipts is readable now and after any crash.            *)
Durable(t) == \/ fs.pending[t] = "whole" /\ disk.pending[t] = "whole"
              \/ fs.final[t] = "whole" /\ disk.final[t] = "whole"

Covered(r) == \E t \in Tx : Durable(t) /\ r \in changes[t]

Saved(t, r) == fs.backup[<<t, r>>] = "reviewed" /\ disk.backup[<<t, r>>] = "reviewed"

NoReceipts(t) == /\ fs.pending[t] = "none" /\ fs.final[t] = "none"
                 /\ disk.pending[t] = "none" /\ disk.final[t] = "none"

UnusedBlank == \A t \in Tx : t > used => NoReceipts(t)

CopiesReady ==
    /\ pc \in Preparing => NoReceipts(tx)
    /\ pc \in {"verify", "copy", "persist", "pending"} =>
          \A r \in changes[tx] \ (todo \cup touched) : Saved(tx, r)
    /\ pc = "pending" => todo = {}

CopiesSafe == \A t \in Tx : HasReceipt(fs, t) \/ HasReceipt(disk, t) =>
    \A r \in changes[t] \ touched : Saved(t, r)

ReceiptSafe ==
    /\ pc \in {"syncpending"} \cup Moving => fs.pending[tx] = "whole"
    /\ pc \in Moving => disk.pending[tx] = "whole"
    /\ pc \in {"syncfinal", "drop"} => fs.final[tx] = "whole"
    /\ pc = "drop" => disk.final[tx] = "whole"

OriginalsCovered ==
    /\ \A r \in Ours \ touched :
          \/ fs.orig[r] \in {"reviewed", "linked"} /\ disk.orig[r] \in {"reviewed", "linked"}
          \/ Covered(r)
    /\ \A r \in Rules \ (Ours \cup touched) : fs.orig[r] = disk.orig[r]
    /\ pc \in {"publish", "published"} =>
          \A r \in todo \ touched : First(r) => Covered(r)

ReceiptInv == UnusedBlank /\ CopiesReady /\ CopiesSafe /\ ReceiptSafe /\ OriginalsCovered

(* Foreign content is in a quarantine of the running transaction only       *)
(* between the rename that caught it and the check that finds it, and       *)
(* whatever a process sees of it a crash leaves somewhere.                  *)
UnusedEmpty == \A t \in Tx, r \in Rules : t > used =>
    fs.quarantine[<<t, r>>] # "other" /\ disk.quarantine[<<t, r>>] # "other"

OnlyJustMoved == pc \in ApplySteps => \A r \in Rules :
    fs.quarantine[<<tx, r>>] = "other" => pc = "moved" /\ First(r)

DiskEmpty == pc = "quarantine" => \A r \in Rules : disk.quarantine[<<tx, r>>] # "other"

ForeignOnDisk == \A r \in Rules : Somewhere(fs, r) => Somewhere(disk, r)

QuarantineInv == UnusedEmpty /\ OnlyJustMoved /\ DiskEmpty /\ ForeignOnDisk

(* A restoration has a receipt, what it has handled is in place, and only a *)
(* file can have a second name.                                             *)
Handled ==
    /\ pc \in RestoreSteps => HasReceipt(fs, tx)
    /\ pc \in RestoreSteps =>
          \A r \in changes[tx] \ (todo \cup touched) : fs.orig[r] = "reviewed"
    /\ pc \in {"published", "unlink"} => \A r \in todo \ touched :
          First(r) => fs.orig[r] \in {"reviewed", "linked"}

SymlinksSingle == \A r \in Symlinks : fs.orig[r] # "linked" /\ disk.orig[r] # "linked"

Answers == /\ pc \notin {"idle", "planned"} => result = "none"
           /\ result = "restored" => tx # 0
           /\ RestoredMeansInPlace /\ CopiesAreFound

RestoreInv == Handled /\ SymlinksSingle /\ Answers

IInv == TypeOK /\ ReceiptInv /\ QuarantineInv /\ RestoreInv

-----------------------------------------------------------------------------
(* "clean restore will accept either prepared or completed receipts ... and *)
(* recreate missing entries without overwriting locally changed content"   *)
(* (docs/adr/adr-005-reversible-legacy-cleanup.md:29): what is refused has *)
(* been changed by somebody.                                               *)
RefusesOnlyChanged == result = "refused" => changes[tx] \cap touched # {}
=============================================================================
