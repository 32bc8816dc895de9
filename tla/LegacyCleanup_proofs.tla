------------------------ MODULE LegacyCleanup_proofs ------------------------
(* Theorems about clean-up and restoration, for every set of rules and      *)
(* every number of transactions, restorations, faults and edits.           *)
EXTENDS LegacyCleanup, TLAPS

USE DEF Contents, Quarantined, Copies, Json, Tx, ApplySteps, Loops, RestoreSteps, counts

-----------------------------------------------------------------------------
(* File systems stay file systems.                                         *)

LEMMA SyncTypes ==
  ASSUME disk \in FileSystems, tx \in Tx, NEW f \in FileSystems, NEW r \in Rules
  PROVE  /\ SyncPlace(f, r) \in FileSystems
         /\ SyncBackup(f, r) \in FileSystems
         /\ SyncReceipts(f) \in FileSystems
         /\ WithoutEmpty(f) \in FileSystems
<1>1. SyncPlace(f, r) \in FileSystems
  <2>1. [e \in Tx \X Rules |-> IF e[2] = r THEN f.quarantine[e] ELSE disk.quarantine[e]]
          \in [Tx \X Rules -> Quarantined]
    BY DEF FileSystems
  <2>2. [disk.orig EXCEPT ![r] = f.orig[r]] \in [Rules -> Contents]
    BY DEF FileSystems
  <2>. QED
    BY <2>1, <2>2 DEF SyncPlace, FileSystems
<1>2. SyncBackup(f, r) \in FileSystems
  BY DEF SyncBackup, FileSystems
<1>3. SyncReceipts(f) \in FileSystems
  BY DEF SyncReceipts, FileSystems
<1>4. WithoutEmpty(f) \in FileSystems
  BY DEF WithoutEmpty, FileSystems
<1>. QED
  BY <1>1, <1>2, <1>3, <1>4

LEMMA EditTypes ==
  ASSUME fs \in FileSystems, tx \in Tx, NEW r \in Rules
  PROVE  /\ \A q \in Quarantined : [fs EXCEPT !.quarantine[<<tx, r>>] = q] \in FileSystems
         /\ \A c \in Contents : [fs EXCEPT !.orig[r] = c] \in FileSystems
         /\ \A c \in Copies : [fs EXCEPT !.backup[<<tx, r>>] = c] \in FileSystems
         /\ \A j \in Json : [fs EXCEPT !.pending[tx] = j] \in FileSystems
         /\ \A j \in Json : [fs EXCEPT !.final[tx] = j] \in FileSystems
BY DEF FileSystems

(* After a crash each place, copy and receipt is what processes saw or what *)
(* was on disk, and where the two agreed it has not changed.               *)
LEMMA CrashView ==
  ASSUME fs \in FileSystems, disk \in FileSystems, Crash
  PROVE  /\ fs' \in FileSystems /\ disk' = fs'
         /\ \A r \in Rules : \E f \in {fs, disk} :
               /\ fs'.orig[r] = f.orig[r]
               /\ \A t \in Tx : fs'.quarantine[<<t, r>>] = f.quarantine[<<t, r>>]
         /\ \A e \in Tx \X Rules :
               fs.backup[e] = disk.backup[e] => fs'.backup[e] = fs.backup[e]
         /\ \A t \in Tx :
               /\ fs'.pending[t] \in {fs.pending[t], disk.pending[t], "torn"}
               /\ fs'.final[t] \in {fs.final[t], disk.final[t], "torn"}
               /\ fs.pending[t] = disk.pending[t] => fs'.pending[t] = fs.pending[t]
               /\ fs.final[t] = disk.final[t] => fs'.final[t] = fs.final[t]
<1>1. PICK places \in SUBSET UnsavedPlaces, copies \in SUBSET UnsavedCopies,
           receipts \in SUBSET UnsavedReceipts,
           torn \in SUBSET (UnsavedCopies \cup UnsavedReceipts) :
        fs' = [orig |-> [r \in Rules |-> IF r \in places THEN disk.orig[r] ELSE fs.orig[r]],
               quarantine |-> [e \in Tx \X Rules |-> IF e[2] \in places
                                 THEN disk.quarantine[e] ELSE fs.quarantine[e]],
               backup |-> [e \in Tx \X Rules |->
                   Fallen(fs.backup[e], disk.backup[e], e \in copies, e \in torn)],
               pending |-> [t \in Tx |-> Fallen(fs.pending[t], disk.pending[t],
                   <<t, "pending">> \in receipts, <<t, "pending">> \in torn)],
               final |-> [t \in Tx |-> Fallen(fs.final[t], disk.final[t],
                   <<t, "final">> \in receipts, <<t, "final">> \in torn)]]
  BY DEF Crash
<1>2. \A r \in Rules : fs'.orig[r] = IF r \in places THEN disk.orig[r] ELSE fs.orig[r]
  BY <1>1
<1>3. \A t \in Tx, r \in Rules : fs'.quarantine[<<t, r>>] =
        IF r \in places THEN disk.quarantine[<<t, r>>] ELSE fs.quarantine[<<t, r>>]
  BY <1>1
<1>4. \A e \in Tx \X Rules : /\ fs'.backup[e] \in {fs.backup[e], disk.backup[e], "torn"}
                             /\ fs.backup[e] = disk.backup[e] => fs'.backup[e] = fs.backup[e]
  BY <1>1 DEF Fallen
<1>5. \A t \in Tx : /\ fs'.pending[t] \in {fs.pending[t], disk.pending[t], "torn"}
                    /\ fs.pending[t] = disk.pending[t] => fs'.pending[t] = fs.pending[t]
  BY <1>1 DEF Fallen
<1>6. \A t \in Tx : /\ fs'.final[t] \in {fs.final[t], disk.final[t], "torn"}
                    /\ fs.final[t] = disk.final[t] => fs'.final[t] = fs.final[t]
  BY <1>1 DEF Fallen
<1>7. fs' \in FileSystems
  <2>1. fs'.orig \in [Rules -> Contents]
    BY <1>1 DEF FileSystems
  <2>2. fs'.quarantine \in [Tx \X Rules -> Quarantined]
    BY <1>1 DEF FileSystems
  <2>3. fs'.backup \in [Tx \X Rules -> Copies]
    BY <1>1 DEF FileSystems, Fallen
  <2>4. fs'.pending \in [Tx -> Json]
    BY <1>1 DEF FileSystems, Fallen
  <2>5. fs'.final \in [Tx -> Json]
    BY <1>1 DEF FileSystems, Fallen
  <2>. QED
    BY <1>1, <2>1, <2>2, <2>3, <2>4, <2>5 DEF FileSystems
<1>8. \A r \in Rules : \E f \in {fs, disk} :
         /\ fs'.orig[r] = f.orig[r]
         /\ \A t \in Tx : fs'.quarantine[<<t, r>>] = f.quarantine[<<t, r>>]
  BY <1>2, <1>3
<1>9. disk' = fs'
  BY DEF Crash
<1>. QED
  BY <1>4, <1>5, <1>6, <1>7, <1>8, <1>9

-----------------------------------------------------------------------------
(* Every variable keeps to its set.                                        *)

LEMMA TypeInit == Init => TypeOK
BY BoundsAssumption DEF Init, TypeOK, FileSystems

LEMMA TypePrepare ==
  TypeOK /\ (\/ ScanPlan \/ BeginApply \/ NoBackupDirectory \/ MakeQuarantine
             \/ VerifyTarget \/ CopyBackup \/ PersistBackup \/ WritePending
             \/ SyncPending) => TypeOK'
<1> SUFFICES ASSUME TypeOK,
                    \/ ScanPlan \/ BeginApply \/ NoBackupDirectory \/ MakeQuarantine
                    \/ VerifyTarget \/ CopyBackup \/ PersistBackup \/ WritePending
                    \/ SyncPending
             PROVE  TypeOK'
  OBVIOUS
<1> USE BoundsAssumption DEF TypeOK, End, Fault
<1>1. CASE ScanPlan
  <2>1. fs.orig \in [Rules -> Contents]
    BY DEF FileSystems
  <2>. QED
    BY <1>1, <2>1 DEF ScanPlan
<1>2. CASE BeginApply
  <2>1. Recognized \in SUBSET Rules
    BY DEF Recognized
  <2>. QED
    BY <1>2, <2>1 DEF BeginApply
<1>3. CASE NoBackupDirectory
  BY <1>3 DEF NoBackupDirectory
<1>4. CASE MakeQuarantine
  <2>1. PICK r \in todo : MakeQuarantine!(r)
    BY <1>4 DEF MakeQuarantine
  <2>2. tx \in Tx /\ r \in Rules
    BY <2>1
  <2>3. WithoutEmpty(fs) \in FileSystems /\ WithoutEmpty(disk) \in FileSystems
    BY <2>2, SyncTypes
  <2>4. /\ [fs EXCEPT !.quarantine[<<tx, r>>] = "empty"] \in FileSystems
        /\ [disk EXCEPT !.quarantine[<<tx, r>>] = "empty"] \in FileSystems
    BY <2>2 DEF FileSystems
  <2>5. fs' \in FileSystems /\ disk' \in FileSystems
    BY <2>1, <2>3, <2>4 DEF Abandon
  <2>6. \/ pc' = "verify" /\ todo' = changes[tx]
        \/ pc' = "quarantine" /\ todo' = todo \ {r} /\ todo # {r}
        \/ pc' = "idle" /\ todo' = {} /\ result' = "failed"
    BY <2>1 DEF Continue, Abandon
  <2>7. result' \in {result, "failed"} /\ faults' \in Nat
        /\ UNCHANGED <<changes, tx, plan, counts>>
    BY <2>1 DEF Continue, Abandon
  <2>. QED
    BY <2>1, <2>2, <2>5, <2>6, <2>7
<1>5. CASE VerifyTarget
  <2>1. PICK r \in todo : VerifyTarget!(r)
    BY <1>5 DEF VerifyTarget
  <2>2. tx \in Tx /\ r \in Rules
    BY <2>1
  <2>3. WithoutEmpty(fs) \in FileSystems /\ WithoutEmpty(disk) \in FileSystems
    BY <2>2, SyncTypes
  <2>. QED
    BY <2>1, <2>2, <2>3 DEF Abandon
<1>6. CASE CopyBackup
  <2>1. PICK r \in todo : CopyBackup!(r)
    BY <1>6 DEF CopyBackup
  <2>2. tx \in Tx /\ r \in Rules
    BY <2>1
  <2>3. WithoutEmpty(fs) \in FileSystems /\ WithoutEmpty(disk) \in FileSystems
    BY <2>2, SyncTypes
  <2>4. fs.orig[r] \in {"reviewed", "other"} =>
           [fs EXCEPT !.backup[<<tx, r>>] = fs.orig[r]] \in FileSystems
    BY <2>2, EditTypes
  <2>5. fs' \in FileSystems /\ disk' \in FileSystems
    BY <2>1, <2>3, <2>4 DEF Abandon
  <2>. QED
    BY <2>1, <2>2, <2>5 DEF Abandon
<1>7. CASE PersistBackup
  <2>1. PICK r \in todo : PersistBackup!(r)
    BY <1>7 DEF PersistBackup
  <2>2. tx \in Tx /\ r \in Rules
    BY <2>1
  <2>3. SyncBackup(fs, r) \in FileSystems
    BY <2>2, SyncTypes
  <2>4. /\ WithoutEmpty(fs) \in FileSystems /\ WithoutEmpty(disk) \in FileSystems
        /\ WithoutEmpty(SyncBackup(fs, r)) \in FileSystems
    BY <2>2, <2>3, SyncTypes
  <2>. QED
    BY <2>1, <2>2, <2>3, <2>4 DEF Continue, Abandon
<1>8. CASE WritePending
  <2>1. tx \in Tx
    BY <1>8 DEF WritePending
  <2>2. PICK r \in Rules : TRUE
    BY <1>8, <2>1 DEF WritePending
  <2>3. \A j \in Json : [fs EXCEPT !.pending[tx] = j] \in FileSystems
    BY <2>1, <2>2, EditTypes
  <2>4. /\ WithoutEmpty(disk) \in FileSystems
        /\ \A j \in Json : WithoutEmpty([fs EXCEPT !.pending[tx] = j]) \in FileSystems
    BY <2>1, <2>2, <2>3, SyncTypes
  <2>5. fs' \in FileSystems /\ disk' \in FileSystems
    BY <1>8, <2>3, <2>4 DEF WritePending, Abandon
  <2>. QED
    BY <1>8, <2>1, <2>5 DEF WritePending, Abandon
<1>9. CASE SyncPending
  <2>1. tx \in Tx
    BY <1>9 DEF SyncPending
  <2>2. PICK r \in Rules : TRUE
    BY <1>9, <2>1 DEF SyncPending
  <2>3. SyncReceipts(fs) \in FileSystems
    BY <2>1, <2>2, SyncTypes
  <2>. QED
    BY <1>9, <2>1, <2>3 DEF SyncPending
<1>. QED
  BY <1>1, <1>2, <1>3, <1>4, <1>5, <1>6, <1>7, <1>8, <1>9

LEMMA TypeMove ==
  TypeOK /\ (\/ CheckTarget \/ Rename \/ VerifyQuarantined \/ RemoveQuarantined
             \/ RemoveDirectory \/ WriteFinal \/ SyncFinal \/ DropPending) => TypeOK'
<1> SUFFICES ASSUME TypeOK,
                    \/ CheckTarget \/ Rename \/ VerifyQuarantined \/ RemoveQuarantined
                    \/ RemoveDirectory \/ WriteFinal \/ SyncFinal \/ DropPending
             PROVE  TypeOK'
  OBVIOUS
<1> USE BoundsAssumption DEF TypeOK, End, Fault
<1>1. CASE CheckTarget
  BY <1>1 DEF CheckTarget
<1>2. CASE Rename
  <2>1. PICK r \in todo : Rename!(r)
    BY <1>2 DEF Rename
  <2>2. tx \in Tx /\ r \in Rules
    BY <2>1
  <2>3. fs.orig[r] \in {"reviewed", "other"} =>
          [fs EXCEPT !.quarantine[<<tx, r>>] = fs.orig[r], !.orig[r] = "absent"] \in FileSystems
    BY <2>2 DEF FileSystems
  <2>4. fs' \in FileSystems
    BY <2>1, <2>3
  <2>. QED
    BY <2>1, <2>2, <2>4
<1>3. CASE VerifyQuarantined
  <2>1. PICK r \in todo : VerifyQuarantined!(r)
    BY <1>3 DEF VerifyQuarantined
  <2>2. tx \in Tx /\ r \in Rules
    BY <2>1
  <2>3. SyncPlace(fs, r) \in FileSystems
    BY <2>2, SyncTypes
  <2>4. disk' \in FileSystems
    BY <2>1, <2>3
  <2>5. \/ pc' = "remove" /\ UNCHANGED <<todo, result>>
        \/ pc' = "idle" /\ todo' = {} /\ result' = "failed"
    BY <2>1
  <2>6. faults' \in Nat /\ UNCHANGED <<fs, changes, tx, plan, used, restores, edits, touched>>
    BY <2>1 DEF counts
  <2>7. pc = "moved"
    BY <2>1
  <2>. QED
    BY <2>4, <2>5, <2>6, <2>7 DEF Loops, ApplySteps, RestoreSteps
<1>4. CASE RemoveQuarantined
  <2>1. PICK r \in todo : RemoveQuarantined!(r)
    BY <1>4 DEF RemoveQuarantined
  <2>2. tx \in Tx /\ r \in Rules
    BY <2>1
  <2>3. [fs EXCEPT !.quarantine[<<tx, r>>] = "empty"] \in FileSystems
    BY <2>2, EditTypes
  <2>. QED
    BY <2>1, <2>2, <2>3
<1>5. CASE RemoveDirectory
  <2>1. PICK r \in todo : RemoveDirectory!(r)
    BY <1>5 DEF RemoveDirectory
  <2>2. tx \in Tx /\ r \in Rules
    BY <2>1
  <2>. DEFINE gone == [fs EXCEPT !.quarantine[<<tx, r>>] = "none"]
  <2>3. gone \in FileSystems
    BY <2>2, EditTypes
  <2>4. SyncPlace(fs, r) \in FileSystems /\ SyncPlace(gone, r) \in FileSystems
    BY <2>2, <2>3, SyncTypes
  <2>5. fs' \in FileSystems /\ disk' \in FileSystems
    BY <2>1, <2>3, <2>4
  <2>6. \/ pc' = "final" /\ todo' = {} /\ UNCHANGED result
        \/ pc' = "check" /\ todo' = todo \ {r} /\ todo # {r} /\ UNCHANGED result
        \/ pc' = "idle" /\ todo' = {} /\ result' = "failed"
    BY <2>1 DEF Continue
  <2>7. faults' \in Nat /\ UNCHANGED <<changes, tx, plan, counts>>
    BY <2>1
  <2>. QED
    BY <2>1, <2>2, <2>5, <2>6, <2>7
<1>6. CASE WriteFinal
  <2>1. tx \in Tx
    BY <1>6 DEF WriteFinal
  <2>2. PICK r \in Rules : TRUE
    BY <1>6, <2>1 DEF WriteFinal
  <2>3. \A j \in Json : [fs EXCEPT !.final[tx] = j] \in FileSystems
    BY <2>1, <2>2, EditTypes
  <2>4. fs' \in FileSystems
    BY <1>6, <2>3 DEF WriteFinal
  <2>. QED
    BY <1>6, <2>1, <2>4 DEF WriteFinal
<1>7. CASE SyncFinal
  <2>1. tx \in Tx
    BY <1>7 DEF SyncFinal
  <2>2. PICK r \in Rules : TRUE
    BY <1>7, <2>1 DEF SyncFinal
  <2>3. SyncReceipts(fs) \in FileSystems
    BY <2>1, <2>2, SyncTypes
  <2>. QED
    BY <1>7, <2>1, <2>3 DEF SyncFinal
<1>8. CASE DropPending
  <2>1. tx \in Tx
    BY <1>8 DEF DropPending
  <2>2. PICK r \in Rules : TRUE
    BY <1>8, <2>1 DEF DropPending
  <2>. DEFINE dropped == [fs EXCEPT !.pending[tx] = "none"]
  <2>3. dropped \in FileSystems
    BY <2>1, <2>2, EditTypes
  <2>4. SyncReceipts(dropped) \in FileSystems
    BY <2>1, <2>2, <2>3, SyncTypes
  <2>5. fs' \in FileSystems /\ disk' \in FileSystems
    BY <1>8, <2>3, <2>4 DEF DropPending
  <2>. QED
    BY <1>8, <2>1, <2>5 DEF DropPending
<1>. QED
  BY <1>1, <1>2, <1>3, <1>4, <1>5, <1>6, <1>7, <1>8

LEMMA TypeRestore ==
  TypeOK /\ (BeginRestore \/ Inspect \/ Publish \/ PersistPublished \/ RemoveWorkspace)
    => TypeOK'
<1> SUFFICES ASSUME TypeOK, BeginRestore \/ Inspect \/ Publish \/ PersistPublished
                            \/ RemoveWorkspace
             PROVE  TypeOK'
  OBVIOUS
<1> USE BoundsAssumption DEF TypeOK, End, Fault
<1>1. CASE BeginRestore
  <2>1. PICK t \in Tx : HasReceipt(fs, t) /\ changes[t] # {} /\ tx' = t /\ todo' = changes[t]
    BY <1>1 DEF BeginRestore, HasReceipt
  <2>2. t <= used
    BY <2>1
  <2>. QED
    BY <1>1, <2>1, <2>2 DEF BeginRestore
<1>2. CASE Inspect
  <2>1. PICK r \in todo : Inspect!(r)
    BY <1>2 DEF Inspect
  <2>2. tx \in Tx /\ r \in Rules
    BY <2>1
  <2>. QED
    BY <2>1, <2>2 DEF NextEntry
<1>3. CASE Publish
  <2>1. PICK r \in todo : Publish!(r)
    BY <1>3 DEF Publish
  <2>2. tx \in Tx /\ r \in Rules
    BY <2>1
  <2>3. \A c \in Contents : [fs EXCEPT !.orig[r] = c] \in FileSystems
    BY <2>2, EditTypes
  <2>4. fs' \in FileSystems
    BY <2>1, <2>3
  <2>. QED
    BY <2>1, <2>2, <2>4
<1>4. CASE PersistPublished
  <2>1. PICK r \in todo : PersistPublished!(r)
    BY <1>4 DEF PersistPublished
  <2>2. tx \in Tx /\ r \in Rules
    BY <2>1
  <2>3. SyncPlace(fs, r) \in FileSystems
    BY <2>2, SyncTypes
  <2>4. Withdrawn(r) \in FileSystems
    BY <2>2, EditTypes DEF Withdrawn
  <2>5. fs' \in FileSystems /\ disk' \in FileSystems
    BY <2>1, <2>3, <2>4
  <2>. QED
    BY <2>1, <2>2, <2>5 DEF NextEntry
<1>5. CASE RemoveWorkspace
  <2>1. PICK r \in todo : RemoveWorkspace!(r)
    BY <1>5 DEF RemoveWorkspace
  <2>2. tx \in Tx /\ r \in Rules
    BY <2>1
  <2>3. Single(r) \in FileSystems
    BY <2>2, EditTypes DEF Single
  <2>4. SyncPlace(Single(r), r) \in FileSystems
    BY <2>2, <2>3, SyncTypes
  <2>5. fs' \in FileSystems /\ disk' \in FileSystems
    BY <2>1, <2>3, <2>4
  <2>. QED
    BY <2>1, <2>2, <2>5 DEF NextEntry
<1>. QED
  BY <1>1, <1>2, <1>3, <1>4, <1>5

LEMMA TypeEnvironment ==
  TypeOK /\ (Edit \/ Discard \/ Crash \/ UNCHANGED vars) => TypeOK'
<1> SUFFICES ASSUME TypeOK, Edit \/ Discard \/ Crash \/ UNCHANGED vars
             PROVE  TypeOK'
  OBVIOUS
<1> USE BoundsAssumption DEF TypeOK, End, Fault
<1>1. CASE Edit
  <2>1. PICK r \in Rules, c \in {"other", "absent"} :
          /\ fs' = [fs EXCEPT !.orig[r] = c] /\ disk' = SyncPlace(fs', r)
          /\ touched' = touched \cup {r}
    BY <1>1 DEF Edit
  <2>2. fs' \in FileSystems
    BY <2>1 DEF FileSystems
  <2>3. disk' \in FileSystems
    <3>1. [e \in Tx \X Rules |-> IF e[2] = r THEN fs'.quarantine[e] ELSE disk.quarantine[e]]
            \in [Tx \X Rules -> Quarantined]
      BY <2>2 DEF FileSystems
    <3>2. [disk.orig EXCEPT ![r] = fs'.orig[r]] \in [Rules -> Contents]
      BY <2>2 DEF FileSystems
    <3>. QED
      BY <2>1, <3>1, <3>2 DEF SyncPlace, FileSystems
  <2>. QED
    BY <1>1, <2>1, <2>2, <2>3 DEF Edit
<1>2. CASE Discard
  <2>1. PICK t \in Tx, r \in Rules :
          /\ fs' = [fs EXCEPT !.backup[<<t, r>>] = "none"]
          /\ disk' = [disk EXCEPT !.backup[<<t, r>>] = "none"]
          /\ touched' = touched \cup {r}
    BY <1>2 DEF Discard
  <2>2. fs' \in FileSystems /\ disk' \in FileSystems
    BY <2>1 DEF FileSystems
  <2>. QED
    BY <1>2, <2>1, <2>2 DEF Discard
<1>3. CASE Crash
  <2>1. fs' \in FileSystems /\ disk' = fs'
    BY <1>3, CrashView
  <2>. QED
    BY <1>3, <2>1 DEF Crash
<1>4. CASE UNCHANGED vars
  BY <1>4 DEF vars
<1>. QED
  BY <1>1, <1>2, <1>3, <1>4

(* At any moment every variable has a value of its set, a running process  *)
(* works on a transaction that has entries, and a loop has one to work on. *)
THEOREM TypeCorrect == Spec => []TypeOK
<1>1. Init => TypeOK
  BY TypeInit
<1>2. TypeOK /\ [Next]_vars => TypeOK'
  BY TypePrepare, TypeMove, TypeRestore, TypeEnvironment DEF Next, Step
<1>. QED
  BY <1>1, <1>2, PTL DEF Spec

-----------------------------------------------------------------------------
(* What the file-system operators leave alone.                             *)

LEMMA EmptyView ==
  ASSUME NEW f \in FileSystems
  PROVE  /\ WithoutEmpty(f).orig = f.orig /\ WithoutEmpty(f).backup = f.backup
         /\ WithoutEmpty(f).pending = f.pending /\ WithoutEmpty(f).final = f.final
         /\ \A e \in Tx \X Rules : WithoutEmpty(f).quarantine[e] =
                IF e[1] = tx /\ f.quarantine[e] = "empty" THEN "none" ELSE f.quarantine[e]
BY DEF WithoutEmpty, FileSystems

LEMMA PlaceView ==
  ASSUME disk \in FileSystems, NEW f \in FileSystems, NEW r \in Rules
  PROVE  /\ SyncPlace(f, r).backup = disk.backup
         /\ SyncPlace(f, r).pending = disk.pending /\ SyncPlace(f, r).final = disk.final
         /\ \A q \in Rules : SyncPlace(f, r).orig[q] =
                IF q = r THEN f.orig[q] ELSE disk.orig[q]
         /\ \A t \in Tx, q \in Rules : SyncPlace(f, r).quarantine[<<t, q>>] =
                IF q = r THEN f.quarantine[<<t, q>>] ELSE disk.quarantine[<<t, q>>]
<1>1. SyncPlace(f, r).quarantine =
        [e \in Tx \X Rules |-> IF e[2] = r THEN f.quarantine[e] ELSE disk.quarantine[e]]
  BY DEF SyncPlace, FileSystems
<1>2. SyncPlace(f, r).orig = [disk.orig EXCEPT ![r] = f.orig[r]]
  BY DEF SyncPlace, FileSystems
<1>3. /\ SyncPlace(f, r).backup = disk.backup
      /\ SyncPlace(f, r).pending = disk.pending /\ SyncPlace(f, r).final = disk.final
  BY DEF SyncPlace, FileSystems
<1>4. \A t \in Tx, q \in Rules : SyncPlace(f, r).quarantine[<<t, q>>] =
        IF q = r THEN f.quarantine[<<t, q>>] ELSE disk.quarantine[<<t, q>>]
  BY <1>1
<1>5. \A q \in Rules : SyncPlace(f, r).orig[q] = IF q = r THEN f.orig[q] ELSE disk.orig[q]
  BY <1>2 DEF FileSystems
<1>. QED
  BY <1>3, <1>4, <1>5

LEMMA BackupView ==
  ASSUME disk \in FileSystems, tx \in Tx, NEW f \in FileSystems, NEW r \in Rules
  PROVE  /\ SyncBackup(f, r).orig = disk.orig /\ SyncBackup(f, r).quarantine = disk.quarantine
         /\ SyncBackup(f, r).pending = disk.pending /\ SyncBackup(f, r).final = disk.final
         /\ \A e \in Tx \X Rules : SyncBackup(f, r).backup[e] =
                IF e = <<tx, r>> THEN f.backup[e] ELSE disk.backup[e]
BY DEF SyncBackup, FileSystems

LEMMA ReceiptsView ==
  ASSUME disk \in FileSystems, tx \in Tx, NEW f \in FileSystems
  PROVE  /\ SyncReceipts(f).orig = disk.orig /\ SyncReceipts(f).quarantine = disk.quarantine
         /\ SyncReceipts(f).backup = disk.backup
         /\ \A t \in Tx : SyncReceipts(f).pending[t] =
                IF t = tx THEN f.pending[t] ELSE disk.pending[t]
         /\ \A t \in Tx : SyncReceipts(f).final[t] =
                IF t = tx THEN f.final[t] ELSE disk.final[t]
<1>1. SyncReceipts(f).pending = [disk.pending EXCEPT ![tx] = f.pending[tx]]
  BY DEF SyncReceipts, FileSystems
<1>2. SyncReceipts(f).final = [disk.final EXCEPT ![tx] = f.final[tx]]
  BY DEF SyncReceipts, FileSystems
<1>3. /\ SyncReceipts(f).orig = disk.orig /\ SyncReceipts(f).quarantine = disk.quarantine
      /\ SyncReceipts(f).backup = disk.backup
  BY DEF SyncReceipts, FileSystems
<1>4. disk.pending \in [Tx -> Json] /\ disk.final \in [Tx -> Json]
  BY DEF FileSystems
<1>. QED
  BY <1>1, <1>2, <1>3, <1>4

LEMMA RenameView ==
  ASSUME fs \in FileSystems, tx \in Tx, NEW r \in Rules, fs.orig[r] \in Quarantined,
         fs' = [fs EXCEPT !.quarantine[<<tx, r>>] = fs.orig[r], !.orig[r] = "absent"]
  PROVE  /\ fs'.backup = fs.backup /\ fs'.pending = fs.pending /\ fs'.final = fs.final
         /\ \A q \in Rules : fs'.orig[q] = IF q = r THEN "absent" ELSE fs.orig[q]
         /\ \A e \in Tx \X Rules : fs'.quarantine[e] =
                IF e = <<tx, r>> THEN fs.orig[r] ELSE fs.quarantine[e]
<1>. DEFINE moved == [fs EXCEPT !.quarantine[<<tx, r>>] = fs.orig[r]]
<1>1. /\ moved.backup = fs.backup /\ moved.pending = fs.pending /\ moved.final = fs.final
      /\ moved.orig = fs.orig /\ moved.quarantine = [fs.quarantine EXCEPT ![<<tx, r>>] = fs.orig[r]]
  BY DEF FileSystems
<1>2. moved \in FileSystems
  BY EditTypes
<1>3. fs' = [moved EXCEPT !.orig = [moved.orig EXCEPT ![r] = "absent"]]
  OBVIOUS
<1>. HIDE DEF moved
<1>4. /\ fs'.backup = moved.backup /\ fs'.pending = moved.pending
      /\ fs'.final = moved.final /\ fs'.quarantine = moved.quarantine
      /\ fs'.orig = [moved.orig EXCEPT ![r] = "absent"]
  BY <1>2, <1>3 DEF FileSystems
<1>. QED
  BY <1>1, <1>4 DEF FileSystems

(* Steps that only move entries about leave receipts and copies as they    *)
(* are, in the cache and on disk.                                          *)
SameReceipts == /\ fs'.pending = fs.pending /\ fs'.final = fs.final
                /\ disk'.pending = disk.pending /\ disk'.final = disk.final
                /\ UNCHANGED <<changes, used>>
SameCopies    == fs'.backup = fs.backup /\ disk'.backup = disk.backup
SameOriginals == fs'.orig = fs.orig /\ disk'.orig = disk.orig

LEMMA Quiet ==
  TypeOK /\ (\/ ScanPlan \/ NoBackupDirectory \/ MakeQuarantine \/ VerifyTarget
             \/ CheckTarget \/ RemoveQuarantined \/ BeginRestore \/ Inspect
             \/ UNCHANGED vars)
    => SameReceipts /\ SameCopies /\ SameOriginals /\ touched' = touched
<1> SUFFICES ASSUME TypeOK, \/ ScanPlan \/ NoBackupDirectory \/ MakeQuarantine \/ VerifyTarget
                            \/ CheckTarget \/ RemoveQuarantined \/ BeginRestore \/ Inspect
                            \/ UNCHANGED vars
             PROVE  SameReceipts /\ SameCopies /\ SameOriginals /\ touched' = touched
  OBVIOUS
<1> USE DEF SameReceipts, SameCopies, SameOriginals
<1>1. fs \in FileSystems /\ disk \in FileSystems
  BY DEF TypeOK
<1>2. CASE ScanPlan \/ NoBackupDirectory \/ CheckTarget \/ BeginRestore \/ Inspect \/ UNCHANGED vars
  BY <1>2 DEF ScanPlan, NoBackupDirectory, CheckTarget, BeginRestore, Inspect, vars
<1>3. CASE MakeQuarantine
  <2>1. PICK r \in todo : MakeQuarantine!(r)
    BY <1>3 DEF MakeQuarantine
  <2>2. \/ /\ fs' = [fs EXCEPT !.quarantine[<<tx, r>>] = "empty"]
           /\ disk' = [disk EXCEPT !.quarantine[<<tx, r>>] = "empty"]
        \/ fs' = WithoutEmpty(fs) /\ disk' = WithoutEmpty(disk)
    BY <2>1 DEF Abandon
  <2>3. CASE fs' = WithoutEmpty(fs) /\ disk' = WithoutEmpty(disk)
    BY <1>1, <2>1, <2>3, EmptyView
  <2>4. CASE /\ fs' = [fs EXCEPT !.quarantine[<<tx, r>>] = "empty"]
             /\ disk' = [disk EXCEPT !.quarantine[<<tx, r>>] = "empty"]
    BY <1>1, <2>1, <2>4 DEF FileSystems
  <2>. QED
    BY <2>2, <2>3, <2>4
<1>4. CASE VerifyTarget
  <2>1. PICK r \in todo : VerifyTarget!(r)
    BY <1>4 DEF VerifyTarget
  <2>2. UNCHANGED <<fs, disk>> \/ (fs' = WithoutEmpty(fs) /\ disk' = WithoutEmpty(disk))
    BY <2>1 DEF Abandon
  <2>. QED
    BY <1>1, <2>1, <2>2, EmptyView
<1>5. CASE RemoveQuarantined
  <2>1. PICK r \in todo : RemoveQuarantined!(r)
    BY <1>5 DEF RemoveQuarantined
  <2>. QED
    BY <1>1, <2>1 DEF FileSystems
<1>. QED
  BY <1>2, <1>3, <1>4, <1>5

LEMMA Shifting ==
  TypeOK /\ (\/ Rename \/ VerifyQuarantined \/ RemoveDirectory \/ Publish
             \/ PersistPublished \/ RemoveWorkspace \/ Edit)
    => SameReceipts /\ SameCopies /\ touched \subseteq touched'
<1> SUFFICES ASSUME TypeOK, \/ Rename \/ VerifyQuarantined \/ RemoveDirectory \/ Publish
                            \/ PersistPublished \/ RemoveWorkspace \/ Edit
             PROVE  SameReceipts /\ SameCopies /\ touched \subseteq touched'
  OBVIOUS
<1> USE DEF SameReceipts, SameCopies
<1>1. fs \in FileSystems /\ disk \in FileSystems /\ todo \subseteq Rules
  BY DEF TypeOK
<1>2. CASE Rename
  <2>1. PICK r \in todo : Rename!(r)
    BY <1>2 DEF Rename
  <2>2. \/ fs' = fs
        \/ /\ fs' = [fs EXCEPT !.quarantine[<<tx, r>>] = fs.orig[r], !.orig[r] = "absent"]
           /\ fs.orig[r] \in Quarantined
    BY <2>1
  <2>3. tx \in Tx /\ r \in Rules
    BY <2>1 DEF TypeOK
  <2>4. fs'.backup = fs.backup /\ fs'.pending = fs.pending /\ fs'.final = fs.final
    BY <1>1, <2>2, <2>3, RenameView
  <2>. QED
    BY <2>1, <2>4
<1>3. CASE VerifyQuarantined
  <2>1. PICK r \in todo : VerifyQuarantined!(r)
    BY <1>3 DEF VerifyQuarantined
  <2>. QED
    BY <1>1, <2>1, PlaceView
<1>4. CASE RemoveDirectory
  <2>1. PICK r \in todo : RemoveDirectory!(r)
    BY <1>4 DEF RemoveDirectory
  <2>. DEFINE gone == [fs EXCEPT !.quarantine[<<tx, r>>] = "none"]
  <2>2. tx \in Tx /\ r \in Rules
    BY <2>1 DEF TypeOK
  <2>3. gone \in FileSystems
    BY <1>1, <2>2, EditTypes
  <2>4. fs' \in {fs, gone} /\ disk' \in {disk, SyncPlace(fs, r), SyncPlace(gone, r)}
        /\ UNCHANGED <<changes, counts>>
    BY <2>1
  <2>5. fs'.backup = fs.backup /\ fs'.pending = fs.pending /\ fs'.final = fs.final
    BY <1>1, <2>4 DEF FileSystems
  <2>6. disk'.backup = disk.backup /\ disk'.pending = disk.pending /\ disk'.final = disk.final
    BY <1>1, <2>2, <2>3, <2>4, PlaceView
  <2>. QED
    BY <2>4, <2>5, <2>6
<1>5. CASE Publish
  <2>1. PICK r \in todo : Publish!(r)
    BY <1>5 DEF Publish
  <2>. QED
    BY <1>1, <2>1 DEF FileSystems
<1>6. CASE PersistPublished
  <2>1. PICK r \in todo : PersistPublished!(r)
    BY <1>6 DEF PersistPublished
  <2>2. fs' \in {fs, Withdrawn(r)} /\ disk' \in {disk, SyncPlace(fs, r)}
        /\ UNCHANGED <<changes, counts>>
    BY <2>1
  <2>3. fs'.backup = fs.backup /\ fs'.pending = fs.pending /\ fs'.final = fs.final
    BY <1>1, <2>2 DEF FileSystems, Withdrawn
  <2>. QED
    BY <1>1, <2>1, <2>2, <2>3, PlaceView
<1>7. CASE RemoveWorkspace
  <2>1. PICK r \in todo : RemoveWorkspace!(r)
    BY <1>7 DEF RemoveWorkspace
  <2>2. r \in Rules /\ tx \in Tx
    BY <1>1, <2>1 DEF TypeOK
  <2>3. Single(r) \in FileSystems
    BY <1>1, <2>2, EditTypes DEF Single
  <2>4. fs' \in {fs, Single(r)} /\ disk' \in {disk, SyncPlace(Single(r), r)}
        /\ UNCHANGED <<changes, counts>>
    BY <2>1
  <2>5. fs'.backup = fs.backup /\ fs'.pending = fs.pending /\ fs'.final = fs.final
    BY <1>1, <2>4 DEF FileSystems, Single
  <2>. QED
    BY <1>1, <2>2, <2>3, <2>4, <2>5, PlaceView
<1>8. CASE Edit
  <2>1. PICK r \in Rules, c \in {"other", "absent"} :
          /\ fs' = [fs EXCEPT !.orig[r] = c] /\ disk' = SyncPlace(fs', r)
          /\ touched' = touched \cup {r}
    BY <1>8 DEF Edit
  <2>2. fs' \in FileSystems
    BY <1>1, <2>1 DEF FileSystems
  <2>3. /\ disk'.backup = disk.backup /\ disk'.pending = disk.pending
        /\ disk'.final = disk.final
    BY <1>1, <2>1 DEF SyncPlace, FileSystems
  <2>. QED
    BY <1>1, <1>8, <2>1, <2>3 DEF Edit, FileSystems
<1>. QED
  BY <1>2, <1>3, <1>4, <1>5, <1>6, <1>7, <1>8

-----------------------------------------------------------------------------
(* Receipts name durable copies, and nothing is gone that they do not name. *)

USE DEF Preparing, Moving

LEMMA ReceiptsFrame ==
  ASSUME SameReceipts, SameCopies, touched \subseteq touched', UnusedBlank, CopiesSafe
  PROVE  /\ UnusedBlank' /\ CopiesSafe'
         /\ \A t \in Tx : /\ Durable(t)' <=> Durable(t)
                         /\ NoReceipts(t)' <=> NoReceipts(t)
                         /\ \A r : Saved(t, r)' <=> Saved(t, r)
         /\ \A r : Covered(r)' <=> Covered(r)
<1> USE DEF SameReceipts, SameCopies
<1>1. \A t \in Tx : /\ Durable(t)' <=> Durable(t)
                    /\ NoReceipts(t)' <=> NoReceipts(t)
                    /\ \A r : Saved(t, r)' <=> Saved(t, r)
  BY DEF Durable, NoReceipts, Saved
<1>2. UnusedBlank'
  BY DEF UnusedBlank, NoReceipts
<1>3. CopiesSafe'
  BY DEF CopiesSafe, HasReceipt, Saved
<1>4. \A r : Covered(r)' <=> Covered(r)
  BY DEF Covered, Durable
<1>. QED
  BY <1>1, <1>2, <1>3, <1>4

LEMMA OneFirst == ASSUME todo \subseteq Rules, NEW q, NEW r, First(q), First(r) PROVE q = r
BY RulesAssumption DEF First

LEMMA ReceiptInit == Init => ReceiptInv
<1> SUFFICES ASSUME Init PROVE ReceiptInv
  OBVIOUS
<1>1. \A t \in Tx : fs.pending[t] = "none" /\ fs.final[t] = "none"
  BY DEF Init
<1>2. \A t \in Tx : NoReceipts(t) /\ changes[t] = {}
  BY <1>1 DEF Init, NoReceipts
<1>3. UnusedBlank /\ CopiesSafe
  BY <1>1, <1>2 DEF UnusedBlank, CopiesSafe, NoReceipts, HasReceipt
<1>4. CopiesReady /\ ReceiptSafe
  BY DEF Init, CopiesReady, ReceiptSafe
<1>5. OriginalsCovered
  BY <1>2 DEF Init, OriginalsCovered, Ours
<1>. QED
  BY <1>3, <1>4, <1>5 DEF ReceiptInv

LEMMA ReceiptsQuiet ==
  TypeOK /\ ReceiptInv /\ (\/ ScanPlan \/ NoBackupDirectory \/ MakeQuarantine
                           \/ VerifyTarget \/ CheckTarget \/ RemoveQuarantined
                           \/ BeginRestore \/ Inspect \/ UNCHANGED vars) => ReceiptInv'
<1> SUFFICES ASSUME TypeOK, ReceiptInv,
                    \/ ScanPlan \/ NoBackupDirectory \/ MakeQuarantine \/ VerifyTarget
                    \/ CheckTarget \/ RemoveQuarantined \/ BeginRestore \/ Inspect
                    \/ UNCHANGED vars
             PROVE  ReceiptInv'
  OBVIOUS
<1>1. SameReceipts /\ SameCopies /\ SameOriginals /\ touched' = touched
  BY Quiet
<1>2. /\ UnusedBlank' /\ CopiesSafe'
      /\ \A t \in Tx : /\ Durable(t)' <=> Durable(t)
                      /\ NoReceipts(t)' <=> NoReceipts(t)
                      /\ \A r : Saved(t, r)' <=> Saved(t, r)
      /\ \A r : Covered(r)' <=> Covered(r)
  BY <1>1, ReceiptsFrame DEF ReceiptInv
<1>3. /\ \A r \in (Ours \ touched)' :
            \/ fs'.orig[r] \in {"reviewed", "linked"} /\ disk'.orig[r] \in {"reviewed", "linked"}
            \/ Covered(r)'
      /\ \A r \in Rules \ (Ours \cup touched)' : fs'.orig[r] = disk'.orig[r]
  BY <1>1, <1>2 DEF ReceiptInv, OriginalsCovered, SameOriginals, SameReceipts, Ours
<1>4. changes' = changes /\ (pc \in ApplySteps \cup RestoreSteps => tx \in Tx)
  BY <1>1 DEF SameReceipts, TypeOK
<1>5. fs'.pending = fs.pending /\ fs'.final = fs.final /\ disk'.pending = disk.pending
        /\ disk'.final = disk.final
  BY <1>1 DEF SameReceipts
<1>6. CopiesReady' /\ ReceiptSafe' /\ (pc' \in {"publish", "published"} =>
                                      \A r \in (todo \ touched)' : First(r)' => Covered(r)')
  <2> USE DEF ReceiptInv, CopiesReady, ReceiptSafe, OriginalsCovered, End, First
  <2>1. CASE ScanPlan \/ NoBackupDirectory \/ BeginRestore
    BY <2>1 DEF ScanPlan, NoBackupDirectory, BeginRestore
  <2>2. CASE MakeQuarantine
    <3>1. PICK r \in todo : MakeQuarantine!(r)
      BY <2>2 DEF MakeQuarantine
    <3>. QED
      BY <1>1, <1>4, <3>1
         DEF Continue, Abandon, NoReceipts, Saved, SameReceipts, SameCopies
  <2>3. CASE VerifyTarget
    <3>1. PICK r \in todo : VerifyTarget!(r)
      BY <2>3 DEF VerifyTarget
    <3>. QED
      BY <1>1, <1>4, <3>1
         DEF Abandon, NoReceipts, Saved, SameReceipts, SameCopies
  <2>4. CASE CheckTarget
    BY <1>5, <2>4 DEF CheckTarget
  <2>5. CASE RemoveQuarantined
    <3>1. PICK r \in todo : RemoveQuarantined!(r)
      BY <2>5 DEF RemoveQuarantined
    <3>. QED
      BY <1>5, <3>1
  <2>6. CASE Inspect
    <3>1. PICK r \in todo : Inspect!(r)
      BY <2>6 DEF Inspect
    <3>2. r \in Ours
      BY <1>4, <3>1 DEF TypeOK, Ours
    <3>3. pc' = "publish" => todo' = todo /\ (r \notin touched => Covered(r))
      BY <3>1, <3>2 DEF NextEntry
    <3>4. pc' \in {"publish", "inspect", "idle"}
      BY <3>1 DEF NextEntry
    <3>. QED
      BY <1>1, <1>2, <3>1, <3>3, <3>4, OneFirst DEF TypeOK
  <2>7. CASE UNCHANGED vars
    BY <2>7 DEF vars, NoReceipts, Saved, Covered, Durable
  <2>. QED
    BY <2>1, <2>2, <2>3, <2>4, <2>5, <2>6, <2>7
<1>. QED
  BY <1>2, <1>3, <1>6 DEF ReceiptInv, OriginalsCovered

(* A step that touches the original of one entry, which stays in place or  *)
(* is covered by a receipt, leaves the others as they were.                *)
LEMMA OneEntry ==
  ASSUME TypeOK, OriginalsCovered, SameReceipts, touched \subseteq touched',
         NEW r \in Rules, r \in Ours \cup touched',
         \A q \in Rules \ {r} : fs'.orig[q] = fs.orig[q] /\ disk'.orig[q] = disk.orig[q],
         \/ r \in touched' \/ Covered(r)
         \/ fs'.orig[r] \in {"reviewed", "linked"} /\ disk'.orig[r] \in {"reviewed", "linked"}
  PROVE  /\ \A q \in (Ours \ touched)' :
               \/ fs'.orig[q] \in {"reviewed", "linked"} /\ disk'.orig[q] \in {"reviewed", "linked"}
               \/ Covered(q)'
         /\ \A q \in Rules \ (Ours \cup touched)' : fs'.orig[q] = disk'.orig[q]
<1>1. Ours' = Ours /\ Ours \subseteq Rules
  BY DEF SameReceipts, Ours, TypeOK
<1>2. \A q : Covered(q) => Covered(q)'
  BY DEF SameReceipts, Covered, Durable
<1>. QED
  BY <1>1, <1>2 DEF OriginalsCovered

(* What each step of that kind does to the originals.                      *)
LEMMA MoveEffect ==
  ASSUME TypeOK, NEW r \in todo, First(r), Rename!(r) \/ VerifyQuarantined!(r) \/ RemoveDirectory!(r)
  PROVE  /\ r \in Rules /\ r \in changes[tx] /\ tx \in Tx /\ r \in Ours
         /\ \A q \in Rules \ {r} : fs'.orig[q] = fs.orig[q] /\ disk'.orig[q] = disk.orig[q]
<1>1. fs \in FileSystems /\ disk \in FileSystems
  BY DEF TypeOK
<1>2. r \in Rules /\ r \in changes[tx] /\ tx \in Tx
  BY DEF TypeOK
<1>3. r \in Ours
  BY <1>2 DEF Ours
<1>4. CASE Rename!(r)
  <2>1. \/ fs' = fs
        \/ /\ fs' = [fs EXCEPT !.quarantine[<<tx, r>>] = fs.orig[r], !.orig[r] = "absent"]
           /\ fs.orig[r] \in Quarantined
    BY <1>4
  <2>. QED
    BY <1>1, <1>2, <1>3, <1>4, <2>1, RenameView
<1>5. CASE VerifyQuarantined!(r)
  BY <1>1, <1>2, <1>3, <1>5, PlaceView
<1>6. CASE RemoveDirectory!(r)
  <2>. DEFINE gone == [fs EXCEPT !.quarantine[<<tx, r>>] = "none"]
  <2>1. fs' \in {fs, gone} /\ disk' \in {disk, SyncPlace(fs, r), SyncPlace(gone, r)}
    BY <1>6
  <2>2. gone \in FileSystems
    BY <1>1, <1>2, EditTypes
  <2>3. gone.orig = fs.orig
    BY <1>1 DEF FileSystems
  <2>. HIDE DEF gone
  <2>. QED
    BY <1>1, <1>2, <1>3, <2>1, <2>2, <2>3, PlaceView
<1>. QED
  BY <1>4, <1>5, <1>6

LEMMA ReceiptsMove ==
  TypeOK /\ ReceiptInv /\ (Rename \/ VerifyQuarantined \/ RemoveDirectory) => ReceiptInv'
<1> SUFFICES ASSUME TypeOK, ReceiptInv, Rename \/ VerifyQuarantined \/ RemoveDirectory
             PROVE  ReceiptInv'
  OBVIOUS
<1>1. SameReceipts /\ SameCopies /\ touched \subseteq touched'
  BY Shifting
<1>2. UnusedBlank' /\ CopiesSafe'
  BY <1>1, ReceiptsFrame DEF ReceiptInv
<1>3. PICK r \in todo : First(r) /\ (Rename!(r) \/ VerifyQuarantined!(r) \/ RemoveDirectory!(r))
  BY DEF Rename, VerifyQuarantined, RemoveDirectory
<1>4. /\ r \in Rules /\ r \in changes[tx] /\ tx \in Tx /\ r \in Ours
      /\ \A q \in Rules \ {r} : fs'.orig[q] = fs.orig[q] /\ disk'.orig[q] = disk.orig[q]
  BY <1>3, MoveEffect
<1>5. pc \in Moving /\ pc' \in {"moved", "remove", "check", "final", "idle"}
        /\ pc \notin {"syncfinal", "drop"} /\ tx' = tx
  BY <1>3 DEF Continue, End
<1>6. Covered(r)
  BY <1>4, <1>5 DEF Covered, Durable, ReceiptInv, ReceiptSafe
<1>7. CopiesReady' /\ ReceiptSafe'
  BY <1>1, <1>5 DEF CopiesReady, ReceiptSafe, ReceiptInv, SameReceipts
<1>8. OriginalsCovered'
  BY <1>1, <1>4, <1>5, <1>6, OneEntry DEF ReceiptInv, OriginalsCovered
<1>. QED
  BY <1>2, <1>7, <1>8 DEF ReceiptInv

LEMMA RestoreEffect ==
  ASSUME TypeOK, NEW r \in todo, Publish!(r) \/ PersistPublished!(r) \/ RemoveWorkspace!(r)
  PROVE  /\ r \in Rules /\ r \in changes[tx] /\ tx \in Tx /\ r \in Ours /\ tx' = tx
         /\ \A q \in Rules \ {r} : fs'.orig[q] = fs.orig[q] /\ disk'.orig[q] = disk.orig[q]
         /\ UNCHANGED touched
<1>1. fs \in FileSystems /\ disk \in FileSystems
  BY DEF TypeOK
<1>2. r \in Rules /\ r \in changes[tx] /\ tx \in Tx
  BY DEF TypeOK
<1>3. r \in Ours
  BY <1>2 DEF Ours
<1>4. CASE Publish!(r)
  <2>1. fs'.orig = fs.orig \/ \E c \in Contents : fs'.orig = [fs.orig EXCEPT ![r] = c]
    BY <1>1, <1>4 DEF FileSystems
  <2>. QED
    BY <1>1, <1>2, <1>3, <1>4, <2>1 DEF FileSystems
<1>5. CASE PersistPublished!(r)
  <2>1. fs' \in {fs, Withdrawn(r)} /\ disk' \in {disk, SyncPlace(fs, r)}
    BY <1>5
  <2>2. \A q \in Rules \ {r} : fs'.orig[q] = fs.orig[q]
    BY <1>1, <1>2, <2>1 DEF Withdrawn, FileSystems
  <2>. QED
    BY <1>1, <1>2, <1>3, <1>5, <2>1, <2>2, PlaceView
<1>6. CASE RemoveWorkspace!(r)
  <2>1. fs' \in {fs, Single(r)} /\ disk' \in {disk, SyncPlace(Single(r), r)}
    BY <1>6
  <2>2. Single(r) \in FileSystems
    BY <1>1, <1>2, EditTypes DEF Single
  <2>3. \A q \in Rules \ {r} : Single(r).orig[q] = fs.orig[q]
    BY <1>1, <1>2 DEF Single, FileSystems
  <2>. QED
    BY <1>1, <1>2, <1>3, <1>6, <2>1, <2>2, <2>3, PlaceView
<1>. QED
  BY <1>4, <1>5, <1>6

LEMMA ReceiptsRestore ==
  TypeOK /\ ReceiptInv /\ (Publish \/ PersistPublished \/ RemoveWorkspace) => ReceiptInv'
<1> SUFFICES ASSUME TypeOK, ReceiptInv, Publish \/ PersistPublished \/ RemoveWorkspace
             PROVE  ReceiptInv'
  OBVIOUS
<1>1. SameReceipts /\ SameCopies /\ touched \subseteq touched'
  BY Shifting
<1>2. UnusedBlank' /\ CopiesSafe'
  BY <1>1, ReceiptsFrame DEF ReceiptInv
<1>3. PICK r \in todo : First(r) /\ (Publish!(r) \/ PersistPublished!(r) \/ RemoveWorkspace!(r))
  BY DEF Publish, PersistPublished, RemoveWorkspace
<1>4. /\ r \in Rules /\ r \in changes[tx] /\ tx \in Tx /\ r \in Ours /\ tx' = tx
      /\ \A q \in Rules \ {r} : fs'.orig[q] = fs.orig[q] /\ disk'.orig[q] = disk.orig[q]
      /\ UNCHANGED touched
  BY <1>3, RestoreEffect
<1>5. pc' \in {"published", "unlink", "inspect", "idle"}
  BY <1>3 DEF NextEntry, End
<1>6. CopiesReady' /\ ReceiptSafe'
  BY <1>5 DEF CopiesReady, ReceiptSafe
<1>7. \/ r \in touched \/ Covered(r)
      \/ fs'.orig[r] \in {"reviewed", "linked"} /\ disk'.orig[r] \in {"reviewed", "linked"}
  <2>1. CASE Publish!(r) \/ PersistPublished!(r)
    BY <1>3, <2>1 DEF ReceiptInv, OriginalsCovered
  <2>2. CASE RemoveWorkspace!(r)
    <3>1. fs \in FileSystems /\ disk \in FileSystems
      BY DEF TypeOK
    <3>2. fs' \in {fs, Single(r)} /\ disk' \in {disk, SyncPlace(Single(r), r)}
      BY <2>2
    <3>3. Single(r) \in FileSystems
      BY <1>4, <3>1, EditTypes DEF Single
    <3>4. fs.orig[r] \in {"reviewed", "linked"} => Single(r).orig[r] = "reviewed"
      BY <1>4, <3>1 DEF Single, FileSystems
    <3>. QED
      BY <1>4, <3>1, <3>2, <3>3, <3>4, PlaceView DEF ReceiptInv, OriginalsCovered
  <2>. QED
    BY <1>3, <2>1, <2>2
<1>8. pc' \in {"publish", "published"} => \A q \in (todo \ touched)' : First(q)' => Covered(q)'
  <2>1. CASE Publish!(r)
    <3>1. todo' = todo \/ pc' = "idle"
      BY <2>1 DEF End
    <3>2. \A q \in todo \ touched : First(q) => Covered(q)'
      BY <1>1, <1>3, <2>1 DEF ReceiptInv, OriginalsCovered, Covered, Durable, SameReceipts
    <3>. QED
      BY <1>4, <1>5, <3>1, <3>2 DEF First
  <2>2. CASE PersistPublished!(r) \/ RemoveWorkspace!(r)
    BY <1>3, <2>2 DEF NextEntry, End
  <2>. QED
    BY <1>3, <2>1, <2>2
<1>9. OriginalsCovered'
  BY <1>1, <1>4, <1>7, <1>8, OneEntry DEF ReceiptInv, OriginalsCovered
<1>. QED
  BY <1>2, <1>6, <1>9 DEF ReceiptInv

LEMMA EditEffect ==
  ASSUME TypeOK, Edit
  PROVE  \E r \in Rules :
           /\ touched' = touched \cup {r}
           /\ \A q \in Rules \ {r} : fs'.orig[q] = fs.orig[q] /\ disk'.orig[q] = disk.orig[q]
           /\ disk'.orig[r] = fs'.orig[r] /\ fs'.orig[r] \in {"other", "absent"}
           /\ fs'.quarantine = fs.quarantine
           /\ \A t \in Tx, q \in Rules : disk'.quarantine[<<t, q>>] =
                  IF q = r THEN fs.quarantine[<<t, q>>] ELSE disk.quarantine[<<t, q>>]
<1>1. fs \in FileSystems /\ disk \in FileSystems
  BY DEF TypeOK
<1>2. PICK r \in Rules, c \in {"other", "absent"} :
        /\ fs' = [fs EXCEPT !.orig[r] = c] /\ disk' = SyncPlace(fs', r)
        /\ touched' = touched \cup {r}
  BY DEF Edit
<1>3. fs'.quarantine = fs.quarantine /\ fs'.orig = [fs.orig EXCEPT ![r] = c]
        /\ fs' \in FileSystems
  BY <1>1, <1>2 DEF FileSystems
<1>4. /\ \A q \in Rules : disk'.orig[q] = IF q = r THEN fs'.orig[q] ELSE disk.orig[q]
      /\ \A t \in Tx, q \in Rules : disk'.quarantine[<<t, q>>] =
            IF q = r THEN fs'.quarantine[<<t, q>>] ELSE disk.quarantine[<<t, q>>]
  <2>1. disk'.orig = [disk.orig EXCEPT ![r] = fs'.orig[r]]
    BY <1>1, <1>2 DEF SyncPlace, FileSystems
  <2>2. disk'.quarantine =
          [e \in Tx \X Rules |-> IF e[2] = r THEN fs'.quarantine[e] ELSE disk.quarantine[e]]
    BY <1>1, <1>2 DEF SyncPlace, FileSystems
  <2>3. disk.orig \in [Rules -> Contents]
    BY <1>1 DEF FileSystems
  <2>. QED
    BY <2>1, <2>2, <2>3
<1>5. fs'.orig[r] = c /\ \A q \in Rules \ {r} : fs'.orig[q] = fs.orig[q]
  BY <1>1, <1>3 DEF FileSystems
<1>. QED
  BY <1>2, <1>3, <1>4, <1>5

LEMMA ReceiptsEdit == TypeOK /\ ReceiptInv /\ Edit => ReceiptInv'
<1> SUFFICES ASSUME TypeOK, ReceiptInv, Edit PROVE ReceiptInv'
  OBVIOUS
<1>1. SameReceipts /\ SameCopies /\ touched \subseteq touched'
  BY Shifting
<1>2. UnusedBlank' /\ CopiesSafe'
  BY <1>1, ReceiptsFrame DEF ReceiptInv
<1>3. UNCHANGED <<pc, tx, todo>>
  BY DEF Edit
<1>4. CopiesReady' /\ ReceiptSafe'
  BY <1>1, <1>3 DEF ReceiptInv, CopiesReady, ReceiptSafe, SameReceipts, SameCopies,
                    NoReceipts, Saved
<1>5. PICK r \in Rules :
        /\ touched' = touched \cup {r}
        /\ \A q \in Rules \ {r} : fs'.orig[q] = fs.orig[q] /\ disk'.orig[q] = disk.orig[q]
  BY EditEffect
<1>6. pc' \in {"publish", "published"} => \A q \in (todo \ touched)' : First(q)' => Covered(q)'
  <2>1. \A q \in todo : First(q)' => First(q)
    BY <1>3 DEF First
  <2>2. \A q : Covered(q) => Covered(q)'
    BY <1>1 DEF Covered, Durable, SameReceipts
  <2>. QED
    BY <1>1, <1>3, <2>1, <2>2 DEF ReceiptInv, OriginalsCovered
<1>7. OriginalsCovered'
  BY <1>1, <1>5, <1>6, OneEntry DEF ReceiptInv, OriginalsCovered
<1>. QED
  BY <1>2, <1>4, <1>7 DEF ReceiptInv

LEMMA ReceiptsBegin == TypeOK /\ ReceiptInv /\ BeginApply => ReceiptInv'
<1> SUFFICES ASSUME TypeOK, ReceiptInv, BeginApply PROVE ReceiptInv'
  OBVIOUS
<1>1. UNCHANGED <<fs, disk, touched>> /\ pc' \in {"quarantine", "idle"}
  BY DEF BeginApply, End
<1>2. CASE UNCHANGED <<used, tx, changes>> /\ pc' = "idle"
  BY <1>1, <1>2 DEF ReceiptInv, UnusedBlank, CopiesReady, CopiesSafe, ReceiptSafe,
     OriginalsCovered, NoReceipts, HasReceipt, Saved, Covered, Durable, Ours
<1>3. CASE /\ used' = used + 1 /\ tx' = used + 1 /\ UnchangedSincePlan
           /\ changes' = [changes EXCEPT ![used + 1] = Recognized] /\ pc' = "quarantine"
  <2>1. used + 1 \in Tx /\ changes[used + 1] = {} /\ used \in Nat
    BY BoundsAssumption DEF TypeOK, BeginApply
  <2>2. \A t \in Tx : t # used + 1 => changes'[t] = changes[t]
    BY <1>3 DEF TypeOK
  <2>3. NoReceipts(used + 1)
    BY <2>1 DEF ReceiptInv, UnusedBlank
  <2>4. UnusedBlank'
    BY <1>1, <1>3, <2>1 DEF ReceiptInv, UnusedBlank, NoReceipts
  <2>5. CopiesReady' /\ ReceiptSafe'
    BY <1>1, <1>3, <2>3 DEF CopiesReady, ReceiptSafe, NoReceipts
  <2>6. CopiesSafe'
    BY <1>1, <2>2, <2>3 DEF ReceiptInv, CopiesSafe, NoReceipts, HasReceipt, Saved
  <2>7. \A r : Covered(r) => Covered(r)'
    BY <1>1, <2>1, <2>2 DEF Covered, Durable
  <2>8. changes'[used + 1] = Recognized
    BY <1>3, <2>1 DEF TypeOK
  <2>9. Ours' = Ours \cup Recognized
    BY <2>1, <2>2, <2>8 DEF Ours
  <2>10. \A r \in Recognized : r \in Rules /\ fs.orig[r] = "reviewed"
    BY <1>3 DEF Recognized, UnchangedSincePlan
  <2>11. OriginalsCovered'
    BY <1>1, <1>3, <2>7, <2>9, <2>10 DEF ReceiptInv, OriginalsCovered
  <2>. QED
    BY <2>4, <2>5, <2>6, <2>11 DEF ReceiptInv
<1>. QED
  BY <1>2, <1>3 DEF BeginApply, End

(* The step from nothing to a verified, synchronised copy, while no receipt *)
(* of the transaction exists.                                              *)
LEMMA CopyEffect ==
  ASSUME TypeOK, NEW r \in todo, CopyBackup!(r) \/ PersistBackup!(r)
  PROVE  /\ SameReceipts /\ SameOriginals /\ r \in Rules /\ tx \in Tx
         /\ \A e \in Tx \X Rules : e # <<tx, r>> =>
               fs'.backup[e] = fs.backup[e] /\ disk'.backup[e] = disk.backup[e]
         /\ PersistBackup!(r) /\ pc' # "idle" => Saved(tx, r)'
<1>1. fs \in FileSystems /\ disk \in FileSystems /\ r \in Rules /\ tx \in Tx
  BY DEF TypeOK
<1>2. CASE CopyBackup!(r)
  <2>1. fs' \in {[fs EXCEPT !.backup[<<tx, r>>] = fs.orig[r]], WithoutEmpty(fs)}
          /\ disk' \in {disk, WithoutEmpty(disk)} /\ UNCHANGED <<changes, counts, tx>>
    BY <1>2 DEF Abandon
  <2>2. /\ fs'.orig = fs.orig /\ fs'.pending = fs.pending /\ fs'.final = fs.final
        /\ \A e \in Tx \X Rules : e # <<tx, r>> => fs'.backup[e] = fs.backup[e]
    <3>1. CASE fs' = [fs EXCEPT !.backup[<<tx, r>>] = fs.orig[r]]
      BY <1>1, <3>1 DEF FileSystems
    <3>. QED
      BY <1>1, <2>1, <3>1, EmptyView
  <2>3. /\ disk'.orig = disk.orig /\ disk'.pending = disk.pending
        /\ disk'.final = disk.final /\ disk'.backup = disk.backup
    BY <1>1, <2>1, EmptyView
  <2>4. ~(PersistBackup!(r))
    BY <1>2
  <2>. QED
    BY <1>1, <2>1, <2>2, <2>3, <2>4 DEF SameReceipts, SameOriginals
<1>3. CASE PersistBackup!(r)
  <2>1. SyncBackup(fs, r) \in FileSystems
    BY <1>1, SyncTypes
  <2>2. /\ fs' \in {fs, WithoutEmpty(fs)} /\ UNCHANGED <<changes, counts, tx>>
        /\ disk' \in {SyncBackup(fs, r), WithoutEmpty(SyncBackup(fs, r)), WithoutEmpty(disk)}
    BY <1>3 DEF Abandon
  <2>3. pc' # "idle" => fs' = fs /\ disk' = SyncBackup(fs, r)
                          /\ fs.backup[<<tx, r>>] = "reviewed"
    BY <1>3 DEF Abandon, End
  <2>4. /\ fs'.orig = fs.orig /\ fs'.pending = fs.pending /\ fs'.final = fs.final
        /\ fs'.backup = fs.backup
    BY <1>1, <2>2, EmptyView
  <2>5. /\ disk'.orig = disk.orig /\ disk'.pending = disk.pending /\ disk'.final = disk.final
        /\ \A e \in Tx \X Rules : e # <<tx, r>> => disk'.backup[e] = disk.backup[e]
    BY <1>1, <2>1, <2>2, EmptyView, BackupView
  <2>6. pc' # "idle" => Saved(tx, r)'
    BY <1>1, <2>2, <2>3, BackupView DEF Saved
  <2>. QED
    BY <1>1, <2>2, <2>4, <2>5, <2>6 DEF SameReceipts, SameOriginals
<1>. QED
  BY <1>2, <1>3

LEMMA ReceiptsCopy ==
  TypeOK /\ ReceiptInv /\ (CopyBackup \/ PersistBackup) => ReceiptInv'
<1> SUFFICES ASSUME TypeOK, ReceiptInv, CopyBackup \/ PersistBackup PROVE ReceiptInv'
  OBVIOUS
<1>1. PICK r \in todo : CopyBackup!(r) \/ PersistBackup!(r)
  BY DEF CopyBackup, PersistBackup
<1>2. /\ SameReceipts /\ SameOriginals /\ r \in Rules /\ tx \in Tx
      /\ \A e \in Tx \X Rules : e # <<tx, r>> =>
            fs'.backup[e] = fs.backup[e] /\ disk'.backup[e] = disk.backup[e]
      /\ PersistBackup!(r) /\ pc' # "idle" => Saved(tx, r)'
  BY <1>1, CopyEffect
<1>3. pc \in Preparing /\ NoReceipts(tx) /\ UNCHANGED <<touched, tx, changes, used>>
  BY <1>1 DEF ReceiptInv, CopiesReady, counts
<1>4. UnusedBlank' /\ NoReceipts(tx)'
  BY <1>2, <1>3 DEF ReceiptInv, UnusedBlank, NoReceipts, SameReceipts
<1>5. CopiesSafe'
  <2>1. \A t \in Tx, q \in Rules : t # tx /\ Saved(t, q) => Saved(t, q)'
    BY <1>2 DEF Saved
  <2>2. \A t \in Tx : t # tx => changes[t] \subseteq Rules
    BY DEF TypeOK
  <2>. QED
    BY <1>2, <1>3, <2>1, <2>2 DEF ReceiptInv, CopiesSafe, SameReceipts, HasReceipt, NoReceipts
<1>6. ReceiptSafe' /\ pc' \in {"verify", "persist", "pending", "idle"}
  BY <1>1 DEF ReceiptSafe, Continue, Abandon, End
<1>7. CopiesReady'
  <2>1. \A q \in changes[tx] \ (todo \cup touched) : Saved(tx, q)'
    BY <1>1, <1>2, <1>3 DEF ReceiptInv, CopiesReady, Saved, TypeOK
  <2>2. CASE CopyBackup!(r)
    BY <1>3, <1>4, <1>6, <2>1, <2>2 DEF CopiesReady, Abandon, End
  <2>3. CASE PersistBackup!(r)
    <3>1. \/ pc' = "idle"
          \/ pc' = "pending" /\ todo = {r} /\ todo' = {}
          \/ pc' = "verify" /\ todo' = todo \ {r}
      BY <2>3 DEF Continue, Abandon, End
    <3>2. changes' = changes /\ tx' = tx /\ touched' = touched
      BY <1>3
    <3>3. pc' # "idle" => \A q \in (changes[tx] \ (todo' \cup touched)) : Saved(tx, q)'
      BY <1>2, <2>1, <2>3, <3>1 DEF Saved
    <3>. QED
      BY <1>4, <3>1, <3>2, <3>3 DEF CopiesReady, NoReceipts, Saved
  <2>. QED
    BY <1>1, <2>2, <2>3
<1>8. OriginalsCovered'
  BY <1>2, <1>3, <1>6 DEF ReceiptInv, OriginalsCovered, SameOriginals, SameReceipts,
                          Covered, Durable, Ours
<1>. QED
  BY <1>4, <1>5, <1>6, <1>7, <1>8 DEF ReceiptInv

(* A step that changes the receipts of one transaction, whose copies are    *)
(* all safe, and takes no durable one away.                                *)
LEMMA OneReceipt ==
  ASSUME TypeOK, ReceiptInv, SameCopies, SameOriginals, tx \in Tx,
         UNCHANGED <<changes, used, touched, tx>>,
         \A t \in Tx \ {tx} :
            /\ fs'.pending[t] = fs.pending[t] /\ fs'.final[t] = fs.final[t]
            /\ disk'.pending[t] = disk.pending[t] /\ disk'.final[t] = disk.final[t],
         Durable(tx) => Durable(tx)',
         \A r \in changes[tx] \ touched : Saved(tx, r)
  PROVE  /\ UnusedBlank' /\ CopiesSafe'
         /\ \A r \in (Ours \ touched)' :
               \/ fs'.orig[r] \in {"reviewed", "linked"} /\ disk'.orig[r] \in {"reviewed", "linked"}
               \/ Covered(r)'
         /\ \A r \in Rules \ (Ours \cup touched)' : fs'.orig[r] = disk'.orig[r]
<1>1. UnusedBlank'
  <2>1. \A t \in Tx : t > used => t # tx
    BY BoundsAssumption DEF TypeOK
  <2>. QED
    BY <2>1 DEF ReceiptInv, UnusedBlank, NoReceipts
<1>2. CopiesSafe'
  BY DEF ReceiptInv, CopiesSafe, HasReceipt, Saved, SameCopies
<1>3. \A r : Covered(r) => Covered(r)'
  BY DEF Covered, Durable
<1>. QED
  BY <1>1, <1>2, <1>3 DEF ReceiptInv, OriginalsCovered, Ours, SameOriginals

LEMMA ReceiptsWrite == TypeOK /\ ReceiptInv /\ (WritePending \/ WriteFinal) => ReceiptInv'
<1> SUFFICES ASSUME TypeOK, ReceiptInv, WritePending \/ WriteFinal PROVE ReceiptInv'
  OBVIOUS
<1>1. fs \in FileSystems /\ disk \in FileSystems /\ tx \in Tx
  BY DEF TypeOK, WritePending, WriteFinal
<1>2. CASE WritePending
  <2>1. NoReceipts(tx) /\ todo = {} /\ \A r \in changes[tx] \ touched : Saved(tx, r)
    BY <1>2 DEF WritePending, ReceiptInv, CopiesReady
  <2>2. PICK j \in Json :
          /\ \/ fs' = [fs EXCEPT !.pending[tx] = j] /\ UNCHANGED disk
             \/ /\ fs' = WithoutEmpty([fs EXCEPT !.pending[tx] = j])
                /\ disk' = WithoutEmpty(disk)
          /\ \/ pc' = "syncpending" /\ j = "whole"
             \/ pc' = "idle"
    BY <1>2 DEF WritePending, Abandon, End
  <2>. DEFINE g == [fs EXCEPT !.pending[tx] = j]
  <2>3. /\ g \in FileSystems /\ g.orig = fs.orig /\ g.backup = fs.backup /\ g.final = fs.final
        /\ g.pending = [fs.pending EXCEPT ![tx] = j] /\ fs.pending \in [Tx -> Json]
    BY <1>1 DEF FileSystems
  <2>4. fs' \in {g, WithoutEmpty(g)} /\ disk' \in {disk, WithoutEmpty(disk)}
    BY <2>2
  <2>. HIDE DEF g
  <2>5. /\ fs'.orig = fs.orig /\ fs'.backup = fs.backup /\ fs'.final = fs.final
        /\ fs'.pending = [fs.pending EXCEPT ![tx] = j]
    <3>1. CASE fs' = g
      BY <2>3, <3>1
    <3>2. CASE fs' = WithoutEmpty(g)
      BY <2>3, <3>2, EmptyView
    <3>. QED
      BY <2>4, <3>1, <3>2
  <2>6. /\ disk'.orig = disk.orig /\ disk'.backup = disk.backup
        /\ disk'.pending = disk.pending /\ disk'.final = disk.final
    BY <1>1, <2>4, EmptyView
  <2>7. UNCHANGED <<changes, used, touched, tx>>
    BY <1>2 DEF WritePending, counts
  <2>8. ~Durable(tx)
    BY <2>1 DEF Durable, NoReceipts
  <2>9. CopiesReady' /\ ReceiptSafe' /\ pc' \notin {"publish", "published"}
    BY <1>1, <2>2, <2>3, <2>5, <2>7 DEF CopiesReady, ReceiptSafe
  <2>. QED
    BY <1>1, <2>1, <2>3, <2>5, <2>6, <2>7, <2>8, <2>9, OneReceipt
       DEF ReceiptInv, OriginalsCovered, SameCopies, SameOriginals
<1>3. CASE WriteFinal
  <2>1. fs.pending[tx] = "whole" /\ disk.pending[tx] = "whole"
    BY <1>3 DEF WriteFinal, ReceiptInv, ReceiptSafe
  <2>2. \A r \in changes[tx] \ touched : Saved(tx, r)
    BY <1>1, <2>1 DEF ReceiptInv, CopiesSafe, HasReceipt
  <2>3. PICK j \in Json \cup {fs.final[tx]} :
          /\ fs' = [fs EXCEPT !.final[tx] = j] /\ UNCHANGED disk
          /\ \/ pc' = "syncfinal" /\ j = "whole"
             \/ pc' = "idle"
    BY <1>3 DEF WriteFinal, End
  <2>4. /\ fs'.orig = fs.orig /\ fs'.backup = fs.backup /\ fs'.pending = fs.pending
        /\ fs'.final = [fs.final EXCEPT ![tx] = j] /\ fs.final \in [Tx -> Json]
    BY <1>1, <2>3 DEF FileSystems
  <2>5. UNCHANGED <<changes, used, touched, tx>>
    BY <1>3 DEF WriteFinal, counts
  <2>6. Durable(tx)'
    BY <2>1, <2>3, <2>4, <2>5 DEF Durable
  <2>7. CopiesReady' /\ ReceiptSafe' /\ pc' \notin {"publish", "published"}
    BY <1>1, <2>1, <2>3, <2>4, <2>5 DEF CopiesReady, ReceiptSafe
  <2>. QED
    BY <1>1, <2>2, <2>3, <2>4, <2>5, <2>6, <2>7, OneReceipt
       DEF ReceiptInv, OriginalsCovered, SameCopies, SameOriginals
<1>. QED
  BY <1>2, <1>3

LEMMA ReceiptsPersist ==
  TypeOK /\ ReceiptInv /\ (SyncPending \/ SyncFinal \/ DropPending) => ReceiptInv'
<1> SUFFICES ASSUME TypeOK, ReceiptInv, SyncPending \/ SyncFinal \/ DropPending
             PROVE  ReceiptInv'
  OBVIOUS
<1>1. fs \in FileSystems /\ disk \in FileSystems /\ tx \in Tx
  BY DEF TypeOK, SyncPending, SyncFinal, DropPending
<1>2. fs.pending[tx] = "whole" /\ pc \in {"syncpending", "syncfinal", "drop"}
        /\ UNCHANGED <<changes, used, touched, tx>>
  BY DEF SyncPending, SyncFinal, DropPending, ReceiptInv, ReceiptSafe, counts
<1>3. \A r \in changes[tx] \ touched : Saved(tx, r)
  BY <1>1, <1>2 DEF ReceiptInv, CopiesSafe, HasReceipt
<1>4. CASE SyncPending \/ SyncFinal
  <2>1. fs' = fs /\ disk' \in {disk, SyncReceipts(fs)} /\ pc' \in {"check", "drop", "idle"}
          /\ (pc' # "idle" => disk' = SyncReceipts(fs))
          /\ (pc' = "drop" => fs.final[tx] = "whole")
    BY <1>4 DEF SyncPending, SyncFinal, End, ReceiptInv, ReceiptSafe
  <2>2. /\ disk'.orig = disk.orig /\ disk'.backup = disk.backup
        /\ \A t \in Tx \ {tx} : /\ disk'.pending[t] = disk.pending[t]
                                /\ disk'.final[t] = disk.final[t]
        /\ \/ disk' = disk
           \/ disk'.pending[tx] = fs.pending[tx] /\ disk'.final[tx] = fs.final[tx]
    BY <1>1, <2>1, ReceiptsView
  <2>3. Durable(tx) => Durable(tx)'
    BY <1>2, <2>1, <2>2 DEF Durable
  <2>4. CopiesReady' /\ ReceiptSafe' /\ pc' \notin {"publish", "published"}
    BY <1>1, <1>2, <2>1, ReceiptsView DEF CopiesReady, ReceiptSafe
  <2>. QED
    BY <1>1, <1>2, <1>3, <2>1, <2>2, <2>3, <2>4, OneReceipt
       DEF ReceiptInv, OriginalsCovered, SameCopies, SameOriginals
<1>5. CASE DropPending
  <2>. DEFINE dropped == [fs EXCEPT !.pending[tx] = "none"]
  <2>1. fs.final[tx] = "whole" /\ disk.final[tx] = "whole"
    BY <1>5 DEF DropPending, ReceiptInv, ReceiptSafe
  <2>2. fs' \in {fs, dropped} /\ disk' \in {disk, SyncReceipts(dropped)} /\ pc' = "idle"
    BY <1>5 DEF DropPending, End
  <2>3. /\ dropped \in FileSystems /\ dropped.orig = fs.orig /\ dropped.backup = fs.backup
        /\ dropped.final = fs.final /\ fs.pending \in [Tx -> Json]
        /\ dropped.pending = [fs.pending EXCEPT ![tx] = "none"]
    BY <1>1 DEF FileSystems
  <2>. HIDE DEF dropped
  <2>4. /\ disk'.orig = disk.orig /\ disk'.backup = disk.backup
        /\ \A t \in Tx \ {tx} : /\ disk'.pending[t] = disk.pending[t]
                                /\ disk'.final[t] = disk.final[t]
        /\ disk'.final[tx] = "whole"
    BY <1>1, <2>1, <2>2, <2>3, ReceiptsView
  <2>5. /\ fs'.orig = fs.orig /\ fs'.backup = fs.backup /\ fs'.final = fs.final
        /\ \A t \in Tx \ {tx} : fs'.pending[t] = fs.pending[t]
    BY <2>2, <2>3
  <2>6. Durable(tx)'
    BY <1>2, <2>1, <2>4, <2>5 DEF Durable
  <2>7. CopiesReady' /\ ReceiptSafe'
    BY <2>2 DEF CopiesReady, ReceiptSafe
  <2>. QED
    BY <1>1, <1>2, <1>3, <2>2, <2>4, <2>5, <2>6, <2>7, OneReceipt
       DEF ReceiptInv, OriginalsCovered, SameCopies, SameOriginals
<1>. QED
  BY <1>4, <1>5

LEMMA ReceiptsDiscard == TypeOK /\ ReceiptInv /\ Discard => ReceiptInv'
<1> SUFFICES ASSUME TypeOK, ReceiptInv, Discard PROVE ReceiptInv'
  OBVIOUS
<1>1. fs \in FileSystems /\ disk \in FileSystems
  BY DEF TypeOK
<1>2. PICK u \in Tx, q \in Rules :
        /\ fs' = [fs EXCEPT !.backup[<<u, q>>] = "none"]
        /\ disk' = [disk EXCEPT !.backup[<<u, q>>] = "none"]
        /\ touched' = touched \cup {q}
  BY DEF Discard
<1>3. SameReceipts /\ SameOriginals
  BY <1>1, <1>2 DEF FileSystems, SameReceipts, SameOriginals, Discard
<1>4. \A e \in Tx \X Rules : e # <<u, q>> =>
        fs'.backup[e] = fs.backup[e] /\ disk'.backup[e] = disk.backup[e]
  BY <1>1, <1>2 DEF FileSystems
<1>5. pc = "idle" /\ pc' = "idle"
  BY DEF Discard
<1>6. UnusedBlank'
  BY <1>3 DEF ReceiptInv, UnusedBlank, NoReceipts, SameReceipts
<1>7. CopiesSafe'
  <2>1. \A t \in Tx, r \in Rules : r # q /\ Saved(t, r) => Saved(t, r)'
    BY <1>4 DEF Saved
  <2>2. \A t \in Tx : changes[t] \subseteq Rules
    BY DEF TypeOK
  <2>. QED
    BY <1>2, <1>3, <2>1, <2>2 DEF ReceiptInv, CopiesSafe, SameReceipts, HasReceipt
<1>8. CopiesReady' /\ ReceiptSafe'
  BY <1>5 DEF CopiesReady, ReceiptSafe
<1>9. OriginalsCovered'
  BY <1>2, <1>3, <1>5 DEF ReceiptInv, OriginalsCovered, SameOriginals, SameReceipts,
                          Covered, Durable, Ours
<1>. QED
  BY <1>6, <1>7, <1>8, <1>9 DEF ReceiptInv

(* A crash mixes the cache with the disk; what both hold survives it.      *)
LEMMA ReceiptsCrash == TypeOK /\ ReceiptInv /\ Crash => ReceiptInv'
<1> SUFFICES ASSUME TypeOK, ReceiptInv, Crash PROVE ReceiptInv'
  OBVIOUS
<1>1. fs \in FileSystems /\ disk \in FileSystems
  BY DEF TypeOK
<1>2. pc' = "idle" /\ UNCHANGED <<changes, used, touched>> /\ disk' = fs'
  BY DEF Crash, End, counts
<1>3. \A r \in Rules : fs'.orig[r] \in {fs.orig[r], disk.orig[r]}
  BY <1>1, CrashView
<1>4. \A e \in Tx \X Rules : fs.backup[e] = disk.backup[e] => fs'.backup[e] = fs.backup[e]
  BY <1>1, CrashView
<1>5. \A t \in Tx :
        /\ fs'.pending[t] \in {fs.pending[t], disk.pending[t], "torn"}
        /\ fs'.final[t] \in {fs.final[t], disk.final[t], "torn"}
        /\ fs.pending[t] = disk.pending[t] => fs'.pending[t] = fs.pending[t]
        /\ fs.final[t] = disk.final[t] => fs'.final[t] = fs.final[t]
  BY <1>1, CrashView
<1>6. UnusedBlank'
  BY <1>2, <1>5 DEF ReceiptInv, UnusedBlank, NoReceipts
<1>7. CopiesSafe'
  <2>1. \A t \in Tx, r \in Rules : Saved(t, r) => Saved(t, r)'
    BY <1>2, <1>4 DEF Saved
  <2>2. \A t \in Tx : HasReceipt(fs', t) => HasReceipt(fs, t) \/ HasReceipt(disk, t)
    BY <1>5 DEF HasReceipt
  <2>3. \A t \in Tx : changes[t] \subseteq Rules
    BY DEF TypeOK
  <2>. QED
    BY <1>2, <2>1, <2>2, <2>3 DEF ReceiptInv, CopiesSafe
<1>8. CopiesReady' /\ ReceiptSafe'
  BY <1>2 DEF CopiesReady, ReceiptSafe
<1>9. \A r : Covered(r) => Covered(r)'
  BY <1>2, <1>5 DEF Covered, Durable
<1>10. Ours \subseteq Rules
  BY DEF TypeOK, Ours
<1>11. OriginalsCovered'
  BY <1>2, <1>3, <1>9, <1>10 DEF ReceiptInv, OriginalsCovered, Ours
<1>. QED
  BY <1>6, <1>7, <1>8, <1>11 DEF ReceiptInv

LEMMA ReceiptStep == TypeOK /\ ReceiptInv /\ [Next]_vars => ReceiptInv'
BY ReceiptsQuiet, ReceiptsMove, ReceiptsRestore, ReceiptsEdit, ReceiptsBegin, ReceiptsCopy,
   ReceiptsWrite, ReceiptsPersist, ReceiptsDiscard, ReceiptsCrash DEF Next, Step

THEOREM ReceiptInvariant == Spec => []ReceiptInv
<1>1. Init => ReceiptInv
  BY ReceiptInit
<1>2. TypeOK /\ ReceiptInv /\ [Next]_vars => ReceiptInv'
  BY ReceiptStep
<1>. QED
  BY <1>1, <1>2, TypeCorrect, PTL DEF Spec

(* However calls fail and wherever a crash falls, an entry that Apply takes *)
(* away and nobody else touched is in place, or a readable receipt names an *)
(* intact copy of it.                                                      *)
THEOREM NothingEverLost == Spec => []NothingLost
<1>1. ReceiptInv => NothingLost
  <2> SUFFICES ASSUME ReceiptInv, NEW r \in Ours \ touched,
                      NEW f \in {fs, disk}, ~(f.orig[r] \in {"reviewed", "linked"})
               PROVE  Recoverable(f, r)
    BY DEF NothingLost
  <2>1. PICK t \in Tx : Durable(t) /\ r \in changes[t]
    <3>1. CASE f = fs
      BY <3>1 DEF ReceiptInv, OriginalsCovered, Covered, Ours
    <3>2. CASE f = disk
      BY <3>2 DEF ReceiptInv, OriginalsCovered, Covered, Ours
    <3>. QED
      BY <3>1, <3>2
  <2>2. HasReceipt(f, t) /\ HasReceipt(fs, t)
    BY <2>1 DEF Durable, HasReceipt
  <2>3. Saved(t, r)
    <3>1. r \in changes[t] \ touched
      BY <2>1
    <3>. QED
      BY <2>1, <2>2, <3>1 DEF ReceiptInv, CopiesSafe
  <2>. QED
    BY <2>1, <2>2, <2>3 DEF Recoverable, Saved
<1>. QED
  BY <1>1, ReceiptInvariant, PTL

(* A receipt that can be read names only durable, verified copies.         *)
THEOREM ReceiptsAlwaysNameCopies == Spec => []ReceiptsNameCopies
<1>1. ReceiptInv => ReceiptsNameCopies
  BY DEF ReceiptInv, CopiesSafe, ReceiptsNameCopies, Saved
<1>. QED
  BY <1>1, ReceiptInvariant, PTL
-----------------------------------------------------------------------------
(* What the administrator put at a rule's path, and what a finished        *)
(* restoration has put back.                                               *)

(* Steps that leave the originals and foreign content in quarantine alone. *)
SameForeign == \A e \in Tx \X Rules :
    /\ fs'.quarantine[e] = "other" <=> fs.quarantine[e] = "other"
    /\ disk'.quarantine[e] = "other" <=> disk.quarantine[e] = "other"

Calm == \/ ScanPlan \/ BeginApply \/ NoBackupDirectory \/ MakeQuarantine \/ VerifyTarget
        \/ CopyBackup \/ PersistBackup \/ WritePending \/ SyncPending \/ CheckTarget
        \/ RemoveQuarantined \/ WriteFinal \/ SyncFinal \/ DropPending
        \/ BeginRestore \/ Inspect \/ Discard \/ UNCHANGED vars

LEMMA EmptyForeign ==
  ASSUME NEW f \in FileSystems
  PROVE  /\ WithoutEmpty(f).orig = f.orig
         /\ \A e \in Tx \X Rules :
               WithoutEmpty(f).quarantine[e] = "other" <=> f.quarantine[e] = "other"
BY EmptyView

LEMMA CalmForeign == TypeOK /\ QuarantineInv /\ Calm => SameOriginals /\ SameForeign
<1> SUFFICES ASSUME TypeOK, QuarantineInv, Calm PROVE SameOriginals /\ SameForeign
  OBVIOUS
<1> USE DEF SameOriginals, SameForeign
<1>1. fs \in FileSystems /\ disk \in FileSystems
  BY DEF TypeOK
<1>2. CASE UNCHANGED <<fs, disk>>
  BY <1>2
<1>3. CASE ScanPlan \/ BeginApply \/ NoBackupDirectory \/ CheckTarget \/ BeginRestore
           \/ Inspect \/ UNCHANGED vars
  BY <1>2, <1>3 DEF ScanPlan, BeginApply, NoBackupDirectory, CheckTarget, BeginRestore,
                    Inspect, vars
<1>4. CASE fs' = WithoutEmpty(fs) /\ disk' = WithoutEmpty(disk)
  BY <1>1, <1>4, EmptyForeign
<1>5. CASE MakeQuarantine
  <2>1. PICK r \in todo : MakeQuarantine!(r)
    BY <1>5 DEF MakeQuarantine
  <2>2. \/ /\ fs' = [fs EXCEPT !.quarantine[<<tx, r>>] = "empty"]
           /\ disk' = [disk EXCEPT !.quarantine[<<tx, r>>] = "empty"]
        \/ fs' = WithoutEmpty(fs) /\ disk' = WithoutEmpty(disk)
    BY <2>1 DEF Abandon
  <2>3. pc = "quarantine" /\ r \in Rules /\ tx \in Tx
    BY <2>1 DEF TypeOK
  <2>4. fs.quarantine[<<tx, r>>] # "other" /\ disk.quarantine[<<tx, r>>] # "other"
    BY <2>3 DEF QuarantineInv, OnlyJustMoved, DiskEmpty
  <2>5. CASE /\ fs' = [fs EXCEPT !.quarantine[<<tx, r>>] = "empty"]
             /\ disk' = [disk EXCEPT !.quarantine[<<tx, r>>] = "empty"]
    <3>1. /\ fs'.orig = fs.orig /\ disk'.orig = disk.orig
          /\ fs'.quarantine = [fs.quarantine EXCEPT ![<<tx, r>>] = "empty"]
          /\ disk'.quarantine = [disk.quarantine EXCEPT ![<<tx, r>>] = "empty"]
      BY <1>1, <2>5 DEF FileSystems
    <3>2. /\ fs.quarantine \in [Tx \X Rules -> Quarantined]
          /\ disk.quarantine \in [Tx \X Rules -> Quarantined]
      BY <1>1 DEF FileSystems
    <3>. QED
      BY <2>4, <3>1, <3>2
  <2>. QED
    BY <1>4, <2>2, <2>5
<1>6. CASE VerifyTarget
  <2>1. PICK r \in todo : VerifyTarget!(r)
    BY <1>6 DEF VerifyTarget
  <2>2. UNCHANGED <<fs, disk>> \/ (fs' = WithoutEmpty(fs) /\ disk' = WithoutEmpty(disk))
    BY <2>1 DEF Abandon
  <2>. QED
    BY <1>2, <1>4, <2>2
<1>7. CASE CopyBackup
  <2>1. PICK r \in todo : CopyBackup!(r)
    BY <1>7 DEF CopyBackup
  <2>2. \/ fs' = [fs EXCEPT !.backup[<<tx, r>>] = fs.orig[r]] /\ disk' = disk
        \/ fs' = WithoutEmpty(fs) /\ disk' = WithoutEmpty(disk)
    BY <2>1 DEF Abandon
  <2>3. CASE fs' = [fs EXCEPT !.backup[<<tx, r>>] = fs.orig[r]] /\ disk' = disk
    BY <1>1, <2>3 DEF FileSystems
  <2>. QED
    BY <1>4, <2>2, <2>3
<1>8. CASE PersistBackup
  <2>1. PICK r \in todo : PersistBackup!(r)
    BY <1>8 DEF PersistBackup
  <2>2. r \in Rules /\ tx \in Tx
    BY <2>1 DEF TypeOK
  <2>3. /\ SyncBackup(fs, r) \in FileSystems /\ SyncBackup(fs, r).orig = disk.orig
        /\ SyncBackup(fs, r).quarantine = disk.quarantine
    BY <1>1, <2>2, SyncTypes, BackupView
  <2>4. /\ fs' \in {fs, WithoutEmpty(fs)}
        /\ disk' \in {SyncBackup(fs, r), WithoutEmpty(SyncBackup(fs, r)), WithoutEmpty(disk)}
    BY <2>1 DEF Abandon
  <2>5. fs'.orig = fs.orig /\ \A e \in Tx \X Rules :
           fs'.quarantine[e] = "other" <=> fs.quarantine[e] = "other"
    BY <1>1, <2>4, EmptyForeign
  <2>6. disk'.orig = disk.orig /\ \A e \in Tx \X Rules :
           disk'.quarantine[e] = "other" <=> disk.quarantine[e] = "other"
    BY <1>1, <2>3, <2>4, EmptyForeign
  <2>. QED
    BY <2>5, <2>6
<1>9. CASE WritePending
  <2>1. PICK j \in Json :
          \/ fs' = [fs EXCEPT !.pending[tx] = j] /\ UNCHANGED disk
          \/ fs' = WithoutEmpty([fs EXCEPT !.pending[tx] = j]) /\ disk' = WithoutEmpty(disk)
    BY <1>9 DEF WritePending, Abandon
  <2>. DEFINE g == [fs EXCEPT !.pending[tx] = j]
  <2>2. g \in FileSystems /\ g.orig = fs.orig /\ g.quarantine = fs.quarantine
    BY <1>1 DEF FileSystems
  <2>3. fs' \in {g, WithoutEmpty(g)} /\ disk' \in {disk, WithoutEmpty(disk)}
    BY <2>1
  <2>. HIDE DEF g
  <2>. QED
    BY <1>1, <2>2, <2>3, EmptyForeign
<1>10. CASE SyncPending \/ SyncFinal
  <2>1. fs' = fs /\ disk' \in {disk, SyncReceipts(fs)} /\ tx \in Tx
    BY <1>10 DEF SyncPending, SyncFinal, TypeOK
  <2>. QED
    BY <1>1, <2>1, ReceiptsView
<1>11. CASE WriteFinal
  <2>1. \E j : fs' = [fs EXCEPT !.final[tx] = j] /\ disk' = disk
    BY <1>11 DEF WriteFinal
  <2>. QED
    BY <1>1, <2>1 DEF FileSystems
<1>12. CASE DropPending
  <2>. DEFINE dropped == [fs EXCEPT !.pending[tx] = "none"]
  <2>1. fs' \in {fs, dropped} /\ disk' \in {disk, SyncReceipts(dropped)} /\ tx \in Tx
    BY <1>12 DEF DropPending, TypeOK
  <2>2. /\ dropped \in FileSystems /\ dropped.orig = fs.orig
        /\ dropped.quarantine = fs.quarantine
    BY <1>1 DEF FileSystems
  <2>. HIDE DEF dropped
  <2>. QED
    BY <1>1, <2>1, <2>2, ReceiptsView
<1>13. CASE RemoveQuarantined
  <2>1. PICK r \in todo : RemoveQuarantined!(r)
    BY <1>13 DEF RemoveQuarantined
  <2>2. r \in Rules /\ tx \in Tx /\ pc = "remove"
    BY <2>1 DEF TypeOK
  <2>3. fs.quarantine[<<tx, r>>] # "other"
    BY <2>2 DEF QuarantineInv, OnlyJustMoved
  <2>4. CASE fs' = [fs EXCEPT !.quarantine[<<tx, r>>] = "empty"]
    <3>1. /\ fs'.orig = fs.orig /\ fs.quarantine \in [Tx \X Rules -> Quarantined]
          /\ fs'.quarantine = [fs.quarantine EXCEPT ![<<tx, r>>] = "empty"]
      BY <1>1, <2>4 DEF FileSystems
    <3>. QED
      BY <2>1, <2>3, <3>1
  <2>. QED
    BY <2>1, <2>4
<1>14. CASE Discard
  <2>1. PICK t \in Tx, r \in Rules :
          /\ fs' = [fs EXCEPT !.backup[<<t, r>>] = "none"]
          /\ disk' = [disk EXCEPT !.backup[<<t, r>>] = "none"]
    BY <1>14 DEF Discard
  <2>. QED
    BY <1>1, <2>1 DEF FileSystems
<1>. QED
  BY <1>3, <1>5, <1>6, <1>7, <1>8, <1>9, <1>10, <1>11, <1>12, <1>13, <1>14 DEF Calm

(* A step at one entry r leaves the other entries as they were; at r the    *)
(* disk is as before, or as processes now see it.                          *)
SameAt(f, g, r) == /\ f.orig[r] = g.orig[r]
                   /\ \A t \in Tx : f.quarantine[<<t, r>>] = "other" <=> g.quarantine[<<t, r>>] = "other"

OnlyAt(r) == \A q \in Rules \ {r} : SameAt(fs', fs, q) /\ SameAt(disk', disk, q)

Saves(r) == SameAt(disk', disk, r) \/ SameAt(disk', fs', r)

LEMMA PlaceSaved ==
  ASSUME fs \in FileSystems, disk \in FileSystems, NEW r \in Rules,
         NEW f \in FileSystems, \A q \in Rules \ {r} : SameAt(fs', fs, q),
         \/ disk' = disk
         \/ disk' = SyncPlace(f, r) /\ SameAt(f, fs', r)
  PROVE  OnlyAt(r) /\ Saves(r)
<1>1. CASE disk' = disk
  BY <1>1 DEF OnlyAt, Saves, SameAt
<1>2. CASE disk' = SyncPlace(f, r) /\ SameAt(f, fs', r)
  BY <1>2, PlaceView DEF OnlyAt, Saves, SameAt
<1>. QED
  BY <1>1, <1>2

LEMMA RenameForeign ==
  ASSUME TypeOK, NEW r \in todo, Rename!(r)
  PROVE  /\ OnlyAt(r) /\ disk' = disk /\ r \in Rules /\ tx \in Tx
         /\ \/ fs' = fs
            \/ /\ fs'.orig[r] = "absent"
               /\ fs'.quarantine[<<tx, r>>] = "other" <=> fs.orig[r] = "other"
               /\ \A t \in Tx \ {tx} : fs'.quarantine[<<t, r>>] = fs.quarantine[<<t, r>>]
               /\ pc' = "moved" /\ todo' = todo
<1>1. fs \in FileSystems /\ r \in Rules /\ tx \in Tx
  BY DEF TypeOK
<1>2. CASE fs' = fs
  BY <1>1, <1>2 DEF OnlyAt, SameAt
<1>3. CASE /\ fs' = [fs EXCEPT !.quarantine[<<tx, r>>] = fs.orig[r], !.orig[r] = "absent"]
           /\ fs.orig[r] \in Quarantined /\ pc' = "moved" /\ todo' = todo
  <2>1. /\ \A q \in Rules : fs'.orig[q] = IF q = r THEN "absent" ELSE fs.orig[q]
        /\ \A e \in Tx \X Rules : fs'.quarantine[e] =
              IF e = <<tx, r>> THEN fs.orig[r] ELSE fs.quarantine[e]
    BY <1>1, <1>3, RenameView
  <2>2. OnlyAt(r) /\ disk' = disk
    BY <1>1, <2>1 DEF OnlyAt, SameAt
  <2>3. fs'.quarantine[<<tx, r>>] = fs.orig[r] /\ fs'.orig[r] = "absent"
        /\ \A t \in Tx \ {tx} : fs'.quarantine[<<t, r>>] = fs.quarantine[<<t, r>>]
    BY <1>1, <2>1
  <2>. QED
    BY <1>1, <1>3, <2>2, <2>3
<1>4. \/ fs' = fs
      \/ /\ fs' = [fs EXCEPT !.quarantine[<<tx, r>>] = fs.orig[r], !.orig[r] = "absent"]
         /\ fs.orig[r] \in Quarantined /\ pc' = "moved" /\ todo' = todo
  OBVIOUS
<1>. QED
  BY <1>2, <1>3, <1>4

LEMMA RemoveForeign ==
  ASSUME TypeOK, QuarantineInv, NEW r \in todo, VerifyQuarantined!(r) \/ RemoveDirectory!(r)
  PROVE  OnlyAt(r) /\ Saves(r) /\ SameAt(fs', fs, r) /\ r \in Rules
<1>1. fs \in FileSystems /\ disk \in FileSystems /\ r \in Rules /\ tx \in Tx
  BY DEF TypeOK
<1>2. CASE VerifyQuarantined!(r)
  BY <1>1, <1>2, PlaceSaved DEF SameAt
<1>3. CASE RemoveDirectory!(r)
  <2>. DEFINE gone == [fs EXCEPT !.quarantine[<<tx, r>>] = "none"]
  <2>1. fs' \in {fs, gone} /\ disk' \in {disk, SyncPlace(fs, r), SyncPlace(gone, r)}
    BY <1>3
  <2>2. pc = "removed"
    BY <1>3
  <2>3. fs.quarantine[<<tx, r>>] # "other"
    BY <1>1, <2>2 DEF QuarantineInv, OnlyJustMoved
  <2>4. gone \in FileSystems
    BY <1>1, EditTypes
  <2>5. gone.orig = fs.orig /\ gone.quarantine = [fs.quarantine EXCEPT ![<<tx, r>>] = "none"]
    BY <1>1 DEF FileSystems
  <2>6. fs.quarantine \in [Tx \X Rules -> Quarantined]
    BY <1>1 DEF FileSystems
  <2>. HIDE DEF gone
  <2>7. \A q \in Rules : SameAt(gone, fs, q) /\ SameAt(fs, gone, q)
    BY <1>1, <2>3, <2>5, <2>6 DEF SameAt
  <2>8. \A q \in Rules : SameAt(fs', fs, q)
    BY <2>1, <2>7 DEF SameAt
  <2>9. SameAt(fs, fs', r) /\ SameAt(gone, fs', r)
    BY <1>1, <2>1, <2>7 DEF SameAt
  <2>. QED
    BY <1>1, <2>1, <2>4, <2>8, <2>9, PlaceSaved
<1>. QED
  BY <1>2, <1>3

(* A restoration publishes where nothing is, and takes back what it has     *)
(* published: the foreign content of an entry stays where it is.           *)
LEMMA PublishForeign ==
  ASSUME TypeOK, NEW r \in todo, Publish!(r) \/ PersistPublished!(r) \/ RemoveWorkspace!(r)
  PROVE  /\ OnlyAt(r) /\ r \in Rules /\ fs'.quarantine = fs.quarantine
         /\ fs'.orig[r] = "other" <=> fs.orig[r] = "other"
         /\ Saves(r)
<1>1. fs \in FileSystems /\ disk \in FileSystems /\ r \in Rules /\ tx \in Tx
  BY DEF TypeOK
<1>2. CASE Publish!(r)
  <2>1. disk' = disk
    BY <1>2
  <2>2. \/ fs' = fs
        \/ \E c \in {"reviewed", "linked"} : fs.orig[r] = "absent" /\ fs' = [fs EXCEPT !.orig[r] = c]
    BY <1>2 DEF Publishable
  <2>3. CASE fs' = fs
    BY <1>1, <2>1, <2>3 DEF OnlyAt, SameAt, Saves
  <2>4. CASE \E c \in {"reviewed", "linked"} :
               fs.orig[r] = "absent" /\ fs' = [fs EXCEPT !.orig[r] = c]
    <3>1. PICK c \in {"reviewed", "linked"} :
               fs.orig[r] = "absent" /\ fs' = [fs EXCEPT !.orig[r] = c]
      BY <2>4
    <3>2. /\ fs'.quarantine = fs.quarantine /\ fs.orig \in [Rules -> Contents]
          /\ fs'.orig = [fs.orig EXCEPT ![r] = c]
      BY <1>1, <3>1 DEF FileSystems
    <3>. QED
      BY <1>1, <2>1, <3>1, <3>2 DEF OnlyAt, SameAt, Saves
  <2>. QED
    BY <2>2, <2>3, <2>4
<1>3. CASE PersistPublished!(r)
  <2>1. \/ fs' = fs /\ disk' \in {disk, SyncPlace(fs, r)}
        \/ fs' = Withdrawn(r) /\ disk' = disk
    BY <1>3
  <2>2. Withdrawn(r).quarantine = fs.quarantine
        /\ \/ Withdrawn(r).orig = fs.orig
           \/ /\ fs.orig[r] # "other"
              /\ Withdrawn(r).orig = [fs.orig EXCEPT ![r] = "absent"]
    <3>. DEFINE g == [fs EXCEPT !.orig[r] = "absent"]
    <3>1. g.quarantine = fs.quarantine /\ g.orig = [fs.orig EXCEPT ![r] = "absent"]
      BY <1>1 DEF FileSystems
    <3>2. Withdrawn(r) = IF fs.orig[r] = "other" THEN fs ELSE g
      BY DEF Withdrawn
    <3>. HIDE DEF g
    <3>. QED
      BY <3>1, <3>2
  <2>3. fs.orig \in [Rules -> Contents]
    BY <1>1 DEF FileSystems
  <2>4. fs'.quarantine = fs.quarantine /\ (fs'.orig[r] = "other" <=> fs.orig[r] = "other")
        /\ \A q \in Rules \ {r} : SameAt(fs', fs, q)
    BY <1>1, <2>1, <2>2, <2>3 DEF SameAt
  <2>5. disk' = disk \/ (disk' = SyncPlace(fs, r) /\ SameAt(fs, fs', r))
    BY <2>1 DEF SameAt
  <2>. QED
    BY <1>1, <2>4, <2>5, PlaceSaved
<1>4. CASE RemoveWorkspace!(r)
  <2>1. \/ fs' = Single(r) /\ disk' \in {disk, SyncPlace(Single(r), r)}
        \/ fs' = fs /\ disk' = disk
    BY <1>4
  <2>2. Single(r).quarantine = fs.quarantine
        /\ \/ Single(r).orig = fs.orig
           \/ /\ fs.orig[r] = "linked"
              /\ Single(r).orig = [fs.orig EXCEPT ![r] = "reviewed"]
    <3>. DEFINE g == [fs EXCEPT !.orig[r] = "reviewed"]
    <3>1. g.quarantine = fs.quarantine /\ g.orig = [fs.orig EXCEPT ![r] = "reviewed"]
      BY <1>1 DEF FileSystems
    <3>2. Single(r) = IF fs.orig[r] = "linked" THEN g ELSE fs
      BY DEF Single
    <3>. HIDE DEF g
    <3>. QED
      BY <3>1, <3>2
  <2>3. fs.orig \in [Rules -> Contents] /\ Single(r) \in FileSystems
    BY <1>1, EditTypes DEF Single, FileSystems
  <2>4. fs'.quarantine = fs.quarantine /\ (fs'.orig[r] = "other" <=> fs.orig[r] = "other")
        /\ \A q \in Rules \ {r} : SameAt(fs', fs, q)
    BY <1>1, <2>1, <2>2, <2>3 DEF SameAt
  <2>5. \/ disk' = disk
        \/ disk' = SyncPlace(Single(r), r) /\ SameAt(Single(r), fs', r)
    BY <1>1, <2>1, <2>2, <2>3 DEF SameAt
  <2>. QED
    BY <1>1, <2>3, <2>4, <2>5, PlaceSaved
<1>. QED
  BY <1>2, <1>3, <1>4

-----------------------------------------------------------------------------
(* Foreign content is only ever moved, in the cache before on disk.        *)

Kept == \A r \in Rules : Somewhere(fs, r) => Somewhere(fs', r)

LEMMA CalmKept == TypeOK /\ QuarantineInv /\ Calm => QuarantineInv' /\ Kept
<1> SUFFICES ASSUME TypeOK, QuarantineInv, Calm PROVE QuarantineInv' /\ Kept
  OBVIOUS
<1>1. SameOriginals /\ SameForeign
  BY CalmForeign
<1>2. \A r \in Rules : /\ Somewhere(fs, r) => Somewhere(fs', r)
                       /\ Somewhere(fs', r) => Somewhere(fs, r)
                       /\ Somewhere(disk, r) => Somewhere(disk', r)
  BY <1>1 DEF SameOriginals, SameForeign, Somewhere
<1>3. used' \in {used, used + 1} /\ used \in Nat
  <2>1. used \in Nat
    BY BoundsAssumption DEF TypeOK
  <2>. QED
   BY <2>1 DEF Calm, ScanPlan, BeginApply, NoBackupDirectory, MakeQuarantine, VerifyTarget,
         CopyBackup, PersistBackup, WritePending, SyncPending, CheckTarget,
         RemoveQuarantined, WriteFinal, SyncFinal, DropPending, BeginRestore, Inspect,
         Discard, vars, TypeOK
<1>4. UnusedEmpty'
  <2>1. \A t \in Tx : t > used' => t > used
    BY <1>3
  <2>. QED
    BY <1>1, <2>1 DEF QuarantineInv, UnusedEmpty, SameForeign
<1>5. OnlyJustMoved' /\ DiskEmpty'
  <2>1. CASE BeginApply /\ tx' = used + 1
    <3>1. tx' \in Tx /\ tx' > used
      BY <2>1, BoundsAssumption DEF BeginApply, TypeOK
    <3>2. pc' # "moved"
      BY <2>1 DEF BeginApply, End
    <3>3. \A r \in Rules : fs'.quarantine[<<tx', r>>] # "other" /\ disk'.quarantine[<<tx', r>>] # "other"
      BY <1>1, <3>1 DEF QuarantineInv, UnusedEmpty, SameForeign
    <3>. QED
      BY <3>3 DEF OnlyJustMoved, DiskEmpty
  <2>2. CASE pc' \notin ApplySteps
    BY <2>2 DEF OnlyJustMoved, DiskEmpty
  <2>3. CASE UNCHANGED vars
    BY <2>3 DEF vars, QuarantineInv, OnlyJustMoved, DiskEmpty, First
  <2>4. CASE /\ pc \in ApplySteps /\ pc # "moved" /\ tx' = tx
             /\ pc' = "quarantine" => pc = "quarantine"
    <3>1. tx \in Tx
      BY <2>4 DEF TypeOK
    <3>2. \A r \in Rules : fs'.quarantine[<<tx, r>>] # "other"
      BY <1>1, <2>4, <3>1 DEF QuarantineInv, OnlyJustMoved, SameForeign
    <3>3. pc = "quarantine" => \A r \in Rules : disk'.quarantine[<<tx, r>>] # "other"
      BY <1>1, <3>1 DEF QuarantineInv, DiskEmpty, SameForeign
    <3>. QED
      BY <2>4, <3>2, <3>3 DEF OnlyJustMoved, DiskEmpty
  <2>5. CASE BeginApply
    BY <2>1, <2>2, <2>5 DEF BeginApply, End
  <2>6. CASE ScanPlan \/ NoBackupDirectory \/ BeginRestore \/ Discard
    BY <2>2, <2>6 DEF ScanPlan, NoBackupDirectory, BeginRestore, Discard, End
  <2>7. CASE Inspect
    BY <2>2, <2>7 DEF Inspect, NextEntry, End
  <2>8. CASE MakeQuarantine \/ VerifyTarget \/ CopyBackup \/ PersistBackup \/ CheckTarget
             \/ RemoveQuarantined
    BY <2>4, <2>8 DEF MakeQuarantine, VerifyTarget, CopyBackup, PersistBackup, CheckTarget,
       RemoveQuarantined, Continue, Abandon, End
  <2>9. CASE WritePending \/ SyncPending \/ WriteFinal \/ SyncFinal \/ DropPending
    BY <2>4, <2>9 DEF WritePending, SyncPending, WriteFinal, SyncFinal, DropPending,
       Abandon, End
  <2>. QED
    BY <2>3, <2>5, <2>6, <2>7, <2>8, <2>9 DEF Calm
<1>6. ForeignOnDisk' /\ Kept
  <2>1. \A r \in Rules : Somewhere(fs, r) => Somewhere(disk, r)
    BY DEF QuarantineInv, ForeignOnDisk
  <2>2. \A r \in Rules : Somewhere(fs', r) => Somewhere(disk', r)
    BY <1>2, <2>1
  <2>3. ForeignOnDisk'
    BY <2>2 DEF ForeignOnDisk, Somewhere
  <2>. QED
    BY <1>2, <2>3 DEF Kept
<1>. QED
  BY <1>4, <1>5, <1>6 DEF QuarantineInv

(* A step at one entry that keeps its foreign content somewhere, and is     *)
(* seen by the disk as a whole or not at all.                              *)
LEMMA PlaceKept ==
  ASSUME TypeOK, QuarantineInv, NEW r \in Rules, OnlyAt(r), Saves(r), used' = used,
         Somewhere(fs, r) => Somewhere(fs', r), Somewhere(fs', r) => Somewhere(fs, r),
         \A t \in Tx : t > used => fs'.quarantine[<<t, r>>] # "other"
  PROVE  UnusedEmpty' /\ ForeignOnDisk' /\ Kept
<1>1. \A q \in Rules \ {r} : /\ Somewhere(fs, q) => Somewhere(fs', q)
                             /\ Somewhere(fs', q) => Somewhere(fs, q)
                             /\ Somewhere(disk, q) => Somewhere(disk', q)
  BY DEF OnlyAt, SameAt, Somewhere
<1>2. UnusedEmpty'
  BY DEF QuarantineInv, UnusedEmpty, OnlyAt, Saves, SameAt
<1>3. Somewhere(fs', r) => Somewhere(disk', r)
  <2>1. SameAt(disk', disk, r) => (Somewhere(disk, r) => Somewhere(disk', r))
    BY DEF SameAt, Somewhere
  <2>2. SameAt(disk', fs', r) => (Somewhere(fs', r) => Somewhere(disk', r))
    BY DEF SameAt, Somewhere
  <2>. QED
    BY <2>1, <2>2 DEF QuarantineInv, ForeignOnDisk, Saves
<1>4. ForeignOnDisk'
  <2>1. \A q \in Rules : Somewhere(fs, q) => Somewhere(disk, q)
    BY DEF QuarantineInv, ForeignOnDisk
  <2>2. \A q \in Rules : Somewhere(fs', q) => Somewhere(disk', q)
    BY <1>1, <1>3, <2>1
  <2>. QED
    BY <2>2 DEF ForeignOnDisk, Somewhere
<1>5. Kept
  <2>1. \A q \in Rules : Somewhere(fs, q) => Somewhere(fs', q)
    BY <1>1
  <2>. QED
    BY <2>1 DEF Kept
<1>. QED
  BY <1>2, <1>4, <1>5

LEMMA RenameKept == TypeOK /\ QuarantineInv /\ Rename => QuarantineInv' /\ Kept
<1> SUFFICES ASSUME TypeOK, QuarantineInv, Rename PROVE QuarantineInv' /\ Kept
  OBVIOUS
<1>1. PICK r \in todo : Rename!(r)
  BY DEF Rename
<1>2. /\ OnlyAt(r) /\ disk' = disk /\ r \in Rules /\ tx \in Tx
      /\ \/ fs' = fs
         \/ /\ fs'.orig[r] = "absent"
            /\ fs'.quarantine[<<tx, r>>] = "other" <=> fs.orig[r] = "other"
            /\ \A t \in Tx \ {tx} : fs'.quarantine[<<t, r>>] = fs.quarantine[<<t, r>>]
            /\ pc' = "moved" /\ todo' = todo
  BY <1>1, RenameForeign
<1>3. /\ pc = "rename" /\ UNCHANGED <<tx, used>> /\ First(r)
      /\ (pc' = "moved" /\ todo' = todo) \/ pc' = "idle"
  BY <1>1 DEF End
<1>4. \A q \in Rules : fs.quarantine[<<tx, q>>] # "other"
  BY <1>3 DEF QuarantineInv, OnlyJustMoved
<1>5. /\ Somewhere(fs, r) => Somewhere(fs', r)
      /\ Somewhere(fs', r) => Somewhere(fs, r)
  BY <1>2, <1>4 DEF Somewhere
<1>6. \A t \in Tx : t > used => t # tx
  BY BoundsAssumption DEF TypeOK
<1>7. \A t \in Tx : t > used => fs'.quarantine[<<t, r>>] # "other"
  BY <1>2, <1>6 DEF QuarantineInv, UnusedEmpty
<1>8. Saves(r)
  BY <1>2 DEF Saves, SameAt
<1>9. OnlyJustMoved' /\ DiskEmpty'
  BY <1>2, <1>3, <1>4 DEF OnlyJustMoved, DiskEmpty, OnlyAt, SameAt, First
<1>. QED
  BY <1>2, <1>3, <1>5, <1>7, <1>8, <1>9, PlaceKept DEF QuarantineInv

LEMMA RemoveKept ==
  TypeOK /\ QuarantineInv /\ (VerifyQuarantined \/ RemoveDirectory) => QuarantineInv' /\ Kept
<1> SUFFICES ASSUME TypeOK, QuarantineInv, VerifyQuarantined \/ RemoveDirectory
             PROVE  QuarantineInv' /\ Kept
  OBVIOUS
<1>1. PICK r \in todo : First(r) /\ (VerifyQuarantined!(r) \/ RemoveDirectory!(r))
  BY DEF VerifyQuarantined, RemoveDirectory
<1>2. OnlyAt(r) /\ Saves(r) /\ SameAt(fs', fs, r) /\ r \in Rules
  BY <1>1, RemoveForeign
<1>3. pc \in {"moved", "removed"} /\ UNCHANGED <<tx, used>>
        /\ pc' \in {"remove", "check", "final", "idle"} /\ tx \in Tx
  BY <1>1 DEF Continue, End, TypeOK
<1>4. /\ Somewhere(fs, r) => Somewhere(fs', r)
      /\ Somewhere(fs', r) => Somewhere(fs, r)
  BY <1>2 DEF SameAt, Somewhere
<1>5. \A t \in Tx : t > used => fs'.quarantine[<<t, r>>] # "other"
  BY <1>2 DEF QuarantineInv, UnusedEmpty, SameAt
<1>6. \A q \in Rules : fs'.quarantine[<<tx, q>>] = "other" <=> fs.quarantine[<<tx, q>>] = "other"
  BY <1>2, <1>3 DEF OnlyAt, SameAt
<1>7. pc' # "idle" => \A q \in Rules : fs.quarantine[<<tx, q>>] # "other"
  <2>1. CASE VerifyQuarantined!(r)
    <3>1. pc' # "idle" => fs.quarantine[<<tx, r>>] = "reviewed"
      BY <2>1 DEF End
    <3>2. \A q \in Rules : fs.quarantine[<<tx, q>>] = "other" => First(q)
      BY <1>3 DEF QuarantineInv, OnlyJustMoved
    <3>3. \A q : First(q) => q = r
      BY <1>1, OneFirst DEF TypeOK
    <3>. QED
      BY <3>1, <3>2, <3>3
  <2>2. CASE RemoveDirectory!(r)
    BY <2>2 DEF QuarantineInv, OnlyJustMoved
  <2>. QED
    BY <1>1, <2>1, <2>2
<1>8. OnlyJustMoved' /\ DiskEmpty'
  BY <1>3, <1>6, <1>7 DEF OnlyJustMoved, DiskEmpty
<1>. QED
  BY <1>2, <1>3, <1>4, <1>5, <1>8, PlaceKept DEF QuarantineInv

LEMMA PublishKept ==
  TypeOK /\ QuarantineInv /\ (Publish \/ PersistPublished \/ RemoveWorkspace)
    => QuarantineInv' /\ Kept
<1> SUFFICES ASSUME TypeOK, QuarantineInv, Publish \/ PersistPublished \/ RemoveWorkspace
             PROVE  QuarantineInv' /\ Kept
  OBVIOUS
<1>1. PICK r \in todo : Publish!(r) \/ PersistPublished!(r) \/ RemoveWorkspace!(r)
  BY DEF Publish, PersistPublished, RemoveWorkspace
<1>2. /\ OnlyAt(r) /\ r \in Rules /\ fs'.quarantine = fs.quarantine /\ Saves(r)
      /\ fs'.orig[r] = "other" <=> fs.orig[r] = "other"
  BY <1>1, PublishForeign
<1>3. pc' \in {"published", "unlink", "inspect", "idle"} /\ used' = used
  BY <1>1 DEF NextEntry, End
<1>4. /\ Somewhere(fs, r) => Somewhere(fs', r)
      /\ Somewhere(fs', r) => Somewhere(fs, r)
  BY <1>2 DEF Somewhere
<1>5. \A t \in Tx : t > used => fs'.quarantine[<<t, r>>] # "other"
  BY <1>2 DEF QuarantineInv, UnusedEmpty
<1>6. OnlyJustMoved' /\ DiskEmpty'
  BY <1>3 DEF OnlyJustMoved, DiskEmpty
<1>. QED
  BY <1>2, <1>3, <1>4, <1>5, <1>6, PlaceKept DEF QuarantineInv

LEMMA EditKept == TypeOK /\ QuarantineInv /\ Edit => QuarantineInv'
<1> SUFFICES ASSUME TypeOK, QuarantineInv, Edit PROVE QuarantineInv'
  OBVIOUS
<1>1. PICK r \in Rules :
         /\ \A q \in Rules \ {r} : fs'.orig[q] = fs.orig[q] /\ disk'.orig[q] = disk.orig[q]
         /\ disk'.orig[r] = fs'.orig[r]
         /\ fs'.quarantine = fs.quarantine
         /\ \A t \in Tx, q \in Rules : disk'.quarantine[<<t, q>>] =
                IF q = r THEN fs.quarantine[<<t, q>>] ELSE disk.quarantine[<<t, q>>]
  BY EditEffect
<1>2. UNCHANGED <<pc, tx, todo, used>>
  BY DEF Edit
<1>3. UnusedEmpty'
  BY <1>1, <1>2 DEF QuarantineInv, UnusedEmpty
<1>4. OnlyJustMoved'
  BY <1>1, <1>2 DEF QuarantineInv, OnlyJustMoved, First
<1>5. DiskEmpty'
  <2>1. pc = "quarantine" => tx \in Tx
    BY DEF TypeOK
  <2>2. pc = "quarantine" => \A q \in Rules : /\ fs.quarantine[<<tx, q>>] # "other"
                                              /\ disk.quarantine[<<tx, q>>] # "other"
    BY DEF QuarantineInv, OnlyJustMoved, DiskEmpty
  <2>. QED
    BY <1>1, <1>2, <2>1, <2>2 DEF DiskEmpty
<1>6. ForeignOnDisk'
  <2>1. \A q \in Rules \ {r} : Somewhere(fs', q) => Somewhere(disk', q)
    <3>1. \A q \in Rules \ {r} : /\ Somewhere(fs', q) => Somewhere(fs, q)
                                 /\ Somewhere(disk, q) => Somewhere(disk', q)
      BY <1>1 DEF Somewhere
    <3>. QED
      BY <3>1 DEF QuarantineInv, ForeignOnDisk
  <2>2. Somewhere(fs', r) => Somewhere(disk', r)
    BY <1>1 DEF Somewhere
  <2>3. \A q \in Rules : Somewhere(fs', q) => Somewhere(disk', q)
    BY <2>1, <2>2
  <2>. QED
    BY <2>3 DEF ForeignOnDisk, Somewhere
<1>. QED
  BY <1>3, <1>4, <1>5, <1>6 DEF QuarantineInv

LEMMA CrashKept == TypeOK /\ QuarantineInv /\ Crash => QuarantineInv' /\ Kept
<1> SUFFICES ASSUME TypeOK, QuarantineInv, Crash PROVE QuarantineInv' /\ Kept
  OBVIOUS
<1>1. fs \in FileSystems /\ disk \in FileSystems
  BY DEF TypeOK
<1>2. /\ disk' = fs'
      /\ \A r \in Rules : \E f \in {fs, disk} :
            /\ fs'.orig[r] = f.orig[r]
            /\ \A t \in Tx : fs'.quarantine[<<t, r>>] = f.quarantine[<<t, r>>]
  BY <1>1, CrashView
<1>3. pc' = "idle" /\ used' = used
  BY DEF Crash, End, counts
<1>4. UnusedEmpty'
  BY <1>2, <1>3 DEF QuarantineInv, UnusedEmpty
<1>5. OnlyJustMoved' /\ DiskEmpty'
  BY <1>3 DEF OnlyJustMoved, DiskEmpty
<1>6. ForeignOnDisk'
  BY <1>2 DEF ForeignOnDisk, Somewhere
<1>7. Kept
  <2>1. ASSUME NEW r \in Rules, Somewhere(fs, r) PROVE Somewhere(fs', r)
    <3>1. PICK f \in {fs, disk} :
            /\ fs'.orig[r] = f.orig[r]
            /\ \A t \in Tx : fs'.quarantine[<<t, r>>] = f.quarantine[<<t, r>>]
      BY <1>2, <2>1
    <3>2. Somewhere(disk, r)
      BY <2>1 DEF QuarantineInv, ForeignOnDisk
    <3>3. Somewhere(f, r)
      BY <2>1, <3>1, <3>2
    <3>. QED
      BY <3>1, <3>3 DEF Somewhere
  <2>. QED
    BY <2>1 DEF Kept
<1>. QED
  BY <1>4, <1>5, <1>6, <1>7 DEF QuarantineInv

LEMMA QuarantineInit == Init => QuarantineInv
BY DEF Init, QuarantineInv, UnusedEmpty, OnlyJustMoved, DiskEmpty, ForeignOnDisk, Somewhere

LEMMA KeptStep ==
  TypeOK /\ QuarantineInv /\ [Next]_vars => QuarantineInv' /\ (Kept \/ edits' # edits)
<1> SUFFICES ASSUME TypeOK, QuarantineInv, [Next]_vars
             PROVE  QuarantineInv' /\ (Kept \/ edits' # edits)
  OBVIOUS
<1>1. CASE Edit
  <2>1. edits \in Nat /\ edits' = edits + 1
    BY <1>1 DEF Edit, TypeOK
  <2>2. edits' # edits
    BY <2>1
  <2>. QED
    BY <1>1, <2>2, EditKept
<1>. QED
  BY <1>1, CalmKept, RenameKept, RemoveKept, PublishKept, CrashKept DEF Next, Step, Calm

THEOREM QuarantineInvariant == Spec => []QuarantineInv
<1>1. TypeOK /\ QuarantineInv /\ [Next]_vars => QuarantineInv'
  BY KeptStep
<1>. QED
  BY <1>1, QuarantineInit, TypeCorrect, PTL DEF Spec

(* Wherever a run fails and whatever a crash takes, content the             *)
(* administrator put at a rule's path is at that path or in a quarantine.  *)
THEOREM ForeignContentAlwaysKept == Spec => ForeignContentKept
<1>1. TypeOK /\ QuarantineInv /\ [Next]_vars
        => [\A r \in Rules : Somewhere(fs, r) /\ edits' = edits => Somewhere(fs', r)]_vars
  BY KeptStep DEF Kept
<1>. QED
  BY <1>1, TypeCorrect, QuarantineInvariant, PTL DEF Spec, ForeignContentKept

-----------------------------------------------------------------------------
(* What a restoration has put back.                                        *)

LEMMA SymlinkFrame ==
  ASSUME SymlinksSingle, NEW r \in Rules, OnlyAt(r), Saves(r),
         r \in Symlinks => fs'.orig[r] # "linked"
  PROVE  SymlinksSingle'
BY SymlinksAssumption DEF SymlinksSingle, OnlyAt, Saves, SameAt

LEMMA SymlinkStep ==
  TypeOK /\ QuarantineInv /\ SymlinksSingle /\ [Next]_vars => SymlinksSingle'
<1> SUFFICES ASSUME TypeOK, QuarantineInv, SymlinksSingle, [Next]_vars
             PROVE  SymlinksSingle'
  OBVIOUS
<1>1. fs \in FileSystems /\ disk \in FileSystems
  BY DEF TypeOK
<1>2. CASE Calm
  BY <1>2, CalmForeign DEF SymlinksSingle, SameOriginals
<1>3. CASE Rename
  <2>1. PICK r \in todo : Rename!(r)
    BY <1>3 DEF Rename
  <2>2. OnlyAt(r) /\ disk' = disk /\ r \in Rules /\ (fs' = fs \/ fs'.orig[r] = "absent")
    BY <2>1, RenameForeign
  <2>3. Saves(r)
    BY <2>2 DEF Saves, SameAt
  <2>. QED
    BY <2>2, <2>3, SymlinkFrame DEF SymlinksSingle
<1>4. CASE VerifyQuarantined \/ RemoveDirectory
  <2>1. PICK r \in todo : VerifyQuarantined!(r) \/ RemoveDirectory!(r)
    BY <1>4 DEF VerifyQuarantined, RemoveDirectory
  <2>2. OnlyAt(r) /\ Saves(r) /\ fs'.orig[r] = fs.orig[r] /\ r \in Rules
    BY <2>1, RemoveForeign DEF SameAt
  <2>. QED
    BY <2>2, SymlinkFrame DEF SymlinksSingle
<1>5. CASE Publish \/ PersistPublished \/ RemoveWorkspace
  <2>1. PICK r \in todo : Publish!(r) \/ PersistPublished!(r) \/ RemoveWorkspace!(r)
    BY <1>5 DEF Publish, PersistPublished, RemoveWorkspace
  <2>2. OnlyAt(r) /\ Saves(r) /\ r \in Rules
    BY <2>1, PublishForeign
  <2>3. ASSUME r \in Symlinks PROVE fs'.orig[r] # "linked"
    <3>1. fs.orig[r] # "linked" /\ fs.orig \in [Rules -> Contents]
      BY <1>1, <2>3 DEF SymlinksSingle, FileSystems
    <3>2. \/ fs' = fs \/ fs' = [fs EXCEPT !.orig[r] = "reviewed"]
          \/ fs' = [fs EXCEPT !.orig[r] = "absent"]
      BY <2>1, <2>3, <3>1 DEF Withdrawn, Single
    <3>3. \/ fs'.orig = fs.orig \/ fs'.orig = [fs.orig EXCEPT ![r] = "reviewed"]
          \/ fs'.orig = [fs.orig EXCEPT ![r] = "absent"]
      BY <1>1, <3>2 DEF FileSystems
    <3>. QED
      BY <2>2, <3>1, <3>3
  <2>. QED
    BY <2>2, <2>3, SymlinkFrame
<1>6. CASE Edit
  <2>1. PICK r \in Rules :
          /\ \A q \in Rules \ {r} : fs'.orig[q] = fs.orig[q] /\ disk'.orig[q] = disk.orig[q]
          /\ disk'.orig[r] = fs'.orig[r] /\ fs'.orig[r] \in {"other", "absent"}
    BY <1>6, EditEffect
  <2>. QED
    BY <2>1, SymlinksAssumption DEF SymlinksSingle
<1>7. CASE Crash
  <2>1. disk' = fs' /\ \A r \in Rules : fs'.orig[r] \in {fs.orig[r], disk.orig[r]}
    BY <1>1, <1>7, CrashView
  <2>. QED
    BY <2>1, SymlinksAssumption DEF SymlinksSingle
<1>. QED
  BY <1>2, <1>3, <1>4, <1>5, <1>6, <1>7 DEF Next, Step, Calm

(* An entry that is in place is handled; the last one ends the run.         *)
LEMMA NextHandled ==
  ASSUME TypeOK, Handled, Answers, pc \in RestoreSteps, NEW r \in todo, First(r),
         NextEntry(r), UNCHANGED <<tx, changes, touched>>,
         fs'.pending = fs.pending, fs'.final = fs.final,
         \A q \in Rules \ {r} : fs'.orig[q] = fs.orig[q],
         r \in touched \/ fs'.orig[r] = "reviewed"
  PROVE  Handled' /\ Answers'
<1>1. \A q \in changes[tx] \ ((todo \ {r}) \cup touched) : fs'.orig[q] = "reviewed"
  BY DEF TypeOK, Handled
<1>2. CASE todo = {r}
  <2>1. pc' = "idle" /\ result' = "restored"
    BY <1>2 DEF NextEntry, End
  <2>2. \A q \in changes[tx] \ touched : fs'.orig[q] = "reviewed"
    BY <1>1, <1>2
  <2>3. tx' # 0
    BY DEF TypeOK
  <2>. QED
    BY <2>1, <2>2, <2>3 DEF Handled, Answers, RestoredMeansInPlace, CopiesAreFound
<1>3. CASE todo # {r}
  <2>1. pc' = "inspect" /\ result' = result /\ todo' = todo \ {r}
    BY <1>3 DEF NextEntry
  <2>2. result = "none" /\ (HasReceipt(fs, tx))'
    BY DEF Answers, Handled, HasReceipt
  <2>3. Handled'
    BY <1>1, <2>1, <2>2 DEF Handled
  <2>4. Answers'
    BY <2>1, <2>2 DEF Answers, RestoredMeansInPlace, CopiesAreFound
  <2>. QED
    BY <2>3, <2>4
<1>. QED
  BY <1>2, <1>3

(* A run that stops here neither claims a restoration nor misses a copy.    *)
LEMMA Stopped ==
  ASSUME pc' \notin RestoreSteps, result' \in {"none", "failed", "complete"},
         pc' \notin {"idle", "planned"} => result' = "none"
  PROVE  Handled' /\ Answers'
BY DEF Handled, Answers, RestoredMeansInPlace, CopiesAreFound

LEMMA InspectAnswers ==
  TypeOK /\ ReceiptInv /\ Handled /\ Answers /\ Inspect => Handled' /\ Answers'
<1> SUFFICES ASSUME TypeOK, ReceiptInv, Handled, Answers, Inspect PROVE Handled' /\ Answers'
  OBVIOUS
<1>1. PICK r \in todo : Inspect!(r)
  BY DEF Inspect
<1>2. /\ pc = "inspect" /\ First(r) /\ UNCHANGED <<fs, disk, changes, tx, touched>>
      /\ tx \in Tx /\ r \in changes[tx] /\ r \in Rules
  BY <1>1 DEF TypeOK
<1>3. CASE fs.orig[r] = "reviewed" /\ NextEntry(r)
  BY <1>2, <1>3, NextHandled
<1>4. CASE End("refused") \/ End("failed")
  BY <1>4 DEF End, Handled, Answers, RestoredMeansInPlace, CopiesAreFound
<1>5. CASE pc' = "publish" /\ UNCHANGED <<todo, result>>
  BY <1>2, <1>5 DEF Handled, Answers, HasReceipt, RestoredMeansInPlace, CopiesAreFound
<1>6. CASE ~HasSource(r) /\ End("nocopy")
  <2>1. HasReceipt(fs, tx)
    BY <1>2 DEF Handled
  <2>2. ~Saved(tx, r)
    BY <1>6 DEF HasSource, Saved
  <2>3. r \in touched
    BY <1>2, <2>1, <2>2 DEF ReceiptInv, CopiesSafe
  <2>. QED
    BY <1>2, <1>6, <2>3 DEF End, Handled, Answers, RestoredMeansInPlace, CopiesAreFound
<1>. QED
  BY <1>1, <1>3, <1>4, <1>5, <1>6

LEMMA PublishAnswers ==
  TypeOK /\ SymlinksSingle /\ Handled /\ Answers
    /\ (Publish \/ PersistPublished \/ RemoveWorkspace) => Handled' /\ Answers'
<1> SUFFICES ASSUME TypeOK, SymlinksSingle, Handled, Answers,
                    Publish \/ PersistPublished \/ RemoveWorkspace
             PROVE  Handled' /\ Answers'
  OBVIOUS
<1>1. PICK r \in todo : First(r) /\ (Publish!(r) \/ PersistPublished!(r) \/ RemoveWorkspace!(r))
  BY DEF Publish, PersistPublished, RemoveWorkspace
<1>2. /\ r \in Rules /\ r \in changes[tx] /\ tx \in Tx /\ UNCHANGED <<tx, changes, touched>>
      /\ \A q \in Rules \ {r} : fs'.orig[q] = fs.orig[q]
      /\ pc \in RestoreSteps
  BY <1>1, RestoreEffect
<1>3. fs'.pending = fs.pending /\ fs'.final = fs.final
  BY Shifting DEF SameReceipts
<1>4. fs \in FileSystems /\ fs.orig \in [Rules -> Contents]
  BY DEF TypeOK, FileSystems
<1>5. CASE End("failed")
  BY <1>5 DEF End, Handled, Answers, RestoredMeansInPlace, CopiesAreFound
<1>6. CASE /\ Publish!(r) /\ pc' = "published" /\ UNCHANGED <<todo, result>>
           /\ fs' = [fs EXCEPT !.orig[r] = IF r \in Symlinks THEN "reviewed" ELSE "linked"]
  <2>1. fs'.orig[r] \in {"reviewed", "linked"}
    <3>1. PICK c \in {"reviewed", "linked"} : fs' = [fs EXCEPT !.orig[r] = c]
      BY <1>6
    <3>2. fs'.orig = [fs.orig EXCEPT ![r] = c]
      BY <1>4, <3>1 DEF FileSystems
    <3>. QED
      BY <1>2, <1>4, <3>2
  <2>2. \A q \in todo \ touched : First(q) => q = r
    BY <1>1, OneFirst DEF TypeOK
  <2>3. \A q \in changes[tx] \ (todo \cup touched) : fs'.orig[q] = "reviewed"
    BY <1>2 DEF Handled, TypeOK
  <2>4. HasReceipt(fs', tx) /\ result = "none"
    BY <1>2, <1>3 DEF Handled, Answers, HasReceipt
  <2>5. Handled'
    BY <1>2, <1>6, <2>1, <2>2, <2>3, <2>4 DEF Handled, First, HasReceipt
  <2>. QED
    BY <1>6, <2>4, <2>5 DEF Answers, RestoredMeansInPlace, CopiesAreFound
<1>7. CASE PersistPublished!(r) /\ fs' = fs /\ r \in Symlinks /\ NextEntry(r)
  <2>1. fs.orig[r] = "reviewed" \/ r \in touched
    BY <1>1, <1>7 DEF Handled, SymlinksSingle
  <2>. QED
    BY <1>1, <1>2, <1>3, <1>7, <2>1, NextHandled
<1>8. CASE PersistPublished!(r) /\ fs' = fs /\ pc' = "unlink" /\ UNCHANGED <<todo, result>>
  BY <1>1, <1>2, <1>8 DEF Handled, Answers, First, HasReceipt, RestoredMeansInPlace,
                          CopiesAreFound
<1>9. CASE RemoveWorkspace!(r) /\ fs' = Single(r) /\ NextEntry(r)
  <2>1. r \in touched \/ fs.orig[r] \in {"reviewed", "linked"}
    BY <1>1, <1>9 DEF Handled
  <2>2. \/ Single(r).orig[r] = "reviewed"
        \/ Single(r).orig[r] = fs.orig[r] /\ fs.orig[r] # "linked"
    <3>1. CASE fs.orig[r] = "linked"
      <4>1. Single(r) = [fs EXCEPT !.orig[r] = "reviewed"]
        BY <3>1 DEF Single
      <4>2. Single(r).orig = [fs.orig EXCEPT ![r] = "reviewed"]
        BY <1>4, <4>1 DEF FileSystems
      <4>. QED
        BY <1>2, <1>4, <4>2
    <3>2. CASE fs.orig[r] # "linked"
      BY <3>2 DEF Single
    <3>. QED
      BY <3>1, <3>2
  <2>. QED
    BY <1>1, <1>2, <1>3, <1>9, <2>1, <2>2, NextHandled
<1>. QED
  BY <1>1, <1>2, <1>5, <1>6, <1>7, <1>8, <1>9

LEMMA EditAnswers ==
  TypeOK /\ Handled /\ Answers /\ (Edit \/ Discard \/ ScanPlan \/ UNCHANGED vars)
    => Handled' /\ Answers'
<1> SUFFICES ASSUME TypeOK, Handled, Answers, Edit \/ Discard \/ ScanPlan \/ UNCHANGED vars
             PROVE  Handled' /\ Answers'
  OBVIOUS
<1>1. fs \in FileSystems
  BY DEF TypeOK
<1>2. /\ UNCHANGED <<changes, tx, todo, result>> /\ touched \subseteq touched'
      /\ pc' = pc \/ (pc = "idle" /\ pc' = "planned")
  BY DEF Edit, Discard, ScanPlan, vars
<1>3. \A q \in Rules \ touched' : fs'.orig[q] = fs.orig[q]
  <2>1. CASE Edit
    BY <2>1, EditEffect
  <2>2. CASE Discard
    <3>1. PICK t \in Tx, r \in Rules : fs' = [fs EXCEPT !.backup[<<t, r>>] = "none"]
      BY <2>2 DEF Discard
    <3>. QED
      BY <1>1, <3>1 DEF FileSystems
  <2>. QED
    BY <2>1, <2>2 DEF ScanPlan, vars
<1>4. pc \in RestoreSteps => fs'.pending = fs.pending /\ fs'.final = fs.final
  BY Shifting DEF Discard, ScanPlan, vars, SameReceipts
<1>5. pc \in ApplySteps \cup RestoreSteps => tx \in Tx
  BY DEF TypeOK
<1>6. Handled'
  <2>1. CASE pc' \in RestoreSteps
    <3>1. pc' = pc /\ changes[tx] \subseteq Rules
      BY <1>2, <1>5, <2>1 DEF TypeOK
    <3>2. HasReceipt(fs', tx)
      BY <1>4, <3>1, <2>1 DEF Handled, HasReceipt
    <3>3. \A q \in changes[tx] \ (todo \cup touched') : fs'.orig[q] = "reviewed"
      BY <1>2, <1>3, <2>1, <3>1 DEF Handled
    <3>4. pc \in {"published", "unlink"} => \A q \in todo \ touched' :
             First(q) => fs'.orig[q] \in {"reviewed", "linked"}
      BY <1>2, <1>3 DEF Handled, TypeOK
    <3>. QED
      BY <1>2, <3>1, <3>2, <3>3, <3>4 DEF Handled, HasReceipt, First
  <2>. QED
    BY <2>1 DEF Handled
<1>7. Answers'
  <2>1. result = "restored" => changes[tx] \subseteq Rules
    BY DEF Answers, TypeOK
  <2>2. RestoredMeansInPlace'
    BY <1>2, <1>3, <2>1 DEF Answers, RestoredMeansInPlace
  <2>. QED
    BY <1>2, <2>2 DEF Answers, CopiesAreFound
<1>. QED
  BY <1>6, <1>7

LEMMA ApplyAnswers ==
  TypeOK /\ Answers /\ (\/ BeginApply \/ NoBackupDirectory \/ MakeQuarantine \/ VerifyTarget
                        \/ CopyBackup \/ PersistBackup \/ WritePending \/ SyncPending
                        \/ CheckTarget \/ Rename \/ VerifyQuarantined \/ RemoveQuarantined
                        \/ RemoveDirectory \/ WriteFinal \/ SyncFinal \/ DropPending \/ Crash)
    => Handled' /\ Answers'
<1> SUFFICES ASSUME TypeOK, Answers,
                    \/ BeginApply \/ NoBackupDirectory \/ MakeQuarantine \/ VerifyTarget
                    \/ CopyBackup \/ PersistBackup \/ WritePending \/ SyncPending
                    \/ CheckTarget \/ Rename \/ VerifyQuarantined \/ RemoveQuarantined
                    \/ RemoveDirectory \/ WriteFinal \/ SyncFinal \/ DropPending \/ Crash
             PROVE  Handled' /\ Answers'
  OBVIOUS
<1> USE DEF Answers, End
<1>1. CASE BeginApply \/ NoBackupDirectory \/ Crash
  BY <1>1, Stopped DEF BeginApply, NoBackupDirectory, Crash
<1>2. CASE MakeQuarantine \/ VerifyTarget \/ CopyBackup \/ PersistBackup \/ CheckTarget
  BY <1>2, Stopped DEF MakeQuarantine, VerifyTarget, CopyBackup, PersistBackup, CheckTarget,
                       Continue, Abandon
<1>3. CASE Rename \/ VerifyQuarantined \/ RemoveQuarantined \/ RemoveDirectory
  BY <1>3, Stopped DEF Rename, VerifyQuarantined, RemoveQuarantined, RemoveDirectory, Continue
<1>4. CASE WritePending \/ SyncPending \/ WriteFinal \/ SyncFinal \/ DropPending
  BY <1>4, Stopped DEF WritePending, SyncPending, WriteFinal, SyncFinal, DropPending, Abandon
<1>. QED
  BY <1>1, <1>2, <1>3, <1>4

LEMMA BeginAnswers == TypeOK /\ BeginRestore => Handled' /\ Answers'
<1> SUFFICES ASSUME TypeOK, BeginRestore PROVE Handled' /\ Answers'
  OBVIOUS
<1>1. PICK t \in Tx : /\ HasReceipt(fs, t) /\ tx' = t /\ todo' = changes[t]
  BY DEF BeginRestore, HasReceipt
<1>2. fs' = fs /\ changes' = changes /\ pc' = "inspect" /\ result' = "none"
  BY DEF BeginRestore
<1>. QED
  BY <1>1, <1>2 DEF Handled, Answers, HasReceipt, RestoredMeansInPlace, CopiesAreFound

LEMMA RestoreStep ==
  TypeOK /\ ReceiptInv /\ QuarantineInv /\ RestoreInv /\ [Next]_vars => RestoreInv'
BY SymlinkStep, InspectAnswers, PublishAnswers, EditAnswers, ApplyAnswers, BeginAnswers
   DEF RestoreInv, Next, Step

THEOREM RestoreInvariant == Spec => []RestoreInv
<1>1. Init => RestoreInv
  BY SymlinksAssumption
     DEF Init, RestoreInv, Handled, SymlinksSingle, Answers, RestoredMeansInPlace, CopiesAreFound
<1>2. TypeOK /\ ReceiptInv /\ QuarantineInv /\ RestoreInv /\ [Next]_vars => RestoreInv'
  BY RestoreStep
<1>. QED
  BY <1>1, <1>2, TypeCorrect, ReceiptInvariant, QuarantineInvariant, PTL DEF Spec

(* A restoration that reports success has put every entry nobody touched    *)
(* back under a single name.                                               *)
THEOREM RestoredAlwaysInPlace == Spec => []RestoredMeansInPlace
<1>1. RestoreInv => RestoredMeansInPlace
  BY DEF RestoreInv, Answers
<1>. QED
  BY <1>1, RestoreInvariant, PTL

(* A restoration misses a recovery copy only where somebody took it away.   *)
THEOREM CopiesAlwaysFound == Spec => []CopiesAreFound
<1>1. RestoreInv => CopiesAreFound
  BY DEF RestoreInv, Answers
<1>. QED
  BY <1>1, RestoreInvariant, PTL
=============================================================================
