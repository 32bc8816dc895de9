------------------------ MODULE HandoffStore_proofs ------------------------
(* What holds of the hand-off store for all imports, purges and bounds.      *)
EXTENDS HandoffStore, FiniteSetTheorems, TLAPS

USE DEF directories, command, history, bounds, Go, End

-----------------------------------------------------------------------------
(* Who may touch a directory.  An import has its own to itself until it is   *)
(* published; a purge has what it took until it is gone or put back.         *)

Fresh       == {"idle", "mkdir", "syncparent", "look"}
Building    == {"fill", "synctree", "check", "publish"}
Unpublished == Fresh \cup Building \cup {"existing", "cleanup"}
Holding     == {"inspect", "putback", "remove", "rmdir"}

OwnStaging(i) ==
    /\ pc[i] \notin PurgeSteps \cup {"planned"}
    /\ pc[i] \in Fresh => place[i] = "none" /\ diskPlace[i] = "none" /\ files[i] = 0 /\ diskFiles[i] = 0
    /\ pc[i] \in Building \cup {"cleanup"} => place[i] = "staging"
    /\ pc[i] \in Unpublished => place[i] \in {"none", "staging"} /\ i \notin changed
                                /\ \A p \in Purgers : i \notin took[p]
    /\ pc[i] \in {"sync", "recheck"} => place[i] # "staging"
    /\ pc[i] = "fill" => files[i] < Size
    /\ pc[i] = "synctree" => files[i] = Size
    /\ pc[i] \in {"check", "publish"} => files[i] = Size /\ diskFiles[i] = Size

OwnTaken(p) ==
    /\ pc[p] \in {"idle", "planned", "isolate"} => took[p] = {}
    /\ pc[p] \in Holding => \A o \in took[p] : place[o] = p
    /\ pc[p] = "remove" => \E n \in 1..Size : \A o \in took[p] : files[o] = n
    /\ pc[p] \in {"remove", "rmdir"} => took[p] \cap changed \subseteq late

OwnInv ==
    /\ TypeOK
    /\ \A i \in Importers : OwnStaging(i)
    /\ \A p \in Purgers : OwnTaken(p)

LEMMA TypeImport ==
  ASSUME OwnInv, NEW i \in Importers, Import(i)
  PROVE  TypeOK'
<1>. USE SizeAssumption, BoundsAssumption
     DEF OwnInv, TypeOK, OwnStaging, Entries, Processes, Places, ImportSteps, PurgeSteps, Same, Others, SyncStore, Building
<1>1. CASE BeginImport(i)
  BY <1>1 DEF BeginImport
<1>2. CASE MakeRoot(i)
  BY <1>2 DEF MakeRoot
<1>3. CASE SyncParent(i)
  BY <1>3 DEF SyncParent
<1>4. CASE Look(i)
  BY <1>4 DEF Look
<1>5. CASE Existing(i)
  BY <1>5 DEF Existing
<1>6. CASE Fill(i)
  BY <1>6 DEF Fill
<1>7. CASE SyncTree(i)
  BY <1>7 DEF SyncTree
<1>8. CASE ValidateStaged(i)
  BY <1>8 DEF ValidateStaged
<1>9. CASE Publish(i)
  BY <1>9 DEF Publish
<1>10. CASE SyncPublished(i)
  BY <1>10 DEF SyncPublished
<1>11. CASE Rehash(i)
  BY <1>11 DEF Rehash
<1>12. CASE RemoveStaging(i)
  BY <1>12 DEF RemoveStaging
<1>. QED
  BY <1>1, <1>2, <1>3, <1>4, <1>5, <1>6, <1>7, <1>8, <1>9, <1>10, <1>11, <1>12 DEF Import

LEMMA StagingImport ==
  ASSUME OwnInv, NEW i \in Importers, Import(i), NEW j \in Importers
  PROVE  OwnStaging(j)'
<1>. USE SizeAssumption, BoundsAssumption
     DEF OwnInv, TypeOK, OwnStaging, Entries, Processes, Places, Same, Others, SyncStore, ImportSteps, PurgeSteps, Fresh, Building, Unpublished, Whole, Starts
<1>1. CASE BeginImport(i)
  BY <1>1 DEF BeginImport
<1>2. CASE MakeRoot(i)
  BY <1>2 DEF MakeRoot
<1>3. CASE SyncParent(i)
  BY <1>3 DEF SyncParent
<1>4. CASE Look(i)
  BY <1>4 DEF Look
<1>5. CASE Existing(i)
  BY <1>5 DEF Existing
<1>6. CASE Fill(i)
  BY <1>6 DEF Fill
<1>7. CASE SyncTree(i)
  BY <1>7 DEF SyncTree
<1>8. CASE ValidateStaged(i)
  BY <1>8 DEF ValidateStaged
<1>9. CASE Publish(i)
  BY <1>9 DEF Publish
<1>10. CASE SyncPublished(i)
  BY <1>10 DEF SyncPublished
<1>11. CASE Rehash(i)
  BY <1>11 DEF Rehash
<1>12. CASE RemoveStaging(i)
  BY <1>12 DEF RemoveStaging
<1>. QED
  BY <1>1, <1>2, <1>3, <1>4, <1>5, <1>6, <1>7, <1>8, <1>9, <1>10, <1>11, <1>12 DEF Import

LEMMA TakenImport ==
  ASSUME OwnInv, NEW i \in Importers, Import(i), NEW p \in Purgers
  PROVE  OwnTaken(p)'
<1>. USE SizeAssumption, BoundsAssumption, PurgersAssumption
     DEF OwnInv, TypeOK, OwnStaging, OwnTaken, Entries, Processes, Places, Same, Others, SyncStore, ImportSteps, PurgeSteps, Fresh, Building, Unpublished, Holding, Starts
<1>1. CASE BeginImport(i)
  BY <1>1 DEF BeginImport
<1>2. CASE MakeRoot(i)
  BY <1>2 DEF MakeRoot
<1>3. CASE SyncParent(i)
  BY <1>3 DEF SyncParent
<1>4. CASE Look(i)
  BY <1>4 DEF Look
<1>5. CASE Existing(i)
  BY <1>5 DEF Existing
<1>6. CASE Fill(i)
  BY <1>6 DEF Fill
<1>7. CASE SyncTree(i)
  BY <1>7 DEF SyncTree
<1>8. CASE ValidateStaged(i)
  BY <1>8 DEF ValidateStaged
<1>9. CASE Publish(i)
  BY <1>9 DEF Publish
<1>10. CASE SyncPublished(i)
  BY <1>10 DEF SyncPublished
<1>11. CASE Rehash(i)
  BY <1>11 DEF Rehash
<1>12. CASE RemoveStaging(i)
  BY <1>12 DEF RemoveStaging
<1>. QED
  BY <1>1, <1>2, <1>3, <1>4, <1>5, <1>6, <1>7, <1>8, <1>9, <1>10, <1>11, <1>12 DEF Import

LEMMA TypePurge ==
  ASSUME OwnInv, NEW p \in Purgers, Purge(p)
  PROVE  TypeOK'
<1>. USE SizeAssumption, BoundsAssumption, PurgersAssumption
     DEF OwnInv, TypeOK, OwnTaken, Entries, Processes, Places, ImportSteps, PurgeSteps, Same, Others, SyncStore, Holding, Stored, Remains
<1>1. CASE PlanPurge(p)
  BY <1>1 DEF PlanPurge
<1>2. CASE Confirm(p)
  BY <1>2 DEF Confirm
<1>3. CASE Isolate(p)
  BY <1>3 DEF Isolate
<1>4. CASE Inspect(p)
  BY <1>4 DEF Inspect
<1>5. CASE PutBack(p)
  BY <1>5 DEF PutBack
<1>6. CASE SyncBack(p)
  BY <1>6 DEF SyncBack
<1>7. CASE Remove(p)
  BY <1>7 DEF Remove
<1>8. CASE RemoveRoot(p)
  BY <1>8 DEF RemoveRoot
<1>9. CASE SyncGone(p)
  BY <1>9 DEF SyncGone
<1>10. CASE ConfirmGone(p)
  BY <1>10 DEF ConfirmGone
<1>. QED
  BY <1>1, <1>2, <1>3, <1>4, <1>5, <1>6, <1>7, <1>8, <1>9, <1>10 DEF Purge

LEMMA StagingPurge ==
  ASSUME OwnInv, NEW p \in Purgers, Purge(p), NEW j \in Importers
  PROVE  OwnStaging(j)'
<1>. USE SizeAssumption, BoundsAssumption, PurgersAssumption
     DEF OwnInv, TypeOK, OwnStaging, OwnTaken, Entries, Processes, Places, Same, Others, SyncStore, ImportSteps, PurgeSteps, Fresh, Building, Unpublished, Holding, Stored, Starts
<1>1. CASE PlanPurge(p)
  BY <1>1 DEF PlanPurge
<1>2. CASE Confirm(p)
  BY <1>2 DEF Confirm
<1>3. CASE Isolate(p)
  BY <1>3 DEF Isolate
<1>4. CASE Inspect(p)
  BY <1>4 DEF Inspect
<1>5. CASE PutBack(p)
  BY <1>5 DEF PutBack
<1>6. CASE SyncBack(p)
  BY <1>6 DEF SyncBack
<1>7. CASE Remove(p)
  BY <1>7 DEF Remove
<1>8. CASE RemoveRoot(p)
  BY <1>8 DEF RemoveRoot
<1>9. CASE SyncGone(p)
  BY <1>9 DEF SyncGone
<1>10. CASE ConfirmGone(p)
  BY <1>10 DEF ConfirmGone
<1>. QED
  BY <1>1, <1>2, <1>3, <1>4, <1>5, <1>6, <1>7, <1>8, <1>9, <1>10 DEF Purge

LEMMA TakenPurge ==
  ASSUME OwnInv, NEW p \in Purgers, Purge(p), NEW q \in Purgers
  PROVE  OwnTaken(q)'
<1>. USE SizeAssumption, BoundsAssumption, PurgersAssumption
     DEF OwnInv, TypeOK, OwnTaken, Entries, Processes, Places, Same, Others, SyncStore, Holding, Stored, Whole, Starts, Remains
<1>1. CASE PlanPurge(p)
  BY <1>1 DEF PlanPurge
<1>2. CASE Confirm(p)
  BY <1>2 DEF Confirm
<1>3. CASE Isolate(p)
  BY <1>3 DEF Isolate
<1>4. CASE Inspect(p)
  BY <1>4 DEF Inspect
<1>5. CASE PutBack(p)
  BY <1>5 DEF PutBack
<1>6. CASE SyncBack(p)
  BY <1>6 DEF SyncBack
<1>7. CASE Remove(p)
  BY <1>7 DEF Remove
<1>8. CASE RemoveRoot(p)
  BY <1>8 DEF RemoveRoot
<1>9. CASE SyncGone(p)
  BY <1>9 DEF SyncGone
<1>10. CASE ConfirmGone(p)
  BY <1>10 DEF ConfirmGone
<1>. QED
  BY <1>1, <1>2, <1>3, <1>4, <1>5, <1>6, <1>7, <1>8, <1>9, <1>10 DEF Purge

LEMMA OwnFault ==
  ASSUME OwnInv, NEW x \in Processes, Fault(x) \/ Kill(x)
  PROVE  OwnInv'
<1>. USE SizeAssumption, BoundsAssumption, PurgersAssumption
     DEF OwnInv, TypeOK, OwnStaging, OwnTaken, Entries, Processes, Places, ImportSteps, PurgeSteps, Fresh, Building, Unpublished, Holding
<1>1. CASE Fault(x)
  <2>. USE <1>1 DEF Fault
  <2>1. TypeOK'
    OBVIOUS
  <2>2. ASSUME NEW i \in Importers
        PROVE  OwnStaging(i)'
    OBVIOUS
  <2>3. ASSUME NEW p \in Purgers
        PROVE  OwnTaken(p)'
    OBVIOUS
  <2>. QED
    BY <2>1, <2>2, <2>3
<1>2. CASE Kill(x)
  BY <1>2 DEF Kill
<1>. QED
  BY <1>1, <1>2

LEMMA OwnPowerLoss ==
  ASSUME OwnInv, PowerLoss
  PROVE  OwnInv'
<1>. USE SizeAssumption, BoundsAssumption, PurgersAssumption
     DEF OwnInv, TypeOK, OwnStaging, OwnTaken, Entries, Processes, Places, ImportSteps, PurgeSteps, Fresh, Building, Unpublished, Holding, Survives, Between
<1>1. TypeOK'
  BY DEF PowerLoss
<1>2. ASSUME NEW i \in Importers
      PROVE  OwnStaging(i)'
  BY DEF PowerLoss
<1>3. ASSUME NEW p \in Purgers
      PROVE  OwnTaken(p)'
  BY DEF PowerLoss
<1>. QED
  BY <1>1, <1>2, <1>3

LEMMA OwnEdit ==
  ASSUME OwnInv, NEW o \in Entries, Edit(o)
  PROVE  OwnInv'
BY PurgersAssumption, BoundsAssumption DEF Edit, OwnInv, TypeOK, OwnStaging, OwnTaken, Entries, Processes, PurgeSteps, Unpublished, Fresh, Building, Holding

LEMMA OwnInit == Init => OwnInv
BY SizeAssumption, SeedAssumption DEF Init, OwnInv, TypeOK, OwnStaging, OwnTaken, Entries, Processes, Places, PurgeSteps, Unpublished, Fresh, Building, Holding

LEMMA OwnNext == OwnInv /\ [Next]_vars => OwnInv'
<1>. SUFFICES ASSUME OwnInv, [Next]_vars
              PROVE  OwnInv'
  OBVIOUS
<1>1. ASSUME NEW i \in Importers, Import(i)
      PROVE  OwnInv'
  BY <1>1, TypeImport, StagingImport, TakenImport DEF OwnInv
<1>2. ASSUME NEW p \in Purgers, Purge(p)
      PROVE  OwnInv'
  BY <1>2, TypePurge, StagingPurge, TakenPurge DEF OwnInv
<1>3. CASE UNCHANGED vars
  BY <1>3 DEF vars, OwnInv, TypeOK, OwnStaging, OwnTaken
<1>. QED
  BY <1>1, <1>2, <1>3, OwnFault, OwnPowerLoss, OwnEdit DEF Next

(* In every reachable state the directory an import is building is its own,  *)
(* and what a purge has taken is where it put it.                            *)
THEOREM OwnInvariant == Spec => []OwnInv
BY OwnInit, OwnNext, PTL DEF Spec

(* Every variable keeps to its set: no directory gets more files than an     *)
(* entry has, and none is removed twice.                                     *)
THEOREM TypeCorrect == Spec => []TypeOK
BY OwnInvariant, PTL DEF OwnInv

-----------------------------------------------------------------------------
(* Under the address, now and after a power loss, there are only directories *)
(* with every file, and every file durable.                                  *)

Sound(o) ==
    o \notin undone =>
        /\ place[o] = "final" => files[o] = Size /\ diskFiles[o] = Size
        /\ diskPlace[o] = "final" => diskFiles[o] = Size
        /\ \A q \in Purgers : pc[q] \in {"inspect", "putback"} /\ o \in took[q]
              => files[o] = Size /\ diskFiles[o] = Size

SoundInv == \A o \in Entries : Sound(o)

LEMMA SoundImport ==
  ASSUME OwnInv, SoundInv, NEW i \in Importers, Import(i), NEW o \in Entries
  PROVE  Sound(o)'
<1>. USE SizeAssumption, PurgersAssumption
     DEF OwnInv, TypeOK, OwnStaging, OwnTaken, Entries, Processes, Places, Same, Others, SyncStore, ImportSteps, PurgeSteps, Fresh, Building, Unpublished, Holding, Stored, Whole, Starts, SoundInv, Sound
<1>1. CASE BeginImport(i)
  BY <1>1 DEF BeginImport
<1>2. CASE MakeRoot(i)
  BY <1>2 DEF MakeRoot
<1>3. CASE SyncParent(i)
  BY <1>3 DEF SyncParent
<1>4. CASE Look(i)
  BY <1>4 DEF Look
<1>5. CASE Existing(i)
  BY <1>5 DEF Existing
<1>6. CASE Fill(i)
  BY <1>6 DEF Fill
<1>7. CASE SyncTree(i)
  BY <1>7 DEF SyncTree
<1>8. CASE ValidateStaged(i)
  BY <1>8 DEF ValidateStaged
<1>9. CASE Publish(i)
  BY <1>9 DEF Publish
<1>10. CASE SyncPublished(i)
  BY <1>10 DEF SyncPublished
<1>11. CASE Rehash(i)
  BY <1>11 DEF Rehash
<1>12. CASE RemoveStaging(i)
  BY <1>12 DEF RemoveStaging
<1>. QED
  BY <1>1, <1>2, <1>3, <1>4, <1>5, <1>6, <1>7, <1>8, <1>9, <1>10, <1>11, <1>12 DEF Import

LEMMA SoundPurge ==
  ASSUME OwnInv, SoundInv, NEW p \in Purgers, Purge(p), NEW o \in Entries
  PROVE  Sound(o)'
<1>. USE SizeAssumption, PurgersAssumption
     DEF OwnInv, TypeOK, OwnStaging, OwnTaken, Entries, Processes, Places, Same, Others, SyncStore, ImportSteps, PurgeSteps, Fresh, Building, Unpublished, Holding, Stored, Whole, Starts, Remains, SoundInv, Sound
<1>1. CASE PlanPurge(p)
  BY <1>1 DEF PlanPurge
<1>2. CASE Confirm(p)
  BY <1>2 DEF Confirm
<1>3. CASE Isolate(p)
  BY <1>3 DEF Isolate
<1>4. CASE Inspect(p)
  BY <1>4 DEF Inspect
<1>5. CASE PutBack(p)
  BY <1>5 DEF PutBack
<1>6. CASE SyncBack(p)
  BY <1>6 DEF SyncBack
<1>7. CASE Remove(p)
  BY <1>7 DEF Remove
<1>8. CASE RemoveRoot(p)
  BY <1>8 DEF RemoveRoot
<1>9. CASE SyncGone(p)
  BY <1>9 DEF SyncGone
<1>10. CASE ConfirmGone(p)
  BY <1>10 DEF ConfirmGone
<1>. QED
  BY <1>1, <1>2, <1>3, <1>4, <1>5, <1>6, <1>7, <1>8, <1>9, <1>10 DEF Purge

LEMMA SoundRest ==
  ASSUME OwnInv, SoundInv, NEW o \in Entries,
         \/ \E x \in Processes : Fault(x) \/ Kill(x)
         \/ PowerLoss \/ \E e \in Entries : Edit(e)
         \/ UNCHANGED vars
  PROVE  Sound(o)'
<1>. USE SizeAssumption, PurgersAssumption
     DEF OwnInv, TypeOK, OwnStaging, OwnTaken, Entries, Processes, Places, Same, Others, SyncStore, ImportSteps, PurgeSteps, Fresh, Building, Unpublished, Holding, Stored, Whole, Starts, SoundInv, Sound
<1>1. ASSUME NEW x \in Processes, Fault(x)
      PROVE  Sound(o)'
  BY <1>1 DEF Fault
<1>2. ASSUME NEW x \in Processes, Kill(x)
      PROVE  Sound(o)'
  BY <1>2 DEF Kill
<1>3. CASE PowerLoss
  BY <1>3 DEF PowerLoss, Survives, Between
<1>4. ASSUME NEW e \in Entries, Edit(e)
      PROVE  Sound(o)'
  BY <1>4 DEF Edit
<1>5. CASE UNCHANGED vars
  BY <1>5 DEF vars
<1>. QED
  BY <1>1, <1>2, <1>3, <1>4, <1>5

(* The address has a complete entry or none, at every moment and after every *)
(* power loss, but for the directory of a purge the power loss undid.        *)
THEOREM AlwaysWholeOrAbsent == Spec => []WholeOrAbsent
<1>1. Init => SoundInv
  BY SizeAssumption, SeedAssumption DEF Init, SoundInv, Sound, Entries, Processes
<1>2. OwnInv /\ SoundInv /\ [Next]_vars => SoundInv'
  BY SoundImport, SoundPurge, SoundRest DEF Next, SoundInv
<1>3. SoundInv => WholeOrAbsent
  BY DEF SoundInv, Sound, WholeOrAbsent
<1>. QED
  BY <1>1, <1>2, <1>3, OwnInvariant, PTL DEF Spec

-----------------------------------------------------------------------------
(* What has been published and synchronised, and what has been removed and   *)
(* synchronised, stays so.                                                   *)

Published(i) ==
    i \notin early =>
        /\ pc[i] \in ImportSteps \ {"mkdir", "syncparent"} => root = "kept"
        /\ (\A p \in Purgers : i \notin took[p]) =>
              /\ pc[i] = "sync" => place[i] = "final"
              /\ pc[i] = "recheck" \/ answer[i] = "imported"
                    => place[i] = "final" /\ diskPlace[i] = "final" /\ root = "kept"

Removed(p) ==
    /\ pc[p] = "syncgone" => \A o \in took[p] : place[o] = "none"
    /\ pc[p] = "gone" \/ (pc[p] = "done" /\ answer[p] = "purged")
          => \A o \in took[p] : place[o] = "none" /\ diskPlace[o] = "none"

PublishedInv == \A i \in Importers : Published(i)

RemovedInv == \A p \in Purgers : Removed(p)

LEMMA PublishedImport ==
  ASSUME OwnInv, PublishedInv, NEW i \in Importers, Import(i), NEW j \in Importers
  PROVE  Published(j)'
<1>. USE SizeAssumption, PurgersAssumption
     DEF OwnInv, TypeOK, OwnStaging, OwnTaken, Entries, Processes, Places, Same, Others, SyncStore, ImportSteps, PurgeSteps, Fresh, Building, Unpublished, Holding, Stored, Whole, Starts, PublishedInv, Published
<1>1. CASE BeginImport(i)
  BY <1>1 DEF BeginImport
<1>2. CASE MakeRoot(i)
  BY <1>2 DEF MakeRoot
<1>3. CASE SyncParent(i)
  BY <1>3 DEF SyncParent
<1>4. CASE Look(i)
  BY <1>4 DEF Look
<1>5. CASE Existing(i)
  BY <1>5 DEF Existing
<1>6. CASE Fill(i)
  BY <1>6 DEF Fill
<1>7. CASE SyncTree(i)
  BY <1>7 DEF SyncTree
<1>8. CASE ValidateStaged(i)
  BY <1>8 DEF ValidateStaged
<1>9. CASE Publish(i)
  BY <1>9 DEF Publish
<1>10. CASE SyncPublished(i)
  BY <1>10 DEF SyncPublished
<1>11. CASE Rehash(i)
  BY <1>11 DEF Rehash
<1>12. CASE RemoveStaging(i)
  BY <1>12 DEF RemoveStaging
<1>. QED
  BY <1>1, <1>2, <1>3, <1>4, <1>5, <1>6, <1>7, <1>8, <1>9, <1>10, <1>11, <1>12 DEF Import

LEMMA PublishedPurge ==
  ASSUME OwnInv, PublishedInv, NEW p \in Purgers, Purge(p), NEW j \in Importers
  PROVE  Published(j)'
<1>. USE SizeAssumption, PurgersAssumption
     DEF OwnInv, TypeOK, OwnStaging, OwnTaken, Entries, Processes, Places, Same, Others, SyncStore, ImportSteps, PurgeSteps, Fresh, Building, Unpublished, Holding, Stored, Whole, Starts, Remains, PublishedInv, Published
<1>1. CASE PlanPurge(p)
  BY <1>1 DEF PlanPurge
<1>2. CASE Confirm(p)
  BY <1>2 DEF Confirm
<1>3. CASE Isolate(p)
  BY <1>3 DEF Isolate
<1>4. CASE Inspect(p)
  BY <1>4 DEF Inspect
<1>5. CASE PutBack(p)
  BY <1>5 DEF PutBack
<1>6. CASE SyncBack(p)
  BY <1>6 DEF SyncBack
<1>7. CASE Remove(p)
  BY <1>7 DEF Remove
<1>8. CASE RemoveRoot(p)
  BY <1>8 DEF RemoveRoot
<1>9. CASE SyncGone(p)
  BY <1>9 DEF SyncGone
<1>10. CASE ConfirmGone(p)
  BY <1>10 DEF ConfirmGone
<1>. QED
  BY <1>1, <1>2, <1>3, <1>4, <1>5, <1>6, <1>7, <1>8, <1>9, <1>10 DEF Purge

LEMMA PublishedRest ==
  ASSUME OwnInv, PublishedInv, NEW j \in Importers,
         \/ \E x \in Processes : Fault(x) \/ Kill(x)
         \/ PowerLoss \/ \E e \in Entries : Edit(e)
         \/ UNCHANGED vars
  PROVE  Published(j)'
<1>. USE SizeAssumption, PurgersAssumption
     DEF OwnInv, TypeOK, OwnStaging, OwnTaken, Entries, Processes, Places, Same, Others, SyncStore, ImportSteps, PurgeSteps, Fresh, Building, Unpublished, Holding, Stored, Whole, Starts, PublishedInv, Published
<1>1. ASSUME NEW x \in Processes, Fault(x)
      PROVE  Published(j)'
  BY <1>1 DEF Fault
<1>2. ASSUME NEW x \in Processes, Kill(x)
      PROVE  Published(j)'
  BY <1>2 DEF Kill
<1>3. CASE PowerLoss
  BY <1>3 DEF PowerLoss, Survives, Between
<1>4. ASSUME NEW e \in Entries, Edit(e)
      PROVE  Published(j)'
  BY <1>4 DEF Edit
<1>5. CASE UNCHANGED vars
  BY <1>5 DEF vars
<1>. QED
  BY <1>1, <1>2, <1>3, <1>4, <1>5

LEMMA RemovedImport ==
  ASSUME OwnInv, RemovedInv, NEW i \in Importers, Import(i), NEW q \in Purgers
  PROVE  Removed(q)'
<1>. USE SizeAssumption, PurgersAssumption
     DEF OwnInv, TypeOK, OwnStaging, OwnTaken, Entries, Processes, Places, Same, Others, SyncStore, ImportSteps, PurgeSteps, Fresh, Building, Unpublished, Holding, Stored, Whole, Starts, RemovedInv, Removed
<1>1. CASE BeginImport(i)
  BY <1>1 DEF BeginImport
<1>2. CASE MakeRoot(i)
  BY <1>2 DEF MakeRoot
<1>3. CASE SyncParent(i)
  BY <1>3 DEF SyncParent
<1>4. CASE Look(i)
  BY <1>4 DEF Look
<1>5. CASE Existing(i)
  BY <1>5 DEF Existing
<1>6. CASE Fill(i)
  BY <1>6 DEF Fill
<1>7. CASE SyncTree(i)
  BY <1>7 DEF SyncTree
<1>8. CASE ValidateStaged(i)
  BY <1>8 DEF ValidateStaged
<1>9. CASE Publish(i)
  BY <1>9 DEF Publish
<1>10. CASE SyncPublished(i)
  BY <1>10 DEF SyncPublished
<1>11. CASE Rehash(i)
  BY <1>11 DEF Rehash
<1>12. CASE RemoveStaging(i)
  BY <1>12 DEF RemoveStaging
<1>. QED
  BY <1>1, <1>2, <1>3, <1>4, <1>5, <1>6, <1>7, <1>8, <1>9, <1>10, <1>11, <1>12 DEF Import

LEMMA RemovedPurge ==
  ASSUME OwnInv, RemovedInv, NEW p \in Purgers, Purge(p), NEW q \in Purgers
  PROVE  Removed(q)'
<1>. USE SizeAssumption, PurgersAssumption
     DEF OwnInv, TypeOK, OwnStaging, OwnTaken, Entries, Processes, Places, Same, Others, SyncStore, ImportSteps, PurgeSteps, Fresh, Building, Unpublished, Holding, Stored, Whole, Starts, Remains, RemovedInv, Removed
<1>1. CASE PlanPurge(p)
  BY <1>1 DEF PlanPurge
<1>2. CASE Confirm(p)
  BY <1>2 DEF Confirm
<1>3. CASE Isolate(p)
  BY <1>3 DEF Isolate
<1>4. CASE Inspect(p)
  BY <1>4 DEF Inspect
<1>5. CASE PutBack(p)
  BY <1>5 DEF PutBack
<1>6. CASE SyncBack(p)
  BY <1>6 DEF SyncBack
<1>7. CASE Remove(p)
  BY <1>7 DEF Remove
<1>8. CASE RemoveRoot(p)
  BY <1>8 DEF RemoveRoot
<1>9. CASE SyncGone(p)
  BY <1>9 DEF SyncGone
<1>10. CASE ConfirmGone(p)
  BY <1>10 DEF ConfirmGone
<1>. QED
  BY <1>1, <1>2, <1>3, <1>4, <1>5, <1>6, <1>7, <1>8, <1>9, <1>10 DEF Purge

LEMMA RemovedRest ==
  ASSUME OwnInv, RemovedInv, NEW q \in Purgers,
         \/ \E x \in Processes : Fault(x) \/ Kill(x)
         \/ PowerLoss \/ \E e \in Entries : Edit(e)
         \/ UNCHANGED vars
  PROVE  Removed(q)'
<1>. USE SizeAssumption, PurgersAssumption
     DEF OwnInv, TypeOK, OwnStaging, OwnTaken, Entries, Processes, Places, Same, Others, SyncStore, ImportSteps, PurgeSteps, Fresh, Building, Unpublished, Holding, Stored, Whole, Starts, RemovedInv, Removed
<1>1. ASSUME NEW x \in Processes, Fault(x)
      PROVE  Removed(q)'
  BY <1>1 DEF Fault
<1>2. ASSUME NEW x \in Processes, Kill(x)
      PROVE  Removed(q)'
  BY <1>2 DEF Kill
<1>3. CASE PowerLoss
  BY <1>3 DEF PowerLoss, Survives, Between
<1>4. ASSUME NEW e \in Entries, Edit(e)
      PROVE  Removed(q)'
  BY <1>4 DEF Edit
<1>5. CASE UNCHANGED vars
  BY <1>5 DEF vars
<1>. QED
  BY <1>1, <1>2, <1>3, <1>4, <1>5

(* What a command answered stays true, through everything later commands and *)
(* power losses do.                                                          *)
THEOREM AnswersAlwaysLast == Spec => []AnswersLast
<1>1. Init => PublishedInv /\ RemovedInv
  BY DEF Init, PublishedInv, Published, RemovedInv, Removed, Processes, ImportSteps
<1>2. OwnInv /\ PublishedInv /\ [Next]_vars => PublishedInv'
  BY PublishedImport, PublishedPurge, PublishedRest DEF Next, PublishedInv
<1>3. OwnInv /\ RemovedInv /\ [Next]_vars => RemovedInv'
  BY RemovedImport, RemovedPurge, RemovedRest DEF Next, RemovedInv
<1>4. PublishedInv /\ RemovedInv => AnswersLast
  BY DEF PublishedInv, Published, RemovedInv, Removed, AnswersLast
<1>. QED
  BY <1>1, <1>2, <1>3, <1>4, OwnInvariant, PTL DEF Spec

-----------------------------------------------------------------------------
(* Only a staging directory and what a purge has checked lose their files.   *)

LEMMA KeptByImport ==
  ASSUME OwnInv, NEW i \in Importers, Import(i), NEW o \in changed \ late
  PROVE  files'[o] = files[o] /\ (place'[o] = "none" => place[o] = "none")
<1>. USE SizeAssumption, PurgersAssumption
     DEF OwnInv, TypeOK, OwnStaging, OwnTaken, Entries, Processes, Places, Same, Others, SyncStore, ImportSteps, PurgeSteps, Fresh, Building, Unpublished, Holding, Stored, Whole, Starts, Remains
<1>1. CASE BeginImport(i)
  BY <1>1 DEF BeginImport
<1>2. CASE MakeRoot(i)
  BY <1>2 DEF MakeRoot
<1>3. CASE SyncParent(i)
  BY <1>3 DEF SyncParent
<1>4. CASE Look(i)
  BY <1>4 DEF Look
<1>5. CASE Existing(i)
  BY <1>5 DEF Existing
<1>6. CASE Fill(i)
  BY <1>6 DEF Fill
<1>7. CASE SyncTree(i)
  BY <1>7 DEF SyncTree
<1>8. CASE ValidateStaged(i)
  BY <1>8 DEF ValidateStaged
<1>9. CASE Publish(i)
  BY <1>9 DEF Publish
<1>10. CASE SyncPublished(i)
  BY <1>10 DEF SyncPublished
<1>11. CASE Rehash(i)
  BY <1>11 DEF Rehash
<1>12. CASE RemoveStaging(i)
  BY <1>12 DEF RemoveStaging
<1>. QED
  BY <1>1, <1>2, <1>3, <1>4, <1>5, <1>6, <1>7, <1>8, <1>9, <1>10, <1>11, <1>12 DEF Import

LEMMA KeptByPurge ==
  ASSUME OwnInv, NEW p \in Purgers, Purge(p), NEW o \in changed \ late
  PROVE  files'[o] = files[o] /\ (place'[o] = "none" => place[o] = "none")
<1>. USE SizeAssumption, PurgersAssumption
     DEF OwnInv, TypeOK, OwnStaging, OwnTaken, Entries, Processes, Places, Same, Others, SyncStore, ImportSteps, PurgeSteps, Fresh, Building, Unpublished, Holding, Stored, Whole, Starts, Remains
<1>1. CASE PlanPurge(p)
  BY <1>1 DEF PlanPurge
<1>2. CASE Confirm(p)
  BY <1>2 DEF Confirm
<1>3. CASE Isolate(p)
  BY <1>3 DEF Isolate
<1>4. CASE Inspect(p)
  BY <1>4 DEF Inspect
<1>5. CASE PutBack(p)
  BY <1>5 DEF PutBack
<1>6. CASE SyncBack(p)
  BY <1>6 DEF SyncBack
<1>7. CASE Remove(p)
  BY <1>7 DEF Remove
<1>8. CASE RemoveRoot(p)
  BY <1>8 DEF RemoveRoot
<1>9. CASE SyncGone(p)
  BY <1>9 DEF SyncGone
<1>10. CASE ConfirmGone(p)
  BY <1>10 DEF ConfirmGone
<1>. QED
  BY <1>1, <1>2, <1>3, <1>4, <1>5, <1>6, <1>7, <1>8, <1>9, <1>10 DEF Purge

(* Content that somebody has changed before a purge checked it is never      *)
(* removed, neither by a purge nor by an import.                             *)
THEOREM UncheckedAlwaysKept == Spec => UncheckedKept
<1>1. OwnInv /\ [Next]_vars =>
        [losses' = losses => \A o \in changed \ late :
             files'[o] = files[o] /\ (place'[o] = "none" => place[o] = "none")]_vars
  <2>. SUFFICES ASSUME OwnInv, Next, losses' = losses, NEW o \in changed \ late
                PROVE  files'[o] = files[o] /\ (place'[o] = "none" => place[o] = "none")
    BY DEF vars
  <2>1. ASSUME NEW x \in Processes, Fault(x) \/ Kill(x)
        PROVE  UNCHANGED <<files, place>>
    BY <2>1 DEF Fault, Kill
  <2>2. ASSUME NEW e \in Entries, Edit(e)
        PROVE  UNCHANGED <<files, place>>
    BY <2>2 DEF Edit
  <2>3. CASE PowerLoss
    BY <2>3, BoundsAssumption DEF PowerLoss, OwnInv, TypeOK
  <2>. QED
    BY <2>1, <2>2, <2>3, KeptByImport, KeptByPurge DEF Next
<1>. QED
  BY <1>1, OwnInvariant, PTL DEF Spec, UncheckedKept

-----------------------------------------------------------------------------
(* A store that has met no fault: every directory out of place belongs to a  *)
(* command that is not done with it.                                         *)

Quiet == upset = {} /\ losses = 0 /\ edits = 0

Unpurged == \A p \in Purgers : pc[p] \in {"idle", "planned"}

Accounted(o) ==
    Quiet =>
        /\ o \notin undone /\ o \notin changed
        /\ place[o] = "staging" => o \in Importers /\ pc[o] \in Building \cup {"existing", "cleanup"}
        /\ \A p \in Purgers : place[o] = p => pc[p] \in Holding /\ o \in took[p]
        /\ \A e \in Entries : place[o] = "final" /\ place[e] = "final" => o = e

Orderly(p) == Quiet => pc[p] \notin {"putback", "syncback"}

Answered(i) ==
    Quiet /\ Unpurged =>
        /\ answer[i] # "failed"
        /\ pc[i] \in {"existing", "sync", "recheck"} => Stored # {}

QuietInv ==
    /\ \A o \in Entries : Accounted(o)
    /\ \A p \in Purgers : Orderly(p)
    /\ \A i \in Importers : Answered(i)

LEMMA AccountedImport ==
  ASSUME OwnInv, SoundInv, QuietInv, NEW i \in Importers, Import(i), NEW o \in Entries
  PROVE  Accounted(o)'
<1>. USE SizeAssumption, PurgersAssumption
     DEF OwnInv, TypeOK, OwnStaging, OwnTaken, Entries, Processes, Places, Same, Others, SyncStore, ImportSteps, PurgeSteps, Fresh, Building, Unpublished, Holding, Stored, Whole, Starts, SoundInv, Sound, QuietInv, Quiet, Unpurged, Accounted, Orderly
<1>1. CASE BeginImport(i)
  BY <1>1 DEF BeginImport
<1>2. CASE MakeRoot(i)
  BY <1>2 DEF MakeRoot
<1>3. CASE SyncParent(i)
  BY <1>3 DEF SyncParent
<1>4. CASE Look(i)
  BY <1>4 DEF Look
<1>5. CASE Existing(i)
  BY <1>5 DEF Existing
<1>6. CASE Fill(i)
  BY <1>6 DEF Fill
<1>7. CASE SyncTree(i)
  BY <1>7 DEF SyncTree
<1>8. CASE ValidateStaged(i)
  BY <1>8 DEF ValidateStaged
<1>9. CASE Publish(i)
  BY <1>9 DEF Publish
<1>10. CASE SyncPublished(i)
  BY <1>10 DEF SyncPublished
<1>11. CASE Rehash(i)
  BY <1>11 DEF Rehash
<1>12. CASE RemoveStaging(i)
  BY <1>12 DEF RemoveStaging
<1>. QED
  BY <1>1, <1>2, <1>3, <1>4, <1>5, <1>6, <1>7, <1>8, <1>9, <1>10, <1>11, <1>12 DEF Import

LEMMA AccountedPurge ==
  ASSUME OwnInv, SoundInv, QuietInv, NEW p \in Purgers, Purge(p), NEW o \in Entries
  PROVE  Accounted(o)'
<1>. USE SizeAssumption, PurgersAssumption
     DEF OwnInv, TypeOK, OwnStaging, OwnTaken, Entries, Processes, Places, Same, Others, SyncStore, ImportSteps, PurgeSteps, Fresh, Building, Unpublished, Holding, Stored, Whole, Starts, Remains, SoundInv, Sound, QuietInv, Quiet, Unpurged, Accounted, Orderly
<1>1. CASE PlanPurge(p)
  BY <1>1 DEF PlanPurge
<1>2. CASE Confirm(p)
  BY <1>2 DEF Confirm
<1>3. CASE Isolate(p)
  BY <1>3 DEF Isolate
<1>4. CASE Inspect(p)
  BY <1>4 DEF Inspect
<1>5. CASE PutBack(p)
  BY <1>5 DEF PutBack
<1>6. CASE SyncBack(p)
  BY <1>6 DEF SyncBack
<1>7. CASE Remove(p)
  BY <1>7 DEF Remove
<1>8. CASE RemoveRoot(p)
  BY <1>8 DEF RemoveRoot
<1>9. CASE SyncGone(p)
  BY <1>9 DEF SyncGone
<1>10. CASE ConfirmGone(p)
  BY <1>10 DEF ConfirmGone
<1>. QED
  BY <1>1, <1>2, <1>3, <1>4, <1>5, <1>6, <1>7, <1>8, <1>9, <1>10 DEF Purge

LEMMA AccountedRest ==
  ASSUME OwnInv, SoundInv, QuietInv, NEW o \in Entries,
         \/ \E x \in Processes : Fault(x) \/ Kill(x)
         \/ PowerLoss \/ \E e \in Entries : Edit(e)
         \/ UNCHANGED vars
  PROVE  Accounted(o)'
<1>. USE SizeAssumption, PurgersAssumption
     DEF OwnInv, TypeOK, OwnStaging, OwnTaken, Entries, Processes, Places, Same, Others, SyncStore, ImportSteps, PurgeSteps, Fresh, Building, Unpublished, Holding, Stored, Whole, Starts, SoundInv, Sound, QuietInv, Quiet, Unpurged, Accounted, Orderly
<1>1. ASSUME NEW x \in Processes, Fault(x)
      PROVE  Accounted(o)'
  BY <1>1 DEF Fault
<1>2. ASSUME NEW x \in Processes, Kill(x)
      PROVE  Accounted(o)'
  BY <1>2 DEF Kill
<1>3. CASE PowerLoss
  BY <1>3 DEF PowerLoss, Survives, Between
<1>4. ASSUME NEW e \in Entries, Edit(e)
      PROVE  Accounted(o)'
  BY <1>4 DEF Edit
<1>5. CASE UNCHANGED vars
  BY <1>5 DEF vars
<1>. QED
  BY <1>1, <1>2, <1>3, <1>4, <1>5

LEMMA OrderlyImport ==
  ASSUME OwnInv, SoundInv, QuietInv, NEW i \in Importers, Import(i), NEW q \in Purgers
  PROVE  Orderly(q)'
<1>. USE SizeAssumption, PurgersAssumption
     DEF OwnInv, TypeOK, OwnStaging, OwnTaken, Entries, Processes, Places, Same, Others, SyncStore, ImportSteps, PurgeSteps, Fresh, Building, Unpublished, Holding, Stored, Whole, Starts, SoundInv, Sound, QuietInv, Quiet, Unpurged, Accounted, Orderly
<1>1. CASE BeginImport(i)
  BY <1>1 DEF BeginImport
<1>2. CASE MakeRoot(i)
  BY <1>2 DEF MakeRoot
<1>3. CASE SyncParent(i)
  BY <1>3 DEF SyncParent
<1>4. CASE Look(i)
  BY <1>4 DEF Look
<1>5. CASE Existing(i)
  BY <1>5 DEF Existing
<1>6. CASE Fill(i)
  BY <1>6 DEF Fill
<1>7. CASE SyncTree(i)
  BY <1>7 DEF SyncTree
<1>8. CASE ValidateStaged(i)
  BY <1>8 DEF ValidateStaged
<1>9. CASE Publish(i)
  BY <1>9 DEF Publish
<1>10. CASE SyncPublished(i)
  BY <1>10 DEF SyncPublished
<1>11. CASE Rehash(i)
  BY <1>11 DEF Rehash
<1>12. CASE RemoveStaging(i)
  BY <1>12 DEF RemoveStaging
<1>. QED
  BY <1>1, <1>2, <1>3, <1>4, <1>5, <1>6, <1>7, <1>8, <1>9, <1>10, <1>11, <1>12 DEF Import

LEMMA OrderlyPurge ==
  ASSUME OwnInv, SoundInv, QuietInv, NEW p \in Purgers, Purge(p), NEW q \in Purgers
  PROVE  Orderly(q)'
<1>. USE SizeAssumption, PurgersAssumption
     DEF OwnInv, TypeOK, OwnStaging, OwnTaken, Entries, Processes, Places, Same, Others, SyncStore, ImportSteps, PurgeSteps, Fresh, Building, Unpublished, Holding, Stored, Whole, Starts, Remains, SoundInv, Sound, QuietInv, Quiet, Unpurged, Accounted, Orderly
<1>1. CASE PlanPurge(p)
  BY <1>1 DEF PlanPurge
<1>2. CASE Confirm(p)
  BY <1>2 DEF Confirm
<1>3. CASE Isolate(p)
  BY <1>3 DEF Isolate
<1>4. CASE Inspect(p)
  BY <1>4 DEF Inspect
<1>5. CASE PutBack(p)
  BY <1>5 DEF PutBack
<1>6. CASE SyncBack(p)
  BY <1>6 DEF SyncBack
<1>7. CASE Remove(p)
  BY <1>7 DEF Remove
<1>8. CASE RemoveRoot(p)
  BY <1>8 DEF RemoveRoot
<1>9. CASE SyncGone(p)
  BY <1>9 DEF SyncGone
<1>10. CASE ConfirmGone(p)
  BY <1>10 DEF ConfirmGone
<1>. QED
  BY <1>1, <1>2, <1>3, <1>4, <1>5, <1>6, <1>7, <1>8, <1>9, <1>10 DEF Purge

LEMMA OrderlyRest ==
  ASSUME OwnInv, SoundInv, QuietInv, NEW q \in Purgers,
         \/ \E x \in Processes : Fault(x) \/ Kill(x)
         \/ PowerLoss \/ \E e \in Entries : Edit(e)
         \/ UNCHANGED vars
  PROVE  Orderly(q)'
<1>. USE SizeAssumption, PurgersAssumption
     DEF OwnInv, TypeOK, OwnStaging, OwnTaken, Entries, Processes, Places, Same, Others, SyncStore, ImportSteps, PurgeSteps, Fresh, Building, Unpublished, Holding, Stored, Whole, Starts, SoundInv, Sound, QuietInv, Quiet, Unpurged, Accounted, Orderly
<1>1. ASSUME NEW x \in Processes, Fault(x)
      PROVE  Orderly(q)'
  BY <1>1 DEF Fault
<1>2. ASSUME NEW x \in Processes, Kill(x)
      PROVE  Orderly(q)'
  BY <1>2 DEF Kill
<1>3. CASE PowerLoss
  BY <1>3 DEF PowerLoss, Survives, Between
<1>4. ASSUME NEW e \in Entries, Edit(e)
      PROVE  Orderly(q)'
  BY <1>4 DEF Edit
<1>5. CASE UNCHANGED vars
  BY <1>5 DEF vars
<1>. QED
  BY <1>1, <1>2, <1>3, <1>4, <1>5

LEMMA AnsweredImport ==
  ASSUME OwnInv, SoundInv, QuietInv, NEW i \in Importers, Import(i), NEW j \in Importers
  PROVE  Answered(j)'
<1>. USE SizeAssumption, PurgersAssumption
     DEF OwnInv, TypeOK, OwnStaging, OwnTaken, Entries, Processes, Places, Same, Others, SyncStore, ImportSteps, PurgeSteps, Fresh, Building, Unpublished, Holding, Stored, Whole, Starts, SoundInv, Sound, QuietInv, Quiet, Unpurged, Accounted, Answered, Valid
<1>1. CASE BeginImport(i)
  BY <1>1 DEF BeginImport
<1>2. CASE MakeRoot(i)
  BY <1>2 DEF MakeRoot
<1>3. CASE SyncParent(i)
  BY <1>3 DEF SyncParent
<1>4. CASE Look(i)
  BY <1>4 DEF Look
<1>5. CASE Existing(i)
  BY <1>5 DEF Existing
<1>6. CASE Fill(i)
  BY <1>6 DEF Fill
<1>7. CASE SyncTree(i)
  BY <1>7 DEF SyncTree
<1>8. CASE ValidateStaged(i)
  BY <1>8 DEF ValidateStaged
<1>9. CASE Publish(i)
  BY <1>9 DEF Publish
<1>10. CASE SyncPublished(i)
  BY <1>10 DEF SyncPublished
<1>11. CASE Rehash(i)
  BY <1>11 DEF Rehash
<1>12. CASE RemoveStaging(i)
  BY <1>12 DEF RemoveStaging
<1>. QED
  BY <1>1, <1>2, <1>3, <1>4, <1>5, <1>6, <1>7, <1>8, <1>9, <1>10, <1>11, <1>12 DEF Import

LEMMA AnsweredPurge ==
  ASSUME OwnInv, SoundInv, QuietInv, NEW p \in Purgers, Purge(p), NEW j \in Importers
  PROVE  Answered(j)'
<1>. USE SizeAssumption, PurgersAssumption
     DEF OwnInv, TypeOK, OwnStaging, OwnTaken, Entries, Processes, Places, Same, Others, SyncStore, ImportSteps, PurgeSteps, Fresh, Building, Unpublished, Holding, Stored, Whole, Starts, Remains, SoundInv, Sound, QuietInv, Quiet, Unpurged, Accounted, Answered, Valid
<1>1. CASE PlanPurge(p)
  BY <1>1 DEF PlanPurge
<1>2. CASE Confirm(p)
  BY <1>2 DEF Confirm
<1>3. CASE Isolate(p)
  BY <1>3 DEF Isolate
<1>4. CASE Inspect(p)
  BY <1>4 DEF Inspect
<1>5. CASE PutBack(p)
  BY <1>5 DEF PutBack
<1>6. CASE SyncBack(p)
  BY <1>6 DEF SyncBack
<1>7. CASE Remove(p)
  BY <1>7 DEF Remove
<1>8. CASE RemoveRoot(p)
  BY <1>8 DEF RemoveRoot
<1>9. CASE SyncGone(p)
  BY <1>9 DEF SyncGone
<1>10. CASE ConfirmGone(p)
  BY <1>10 DEF ConfirmGone
<1>. QED
  BY <1>1, <1>2, <1>3, <1>4, <1>5, <1>6, <1>7, <1>8, <1>9, <1>10 DEF Purge

LEMMA AnsweredRest ==
  ASSUME OwnInv, SoundInv, QuietInv, NEW j \in Importers,
         \/ \E x \in Processes : Fault(x) \/ Kill(x)
         \/ PowerLoss \/ \E e \in Entries : Edit(e)
         \/ UNCHANGED vars
  PROVE  Answered(j)'
<1>. USE SizeAssumption, PurgersAssumption
     DEF OwnInv, TypeOK, OwnStaging, OwnTaken, Entries, Processes, Places, Same, Others, SyncStore, ImportSteps, PurgeSteps, Fresh, Building, Unpublished, Holding, Stored, Whole, Starts, SoundInv, Sound, QuietInv, Quiet, Unpurged, Accounted, Answered, Valid
<1>1. ASSUME NEW x \in Processes, Fault(x)
      PROVE  Answered(j)'
  BY <1>1 DEF Fault
<1>2. ASSUME NEW x \in Processes, Kill(x)
      PROVE  Answered(j)'
  BY <1>2 DEF Kill
<1>3. CASE PowerLoss
  BY <1>3 DEF PowerLoss, Survives, Between
<1>4. ASSUME NEW e \in Entries, Edit(e)
      PROVE  Answered(j)'
  BY <1>4 DEF Edit
<1>5. CASE UNCHANGED vars
  BY <1>5 DEF vars
<1>. QED
  BY <1>1, <1>2, <1>3, <1>4, <1>5

LEMMA AtMostOne ==
  ASSUME NEW S, \A x, y \in S : x = y
  PROVE  Cardinality(S) <= 1
<1>1. CASE S = {}
  BY <1>1, FS_EmptySet
<1>2. CASE S # {}
  <2>1. PICK x \in S : TRUE
    BY <1>2
  <2>2. S = {x}
    BY <2>1
  <2>. QED
    BY <2>2, FS_Singleton
<1>. QED
  BY <1>1, <1>2

(* Without faults, imports of one bundle never fail because of each other,   *)
(* and however imports and purges met, the store is left tidy.               *)
THEOREM AlwaysConverges == Spec => []Converges
<1>1. Init => SoundInv /\ QuietInv
  BY SizeAssumption, SeedAssumption, PurgersAssumption
  DEF Init, SoundInv, Sound, QuietInv, Accounted, Orderly, Answered, Entries, Processes
<1>2. OwnInv /\ SoundInv /\ [Next]_vars => SoundInv'
  BY SoundImport, SoundPurge, SoundRest DEF Next, SoundInv
<1>3. OwnInv /\ SoundInv /\ QuietInv /\ [Next]_vars => QuietInv'
  <2>. SUFFICES ASSUME OwnInv, SoundInv, QuietInv, [Next]_vars
                PROVE  QuietInv'
    OBVIOUS
  <2>1. \A o \in Entries : Accounted(o)'
    BY AccountedImport, AccountedPurge, AccountedRest DEF Next
  <2>2. \A p \in Purgers : Orderly(p)'
    BY OrderlyImport, OrderlyPurge, OrderlyRest DEF Next
  <2>3. \A i \in Importers : Answered(i)'
    BY AnsweredImport, AnsweredPurge, AnsweredRest DEF Next
  <2>. QED
    BY <2>1, <2>2, <2>3 DEF QuietInv
<1>4. OwnInv /\ QuietInv => Converges
  <2>. SUFFICES ASSUME OwnInv, QuietInv, Quiet
                PROVE  /\ Unpurged => \A i \in Importers : answer[i] # "failed"
                       /\ Resting => /\ \A o \in Entries : place[o] \in {"none", "final"}
                                     /\ Cardinality(Stored) <= 1
    BY DEF Converges, Quiet, Unpurged
  <2>1. Unpurged => \A i \in Importers : answer[i] # "failed"
    BY DEF QuietInv, Answered
  <2>2. Resting => \A o \in Entries : place[o] \in {"none", "final"}
    BY DEF Resting, QuietInv, Accounted, OwnInv, TypeOK, Entries, Processes, Places, Building, Holding
  <2>3. Cardinality(Stored) <= 1
    BY AtMostOne DEF Stored, QuietInv, Accounted
  <2>. QED
    BY <2>1, <2>2, <2>3
<1>. QED
  BY <1>1, <1>2, <1>3, <1>4, OwnInvariant, PTL DEF Spec
=============================================================================
