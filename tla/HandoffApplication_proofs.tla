---------------------- MODULE HandoffApplication_proofs ----------------------
(* What holds of the hand-off application for every set of paths, every      *)
(* choice of features and every bound.                                       *)
EXTENDS HandoffApplication, TLAPS

USE DEF Contents, Staged, States, Answers, ApplySteps, UndoSteps, Forward, Backward,
        disk, command, owner, slips, counts, Bounds, End, Fault, NoFault, Fresh, RollBack

-----------------------------------------------------------------------------
(* Plans and receipts.                                                       *)

LEMMA RequiredPaths ==
  ASSUME NEW q \in Plans
  PROVE  /\ q.sel \subseteq Paths /\ Required(q) \subseteq q.sel
         /\ Required(q) \subseteq Paths
         /\ q.seen \in [Paths -> Contents]
BY SelectionsAssumption DEF Plans, Required

LEMMA ReviewedType ==
  ASSUME target \in [Paths -> Contents], NEW sel \in Selections
  PROVE  Reviewed(sel) \in Plans
BY SelectionsAssumption DEF Plans, Reviewed

LEMMA SnapshotType ==
  ASSUME target \in [Paths -> Contents], NEW q \in Plans
  PROVE  /\ Snapshot(q) \in [Paths -> Contents]
         /\ [state |-> "prepared", orig |-> Snapshot(q),
             moved |-> {}, applied |-> {}] \in Receipts
BY DEF Snapshot, Receipts

LEMMA JournalTypes ==
  ASSUME NEW j \in Receipts, NEW p \in Paths
  PROVE  /\ [j EXCEPT !.moved = @ \cup {p}] \in Receipts
         /\ [j EXCEPT !.applied = @ \cup {p}] \in Receipts
         /\ [j EXCEPT !.moved = @ \ {p}, !.applied = @ \ {p}] \in Receipts
BY DEF Receipts

LEMMA StateTypes ==
  ASSUME NEW j \in Receipts, NEW s \in States
  PROVE  [j EXCEPT !.state = s] \in Receipts /\ [j EXCEPT !.state = s].state = s
BY DEF Receipts

LEMMA WrittenType ==
  ASSUME receipt \in [Plans -> Receipts], plan \in Plans, NEW j \in Receipts
  PROVE  /\ Written(j) \in [Plans -> Receipts]
         /\ Written(j)[plan] = j
         /\ \A q \in Plans : q # plan => Written(j)[q] = receipt[q]
BY DEF Written

LEMMA ReconciledType ==
  ASSUME receipt \in [Plans -> Receipts], NEW q \in Plans
  PROVE  Reconciled(q) \in Receipts /\ Reconciled(q).state = receipt[q].state
<1>1. {p \in Required(q) : Isolated(q, p)} \in SUBSET Paths
  BY RequiredPaths
<1>2. {p \in Required(q) : InPlace(q, p)} \in SUBSET Paths
  BY RequiredPaths
<1>3. receipt[q] \in Receipts
  OBVIOUS
<1>. QED
  BY <1>1, <1>2, <1>3 DEF Reconciled, Receipts

LEMMA DesiredType == \A p \in Paths : Desired(p) \in {"absent", "desired"}
BY DEF Desired

LEMMA PlaceTypes ==
  ASSUME target \in [Paths -> Contents], stage \in [Plans \X Paths -> Staged],
         backup \in [Plans \X Paths -> Contents], plan \in Plans, NEW p \in Paths
  PROVE  /\ \A c \in Contents : /\ [target EXCEPT ![p] = c] \in [Paths -> Contents]
                                /\ [backup EXCEPT ![<<plan, p>>] = c]
                                      \in [Plans \X Paths -> Contents]
         /\ \A s \in Staged : [stage EXCEPT ![<<plan, p>>] = s]
                                      \in [Plans \X Paths -> Staged]
         /\ target[p] \in Contents /\ backup[<<plan, p>>] \in Contents
OBVIOUS

-----------------------------------------------------------------------------
(* Every variable keeps to its set.                                          *)

(* A plan that a command carries out, or that has a receipt, has work to do. *)
HasWork ==
  /\ pc \in {"restoring"} \cup ApplySteps \cup UndoSteps => Required(plan) # {}
  /\ \A q \in Plans : receipt[q].state # "none" => Required(q) # {}

LEMMA TypeInit == Init => TypeOK /\ HasWork
<1> SUFFICES ASSUME Init PROVE TypeOK /\ HasWork
  OBVIOUS
<1>1. plan \in Plans
  BY DEF Init, Plans, Nothing
<1>2. NoReceipt \in Receipts /\ NoReceipt.state = "none"
  BY DEF NoReceipt, Receipts, Nothing
<1>3. FilesOK /\ HasWork
  BY <1>1, <1>2 DEF Init, FilesOK, HasWork
<1>4. LoopsOK /\ FlagsOK /\ HistoryOK
  BY DEF Init, LoopsOK, FlagsOK, HistoryOK
<1>. QED
  BY <1>3, <1>4 DEF TypeOK

LEMMA FilesPlan ==
  FilesOK /\ (PlanApply \/ BeginApply \/ PlanRestore \/ BeginRestore \/ Edit \/ Crash)
     => FilesOK'
<1> SUFFICES ASSUME FilesOK, PlanApply \/ BeginApply \/ PlanRestore
                             \/ BeginRestore \/ Edit \/ Crash
             PROVE  FilesOK'
  OBVIOUS
<1>1. CASE PlanApply
  <2>1. plan' \in Plans
    BY <1>1, ReviewedType DEF PlanApply, FilesOK
  <2>. QED
    BY <1>1, <2>1 DEF PlanApply, FilesOK
<1>2. CASE BeginApply
  BY <1>2 DEF BeginApply, FilesOK
<1>3. CASE PlanRestore
  BY <1>3, ReconciledType DEF PlanRestore, FilesOK
<1>4. CASE BeginRestore
  <2>1. UNCHANGED <<target, stage, backup, receipt, plan, journal>>
    BY <1>4 DEF BeginRestore
  <2>. QED
    BY <2>1 DEF FilesOK
<1>5. CASE Edit
  BY <1>5 DEF Edit, FilesOK
<1>6. CASE Crash
  BY <1>6 DEF Crash, FilesOK
<1>. QED
  BY <1>1, <1>2, <1>3, <1>4, <1>5, <1>6

LEMMA FilesForward == FilesOK /\ LoopsOK /\ Forwards => FilesOK'
<1> SUFFICES ASSUME FilesOK, LoopsOK, Forwards PROVE FilesOK'
  OBVIOUS
<1>. plan \in Plans /\ journal \in Receipts /\ todo \subseteq Paths
  BY RequiredPaths DEF FilesOK, LoopsOK
<1>1. CASE Prepare
  <2>. DEFINE prepared == [state |-> "prepared", orig |-> Snapshot(plan),
                           moved |-> {}, applied |-> {}]
  <2>1. prepared \in Receipts /\ Written(prepared) \in [Plans -> Receipts]
    BY SnapshotType, WrittenType DEF FilesOK
  <2>2. /\ receipt' \in {receipt, Written(prepared)} /\ journal' \in {journal, prepared}
        /\ UNCHANGED <<target, stage, backup, plan>>
    BY <1>1 DEF Prepare, MayBeWritten
  <2>. HIDE DEF prepared
  <2>. QED
    BY <2>1, <2>2 DEF FilesOK
<1>2. CASE Start
  <2>. DEFINE applying == [journal EXCEPT !.state = "applying"]
  <2>1. applying \in Receipts /\ Written(applying) \in [Plans -> Receipts]
    BY StateTypes, WrittenType DEF FilesOK
  <2>2. /\ receipt' \in {receipt, Written(applying)} /\ journal' = applying
        /\ UNCHANGED <<target, stage, backup, plan>>
    BY <1>2 DEF Start, MayBeWritten
  <2>. HIDE DEF applying
  <2>. QED
    BY <2>1, <2>2 DEF FilesOK
<1>3. CASE Stage
  BY <1>3 DEF Stage, FilesOK
<1>4. CASE Fill
  BY <1>4 DEF Fill, FilesOK
<1>5. CASE Move
  <2>1. PICK p \in todo : Move!(p)
    BY <1>5 DEF Move
  <2>2. /\ \/ UNCHANGED <<target, backup>>
           \/ /\ target' = [target EXCEPT ![p] = "absent"]
              /\ backup' = [backup EXCEPT ![<<plan, p>>] = target[p]]
        /\ journal' \in {journal, [journal EXCEPT !.moved = @ \cup {p}]}
        /\ UNCHANGED <<stage, receipt, plan>>
    BY <2>1
  <2>3. /\ [target EXCEPT ![p] = "absent"] \in [Paths -> Contents]
        /\ [backup EXCEPT ![<<plan, p>>] = target[p]] \in [Plans \X Paths -> Contents]
        /\ [journal EXCEPT !.moved = @ \cup {p}] \in Receipts
    BY PlaceTypes, JournalTypes DEF FilesOK
  <2>. QED
    BY <2>2, <2>3 DEF FilesOK
<1>6. CASE NoteMoved
  BY <1>6, WrittenType DEF NoteMoved, MayBeWritten, FilesOK
<1>7. CASE Publish
  <2>1. PICK p \in todo : Publish!(p)
    BY <1>7 DEF Publish
  <2>2. /\ \/ UNCHANGED <<target, stage>>
           \/ /\ target' = [target EXCEPT ![p] = Desired(p)]
              /\ stage' = [stage EXCEPT ![<<plan, p>>] = "absent"]
        /\ journal' \in {journal, [journal EXCEPT !.applied = @ \cup {p}]}
        /\ UNCHANGED <<backup, receipt, plan>>
    BY <2>1
  <2>3. /\ [target EXCEPT ![p] = Desired(p)] \in [Paths -> Contents]
        /\ [stage EXCEPT ![<<plan, p>>] = "absent"] \in [Plans \X Paths -> Staged]
        /\ [journal EXCEPT !.applied = @ \cup {p}] \in Receipts
    BY PlaceTypes, DesiredType, JournalTypes DEF FilesOK
  <2>. QED
    BY <2>2, <2>3 DEF FilesOK
<1>8. CASE NoteApplied
  BY <1>8, WrittenType DEF NoteApplied, MayBeWritten, FilesOK
<1>9. CASE Verify
  BY <1>9 DEF Verify, FilesOK
<1>10. CASE Commit
  <2>. DEFINE committed == [journal EXCEPT !.state = "committed"]
  <2>1. committed \in Receipts /\ Written(committed) \in [Plans -> Receipts]
    BY StateTypes, WrittenType DEF FilesOK
  <2>2. /\ receipt' \in {receipt, Written(committed)} /\ journal' = committed
        /\ UNCHANGED <<target, stage, backup, plan>>
    BY <1>10 DEF Commit, MayBeWritten
  <2>. HIDE DEF committed
  <2>. QED
    BY <2>1, <2>2 DEF FilesOK
<1>. QED
  BY <1>1, <1>2, <1>3, <1>4, <1>5, <1>6, <1>7, <1>8, <1>9, <1>10 DEF Forwards

LEMMA FilesBackward == FilesOK /\ LoopsOK /\ Backwards => FilesOK'
<1> SUFFICES ASSUME FilesOK, LoopsOK, Backwards PROVE FilesOK'
  OBVIOUS
<1>. plan \in Plans /\ journal \in Receipts /\ todo \subseteq Paths
  BY RequiredPaths DEF FilesOK, LoopsOK
<1>1. CASE BeginRollback
  <2>. DEFINE rolling == [journal EXCEPT !.state = "rolling-back"]
  <2>1. rolling \in Receipts /\ Written(rolling) \in [Plans -> Receipts]
    BY StateTypes, WrittenType DEF FilesOK
  <2>2. /\ receipt' \in {receipt, Written(rolling)} /\ journal' = rolling
        /\ UNCHANGED <<target, stage, backup, plan>>
    BY <1>1 DEF BeginRollback, MayBeWritten
  <2>. HIDE DEF rolling
  <2>. QED
    BY <2>1, <2>2 DEF FilesOK
<1>2. CASE Unstage
  BY <1>2 DEF Unstage, Unstaged, FilesOK
<1>3. CASE TakeBack
  BY <1>3 DEF TakeBack, FilesOK
<1>4. CASE PutBack
  <2>1. PICK p \in todo : PutBack!(p)
    BY <1>4 DEF PutBack
  <2>2. /\ \/ UNCHANGED <<target, backup>>
           \/ /\ target' = [target EXCEPT ![p] = backup[<<plan, p>>]]
              /\ backup' = [backup EXCEPT ![<<plan, p>>] = "absent"]
        /\ stage' \in {stage, [stage EXCEPT ![<<plan, p>>] = "absent"]}
        /\ journal' \in {journal, [journal EXCEPT !.moved = @ \ {p}, !.applied = @ \ {p}]}
        /\ UNCHANGED <<receipt, plan>>
    BY <2>1 DEF Unstaged
  <2>3. /\ [target EXCEPT ![p] = backup[<<plan, p>>]] \in [Paths -> Contents]
        /\ [backup EXCEPT ![<<plan, p>>] = "absent"] \in [Plans \X Paths -> Contents]
        /\ [stage EXCEPT ![<<plan, p>>] = "absent"] \in [Plans \X Paths -> Staged]
        /\ [journal EXCEPT !.moved = @ \ {p}, !.applied = @ \ {p}] \in Receipts
    BY PlaceTypes, JournalTypes DEF FilesOK
  <2>. QED
    BY <2>2, <2>3 DEF FilesOK
<1>5. CASE NoteUndone
  BY <1>5, WrittenType DEF NoteUndone, MayBeWritten, FilesOK
<1>6. CASE Finish
  <2>. DEFINE rolledBack == [journal EXCEPT !.state = "rolled-back"]
  <2>1. rolledBack \in Receipts /\ Written(rolledBack) \in [Plans -> Receipts]
    BY StateTypes, WrittenType DEF FilesOK
  <2>2. /\ receipt' \in {receipt, Written(rolledBack)}
        /\ UNCHANGED <<target, stage, backup, plan, journal>>
    BY <1>6 DEF Finish, MayBeWritten
  <2>. HIDE DEF rolledBack
  <2>. QED
    BY <2>1, <2>2 DEF FilesOK
<1>. QED
  BY <1>1, <1>2, <1>3, <1>4, <1>5, <1>6 DEF Backwards

LEMMA HistoryPlan ==
  FilesOK /\ HistoryOK
  /\ (PlanApply \/ BeginApply \/ PlanRestore \/ BeginRestore \/ Edit \/ Crash)
     => HistoryOK'
<1> SUFFICES ASSUME FilesOK, HistoryOK,
                    PlanApply \/ BeginApply \/ PlanRestore \/ BeginRestore
                    \/ Edit \/ Crash
             PROVE  HistoryOK'
  OBVIOUS
<1>. USE BoundsAssumption DEF HistoryOK
<1>1. CASE PlanApply
  BY <1>1 DEF PlanApply
<1>2. CASE BeginApply
  BY <1>2 DEF BeginApply
<1>3. CASE PlanRestore
  BY <1>3 DEF PlanRestore
<1>4. CASE BeginRestore
  <2>1. plan.sel \subseteq Paths
    BY RequiredPaths DEF FilesOK
  <2>2. /\ restores' = restores + 1 /\ slipped' = slipped \ plan.sel
        /\ reopened' \in {reopened, reopened \cup plan.sel}
        /\ result' \in {result, "failed", "restored"}
        /\ faults' \in {faults, faults + 1}
        /\ UNCHANGED <<owner, applies, edits>>
    BY <1>4 DEF BeginRestore
  <2>. QED
    BY <2>1, <2>2
<1>5. CASE Edit
  BY <1>5 DEF Edit
<1>6. CASE Crash
  BY <1>6 DEF Crash
<1>. QED
  BY <1>1, <1>2, <1>3, <1>4, <1>5, <1>6

(* What a step of a command does to the history variables.                   *)
LEMMA StepHistory ==
  ASSUME Step
  PROVE  /\ faults' \in {faults, faults + 1}
         /\ result' \in {result} \cup Answers
         /\ touched' \in {touched, touched \ plan.sel}
         /\ \/ UNCHANGED slipped \/ \E p \in todo : slipped' = slipped \cup {p}
         /\ UNCHANGED <<held, reopened, Bounds>>
<1>1. CASE Prepare
  BY <1>1 DEF Prepare
<1>2. CASE Start
  BY <1>2 DEF Start
<1>3. CASE Stage
  BY <1>3 DEF Stage
<1>4. CASE Fill
  BY <1>4 DEF Fill
<1>5. CASE Move
  BY <1>5 DEF Move
<1>6. CASE NoteMoved
  BY <1>6 DEF NoteMoved
<1>7. CASE Publish
  BY <1>7 DEF Publish
<1>8. CASE NoteApplied
  BY <1>8 DEF NoteApplied, NextAction
<1>9. CASE Verify
  BY <1>9 DEF Verify
<1>10. CASE Commit
  BY <1>10 DEF Commit
<1>11. CASE BeginRollback
  BY <1>11 DEF BeginRollback
<1>12. CASE Unstage
  BY <1>12 DEF Unstage
<1>13. CASE TakeBack
  BY <1>13 DEF TakeBack
<1>14. CASE PutBack
  BY <1>14 DEF PutBack
<1>15. CASE NoteUndone
  BY <1>15 DEF NoteUndone
<1>16. CASE Finish
  BY <1>16 DEF Finish
<1>. QED
  BY <1>1, <1>2, <1>3, <1>4, <1>5, <1>6, <1>7, <1>8, <1>9, <1>10, <1>11, <1>12,
     <1>13, <1>14, <1>15, <1>16 DEF Step, Forwards, Backwards

LEMMA HistoryStep == FilesOK /\ LoopsOK /\ HistoryOK /\ Step => HistoryOK'
<1> SUFFICES ASSUME FilesOK, LoopsOK, HistoryOK, Step PROVE HistoryOK'
  OBVIOUS
<1>. plan.sel \subseteq Paths /\ todo \subseteq Paths
  BY RequiredPaths DEF FilesOK, LoopsOK
<1>. QED
  BY StepHistory, BoundsAssumption DEF HistoryOK

LEMMA FlagsNext == FlagsOK /\ Next => FlagsOK'
<1> SUFFICES ASSUME FlagsOK, Next PROVE FlagsOK'
  OBVIOUS
<1>. USE DEF FlagsOK
<1>1. CASE PlanApply
  BY <1>1 DEF PlanApply
<1>2. CASE BeginApply
  BY <1>2 DEF BeginApply
<1>3. CASE PlanRestore
  BY <1>3 DEF PlanRestore
<1>4. CASE BeginRestore
  BY <1>4 DEF BeginRestore
<1>5. CASE Edit
  BY <1>5 DEF Edit
<1>6. CASE Crash
  BY <1>6 DEF Crash
<1>7. CASE Prepare
  BY <1>7 DEF Prepare
<1>8. CASE Start
  BY <1>8 DEF Start
<1>9. CASE Stage
  BY <1>9 DEF Stage
<1>10. CASE Fill
  BY <1>10 DEF Fill
<1>11. CASE Move
  BY <1>11 DEF Move
<1>12. CASE NoteMoved
  BY <1>12 DEF NoteMoved
<1>13. CASE Publish
  BY <1>13 DEF Publish
<1>14. CASE NoteApplied
  BY <1>14 DEF NoteApplied, NextAction
<1>15. CASE Verify
  BY <1>15 DEF Verify
<1>16. CASE Commit
  BY <1>16 DEF Commit
<1>17. CASE BeginRollback
  BY <1>17 DEF BeginRollback
<1>18. CASE Unstage
  BY <1>18 DEF Unstage
<1>19. CASE TakeBack
  BY <1>19 DEF TakeBack
<1>20. CASE PutBack
  BY <1>20 DEF PutBack
<1>21. CASE NoteUndone
  BY <1>21 DEF NoteUndone
<1>22. CASE Finish
  BY <1>22 DEF Finish
<1>. QED
  BY <1>1, <1>2, <1>3, <1>4, <1>5, <1>6, <1>7, <1>8, <1>9, <1>10, <1>11,
     <1>12, <1>13, <1>14, <1>15, <1>16, <1>17, <1>18, <1>19, <1>20, <1>21,
     <1>22
     DEF Next, Step, Forwards, Backwards

(* A step works on its own plan's receipt only.                              *)
LEMMA StepReceipts ==
  ASSUME FilesOK, Step
  PROVE  /\ UNCHANGED plan /\ pc \in ApplySteps \cup UndoSteps
         /\ \A q \in Plans : q # plan => receipt'[q] = receipt[q]
<1>1. /\ UNCHANGED plan /\ pc \in ApplySteps \cup UndoSteps
      /\ UNCHANGED receipt \/ \E j : receipt' = Written(j)
  <2>1. CASE Prepare
    BY <2>1 DEF Prepare, MayBeWritten
  <2>2. CASE Start
    BY <2>2 DEF Start, MayBeWritten
  <2>3. CASE Stage
    BY <2>3 DEF Stage
  <2>4. CASE Fill
    BY <2>4 DEF Fill
  <2>5. CASE Move
    BY <2>5 DEF Move
  <2>6. CASE NoteMoved
    BY <2>6 DEF NoteMoved, MayBeWritten
  <2>7. CASE Publish
    BY <2>7 DEF Publish
  <2>8. CASE NoteApplied
    BY <2>8 DEF NoteApplied, MayBeWritten
  <2>9. CASE Verify
    BY <2>9 DEF Verify
  <2>10. CASE Commit
    BY <2>10 DEF Commit, MayBeWritten
  <2>11. CASE BeginRollback
    BY <2>11 DEF BeginRollback, MayBeWritten
  <2>12. CASE Unstage
    BY <2>12 DEF Unstage
  <2>13. CASE TakeBack
    BY <2>13 DEF TakeBack
  <2>14. CASE PutBack
    BY <2>14 DEF PutBack
  <2>15. CASE NoteUndone
    BY <2>15 DEF NoteUndone, MayBeWritten
  <2>16. CASE Finish
    BY <2>16 DEF Finish, MayBeWritten
  <2>. QED
    BY <2>1, <2>2, <2>3, <2>4, <2>5, <2>6, <2>7, <2>8, <2>9, <2>10, <2>11, <2>12,
       <2>13, <2>14, <2>15, <2>16 DEF Step, Forwards, Backwards
<1>2. \A j, q : q \in Plans /\ q # plan => Written(j)[q] = receipt[q]
  BY DEF Written, FilesOK
<1>. QED
  BY <1>1, <1>2

LEMMA WorkNext == FilesOK /\ LoopsOK /\ HasWork /\ Next => HasWork'
<1> SUFFICES ASSUME FilesOK, LoopsOK, HasWork, Next PROVE HasWork'
  OBVIOUS
<1>1. CASE Step
  <2>1. \A q \in Plans : receipt'[q].state # "none" => Required(q) # {}
    BY <1>1, StepReceipts DEF HasWork
  <2>2. plan' = plan /\ Required(plan) # {}
    BY <1>1, StepReceipts DEF HasWork
  <2>3. Required(plan')= Required(plan)
    BY <2>2
  <2>. QED
    BY <2>1, <2>2, <2>3 DEF HasWork
<1>2. CASE PlanApply
  BY <1>2 DEF PlanApply, HasWork
<1>3. CASE BeginApply
  BY <1>3 DEF BeginApply, HasWork, FilesOK
<1>4. CASE PlanRestore
  BY <1>4 DEF PlanRestore, HasWork, FilesOK
<1>5. CASE BeginRestore
  <2>1. /\ pc = "restoring" /\ UNCHANGED <<plan, receipt>>
    BY <1>5 DEF BeginRestore
  <2>. QED
    BY <2>1 DEF HasWork
<1>6. CASE Edit
  BY <1>6 DEF Edit, HasWork
<1>7. CASE Crash
  BY <1>7 DEF Crash, HasWork
<1>. QED
  BY <1>1, <1>2, <1>3, <1>4, <1>5, <1>6, <1>7 DEF Next

(* A loop goes on with the actions it has left, or its command moves on.     *)
LEMMA LoopsStep == FilesOK /\ LoopsOK /\ HasWork /\ Step => LoopsOK'
<1> SUFFICES ASSUME FilesOK, LoopsOK, HasWork, Step PROVE LoopsOK'
  OBVIOUS
<1>1. \/ /\ pc' \in {"idle", "start", "verify", "commit", "rollback", "finish"}
         /\ todo' = {} \/ (UNCHANGED todo /\ pc \notin Forward \cup Backward)
      \/ /\ pc \in Forward \cup Backward /\ pc' \in Forward \cup Backward
         /\ \/ UNCHANGED todo
            \/ \E p \in todo : todo' = todo \ {p} /\ todo # {p}
      \/ pc' \in {"stage", "undo"} /\ todo' = Required(plan)
  <2>1. CASE Prepare
    BY <2>1 DEF Prepare
  <2>2. CASE Start
    BY <2>2 DEF Start
  <2>3. CASE Stage
    BY <2>3 DEF Stage
  <2>4. CASE Fill
    BY <2>4 DEF Fill
  <2>5. CASE Move
    BY <2>5 DEF Move
  <2>6. CASE NoteMoved
    BY <2>6 DEF NoteMoved
  <2>7. CASE Publish
    BY <2>7 DEF Publish
  <2>8. CASE NoteApplied
    BY <2>8 DEF NoteApplied, NextAction
  <2>9. CASE Verify
    BY <2>9 DEF Verify
  <2>10. CASE Commit
    BY <2>10 DEF Commit
  <2>11. CASE BeginRollback
    BY <2>11 DEF BeginRollback
  <2>12. CASE Unstage
    BY <2>12 DEF Unstage, NextUndo
  <2>13. CASE TakeBack
    BY <2>13 DEF TakeBack, NextUndo
  <2>14. CASE PutBack
    BY <2>14 DEF PutBack, NextUndo
  <2>15. CASE NoteUndone
    BY <2>15 DEF NoteUndone, NextUndo
  <2>16. CASE Finish
    BY <2>16 DEF Finish
  <2>. QED
    BY <2>1, <2>2, <2>3, <2>4, <2>5, <2>6, <2>7, <2>8, <2>9, <2>10, <2>11,
       <2>12, <2>13, <2>14, <2>15, <2>16 DEF Step, Forwards, Backwards
<1>2. plan' = plan /\ Required(plan) # {}
  BY StepReceipts DEF HasWork
<1>3. Required(plan') = Required(plan)
  BY <1>2
<1>4. todo' \in SUBSET Required(plan)
  BY <1>1 DEF LoopsOK
<1>5. IF pc' \in Forward \cup Backward THEN todo' # {} ELSE todo' = {}
  BY <1>1, <1>2 DEF LoopsOK
<1>6. pc' \in {"idle"} \cup ApplySteps \cup UndoSteps
  BY <1>1
<1>. QED
  BY <1>3, <1>4, <1>5, <1>6 DEF LoopsOK

LEMMA LoopsPlan ==
  LoopsOK /\ (PlanApply \/ BeginApply \/ PlanRestore \/ BeginRestore \/ Edit \/ Crash)
     => LoopsOK'
<1> SUFFICES ASSUME LoopsOK, PlanApply \/ BeginApply \/ PlanRestore
                             \/ BeginRestore \/ Edit \/ Crash
             PROVE  LoopsOK'
  OBVIOUS
<1>1. \/ UNCHANGED <<pc, plan, todo>>
      \/ /\ pc' \in {"idle", "planned", "restoring", "prepare", "rollback"}
         /\ todo' = {} \/ (UNCHANGED todo /\ pc \in {"idle", "planned", "restoring"})
  <2>1. CASE PlanApply
    BY <2>1 DEF PlanApply
  <2>2. CASE BeginApply
    BY <2>2 DEF BeginApply
  <2>3. CASE PlanRestore
    BY <2>3 DEF PlanRestore
  <2>4. CASE BeginRestore
    BY <2>4 DEF BeginRestore
  <2>5. CASE Edit
    BY <2>5 DEF Edit
  <2>6. CASE Crash
    BY <2>6 DEF Crash
  <2>. QED
    BY <2>1, <2>2, <2>3, <2>4, <2>5, <2>6
<1>. QED
  BY <1>1 DEF LoopsOK

LEMMA TypeNext == TypeOK /\ HasWork /\ [Next]_vars => TypeOK' /\ HasWork'
<1> SUFFICES ASSUME TypeOK, HasWork, [Next]_vars PROVE TypeOK' /\ HasWork'
  OBVIOUS
<1>1. CASE UNCHANGED vars
  BY <1>1 DEF vars, TypeOK, FilesOK, LoopsOK, FlagsOK, HistoryOK, HasWork
<1>2. CASE Next
  <2>1. FilesOK /\ LoopsOK /\ FlagsOK /\ HistoryOK
    BY DEF TypeOK
  <2>2. FlagsOK' /\ HasWork'
    BY <1>2, <2>1, FlagsNext, WorkNext
  <2>3. CASE Step
    BY <2>1, <2>2, <2>3, FilesForward, FilesBackward, LoopsStep, HistoryStep
    DEF Step, TypeOK
  <2>4. CASE ~Step
    BY <1>2, <2>1, <2>2, <2>4, FilesPlan, LoopsPlan, HistoryPlan DEF Next, TypeOK
  <2>. QED
    BY <2>3, <2>4
<1>. QED
  BY <1>1, <1>2

(* Every variable keeps to its set, and a command has always work to do.     *)
THEOREM TypeCorrect == Spec => [](TypeOK /\ HasWork)
<1>. QED
  BY TypeInit, TypeNext, PTL DEF Spec

-----------------------------------------------------------------------------
(* The owner's content is never lost.                                        *)

(* Once prepared, a transaction has a receipt.                               *)
Recorded ==
  pc \in {"restoring"} \cup (ApplySteps \ {"prepare"}) \cup UndoSteps =>
     journal.state # "none" /\ receipt[plan].state # "none"

(* No backup is in the way of an original that is still to be moved.         *)
FreeBackup(p) == journal.orig[p] # "absent" => backup[<<plan, p>>] = "absent"

Room ==
  /\ pc = "start" => \A p \in Required(plan) : FreeBackup(p)
  /\ pc \in {"stage", "fill", "move"} => \A p \in todo : FreeBackup(p)
  /\ pc \in {"notemoved", "publish", "noteapplied"} =>
        \A p \in todo : First(p) \/ FreeBackup(p)

LEMMA StepRecords ==
  ASSUME FilesOK, Recorded, Step
  PROVE  /\ Recorded'
         /\ \A q \in Plans : receipt[q].state # "none" => receipt'[q].state # "none"
<1>. journal \in Receipts /\ plan \in Plans
  BY DEF FilesOK
<1>1. \A s \in States : [journal EXCEPT !.state = s].state = s
  BY StateTypes
<1>2. \A p : /\ [journal EXCEPT !.moved = @ \cup {p}].state = journal.state
             /\ [journal EXCEPT !.applied = @ \cup {p}].state = journal.state
             /\ [journal EXCEPT !.moved = @ \ {p}, !.applied = @ \ {p}].state = journal.state
  BY DEF Receipts
<1>3. /\ plan' = plan
      /\ UNCHANGED receipt \/ \E j : j.state # "none" /\ receipt' = Written(j)
      /\ pc = "prepare" /\ pc' # "idle" =>
            \E j : j.state # "none" /\ receipt' = Written(j)
      /\ pc' = "idle" \/ journal'.state # "none"
      /\ pc \in ApplySteps \cup UndoSteps
  <2>1. CASE Prepare
    BY <2>1 DEF Prepare, MayBeWritten
  <2>2. CASE Start
    BY <1>1, <1>2, <2>2 DEF Start, Recorded, MayBeWritten
  <2>3. CASE Stage
    BY <1>1, <1>2, <2>3 DEF Stage, Recorded
  <2>4. CASE Fill
    BY <1>1, <1>2, <2>4 DEF Fill, Recorded
  <2>5. CASE Move
    BY <1>1, <1>2, <2>5 DEF Move, Recorded
  <2>6. CASE NoteMoved
    BY <1>1, <1>2, <2>6 DEF NoteMoved, Recorded, MayBeWritten
  <2>7. CASE Publish
    BY <1>1, <1>2, <2>7 DEF Publish, Recorded
  <2>8. CASE NoteApplied
    BY <1>1, <1>2, <2>8 DEF NoteApplied, Recorded, MayBeWritten
  <2>9. CASE Verify
    BY <1>1, <1>2, <2>9 DEF Verify, Recorded
  <2>10. CASE Commit
    BY <1>1, <1>2, <2>10 DEF Commit, Recorded, MayBeWritten
  <2>11. CASE BeginRollback
    BY <1>1, <1>2, <2>11 DEF BeginRollback, Recorded, MayBeWritten
  <2>12. CASE Unstage
    BY <1>1, <1>2, <2>12 DEF Unstage, Recorded
  <2>13. CASE TakeBack
    BY <1>1, <1>2, <2>13 DEF TakeBack, Recorded
  <2>14. CASE PutBack
    BY <1>1, <1>2, <2>14 DEF PutBack, Recorded
  <2>15. CASE NoteUndone
    BY <1>1, <1>2, <2>15 DEF NoteUndone, Recorded, MayBeWritten
  <2>16. CASE Finish
    BY <1>1, <1>2, <2>16 DEF Finish, Recorded, MayBeWritten
  <2>. QED
    BY <2>1, <2>2, <2>3, <2>4, <2>5, <2>6, <2>7, <2>8, <2>9, <2>10, <2>11,
       <2>12, <2>13, <2>14, <2>15, <2>16 DEF Step, Forwards, Backwards
<1>4. \A j : /\ Written(j)[plan] = j
             /\ \A q \in Plans : q # plan => Written(j)[q] = receipt[q]
  BY DEF Written, FilesOK
<1>5. \A q \in Plans : receipt[q].state # "none" => receipt'[q].state # "none"
  BY <1>3, <1>4
<1>6. pc' # "idle" => receipt'[plan].state # "none"
  BY <1>3, <1>4, <1>5 DEF Recorded
<1>. QED
  BY <1>3, <1>5, <1>6 DEF Recorded

LEMMA RecordedNext == FilesOK /\ Recorded /\ [Next]_vars => Recorded'
<1> SUFFICES ASSUME FilesOK, Recorded, [Next]_vars PROVE Recorded'
  OBVIOUS
<1>1. CASE Step
  BY <1>1, StepRecords
<1>2. CASE PlanApply
  BY <1>2 DEF PlanApply, Recorded
<1>3. CASE BeginApply
  BY <1>3 DEF BeginApply, Recorded
<1>4. CASE PlanRestore
  <2>1. PICK q \in Plans : /\ receipt[q].state # "none" /\ plan' = q /\ receipt' = receipt
                           /\ \/ journal' = Reconciled(q) /\ pc' = "restoring"
                              \/ pc' = "idle"
    BY <1>4 DEF PlanRestore
  <2>. QED
    BY <2>1, ReconciledType DEF Recorded, FilesOK
<1>5. CASE BeginRestore
  <2>1. pc = "restoring" /\ UNCHANGED <<plan, receipt, journal>>
    BY <1>5 DEF BeginRestore
  <2>. QED
    BY <2>1 DEF Recorded
<1>6. CASE Edit
  BY <1>6 DEF Edit, Recorded
<1>7. CASE Crash
  BY <1>7 DEF Crash, Recorded
<1>8. CASE UNCHANGED vars
  BY <1>8 DEF vars, Recorded
<1>. QED
  BY <1>1, <1>2, <1>3, <1>4, <1>5, <1>6, <1>7, <1>8 DEF Next

LEMMA RoomForward == FilesOK /\ LoopsOK /\ Room /\ Forwards => Room'
<1> SUFFICES ASSUME FilesOK, LoopsOK, Room, Forwards PROVE Room'
  OBVIOUS
<1>. todo \subseteq Paths /\ Required(plan) \subseteq Paths /\ plan \in Plans
     /\ Required(plan) \subseteq plan.sel
  BY RequiredPaths DEF FilesOK, LoopsOK
<1>1. CASE Prepare
  <2>1. /\ plan' = plan /\ backup' = backup
        /\ \/ pc' = "idle"
           \/ pc' = "start" /\ ~Leftover(plan) /\ journal'.orig = Snapshot(plan)
    BY <1>1 DEF Prepare
  <2>2. ~Leftover(plan) => \A p \in Required(plan) :
           Snapshot(plan)[p] # "absent" => backup[<<plan, p>>] = "absent"
    BY DEF Leftover, Snapshot
  <2>3. Required(plan') = Required(plan)
    BY <2>1
  <2>. QED
    BY <2>1, <2>2, <2>3 DEF Room, FreeBackup
<1>2. CASE Start
  <2>1. /\ plan' = plan /\ backup' = backup /\ pc = "start"
        /\ pc' = "idle" \/ (pc' = "stage" /\ todo' = Required(plan))
        /\ journal' = [journal EXCEPT !.state = "applying"]
    BY <1>2 DEF Start
  <2>2. journal'.orig = journal.orig
    BY <2>1 DEF FilesOK, Receipts
  <2>. QED
    BY <2>1, <2>2 DEF Room, FreeBackup
<1>3. CASE Stage
  BY <1>3 DEF Stage, Room, FreeBackup
<1>4. CASE Fill
  BY <1>4 DEF Fill, Room, FreeBackup
<1>5. CASE Move
  <2>1. PICK p \in todo : Move!(p)
    BY <1>5 DEF Move
  <2>2. \/ pc' = "rollback"
        \/ pc' = "publish" /\ UNCHANGED <<backup, journal, todo, plan>>
        \/ /\ pc' = "notemoved" /\ UNCHANGED <<todo, plan>>
           /\ backup' = [backup EXCEPT ![<<plan, p>>] = target[p]]
           /\ journal' = [journal EXCEPT !.moved = @ \cup {p}]
    BY <2>1
  <2>3. pc = "move" /\ First(p)
    BY <2>1
  <2>4. CASE pc' = "publish"
    BY <2>2, <2>3, <2>4 DEF Room, FreeBackup
  <2>5. CASE pc' = "notemoved"
    <3>1. journal'.orig = journal.orig
      BY <2>2, <2>5 DEF FilesOK, Receipts
    <3>2. \A q \in todo : q # p => backup'[<<plan, q>>] = backup[<<plan, q>>]
      BY <2>2, <2>5 DEF FilesOK
    <3>3. First(p)'
      BY <2>2, <2>3, <2>5 DEF First
    <3>. QED
      BY <2>2, <2>3, <2>5, <3>1, <3>2, <3>3 DEF Room, FreeBackup
  <2>. QED
    BY <2>2, <2>4, <2>5 DEF Room
<1>6. CASE NoteMoved
  BY <1>6 DEF NoteMoved, Room, FreeBackup, First
<1>7. CASE Publish
  <2>1. PICK p \in todo : Publish!(p)
    BY <1>7 DEF Publish
  <2>2. \/ pc' = "rollback"
        \/ /\ pc' = "noteapplied" /\ UNCHANGED <<backup, todo, plan>>
           /\ journal' = [journal EXCEPT !.applied = @ \cup {p}]
    BY <2>1
  <2>3. pc' = "noteapplied" => journal'.orig = journal.orig
    BY <2>2 DEF FilesOK, Receipts
  <2>4. pc = "publish"
    BY <2>1
  <2>. QED
    BY <2>2, <2>3, <2>4 DEF Room, FreeBackup, First
<1>8. CASE NoteApplied
  <2>1. PICK p \in todo : NoteApplied!(p)
    BY <1>8 DEF NoteApplied
  <2>2. /\ pc = "noteapplied" /\ First(p) /\ UNCHANGED <<backup, journal, plan>>
        /\ \/ pc' \in {"rollback", "verify"}
           \/ pc' = "stage" /\ todo' = todo \ {p}
    BY <2>1 DEF NextAction
  <2>3. \A q \in todo : q # p => ~First(q)
    BY <2>2, PathsAssumption DEF First
  <2>. QED
    BY <2>2, <2>3 DEF Room, FreeBackup
<1>9. CASE Verify
  BY <1>9 DEF Verify, Room
<1>10. CASE Commit
  BY <1>10 DEF Commit, Room
<1>. QED
  BY <1>1, <1>2, <1>3, <1>4, <1>5, <1>6, <1>7, <1>8, <1>9, <1>10 DEF Forwards

LEMMA RoomNext == FilesOK /\ LoopsOK /\ Room /\ [Next]_vars => Room'
<1> SUFFICES ASSUME FilesOK, LoopsOK, Room, [Next]_vars PROVE Room'
  OBVIOUS
<1>1. CASE Forwards
  BY <1>1, RoomForward
<1>2. CASE Backwards
  <2>1. pc' \in {"idle", "finish"} \cup Backward
    <3>1. CASE BeginRollback
      BY <3>1 DEF BeginRollback
    <3>2. CASE Unstage
      BY <3>2 DEF Unstage, NextUndo
    <3>3. CASE TakeBack
      BY <3>3 DEF TakeBack, NextUndo
    <3>4. CASE PutBack
      BY <3>4 DEF PutBack, NextUndo
    <3>5. CASE NoteUndone
      BY <3>5 DEF NoteUndone, NextUndo
    <3>6. CASE Finish
      BY <3>6 DEF Finish
    <3>. QED
      BY <1>2, <3>1, <3>2, <3>3, <3>4, <3>5, <3>6 DEF Backwards
  <2>. QED
    BY <2>1 DEF Room
<1>3. CASE PlanApply \/ BeginApply \/ PlanRestore \/ BeginRestore \/ Crash
  <2>1. pc' \in {"idle", "planned", "prepare", "restoring", "rollback"}
    BY <1>3 DEF PlanApply, BeginApply, PlanRestore, BeginRestore, Crash
  <2>. QED
    BY <2>1 DEF Room
<1>4. CASE Edit
  BY <1>4 DEF Edit, Room, FreeBackup, First
<1>5. CASE UNCHANGED vars
  BY <1>5 DEF vars, Room, FreeBackup, First
<1>. QED
  BY <1>1, <1>2, <1>3, <1>4, <1>5 DEF Next, Step

LEMMA KeptMove ==
  FilesOK /\ LoopsOK /\ HistoryOK /\ Recorded /\ Room /\ ContentKept /\ Move => ContentKept'
<1> SUFFICES ASSUME FilesOK, LoopsOK, HistoryOK, Recorded, Room, ContentKept, Move
             PROVE  ContentKept'
  OBVIOUS
<1>1. PICK p \in todo : Move!(p)
  BY DEF Move
<1>2. plan \in Plans /\ p \in Paths /\ UNCHANGED <<receipt, held>>
      /\ receipt[plan].state # "none" /\ FreeBackup(p)
  BY <1>1, RequiredPaths DEF FilesOK, LoopsOK, Recorded, Room
<1>3. CASE UNCHANGED <<target, backup>>
  BY <1>2, <1>3 DEF ContentKept
<1>4. CASE /\ target' = [target EXCEPT ![p] = "absent"]
           /\ backup' = [backup EXCEPT ![<<plan, p>>] = target[p]]
           /\ journal.orig[p] # "absent"
  <2>1. /\ \A q \in Paths : q # p =>
              target'[q] = target[q] /\ \A r \in Plans : backup'[<<r, q>>] = backup[<<r, q>>]
        /\ \A r \in Plans : r # plan => backup'[<<r, p>>] = backup[<<r, p>>]
        /\ backup'[<<plan, p>>] = target[p]
    BY <1>2, <1>4 DEF FilesOK
  <2>2. backup[<<plan, p>>] = "absent"
    BY <1>2, <1>4 DEF FreeBackup
  <2>3. ASSUME held[p] # "absent"
        PROVE  \E q \in Plans : backup'[<<q, p>>] = held[p] /\ receipt[q].state # "none"
    <3>1. CASE target[p] = held[p]
      BY <1>2, <2>1, <3>1
    <3>2. CASE \E q \in Plans : backup[<<q, p>>] = held[p] /\ receipt[q].state # "none"
      BY <2>1, <2>2, <2>3, <3>2
    <3>. QED
      BY <1>2, <2>3, <3>1, <3>2 DEF ContentKept
  <2>. QED
    BY <1>2, <2>1, <2>3 DEF ContentKept
<1>. QED
  BY <1>1, <1>3, <1>4

LEMMA KeptPublish == FilesOK /\ LoopsOK /\ ContentKept /\ Publish => ContentKept'
<1> SUFFICES ASSUME FilesOK, LoopsOK, ContentKept, Publish PROVE ContentKept'
  OBVIOUS
<1>1. PICK p \in todo : Publish!(p)
  BY DEF Publish
<1>2. p \in Paths /\ UNCHANGED <<backup, receipt, held>>
  BY <1>1, RequiredPaths DEF FilesOK, LoopsOK
<1>3. \/ target' = target
      \/ target[p] = "absent" /\ target' = [target EXCEPT ![p] = Desired(p)]
  BY <1>1
<1>4. \A q \in Paths : held[q] # "absent" /\ target[q] = held[q] => target'[q] = target[q]
  BY <1>2, <1>3 DEF FilesOK
<1>. QED
  BY <1>2, <1>4 DEF ContentKept

LEMMA KeptTakeBack ==
  FilesOK /\ LoopsOK /\ HistoryOK /\ ContentKept /\ TakeBack => ContentKept'
<1> SUFFICES ASSUME FilesOK, LoopsOK, HistoryOK, ContentKept, TakeBack PROVE ContentKept'
  OBVIOUS
<1>1. PICK p \in todo : TakeBack!(p)
  BY DEF TakeBack
<1>2. p \in Paths /\ UNCHANGED <<backup, receipt, held>>
  BY <1>1, RequiredPaths DEF FilesOK, LoopsOK
<1>3. \/ target' = target
      \/ target[p] = Desired(p) /\ target' = [target EXCEPT ![p] = "absent"]
  BY <1>1
<1>4. Desired(p) \in {"absent", "desired"} /\ held[p] \in {"absent", "original", "other"}
  BY <1>2, DesiredType DEF HistoryOK
<1>5. \A q \in Paths : held[q] # "absent" /\ target[q] = held[q] => target'[q] = target[q]
  BY <1>2, <1>3, <1>4 DEF FilesOK
<1>. QED
  BY <1>2, <1>5 DEF ContentKept

LEMMA KeptPutBack == FilesOK /\ LoopsOK /\ ContentKept /\ PutBack => ContentKept'
<1> SUFFICES ASSUME FilesOK, LoopsOK, ContentKept, PutBack PROVE ContentKept'
  OBVIOUS
<1>1. PICK p \in todo : PutBack!(p)
  BY DEF PutBack
<1>2. plan \in Plans /\ p \in Paths /\ UNCHANGED <<receipt, held>>
  BY <1>1, RequiredPaths DEF FilesOK, LoopsOK
<1>3. \/ UNCHANGED <<target, backup>>
      \/ /\ target' = [target EXCEPT ![p] = backup[<<plan, p>>]]
         /\ backup' = [backup EXCEPT ![<<plan, p>>] = "absent"]
         /\ target[p] = "absent"
  BY <1>1 DEF CanPutBack
<1>4. CASE UNCHANGED <<target, backup>>
  BY <1>2, <1>4 DEF ContentKept
<1>5. CASE /\ target' = [target EXCEPT ![p] = backup[<<plan, p>>]]
           /\ backup' = [backup EXCEPT ![<<plan, p>>] = "absent"]
           /\ target[p] = "absent"
  <2>1. /\ \A q \in Paths : q # p =>
              target'[q] = target[q] /\ \A r \in Plans : backup'[<<r, q>>] = backup[<<r, q>>]
        /\ \A r \in Plans : r # plan => backup'[<<r, p>>] = backup[<<r, p>>]
        /\ target'[p] = backup[<<plan, p>>]
    BY <1>2, <1>5 DEF FilesOK
  <2>2. ASSUME held[p] # "absent"
        PROVE  \/ target'[p] = held[p]
               \/ \E q \in Plans : backup'[<<q, p>>] = held[p] /\ receipt[q].state # "none"
    <3>1. PICK q \in Plans : backup[<<q, p>>] = held[p] /\ receipt[q].state # "none"
      BY <1>2, <1>5, <2>2 DEF ContentKept
    <3>. QED
      BY <2>1, <3>1
  <2>. QED
    BY <1>2, <2>1, <2>2 DEF ContentKept
<1>. QED
  BY <1>3, <1>4, <1>5

LEMMA KeptStep ==
  FilesOK /\ LoopsOK /\ HistoryOK /\ Recorded /\ Room /\ ContentKept /\ Step => ContentKept'
<1> SUFFICES ASSUME FilesOK, LoopsOK, HistoryOK, Recorded, Room, ContentKept, Step
             PROVE  ContentKept'
  OBVIOUS
<1>1. CASE Move \/ Publish \/ TakeBack \/ PutBack
  BY <1>1, KeptMove, KeptPublish, KeptTakeBack, KeptPutBack
<1>2. CASE ~(Move \/ Publish \/ TakeBack \/ PutBack)
  <2>1. UNCHANGED <<target, backup, held>>
    <3>1. CASE Prepare
      BY <3>1 DEF Prepare
    <3>2. CASE Start
      BY <3>2 DEF Start
    <3>3. CASE Stage
      BY <3>3 DEF Stage
    <3>4. CASE Fill
      BY <3>4 DEF Fill
    <3>5. CASE NoteMoved
      BY <3>5 DEF NoteMoved
    <3>6. CASE NoteApplied
      BY <3>6 DEF NoteApplied
    <3>7. CASE Verify
      BY <3>7 DEF Verify
    <3>8. CASE Commit
      BY <3>8 DEF Commit
    <3>9. CASE BeginRollback
      BY <3>9 DEF BeginRollback
    <3>10. CASE Unstage
      BY <3>10 DEF Unstage
    <3>11. CASE NoteUndone
      BY <3>11 DEF NoteUndone
    <3>12. CASE Finish
      BY <3>12 DEF Finish
    <3>. QED
      BY <1>2, <3>1, <3>2, <3>3, <3>4, <3>5, <3>6, <3>7, <3>8, <3>9, <3>10, <3>11,
         <3>12 DEF Step, Forwards, Backwards
  <2>2. \A q \in Plans : receipt[q].state # "none" => receipt'[q].state # "none"
    BY StepRecords
  <2>. QED
    BY <2>1, <2>2 DEF ContentKept
<1>. QED
  BY <1>1, <1>2

LEMMA KeptNext ==
  FilesOK /\ LoopsOK /\ HistoryOK /\ Recorded /\ Room /\ ContentKept /\ [Next]_vars
     => ContentKept'
<1> SUFFICES ASSUME FilesOK, LoopsOK, HistoryOK, Recorded, Room, ContentKept, [Next]_vars
             PROVE  ContentKept'
  OBVIOUS
<1>1. CASE Step
  BY <1>1, KeptStep
<1>2. CASE PlanApply \/ BeginApply \/ PlanRestore \/ BeginRestore \/ Crash
           \/ UNCHANGED vars
  <2>1. UNCHANGED <<target, backup, receipt, held>>
    BY <1>2 DEF PlanApply, BeginApply, PlanRestore, BeginRestore, Crash, vars
  <2>. QED
    BY <2>1 DEF ContentKept
<1>3. CASE Edit
  <2>1. PICK p \in Paths, c \in {"absent", "other"} :
           target' = [target EXCEPT ![p] = c] /\ held' = [held EXCEPT ![p] = c]
    BY <1>3 DEF Edit
  <2>2. UNCHANGED <<backup, receipt>>
    BY <1>3 DEF Edit
  <2>3. /\ target'[p] = c /\ held'[p] = c
        /\ \A q \in Paths : q # p => target'[q] = target[q] /\ held'[q] = held[q]
    BY <2>1 DEF FilesOK, HistoryOK
  <2>. QED
    BY <2>2, <2>3 DEF ContentKept
<1>. QED
  BY <1>1, <1>2, <1>3 DEF Next

(* Whatever was at a compiled path before the hand-off, or was put there     *)
(* since, is at that path or in a backup a receipt names: through every      *)
(* failed call, half-done rollback, crash and repeated restoration.          *)
THEOREM ContentAlwaysKept == Spec => []ContentKept
<1>. DEFINE Inv == TypeOK /\ HasWork /\ Recorded /\ Room /\ ContentKept
<1>1. Init => Inv
  <2>1. Init => Recorded /\ Room /\ ContentKept
    BY DEF Init, Recorded, Room, ContentKept
  <2>. QED
    BY <2>1, TypeInit
<1>2. Inv /\ [Next]_vars => Inv'
  <2>1. TypeOK => FilesOK /\ LoopsOK /\ HistoryOK
    BY DEF TypeOK
  <2>. QED
    BY <2>1, TypeNext, RecordedNext, RoomNext, KeptNext
<1>. QED
  BY <1>1, <1>2, PTL DEF Spec

-----------------------------------------------------------------------------
(* One transaction to be undone per path.                                    *)

(* No other transaction to be undone shares a path with the running one.     *)
Alone ==
  pc \in ApplySteps \cup UndoSteps =>
     \A r \in Active : r # plan => r.sel \cap plan.sel \subseteq reopened

LEMMA AloneNext ==
  FilesOK /\ Recorded /\ Alone /\ OneActivePerPath /\ [Next]_vars
     => Alone' /\ OneActivePerPath'
<1> SUFFICES ASSUME FilesOK, Recorded, Alone, OneActivePerPath, [Next]_vars
             PROVE  Alone' /\ OneActivePerPath'
  OBVIOUS
<1>1. CASE Step
  <2>1. /\ plan' = plan /\ reopened' = reopened /\ pc \in ApplySteps \cup UndoSteps
        /\ \A q \in Plans : q # plan => receipt'[q] = receipt[q]
    BY <1>1, StepReceipts, StepHistory
  <2>2. \A r \in Active' : r # plan => r \in Active
    BY <2>1 DEF Active
  <2>3. \A r \in Active' : r # plan => r.sel \cap plan.sel \subseteq reopened
    BY <2>1, <2>2 DEF Alone
  <2>4. \A q, r \in Active' : q # r => q.sel \cap r.sel \subseteq reopened
    BY <2>2, <2>3 DEF OneActivePerPath
  <2>. QED
    BY <2>1, <2>3, <2>4 DEF Alone, OneActivePerPath
<1>2. CASE BeginApply
  <2>1. /\ UNCHANGED <<plan, receipt, reopened>>
        /\ pc' = "idle" \/ ~Overlaps(plan)
    BY <1>2 DEF BeginApply
  <2>2. Active' = Active
    BY <2>1 DEF Active
  <2>. QED
    BY <2>1, <2>2 DEF Alone, OneActivePerPath, Overlaps
<1>3. CASE BeginRestore
  <2>1. /\ UNCHANGED <<plan, receipt>> /\ pc = "restoring"
        /\ \/ pc' = "idle" /\ reopened' = reopened
           \/ /\ pc' = "rollback" /\ Reconciled(plan) = journal
              /\ reopened' = IF journal.state = "rolled-back"
                             THEN reopened \cup plan.sel ELSE reopened
    BY <1>3 DEF BeginRestore
  <2>2. Active' = Active
    BY <2>1 DEF Active
  <2>3. reopened \subseteq reopened'
    BY <2>1
  <2>4. OneActivePerPath'
    BY <2>2, <2>3 DEF OneActivePerPath
  <2>5. CASE pc' = "rollback" /\ journal.state = "rolled-back"
    BY <2>1, <2>4, <2>5 DEF Alone
  <2>6. CASE pc' = "rollback" /\ journal.state # "rolled-back"
    <3>1. receipt[plan].state = journal.state /\ plan \in Plans
      BY <2>1, <2>6, ReconciledType DEF FilesOK
    <3>2. plan \in Active
      BY <2>1, <2>6, <3>1 DEF Active, Recorded
    <3>. QED
      BY <2>1, <2>2, <2>4, <3>2 DEF Alone, OneActivePerPath
  <2>. QED
    BY <2>1, <2>4, <2>5, <2>6 DEF Alone
<1>4. CASE PlanApply \/ PlanRestore \/ Crash
  <2>1. UNCHANGED <<receipt, reopened>> /\ pc' \in {"idle", "planned", "restoring"}
    BY <1>4 DEF PlanApply, PlanRestore, Crash
  <2>2. Active' = Active
    BY <2>1 DEF Active
  <2>. QED
    BY <2>1, <2>2 DEF Alone, OneActivePerPath
<1>5. CASE Edit \/ UNCHANGED vars
  <2>1. UNCHANGED <<receipt, reopened, pc, plan>>
    BY <1>5 DEF Edit, vars
  <2>2. Active' = Active
    BY <2>1 DEF Active
  <2>. QED
    BY <2>1, <2>2 DEF Alone, OneActivePerPath
<1>. QED
  BY <1>1, <1>2, <1>3, <1>4, <1>5 DEF Next

(* Two transactions that are still to be undone share no path, however the   *)
(* commands before them failed, unless a rolled-back receipt was restored    *)
(* again: what the overlap check promises, for every number of plans.        *)
THEOREM OneActive == Spec => []OneActivePerPath
<1>. DEFINE Inv == TypeOK /\ HasWork /\ Recorded /\ Alone /\ OneActivePerPath
<1>1. Init => Inv
  <2>1. Init => Recorded /\ Alone
    BY DEF Init, Recorded, Alone
  <2>2. NoReceipt.state = "none"
    BY DEF NoReceipt
  <2>3. Init => OneActivePerPath
    BY <2>2 DEF Init, OneActivePerPath, Active
  <2>. QED
    BY <2>1, <2>3, TypeInit
<1>2. Inv /\ [Next]_vars => Inv'
  <2>1. TypeOK => FilesOK
    BY DEF TypeOK
  <2>. QED
    BY <2>1, TypeNext, RecordedNext, AloneNext
<1>. QED
  BY <1>1, <1>2, PTL DEF Spec

-----------------------------------------------------------------------------
(* Undoing, as long as nobody else edits a path.                             *)

(* What a path of a plan is, with and without its transaction's work on it:  *)
(* as the plan saw it, moved aside, or replaced.                             *)
BackedUpOnly == \A q \in Plans : \A p \in q.sel :
    backup[<<q, p>>] \in {"absent", q.seen[p]}

OrigIsSeen == \A q \in Plans : receipt[q].state # "none" =>
    \A p \in q.sel : receipt[q].orig[p] = q.seen[p]

Same(p) == target[p] = plan.seen[p] /\ backup[<<plan, p>>] = "absent"

Clean(p) == Same(p) /\ stage[<<plan, p>>] = "absent"

Window(q, p) ==
    \/ /\ backup[<<q, p>>] = "absent"
       /\ target[p] = q.seen[p] \/ (q.seen[p] = "absent" /\ target[p] = Desired(p))
    \/ backup[<<q, p>>] # "absent" /\ target[p] \in {"absent", Desired(p)}

Sound(q) == /\ \A p \in Required(q) : Window(q, p)
            /\ \A p \in q.sel \ Required(q) : target[p] = q.seen[p]

(* Wherever a transaction to be undone was left, restoration can tell.       *)
Reconcilable == \A q \in Active : q.sel \cap reopened = {} => Sound(q)

(* The running transaction.                                                  *)
Working == {"start", "stage", "fill", "move", "notemoved", "publish", "noteapplied",
            "verify", "commit"}
Running == Working \cup UndoSteps

(* What its journal tells is so, but for a call that failed after its effect.*)
Stray(p) == p \in slipped /\ faulted

Told(p) ==
    /\ p \in journal.applied =>
          target[p] = Desired(p) /\ (plan.seen[p] = "absent" \/ backup[<<plan, p>>] # "absent")
    /\ p \in journal.moved => backup[<<plan, p>>] # "absent"
    /\ p \in journal.moved \ journal.applied => target[p] = "absent" \/ (Stray(p) /\ pc \notin Working)
    /\ p \notin journal.moved \cup journal.applied => Same(p) \/ (Stray(p) /\ pc \notin Working)

Unflagged(p) == p \notin journal.moved \cup journal.applied

(* The original is out of the way, and the object is not in its place yet.   *)
OutOfTheWay(p) == p \notin journal.applied /\ (plan.seen[p] # "absent" => p \in journal.moved)

Ready == pc = "prepare" => plan = Reviewed(plan.sel)

Bound == pc \in Running =>
    (\A p \in plan.sel : journal.orig[p] = plan.seen[p]) /\ Sound(plan)

Telling == pc \in Working \cup {"rollback"} => \A p \in Required(plan) : Told(p)

(* What it has flagged while it goes forward.                                *)
Ahead ==
    /\ pc = "start" => \A p \in Required(plan) : Unflagged(p)
    /\ pc \in Forward => \A p \in todo : First(p) \/ Unflagged(p)
    /\ pc \in {"stage", "fill", "move"} => \A p \in todo : First(p) => Unflagged(p)
    /\ pc \in {"notemoved", "publish"} => \A p \in todo : First(p) => OutOfTheWay(p)

(* ... and what it has undone on the way back.                               *)
TakenBack(p) ==
    /\ target[p] = "absent" \/ (Stray(p) /\ plan.seen[p] # "absent")
    /\ plan.seen[p] # "absent" => backup[<<plan, p>>] # "absent"

Undoing ==
    /\ pc \in Backward => \A p \in todo : Last(p) \/ Told(p)
    /\ pc = "undo" => \A p \in todo : Told(p)
    /\ pc = "putback" => \A p \in todo : Last(p) => TakenBack(p)
    /\ pc = "noteundone" => \A p \in todo : Last(p) => Clean(p)
    /\ pc \in Backward \cup {"finish"} =>
          \A p \in Required(plan) \ todo : bad \/ Stray(p) \/ Clean(p)

Blamed ==
    /\ pc \in {"prepare", "rollback"} \cup Working => ~bad
    /\ pc \in UndoSteps /\ bad =>
          faulted \/ \E p \in Required(plan) \ todo : stage[<<plan, p>>] = "torn"

Quiet == /\ touched = {} /\ edits = 0
         /\ pc # "idle" => result = "none"

Answered == RolledBackMeansRestored /\ CrashWindowsReconcile /\ RestoreCompletes

Core == Ready /\ Bound /\ Telling /\ Ahead /\ Undoing /\ Blamed

UndoInv ==
    /\ BackedUpOnly /\ OrigIsSeen /\ Reconcilable /\ Core /\ Quiet /\ Answered

LEMMA UndoFacts ==
  ASSUME FilesOK, LoopsOK
  PROVE  /\ plan \in Plans /\ journal \in Receipts
         /\ Required(plan) \subseteq plan.sel /\ plan.sel \subseteq Paths /\ Paths \subseteq Nat
         /\ todo \subseteq Required(plan)
         /\ journal.orig \in [Paths -> Contents] /\ plan.seen \in [Paths -> Contents]
BY RequiredPaths, PathsAssumption DEF FilesOK, LoopsOK, Receipts

(* What a command is bound to stays so through its journal's notes.          *)
LEMMA BoundStep ==
  ASSUME Bound, pc \in Running, UNCHANGED plan, journal'.orig = journal.orig, Sound(plan)'
  PROVE  Bound'
BY DEF Bound

LEMMA SoundSame ==
  ASSUME Sound(plan), UNCHANGED <<plan, target, backup>>
  PROVE  Sound(plan)'
BY DEF Sound, Window

(* One path of a plan has changed, and still is in a window.                 *)
LEMMA SoundStep ==
  ASSUME FilesOK, Sound(plan), UNCHANGED plan, NEW p \in Required(plan),
         \A r \in Paths : r # p => /\ target'[r] = target[r]
                                   /\ backup'[<<plan, r>>] = backup[<<plan, r>>],
         Window(plan, p)'
  PROVE  Sound(plan)'
<1>. plan \in Plans /\ Required(plan) \subseteq plan.sel /\ plan.sel \subseteq Paths
  BY RequiredPaths DEF FilesOK
<1>1. Required(plan)' = Required(plan)
  OBVIOUS
<1>2. \A r \in Required(plan) : r # p => Window(plan, r)'
  <2> SUFFICES ASSUME NEW r \in Required(plan), r # p PROVE Window(plan, r)'
    OBVIOUS
  <2>1. Window(plan, r) /\ target'[r] = target[r] /\ backup'[<<plan, r>>] = backup[<<plan, r>>]
    BY DEF Sound
  <2>. QED
    BY <2>1 DEF Window
<1>3. \A r \in plan.sel \ Required(plan) : target'[r] = plan.seen[r]
  BY DEF Sound
<1>. QED
  BY <1>1, <1>2, <1>3 DEF Sound

(* A failed call that is known stays known.                                  *)
LEMMA StepStrays ==
  ASSUME Step
  PROVE  slipped \subseteq slipped' /\ (faulted => faulted')
<1>1. CASE Prepare
  BY <1>1 DEF Prepare
<1>2. CASE Start
  BY <1>2 DEF Start
<1>3. CASE Stage
  BY <1>3 DEF Stage
<1>4. CASE Fill
  BY <1>4 DEF Fill
<1>5. CASE Move
  BY <1>5 DEF Move
<1>6. CASE NoteMoved
  BY <1>6 DEF NoteMoved
<1>7. CASE Publish
  BY <1>7 DEF Publish
<1>8. CASE NoteApplied
  BY <1>8 DEF NoteApplied
<1>9. CASE Verify
  BY <1>9 DEF Verify
<1>10. CASE Commit
  BY <1>10 DEF Commit
<1>11. CASE BeginRollback
  BY <1>11 DEF BeginRollback
<1>12. CASE Unstage
  BY <1>12 DEF Unstage
<1>13. CASE TakeBack
  BY <1>13 DEF TakeBack
<1>14. CASE PutBack
  BY <1>14 DEF PutBack
<1>15. CASE NoteUndone
  BY <1>15 DEF NoteUndone
<1>16. CASE Finish
  BY <1>16 DEF Finish
<1>. QED
  BY <1>1, <1>2, <1>3, <1>4, <1>5, <1>6, <1>7, <1>8, <1>9, <1>10, <1>11, <1>12,
     <1>13, <1>14, <1>15, <1>16 DEF Step, Forwards, Backwards

(* A path that a step leaves alone is told as it was.                        *)
LEMMA ToldKept ==
  ASSUME NEW p, Told(p), UNCHANGED plan,
         target'[p] = target[p], backup'[<<plan, p>>] = backup[<<plan, p>>],
         p \in journal'.moved <=> p \in journal.moved,
         p \in journal'.applied <=> p \in journal.applied,
         Stray(p) /\ pc \notin Working => Stray(p)' /\ pc' \notin Working
  PROVE  Told(p)'
BY DEF Told, Same

(* No command runs: nothing is said of one.                                  *)
LEMMA CoreIdle == ASSUME pc' \in {"idle", "planned", "restoring"} PROVE Core'
<1>1. Ready' /\ Bound' /\ Telling'
  BY DEF Ready, Bound, Telling, Running, Working
<1>2. Ahead' /\ Undoing'
  BY DEF Ahead, Undoing
<1>3. Blamed'
  BY DEF Blamed, Working
<1>. QED
  BY <1>1, <1>2, <1>3 DEF Core

LEMMA CoreForward ==
  ASSUME pc' \in Working, Bound', Telling', Ahead', ~bad'
  PROVE  Core'
<1>1. Ready' /\ Undoing' /\ Blamed'
  <2>1. Ready' /\ Blamed'
    BY DEF Ready, Blamed, Working
  <2>2. Undoing'
    BY DEF Undoing, Working
  <2>. QED
    BY <2>1, <2>2
<1>. QED
  BY <1>1 DEF Core

LEMMA CoreRollback ==
  ASSUME pc' = "rollback", Bound', Telling', ~bad'
  PROVE  Core'
<1>1. Ready' /\ Blamed'
  BY DEF Ready, Blamed, Working
<1>2. Undoing' /\ Ahead'
  BY DEF Undoing, Ahead
<1>. QED
  BY <1>1, <1>2 DEF Core

LEMMA CoreBackward ==
  ASSUME pc' \in Backward \cup {"finish"}, Bound', Undoing', Blamed'
  PROVE  Core'
<1>1. Ready' /\ Telling'
  BY DEF Ready, Telling, Working
<1>2. Ahead'
  BY DEF Ahead
<1>. QED
  BY <1>1, <1>2 DEF Core

(* Nothing changes where the plan's objects are.                             *)
LEMMA CorePlaces ==
  ASSUME FilesOK, LoopsOK, Core, pc \in Working, UNCHANGED <<target, backup, plan>>,
         journal'.orig = journal.orig, journal'.moved = journal.moved,
         journal'.applied = journal.applied
  PROVE  Sound(plan)' /\ Bound' /\ Telling'
<1>1. Sound(plan)
  BY DEF Core, Bound, Running
<1>2. Sound(plan)'
  BY <1>1, SoundSame
<1>3. Bound'
  BY <1>2, BoundStep DEF Core, Running
<1>4. \A p \in Required(plan) : Told(p)
  BY DEF Core, Telling
<1>5. \A p \in Required(plan) : Told(p)'
  BY <1>4, ToldKept
<1>6. Required(plan)' = Required(plan)
  OBVIOUS
<1>. QED
  BY <1>2, <1>3, <1>5, <1>6 DEF Telling

(* A failed call whose only effect may be on the receipt.                    *)
LEMMA CoreFails ==
  ASSUME FilesOK, LoopsOK, Core, pc \in Working, UNCHANGED <<target, backup, plan, bad>>,
         journal'.orig = journal.orig, journal'.moved = journal.moved,
         journal'.applied = journal.applied, pc' = "rollback"
  PROVE  Core' /\ Sound(plan)'
<1>1. ~bad
  BY DEF Core, Blamed
<1>. QED
  BY <1>1, CorePlaces, CoreRollback

-----------------------------------------------------------------------------
(* Forward.                                                                  *)

(* What a transaction is prepared on is what its plan has seen.              *)
LEMMA UndoPrepare ==
  ASSUME FilesOK, LoopsOK, BackedUpOnly, Core, Prepare
  PROVE  /\ Core'
         /\ receipt' = receipt \/ Sound(plan)'
         /\ UNCHANGED <<target, backup>>
         /\ \A q \in Plans : receipt'[q] # receipt[q] =>
                \A p \in q.sel : receipt'[q].orig[p] = q.seen[p]
<1>. DEFINE prepared == [state |-> "prepared", orig |-> Snapshot(plan),
                         moved |-> {}, applied |-> {}]
<1>. /\ plan \in Plans /\ Required(plan) \subseteq plan.sel /\ plan.sel \subseteq Paths
     /\ Paths \subseteq Nat
  BY UndoFacts
<1>1. /\ pc = "prepare" /\ UNCHANGED <<target, stage, backup, plan, bad>>
      /\ \/ pc' = "idle" /\ receipt' = receipt
         \/ ~Leftover(plan) /\ pc' = "idle" /\ receipt' = Written(prepared)
         \/ ~Leftover(plan) /\ pc' = "start" /\ journal' = prepared /\ receipt' = Written(prepared)
  BY DEF Prepare, MayBeWritten
<1>2. \A p \in plan.sel : target[p] = plan.seen[p]
  BY <1>1 DEF Core, Ready, Reviewed
<1>3. \A p \in plan.sel : prepared.orig[p] = plan.seen[p]
  BY <1>2 DEF Snapshot
<1>4. CASE pc' = "idle" /\ receipt' = receipt
  BY <1>1, <1>4, CoreIdle
<1>5. CASE ~Leftover(plan) /\ receipt' = Written(prepared)
  <2>1. \A p \in Required(plan) : Same(p)
    <3> SUFFICES ASSUME NEW p \in Required(plan) PROVE Same(p)
      OBVIOUS
    <3>1. target[p] = plan.seen[p] /\ backup[<<plan, p>>] \in {"absent", plan.seen[p]}
      BY <1>2 DEF BackedUpOnly
    <3>2. target[p] # "absent" => backup[<<plan, p>>] = "absent"
      BY <1>5 DEF Leftover
    <3>. QED
      BY <3>1, <3>2 DEF Same
  <2>2. Sound(plan)'
    BY <1>1, <1>2, <2>1 DEF Sound, Window, Same
  <2>3. \A q \in Plans : receipt'[q] # receipt[q] => q = plan /\ receipt'[q] = prepared
    BY <1>5 DEF Written, FilesOK
  <2>4. CASE pc' = "start" /\ journal' = prepared
    <3>1. Bound'
      BY <1>1, <1>3, <2>2, <2>4 DEF Bound
    <3>2. \A p \in Required(plan) : Told(p)'
      BY <1>1, <2>1, <2>4 DEF Told, Same
    <3>3. Ahead' /\ Telling'
      BY <1>1, <2>4, <3>2 DEF Ahead, Unflagged, Telling
    <3>4. ~bad' /\ pc' \in Working
      BY <1>1, <2>4 DEF Core, Blamed, Working
    <3>. QED
      BY <1>1, <1>3, <2>2, <2>3, <3>1, <3>3, <3>4, CoreForward
  <2>5. CASE pc' = "idle"
    BY <1>1, <1>3, <2>2, <2>3, <2>5, CoreIdle
  <2>. QED
    BY <1>1, <1>5, <2>4, <2>5
<1>. QED
  BY <1>1, <1>4, <1>5

LEMMA UndoStart ==
  ASSUME FilesOK, LoopsOK, Core, Start
  PROVE  Core' /\ Sound(plan)'
<1>. plan \in Plans /\ journal \in Receipts
  BY UndoFacts
<1>1. /\ pc = "start" /\ journal' = [journal EXCEPT !.state = "applying"]
      /\ UNCHANGED <<target, stage, backup, plan, bad>>
      /\ \/ pc' = "idle"
         \/ pc' = "stage" /\ todo' = Required(plan)
  BY DEF Start
<1>2. /\ journal'.orig = journal.orig /\ journal'.moved = journal.moved
      /\ journal'.applied = journal.applied
  BY <1>1 DEF Receipts
<1>3. Sound(plan)' /\ Bound' /\ Telling'
  BY <1>1, <1>2, CorePlaces DEF Working
<1>4. CASE pc' = "stage" /\ todo' = Required(plan)
  <2>1. Ahead'
    BY <1>1, <1>2, <1>4 DEF Core, Ahead, Unflagged
  <2>2. pc' \in Working /\ ~bad'
    BY <1>1, <1>4 DEF Core, Blamed, Working
  <2>. QED
    BY <1>3, <2>1, <2>2, CoreForward
<1>. QED
  BY <1>1, <1>3, <1>4, CoreIdle

(* Staging touches neither the paths nor the backups.                        *)
LEMMA UndoStage ==
  ASSUME FilesOK, LoopsOK, Core, Stage \/ Fill
  PROVE  Core' /\ Sound(plan)'
<1>1. /\ pc \in {"stage", "fill"} /\ UNCHANGED <<target, backup, plan, bad, journal>>
      /\ \/ pc' = "rollback"
         \/ pc' \in {"fill", "move"} /\ UNCHANGED todo
  BY DEF Stage, Fill
<1>2. Sound(plan)' /\ Bound' /\ Telling'
  BY <1>1, CorePlaces DEF Working
<1>3. CASE pc' = "rollback"
  BY <1>1, <1>3, CoreFails DEF Working
<1>4. CASE pc' \in {"fill", "move"} /\ UNCHANGED todo
  <2>1. Ahead'
    BY <1>1, <1>4 DEF Core, Ahead, Unflagged, First
  <2>2. pc' \in Working /\ ~bad'
    BY <1>1, <1>4 DEF Core, Blamed, Working
  <2>. QED
    BY <1>2, <2>1, <2>2, CoreForward
<1>. QED
  BY <1>1, <1>3, <1>4

(* The notes between the renames.                                            *)
LEMMA UndoNotes ==
  ASSUME FilesOK, LoopsOK, Core, NoteMoved \/ NoteApplied \/ Verify \/ Commit
  PROVE  Core' /\ Sound(plan)'
<1>. plan \in Plans /\ journal \in Receipts
  BY UndoFacts
<1>1. /\ pc \in Working /\ UNCHANGED <<target, backup, plan, bad>>
      /\ journal'.orig = journal.orig /\ journal'.moved = journal.moved
      /\ journal'.applied = journal.applied
  BY DEF NoteMoved, NoteApplied, Verify, Commit, Working, Receipts
<1>2. \/ pc' \in {"rollback", "idle"}
      \/ pc' \in {"verify", "commit"}
      \/ pc = "notemoved" /\ pc' = "publish" /\ UNCHANGED todo
      \/ /\ pc = "noteapplied" /\ pc' = "stage"
         /\ \E p \in todo : First(p) /\ todo' = todo \ {p}
  BY DEF NoteMoved, NoteApplied, Verify, Commit, NextAction
<1>3. Sound(plan)' /\ Bound' /\ Telling'
  BY <1>1, CorePlaces
<1>4. ~bad'
  BY <1>1 DEF Core, Blamed
<1>5. CASE pc' \in {"rollback", "idle"}
  BY <1>1, <1>3, <1>5, CoreFails, CoreIdle
<1>6. CASE pc' \in {"verify", "commit"}
  <2>1. Ahead' /\ pc' \in Working
    BY <1>6 DEF Ahead, Working
  <2>. QED
    BY <1>3, <1>4, <2>1, CoreForward
<1>7. CASE pc = "notemoved" /\ pc' = "publish" /\ UNCHANGED todo
  <2>1. Ahead' /\ pc' \in Working
    BY <1>1, <1>7 DEF Core, Ahead, Working, Unflagged, First, OutOfTheWay
  <2>. QED
    BY <1>3, <1>4, <2>1, CoreForward
<1>8. CASE /\ pc = "noteapplied" /\ pc' = "stage"
           /\ \E p \in todo : First(p) /\ todo' = todo \ {p}
  <2>1. todo \subseteq Nat
    BY UndoFacts
  <2>2. PICK p \in todo : First(p) /\ todo' = todo \ {p}
    BY <1>8
  <2>3. \A r \in todo' : ~First(r)
    BY <2>1, <2>2 DEF First
  <2>4. \A r \in todo' : Unflagged(r)
    BY <1>8, <2>2, <2>3 DEF Core, Ahead
  <2>5. \A r \in todo' : Unflagged(r)'
    BY <1>1, <2>4 DEF Unflagged
  <2>6. Ahead' /\ pc' \in Working
    BY <1>8, <2>5 DEF Ahead, Working
  <2>. QED
    BY <1>3, <1>4, <2>6, CoreForward
<1>. QED
  BY <1>2, <1>5, <1>6, <1>7, <1>8

(* A step on one path: what the journal tells of the others stays so.        *)
LEMMA TellingStep ==
  ASSUME FilesOK, Step, UNCHANGED plan, NEW p \in Required(plan),
         \A r \in Required(plan) : r # p =>
            /\ target'[r] = target[r] /\ backup'[<<plan, r>>] = backup[<<plan, r>>]
            /\ r \in journal'.moved <=> r \in journal.moved
            /\ r \in journal'.applied <=> r \in journal.applied,
         Telling, pc \in Working, Told(p)'
  PROVE  Telling'
<1>1. Required(plan)' = Required(plan)
  OBVIOUS
<1>2. \A r \in Required(plan) : r # p => Told(r)'
  <2> SUFFICES ASSUME NEW r \in Required(plan), r # p PROVE Told(r)'
    OBVIOUS
  <2>1. Told(r)
    BY DEF Telling
  <2>. QED
    BY <2>1, ToldKept
<1>. QED
  BY <1>1, <1>2 DEF Telling

(* The original goes aside: the path is told as moved, or is a stray.        *)
LEMMA UndoMove ==
  ASSUME FilesOK, LoopsOK, Core, BackedUpOnly, Move
  PROVE  Core' /\ Sound(plan)' /\ BackedUpOnly'
<1>. /\ plan \in Plans /\ journal \in Receipts /\ plan.sel \subseteq Paths
     /\ Required(plan) \subseteq plan.sel /\ todo \subseteq Required(plan)
  BY UndoFacts
<1>1. PICK p \in todo :
        /\ pc = "move" /\ First(p) /\ UNCHANGED <<plan, bad>>
        /\ \/ pc' = "rollback" /\ UNCHANGED <<target, backup, journal>>
           \/ /\ journal.orig[p] = "absent" /\ pc' = "publish"
              /\ UNCHANGED <<target, backup, journal, todo>>
           \/ /\ target[p] = plan.seen[p] /\ target[p] # "absent"
              /\ target' = [target EXCEPT ![p] = "absent"]
              /\ backup' = [backup EXCEPT ![<<plan, p>>] = target[p]]
              /\ \/ /\ journal' = [journal EXCEPT !.moved = @ \cup {p}] /\ pc' = "notemoved"
                    /\ UNCHANGED todo
                 \/ /\ journal' = journal /\ pc' = "rollback" /\ slipped' = slipped \cup {p}
                    /\ faulted' = TRUE
  BY DEF Move, Unchanged
<1>2. /\ Unflagged(p) /\ Told(p) /\ Sound(plan) /\ ~bad /\ Bound /\ Telling
      /\ journal.orig[p] = plan.seen[p]
      /\ \A r \in todo : First(r) \/ Unflagged(r)
  BY <1>1 DEF Core, Ahead, Telling, Blamed, Bound, Running, Working
<1>3. Same(p)
  BY <1>1, <1>2 DEF Told, Unflagged, Working
<1>4. CASE pc' = "rollback" /\ UNCHANGED <<target, backup, journal>>
  <2>1. Core' /\ Sound(plan)'
    BY <1>1, <1>4, CoreFails DEF Working
  <2>. QED
    BY <1>4, <2>1 DEF BackedUpOnly
<1>5. CASE /\ journal.orig[p] = "absent" /\ pc' = "publish"
           /\ UNCHANGED <<target, backup, journal, todo>>
  <2>1. Sound(plan)' /\ Bound' /\ Telling'
    BY <1>1, <1>5, CorePlaces DEF Working
  <2>2. \A r \in todo : First(r) => r = p
    <3>. todo \subseteq Nat
      BY UndoFacts
    <3>. QED
      BY <1>1 DEF First
  <2>3. OutOfTheWay(p)
    BY <1>2, <1>5 DEF OutOfTheWay, Unflagged
  <2>4. Ahead'
    BY <1>2, <1>5, <2>2, <2>3, <1>1 DEF Ahead, First, Unflagged, OutOfTheWay
  <2>5. pc' \in Working /\ ~bad'
    BY <1>1, <1>2, <1>5 DEF Working
  <2>. QED
    BY <1>5, <2>1, <2>4, <2>5, CoreForward DEF BackedUpOnly
<1>6. CASE /\ target[p] = plan.seen[p] /\ target[p] # "absent"
           /\ target' = [target EXCEPT ![p] = "absent"]
           /\ backup' = [backup EXCEPT ![<<plan, p>>] = target[p]]
           /\ \/ /\ journal' = [journal EXCEPT !.moved = @ \cup {p}] /\ pc' = "notemoved"
                 /\ UNCHANGED todo
              \/ /\ journal' = journal /\ pc' = "rollback" /\ slipped' = slipped \cup {p}
                 /\ faulted' = TRUE
  <2>1. /\ target'[p] = "absent" /\ backup'[<<plan, p>>] = target[p]
        /\ \A r \in Paths : r # p => /\ target'[r] = target[r]
                                     /\ backup'[<<plan, r>>] = backup[<<plan, r>>]
    BY <1>6 DEF FilesOK
  <2>2. Window(plan, p)'
    BY <1>1, <1>6, <2>1 DEF Window
  <2>3. Sound(plan)'
    BY <1>1, <1>2, <2>1, <2>2, SoundStep
  <2>4. BackedUpOnly'
    <3> SUFFICES ASSUME NEW q \in Plans, NEW r \in q.sel
                 PROVE  backup'[<<q, r>>] \in {"absent", q.seen[r]}
      BY DEF BackedUpOnly
    <3>1. r \in Paths
      BY RequiredPaths
    <3>2. backup[<<q, r>>] \in {"absent", q.seen[r]}
      BY DEF BackedUpOnly
    <3>3. CASE q = plan /\ r = p
      BY <1>6, <2>1, <3>3
    <3>4. CASE ~(q = plan /\ r = p)
      <4>1. <<q, r>> # <<plan, p>>
        BY <3>4
      <4>2. backup'[<<q, r>>] = backup[<<q, r>>]
        BY <1>6, <3>1, <4>1 DEF FilesOK
      <4>. QED
        BY <3>2, <4>2
    <3>. QED
      BY <3>3, <3>4
  <2>5. /\ journal'.orig = journal.orig /\ journal'.applied = journal.applied
        /\ \A r : r # p => (r \in journal'.moved <=> r \in journal.moved)
    BY <1>6 DEF Receipts
  <2>6. Bound'
    BY <1>1, <1>2, <2>3, <2>5, BoundStep DEF Running, Working
  <2>7. Told(p)'
    <3>1. CASE /\ journal' = [journal EXCEPT !.moved = @ \cup {p}]
               /\ pc' = "notemoved"
      <4>1. p \in journal'.moved /\ p \notin journal'.applied
        BY <1>2, <3>1 DEF Receipts, Unflagged
      <4>. QED
        BY <1>1, <1>6, <2>1, <4>1 DEF Told
    <3>2. CASE /\ journal' = journal /\ pc' = "rollback" /\ slipped' = slipped \cup {p}
               /\ faulted' = TRUE
      <4>1. Stray(p)' /\ pc' \notin Working /\ Unflagged(p)'
        BY <1>2, <3>2 DEF Stray, Working, Unflagged
      <4>. QED
        BY <4>1 DEF Told, Unflagged
    <3>. QED
      BY <1>6, <3>1, <3>2
  <2>8. Telling'
    <3>1. \A r \in Required(plan) : r \in Paths
      OBVIOUS
    <3>2. Step
      BY DEF Step, Forwards
    <3>. QED
      BY <1>1, <1>2, <2>1, <2>5, <2>7, <3>1, <3>2, TellingStep DEF Working
  <2>9. CASE pc' = "rollback"
    BY <1>1, <1>2, <2>3, <2>4, <2>6, <2>8, <2>9, CoreRollback
  <2>10. CASE /\ pc' = "notemoved" /\ UNCHANGED todo
              /\ journal' = [journal EXCEPT !.moved = @ \cup {p}]
    <3>1. \A r \in todo : First(r) => r = p
      <4>. todo \subseteq Nat
        BY UndoFacts
      <4>. QED
        BY <1>1 DEF First
    <3>2. OutOfTheWay(p)'
      BY <1>2, <2>5, <2>10 DEF OutOfTheWay, Unflagged, Receipts
    <3>3. \A r \in todo : First(r)' \/ Unflagged(r)'
      BY <1>1, <1>2, <2>5, <2>10 DEF First, Unflagged
    <3>4. \A r \in todo : First(r)' => OutOfTheWay(r)'
      BY <2>10, <3>1, <3>2 DEF First
    <3>5. Ahead'
      BY <2>10, <3>3, <3>4 DEF Ahead
    <3>6. pc' \in Working /\ ~bad'
      BY <1>1, <1>2, <2>10 DEF Working
    <3>. QED
      BY <2>3, <2>4, <2>6, <2>8, <3>5, <3>6, CoreForward
  <2>. QED
    BY <1>6, <2>9, <2>10
<1>. QED
  BY <1>1, <1>4, <1>5, <1>6

(* The object takes its place: the path is told as published, or is a stray. *)
LEMMA UndoPublish ==
  ASSUME FilesOK, LoopsOK, Core, Publish
  PROVE  Core' /\ Sound(plan)'
<1>. /\ plan \in Plans /\ journal \in Receipts /\ plan.sel \subseteq Paths
     /\ Required(plan) \subseteq plan.sel /\ todo \subseteq Required(plan)
  BY UndoFacts
<1>1. PICK p \in todo :
        /\ pc = "publish" /\ First(p) /\ UNCHANGED <<plan, bad, backup>>
        /\ \/ pc' = "rollback" /\ UNCHANGED <<target, journal>>
           \/ /\ target' = [target EXCEPT ![p] = Desired(p)]
              /\ \/ /\ journal' = [journal EXCEPT !.applied = @ \cup {p}] /\ pc' = "noteapplied"
                    /\ UNCHANGED todo
                 \/ /\ journal' = journal /\ pc' = "rollback" /\ slipped' = slipped \cup {p}
                    /\ faulted' = TRUE
  BY DEF Publish
<1>2. /\ OutOfTheWay(p) /\ Told(p) /\ Sound(plan) /\ ~bad /\ Bound /\ Telling
      /\ \A r \in todo : First(r) \/ Unflagged(r)
  BY <1>1 DEF Core, Ahead, Telling, Blamed, Bound, Running, Working
<1>3. plan.seen[p] = "absent" \/ backup[<<plan, p>>] # "absent"
  BY <1>2 DEF Told, OutOfTheWay
<1>4. CASE pc' = "rollback" /\ UNCHANGED <<target, journal>>
  BY <1>1, <1>4, CoreFails DEF Working
<1>5. CASE /\ target' = [target EXCEPT ![p] = Desired(p)]
           /\ \/ /\ journal' = [journal EXCEPT !.applied = @ \cup {p}] /\ pc' = "noteapplied"
                 /\ UNCHANGED todo
              \/ /\ journal' = journal /\ pc' = "rollback" /\ slipped' = slipped \cup {p}
                 /\ faulted' = TRUE
  <2>1. /\ target'[p] = Desired(p) /\ backup' = backup
        /\ \A r \in Paths : r # p => target'[r] = target[r]
    BY <1>1, <1>5 DEF FilesOK
  <2>2. Window(plan, p)'
    BY <1>1, <1>3, <2>1 DEF Window, Desired
  <2>3. Sound(plan)'
    BY <1>1, <1>2, <2>1, <2>2, SoundStep
  <2>4. /\ journal'.orig = journal.orig /\ journal'.moved = journal.moved
        /\ \A r : r # p => (r \in journal'.applied <=> r \in journal.applied)
    BY <1>5 DEF Receipts
  <2>5. Bound'
    BY <1>1, <1>2, <2>3, <2>4, BoundStep DEF Running, Working
  <2>6. Told(p)'
    <3>1. CASE journal' = [journal EXCEPT !.applied = @ \cup {p}]
      <4>1. p \in journal'.applied
        BY <3>1 DEF Receipts
      <4>2. p \in journal.moved => backup[<<plan, p>>] # "absent"
        BY <1>2 DEF Told
      <4>. QED
        BY <1>1, <1>3, <2>1, <2>4, <4>1, <4>2 DEF Told, Desired
    <3>2. CASE /\ journal' = journal /\ pc' = "rollback" /\ slipped' = slipped \cup {p}
               /\ faulted' = TRUE
      <4>1. Stray(p)' /\ pc' \notin Working /\ p \notin journal'.applied
        BY <1>2, <3>2 DEF Stray, Working, OutOfTheWay
      <4>2. p \in journal.moved => backup[<<plan, p>>] # "absent"
        BY <1>2 DEF Told
      <4>. QED
        BY <1>1, <2>1, <2>4, <4>1, <4>2 DEF Told
    <3>. QED
      BY <1>5, <3>1, <3>2
  <2>7. Telling'
    <3>1. \A r \in Required(plan) : r \in Paths
      OBVIOUS
    <3>2. Step
      BY DEF Step, Forwards
    <3>. QED
      BY <1>1, <1>2, <2>1, <2>4, <2>6, <3>1, <3>2, TellingStep DEF Working
  <2>8. CASE pc' = "rollback"
    BY <1>1, <1>2, <2>3, <2>5, <2>7, <2>8, CoreRollback
  <2>9. CASE pc' = "noteapplied" /\ UNCHANGED todo
    <3>1. \A r \in todo : First(r) => r = p
      <4>. todo \subseteq Nat
        BY UndoFacts
      <4>. QED
        BY <1>1 DEF First
    <3>2. \A r \in todo : First(r)' \/ Unflagged(r)'
      BY <1>1, <1>2, <2>4, <2>9, <3>1 DEF First, Unflagged
    <3>3. Ahead'
      BY <2>9, <3>2 DEF Ahead
    <3>4. pc' \in Working /\ ~bad'
      BY <1>1, <1>2, <2>9 DEF Working
    <3>. QED
      BY <2>3, <2>5, <2>7, <3>3, <3>4, CoreForward
  <2>. QED
    BY <1>5, <2>8, <2>9
<1>. QED
  BY <1>1, <1>4, <1>5

-----------------------------------------------------------------------------
(* Backward.                                                                 *)

LEMMA UndoBegin ==
  ASSUME FilesOK, LoopsOK, Core, BeginRollback
  PROVE  Core' /\ Sound(plan)'
<1>. plan \in Plans /\ journal \in Receipts
  BY UndoFacts
<1>1. /\ pc = "rollback" /\ pc' = "undo" /\ todo' = Required(plan)
      /\ UNCHANGED <<target, stage, backup, plan>>
      /\ journal' = [journal EXCEPT !.state = "rolling-back"]
      /\ bad' = bad \/ faulted'
  BY DEF BeginRollback
<1>2. /\ journal'.orig = journal.orig /\ journal'.moved = journal.moved
      /\ journal'.applied = journal.applied
  BY <1>1 DEF Receipts
<1>3. Sound(plan) /\ Bound /\ Telling /\ ~bad
  BY <1>1 DEF Core, Bound, Running, Blamed
<1>4. Sound(plan)' /\ Bound'
  BY <1>1, <1>2, <1>3, SoundSame, BoundStep DEF Running
<1>5. \A p \in Required(plan) : Told(p)'
  <2>1. Step
    BY DEF Step, Backwards
  <2>2. \A p : Stray(p) /\ pc \notin Working => Stray(p)' /\ pc' \notin Working
    BY <1>1, <2>1, StepStrays DEF Stray, Working
  <2>3. \A p \in Required(plan) : Told(p)
    BY <1>1, <1>3 DEF Telling
  <2>. QED
    BY <1>1, <1>2, <2>2, <2>3, ToldKept
<1>6. Undoing'
  BY <1>1, <1>5 DEF Undoing
<1>7. Blamed'
  BY <1>1, <1>3 DEF Blamed, Working
<1>. QED
  BY <1>1, <1>4, <1>6, <1>7, CoreBackward

(* One path is undone, or given up: the others are as they were.             *)
LEMMA UndoingStep ==
  ASSUME FilesOK, LoopsOK, Undoing, Step, pc \in Backward, NEW p \in todo, Last(p),
         UNCHANGED plan, bad => bad',
         \A r \in Required(plan) : r # p =>
            /\ target'[r] = target[r] /\ backup'[<<plan, r>>] = backup[<<plan, r>>]
            /\ stage'[<<plan, r>>] = stage[<<plan, r>>]
            /\ r \in journal'.moved <=> r \in journal.moved
            /\ r \in journal'.applied <=> r \in journal.applied
  PROVE  /\ \A r \in todo : r # p => Told(r)'
         /\ \A r \in Required(plan) \ todo : bad' \/ Stray(r)' \/ Clean(r)'
         /\ Required(plan)' = Required(plan)
<1>1. todo \subseteq Required(plan) /\ todo \subseteq Nat
  BY UndoFacts
<1>2. \A r \in todo : r # p => ~Last(r)
  BY <1>1 DEF Last
<1>3. \A r \in todo : r # p => Told(r)
  BY <1>2 DEF Undoing
<1>4. \A r : Stray(r) => Stray(r)'
  BY StepStrays DEF Stray
<1>5. pc' \notin Working
  <2>1. Backwards
    BY DEF Step, Forwards, Prepare, Start, Stage, Fill, Move, NoteMoved, Publish,
           NoteApplied, Verify, Commit
  <2>. QED
    BY <2>1 DEF Backwards, BeginRollback, Unstage, TakeBack, PutBack, NoteUndone, Finish,
                NextUndo, Working
<1>6. \A r \in todo : r # p => Told(r)'
  BY <1>1, <1>3, <1>4, <1>5, ToldKept
<1>7. \A r \in Required(plan) \ todo : bad' \/ Stray(r)' \/ Clean(r)'
  <2> SUFFICES ASSUME NEW r \in Required(plan) \ todo PROVE bad' \/ Stray(r)' \/ Clean(r)'
    OBVIOUS
  <2>1. bad \/ Stray(r) \/ Clean(r)
    BY DEF Undoing
  <2>2. r # p
    OBVIOUS
  <2>3. Clean(r) => Clean(r)'
    BY <2>2 DEF Clean, Same
  <2>. QED
    BY <1>4, <2>1, <2>3
<1>. QED
  BY <1>6, <1>7

LEMMA UndoingNext ==
  ASSUME NEW p \in todo, NextUndo(p),
         \A r \in todo : r # p => Told(r)',
         \A r \in Required(plan) \ todo : bad' \/ Stray(r)' \/ Clean(r)',
         Required(plan)' = Required(plan), bad' \/ Stray(p)' \/ Clean(p)'
  PROVE  Undoing' /\ todo' \subseteq todo /\ pc' \in {"undo", "finish"}
<1>1. /\ pc' \in {"undo", "finish"} /\ todo' = todo \ {p}
  BY DEF NextUndo
<1>2. \A r \in todo' : Told(r)'
  BY <1>1
<1>3. \A r \in Required(plan)' \ todo' : bad' \/ Stray(r)' \/ Clean(r)'
  BY <1>1
<1>. QED
  BY <1>1, <1>2, <1>3 DEF Undoing

LEMMA BlamedStep ==
  ASSUME Blamed, Step, UNCHANGED plan, pc \in Backward, pc' \in Backward \cup {"finish"},
         todo' \subseteq todo,
         \A r \in Required(plan) \ todo : stage'[<<plan, r>>] = stage[<<plan, r>>],
         bad' => bad \/ faulted' \/ \E r \in Required(plan) \ todo' : stage'[<<plan, r>>] = "torn"
  PROVE  Blamed'
<1>1. faulted => faulted'
  BY StepStrays
<1>2. bad => faulted \/ \E r \in Required(plan) \ todo : stage[<<plan, r>>] = "torn"
  BY DEF Blamed
<1>3. bad' => faulted' \/ \E r \in Required(plan) \ todo' : stage'[<<plan, r>>] = "torn"
  BY <1>1, <1>2
<1>. QED
  BY <1>3 DEF Blamed, Working

LEMMA UndoUnstage ==
  ASSUME FilesOK, LoopsOK, Core, Unstage
  PROVE  Core' /\ Sound(plan)'
<1>. /\ plan \in Plans /\ journal \in Receipts /\ plan.sel \subseteq Paths
     /\ Required(plan) \subseteq plan.sel /\ todo \subseteq Required(plan)
  BY UndoFacts
<1>. Step
  BY DEF Step, Backwards
<1>1. PICK p \in todo :
        /\ pc = "undo" /\ Last(p) /\ Unflagged(p) /\ NextUndo(p)
        /\ UNCHANGED <<target, backup, plan, journal>>
        /\ \/ Unstaged(p) /\ bad' = bad
           \/ stage[<<plan, p>>] = "torn" /\ bad' = TRUE /\ UNCHANGED stage
           \/ faulted' = TRUE /\ bad' = TRUE /\ UNCHANGED stage
  BY DEF Unstage, Unflagged
<1>2. Sound(plan) /\ Bound /\ Undoing /\ Blamed /\ Told(p)
  BY <1>1 DEF Core, Bound, Running, Undoing
<1>3. Sound(plan)' /\ Bound'
  BY <1>1, <1>2, SoundSame, BoundStep DEF Running
<1>4. \A r \in Paths : r # p => stage'[<<plan, r>>] = stage[<<plan, r>>]
  BY <1>1 DEF Unstaged, FilesOK
<1>5. Undoing' /\ todo' \subseteq todo /\ pc' \in {"undo", "finish"}
  <2>1. /\ \A r \in todo : r # p => Told(r)'
        /\ \A r \in Required(plan) \ todo : bad' \/ Stray(r)' \/ Clean(r)'
        /\ Required(plan)' = Required(plan)
    BY <1>1, <1>2, <1>4, UndoingStep
  <2>2. bad' \/ Stray(p)' \/ Clean(p)'
    <3>1. Same(p) \/ Stray(p)
      BY <1>1, <1>2 DEF Told, Unflagged
    <3>2. Unstaged(p) => stage'[<<plan, p>>] = "absent"
      BY DEF Unstaged, FilesOK
    <3>3. Same(p) => Same(p)'
      BY <1>1 DEF Same
    <3>4. Stray(p) => Stray(p)'
      BY StepStrays DEF Stray
    <3>. QED
      BY <1>1, <3>1, <3>2, <3>3, <3>4 DEF Clean
  <2>. QED
    BY <1>1, <2>1, <2>2, UndoingNext
<1>6. Blamed'
  <2>1. p \in Required(plan) \ todo'
    BY <1>1 DEF NextUndo
  <2>2. bad' => bad \/ faulted' \/ \E r \in Required(plan) \ todo' : stage'[<<plan, r>>] = "torn"
    BY <1>1, <2>1
  <2>. QED
    BY <1>1, <1>2, <1>4, <1>5, <2>2, BlamedStep
<1>. QED
  BY <1>3, <1>5, <1>6, CoreBackward

LEMMA UndoTakeBack ==
  ASSUME FilesOK, LoopsOK, BackedUpOnly, Core, TakeBack
  PROVE  Core' /\ Sound(plan)'
<1>. /\ plan \in Plans /\ journal \in Receipts /\ plan.sel \subseteq Paths
     /\ Required(plan) \subseteq plan.sel /\ todo \subseteq Required(plan)
  BY UndoFacts
<1>. Step
  BY DEF Step, Backwards
<1>1. PICK p \in todo :
        /\ pc = "undo" /\ Last(p) /\ ~Unflagged(p)
        /\ UNCHANGED <<stage, backup, plan, journal>>
        /\ \/ /\ p \in journal.applied /\ target[p] = Desired(p)
              /\ target' = [target EXCEPT ![p] = "absent"]
              /\ pc' = "putback" /\ UNCHANGED <<todo, bad>>
           \/ p \notin journal.applied /\ pc' = "putback" /\ UNCHANGED <<target, todo, bad>>
           \/ p \in journal.applied /\ target[p] # Desired(p) /\ UNCHANGED target
           \/ faulted' = TRUE /\ bad' = TRUE /\ NextUndo(p) /\ UNCHANGED target
  BY DEF TakeBack, Unflagged
<1>2. Sound(plan) /\ Bound /\ Undoing /\ Blamed /\ Told(p)
  BY <1>1 DEF Core, Bound, Running, Undoing
<1>3. CASE faulted' = TRUE /\ bad' = TRUE /\ NextUndo(p) /\ UNCHANGED target
  <2>1. Sound(plan)' /\ Bound'
    BY <1>1, <1>2, <1>3, SoundSame, BoundStep DEF Running
  <2>2. /\ \A r \in todo : r # p => Told(r)'
        /\ \A r \in Required(plan) \ todo : bad' \/ Stray(r)' \/ Clean(r)'
        /\ Required(plan)' = Required(plan)
    BY <1>1, <1>2, <1>3, UndoingStep
  <2>3. Undoing' /\ todo' \subseteq todo /\ pc' \in {"undo", "finish"}
    BY <1>3, <2>2, UndoingNext
  <2>4. Blamed'
    BY <1>1, <1>2, <1>3, <2>3, BlamedStep
  <2>. QED
    BY <2>1, <2>3, <2>4, CoreBackward
<1>4. CASE /\ pc' = "putback" /\ UNCHANGED <<todo, bad>>
           /\ \/ /\ p \in journal.applied /\ target' = [target EXCEPT ![p] = "absent"]
              \/ p \notin journal.applied /\ UNCHANGED target
  <2>1. \A r \in Paths : r # p => target'[r] = target[r]
    BY <1>4 DEF FilesOK
  <2>2. plan.seen[p] # "absent" => backup[<<plan, p>>] # "absent"
    BY <1>1, <1>2 DEF Told, Unflagged
  <2>3. TakenBack(p)' /\ Window(plan, p)'
    <3>1. CASE target' = [target EXCEPT ![p] = "absent"]
      <4>1. target'[p] = "absent"
        BY <3>1 DEF FilesOK
      <4>. QED
        BY <1>1, <2>2, <4>1 DEF TakenBack, Window
    <3>2. CASE p \notin journal.applied /\ UNCHANGED target
      <4>1. backup[<<plan, p>>] # "absent" /\ (target[p] = "absent" \/ Stray(p))
        BY <1>1, <1>2, <3>2 DEF Told, Unflagged
      <4>2. plan.seen[p] # "absent"
        BY <4>1 DEF BackedUpOnly
      <4>3. Stray(p) => Stray(p)'
        BY StepStrays DEF Stray
      <4>4. Window(plan, p)
        BY <1>2 DEF Sound
      <4>. QED
        BY <1>1, <3>2, <4>1, <4>2, <4>3, <4>4 DEF TakenBack, Window
    <3>. QED
      BY <1>4, <3>1, <3>2
  <2>4. Sound(plan)' /\ Bound'
    BY <1>1, <1>2, <2>1, <2>3, SoundStep, BoundStep DEF Running
  <2>5. /\ \A r \in todo : r # p => Told(r)'
        /\ \A r \in Required(plan) \ todo : bad' \/ Stray(r)' \/ Clean(r)'
        /\ Required(plan)' = Required(plan)
    BY <1>1, <1>2, <1>4, <2>1, UndoingStep
  <2>6. Undoing'
    <3>1. \A r \in todo : Last(r)' => r = p
      <4>. todo \subseteq Nat
        BY UndoFacts
      <4>. QED
        BY <1>1, <1>4 DEF Last
    <3>2. Last(p)'
      BY <1>1, <1>4 DEF Last
    <3>. QED
      BY <1>4, <2>3, <2>5, <3>1, <3>2 DEF Undoing
  <2>7. Blamed'
    BY <1>1, <1>2, <1>4, BlamedStep
  <2>. QED
    BY <1>4, <2>4, <2>6, <2>7, CoreBackward
<1>5. ~(p \in journal.applied /\ target[p] # Desired(p))
  BY <1>2 DEF Told
<1>. QED
  BY <1>1, <1>3, <1>4, <1>5

(* The original is back where the plan saw it, or the path is given up.      *)
LEMMA UndoPutBack ==
  ASSUME FilesOK, LoopsOK, BackedUpOnly, Core, PutBack
  PROVE  Core' /\ Sound(plan)' /\ BackedUpOnly'
<1>. /\ plan \in Plans /\ journal \in Receipts /\ plan.sel \subseteq Paths
     /\ Required(plan) \subseteq plan.sel /\ todo \subseteq Required(plan)
  BY UndoFacts
<1>. Step
  BY DEF Step, Backwards
<1>. DEFINE Back(p) == /\ journal.orig[p] # "absent" /\ CanPutBack(p)
                       /\ target' = [target EXCEPT ![p] = backup[<<plan, p>>]]
                       /\ backup' = [backup EXCEPT ![<<plan, p>>] = "absent"]
            Left == UNCHANGED <<target, backup>>
            Done(p) == /\ Back(p) \/ (journal.orig[p] = "absent" /\ Left)
                       /\ Unstaged(p) /\ pc' = "noteundone" /\ UNCHANGED <<todo, bad>>
                       /\ journal' = [journal EXCEPT !.moved = @ \ {p}, !.applied = @ \ {p}]
            Refused(p) == /\ journal.orig[p] # "absent" /\ ~CanPutBack(p) /\ bad' = TRUE
                          /\ NextUndo(p) /\ Left /\ UNCHANGED <<stage, journal>>
            Failed(p) == /\ faulted' = TRUE /\ bad' = TRUE /\ NextUndo(p)
                         /\ Left \/ Back(p)
                         /\ Unstaged(p) \/ UNCHANGED stage
                         /\ UNCHANGED journal
<1>1. PICK p \in todo : /\ pc = "putback" /\ Last(p) /\ UNCHANGED plan
                        /\ Done(p) \/ Refused(p) \/ Failed(p)
  BY DEF PutBack
<1>2. /\ Sound(plan) /\ Bound /\ Undoing /\ Blamed /\ TakenBack(p)
      /\ journal.orig[p] = plan.seen[p]
  BY <1>1 DEF Core, Bound, Running, Undoing
<1>3. backup[<<plan, p>>] \in {"absent", plan.seen[p]}
  BY DEF BackedUpOnly
<1>4. /\ Back(p) \/ Left
      /\ Unstaged(p) \/ UNCHANGED stage
  BY <1>1
<1>5. /\ \A r \in Paths : r # p => /\ target'[r] = target[r]
                                   /\ backup'[<<plan, r>>] = backup[<<plan, r>>]
                                   /\ stage'[<<plan, r>>] = stage[<<plan, r>>]
      /\ Back(p) => target'[p] = plan.seen[p] /\ backup'[<<plan, p>>] = "absent"
  <2>1. \A r \in Paths : r # p => stage'[<<plan, r>>] = stage[<<plan, r>>]
    BY <1>4 DEF FilesOK, Unstaged
  <2>2. CASE Back(p)
    BY <1>2, <2>1, <2>2 DEF FilesOK, CanPutBack
  <2>3. CASE Left /\ ~Back(p)
    BY <2>1, <2>3
  <2>. QED
    BY <1>4, <2>2, <2>3
<1>6. Window(plan, p)'
  <2>1. Window(plan, p)
    BY <1>2 DEF Sound
  <2>. QED
    BY <1>1, <1>4, <1>5, <2>1 DEF Window
<1>7. Sound(plan)'
  BY <1>1, <1>2, <1>5, <1>6, SoundStep
<1>8. BackedUpOnly'
  <2> SUFFICES ASSUME NEW q \in Plans, NEW r \in q.sel
               PROVE  backup'[<<q, r>>] \in {"absent", q.seen[r]}
    BY DEF BackedUpOnly
  <2>1. r \in Paths /\ backup[<<q, r>>] \in {"absent", q.seen[r]}
    BY RequiredPaths DEF BackedUpOnly
  <2>2. backup'[<<q, r>>] \in {backup[<<q, r>>], "absent"}
    BY <1>4, <2>1 DEF FilesOK
  <2>. QED
    BY <2>1, <2>2
<1>9. /\ journal'.orig = journal.orig
      /\ \A r : r # p => /\ r \in journal'.moved <=> r \in journal.moved
                         /\ r \in journal'.applied <=> r \in journal.applied
  BY <1>1 DEF Receipts
<1>10. Bound'
  BY <1>1, <1>2, <1>7, <1>9, BoundStep DEF Running
<1>11. bad => bad'
  BY <1>1
<1>12. /\ \A r \in todo : r # p => Told(r)'
       /\ \A r \in Required(plan) \ todo : bad' \/ Stray(r)' \/ Clean(r)'
       /\ Required(plan)' = Required(plan)
  BY <1>1, <1>2, <1>5, <1>9, <1>11, UndoingStep
<1>13. CASE Done(p)
  <2>1. Clean(p)'
    <3>1. stage'[<<plan, p>>] = "absent"
      BY <1>13 DEF Unstaged, FilesOK
    <3>2. CASE journal.orig[p] = "absent" /\ Left
      BY <1>1, <1>2, <1>3, <3>1, <3>2 DEF Clean, Same, TakenBack
    <3>3. CASE Back(p)
      BY <1>1, <1>5, <3>1, <3>3 DEF Clean, Same
    <3>. QED
      BY <1>13, <3>2, <3>3
  <2>2. Undoing'
    <3>1. \A r \in todo : Last(r)' => r = p
      <4>. todo \subseteq Nat
        BY UndoFacts
      <4>. QED
        BY <1>1, <1>13 DEF Last
    <3>2. Last(p)'
      BY <1>1, <1>13 DEF Last
    <3>. QED
      BY <1>12, <1>13, <2>1, <3>1, <3>2 DEF Undoing
  <2>3. Blamed'
    BY <1>1, <1>2, <1>5, <1>13, BlamedStep
  <2>. QED
    BY <1>7, <1>8, <1>10, <1>13, <2>2, <2>3, CoreBackward
<1>14. CASE Refused(p) \/ Failed(p)
  <2>1. Undoing' /\ todo' \subseteq todo /\ pc' \in {"undo", "finish"}
    BY <1>12, <1>14, UndoingNext
  <2>2. Refused(p) => faulted'
    <3>1. Refused(p) => Stray(p)
      BY <1>2, <1>3 DEF CanPutBack, TakenBack
    <3>. QED
      BY <3>1, StepStrays DEF Stray
  <2>3. Blamed'
    BY <1>1, <1>2, <1>5, <1>14, <2>1, <2>2, BlamedStep
  <2>. QED
    BY <1>7, <1>8, <1>10, <2>1, <2>3, CoreBackward
<1>. QED
  BY <1>1, <1>13, <1>14

LEMMA UndoNote ==
  ASSUME FilesOK, LoopsOK, Core, NoteUndone
  PROVE  Core' /\ Sound(plan)'
<1>. /\ plan \in Plans /\ journal \in Receipts
     /\ todo \subseteq Required(plan)
  BY UndoFacts
<1>. Step
  BY DEF Step, Backwards
<1>1. PICK p \in todo : /\ pc = "noteundone" /\ Last(p) /\ NextUndo(p)
                        /\ UNCHANGED <<target, stage, backup, plan, journal>>
                        /\ bad' = bad \/ (faulted' /\ bad')
  BY DEF NoteUndone
<1>2. Sound(plan) /\ Bound /\ Undoing /\ Blamed /\ Clean(p)
  BY <1>1 DEF Core, Bound, Running, Undoing
<1>3. Sound(plan)' /\ Bound'
  BY <1>1, <1>2, SoundSame, BoundStep DEF Running
<1>4. /\ \A r \in todo : r # p => Told(r)'
      /\ \A r \in Required(plan) \ todo : bad' \/ Stray(r)' \/ Clean(r)'
      /\ Required(plan)' = Required(plan)
  BY <1>1, <1>2, UndoingStep
<1>5. Clean(p)'
  BY <1>1, <1>2 DEF Clean, Same
<1>6. Undoing' /\ todo' \subseteq todo /\ pc' \in {"undo", "finish"}
  BY <1>1, <1>4, <1>5, UndoingNext
<1>7. Blamed'
  BY <1>1, <1>2, <1>6, BlamedStep
<1>. QED
  BY <1>3, <1>6, <1>7, CoreBackward

-----------------------------------------------------------------------------
(* The whole system.                                                         *)

LEMMA UndoFinish ==
  ASSUME FilesOK, LoopsOK, Core, Finish
  PROVE  Core' /\ Sound(plan)'
<1>1. /\ pc = "finish" /\ pc' = "idle" /\ UNCHANGED <<target, backup, plan>>
  BY DEF Finish
<1>2. Sound(plan)
  BY <1>1 DEF Core, Bound, Running
<1>. QED
  BY <1>1, <1>2, CoreIdle, SoundSame

(* A step keeps the running command and the paths of its plan in order.      *)
LEMMA UndoStep ==
  ASSUME FilesOK, LoopsOK, BackedUpOnly, Core, Step
  PROVE  /\ Core' /\ BackedUpOnly'
         /\ Sound(plan)' \/ UNCHANGED <<target, backup, receipt>>
<1>1. CASE Move
  BY <1>1, UndoMove
<1>2. CASE PutBack
  BY <1>2, UndoPutBack
<1>3. CASE ~Move /\ ~PutBack
  <2>1. UNCHANGED backup
    BY <1>3 DEF Step, Forwards, Backwards, Prepare, Start, Stage, Fill, NoteMoved, Publish,
                NoteApplied, Verify, Commit, BeginRollback, Unstage, TakeBack, NoteUndone, Finish
  <2>2. BackedUpOnly'
    BY <2>1 DEF BackedUpOnly
  <2>3. CASE Prepare
    BY <2>2, <2>3, UndoPrepare
  <2>4. CASE ~Prepare
    BY <1>3, <2>2, <2>4, UndoStart, UndoStage, UndoNotes, UndoPublish, UndoBegin, UndoUnstage,
       UndoTakeBack, UndoNote, UndoFinish DEF Step, Forwards, Backwards
  <2>. QED
    BY <2>3, <2>4
<1>. QED
  BY <1>1, <1>2, <1>3

(* What a step may touch: the paths of its plan, and its backups.            *)
LEMMA StepPlaces ==
  ASSUME FilesOK, LoopsOK, Step
  PROVE  /\ \A r \in Paths \ plan.sel : target'[r] = target[r]
         /\ \A q \in Plans : q # plan =>
               \A r \in Paths : backup'[<<q, r>>] = backup[<<q, r>>]
<1>. todo \subseteq plan.sel /\ plan.sel \subseteq Paths /\ plan \in Plans
  BY UndoFacts
<1>1. \/ UNCHANGED <<target, backup>>
      \/ \E p \in todo : /\ \E c : target' = [target EXCEPT ![p] = c]
                         /\ UNCHANGED backup \/ \E c : backup' = [backup EXCEPT ![<<plan, p>>] = c]
  <2>1. CASE Move
    BY <2>1 DEF Move
  <2>2. CASE Publish
    BY <2>2 DEF Publish
  <2>3. CASE TakeBack
    BY <2>3 DEF TakeBack
  <2>4. CASE PutBack
    BY <2>4 DEF PutBack
  <2>5. CASE ~(Move \/ Publish \/ TakeBack \/ PutBack)
    BY <2>5 DEF Step, Forwards, Backwards, Prepare, Start, Stage, Fill, NoteMoved,
                NoteApplied, Verify, Commit, BeginRollback, Unstage, NoteUndone, Finish
  <2>. QED
    BY <2>1, <2>2, <2>3, <2>4, <2>5
<1>. QED
  BY <1>1 DEF FilesOK

LEMMA OrigStep ==
  ASSUME FilesOK, LoopsOK, BackedUpOnly, OrigIsSeen, Core, Step
  PROVE  OrigIsSeen'
<1>. plan \in Plans /\ journal \in Receipts
  BY UndoFacts
<1>1. \A q \in Plans : q # plan => receipt'[q] = receipt[q]
  BY StepReceipts
<1>2. CASE Prepare
  BY <1>2, UndoPrepare DEF OrigIsSeen
<1>3. CASE ~Prepare
  <2>1. pc \in Running => \A p \in plan.sel : journal.orig[p] = plan.seen[p]
    BY DEF Core, Bound
  <2>2. receipt' = receipt \/ (pc \in Running /\ \E j : receipt' = Written(j) /\ j.orig = journal.orig)
    <3>1. \A s \in States : [journal EXCEPT !.state = s].orig = journal.orig
      BY DEF Receipts
    <3>2. CASE Start
      BY <3>1, <3>2 DEF Start, MayBeWritten, Running, Working
    <3>3. CASE NoteMoved \/ NoteApplied
      BY <3>3 DEF NoteMoved, NoteApplied, MayBeWritten, Running, Working
    <3>4. CASE Commit
      BY <3>1, <3>4 DEF Commit, MayBeWritten, Running, Working
    <3>5. CASE BeginRollback
      BY <3>1, <3>5 DEF BeginRollback, MayBeWritten, Running
    <3>6. CASE NoteUndone
      BY <3>6 DEF NoteUndone, MayBeWritten, Running
    <3>7. CASE Finish
      BY <3>1, <3>7 DEF Finish, MayBeWritten, Running
    <3>8. CASE Stage \/ Fill \/ Move \/ Publish \/ Verify \/ Unstage \/ TakeBack \/ PutBack
      BY <3>8 DEF Stage, Fill, Move, Publish, Verify, Unstage, TakeBack, PutBack
    <3>. QED
      BY <1>3, <3>2, <3>3, <3>4, <3>5, <3>6, <3>7, <3>8 DEF Step, Forwards, Backwards
  <2>3. \A j : Written(j)[plan] = j
    BY DEF Written, FilesOK
  <2>4. receipt'[plan] = receipt[plan] \/ \A p \in plan.sel : receipt'[plan].orig[p] = plan.seen[p]
    BY <2>1, <2>2, <2>3
  <2>. QED
    BY <1>1, <2>4 DEF OrigIsSeen
<1>. QED
  BY <1>2, <1>3

(* A step leaves every transaction to be undone where restoration can tell.  *)
LEMMA ReconcilableStep ==
  ASSUME FilesOK, LoopsOK, BackedUpOnly, Core, Reconcilable, Alone, Step
  PROVE  Reconcilable'
<1>. plan \in Plans
  BY UndoFacts
<1>1. UNCHANGED <<plan, reopened>> /\ pc \in ApplySteps \cup UndoSteps
      /\ \A q \in Plans : q # plan => receipt'[q] = receipt[q]
  BY StepReceipts, StepHistory
<1>2. SUFFICES ASSUME NEW q \in Active', q.sel \cap reopened' = {}
               PROVE  Sound(q)'
  BY DEF Reconcilable
<1>3. q \in Plans /\ q.sel \cap reopened = {}
  BY <1>1, <1>2 DEF Active
<1>4. CASE q = plan
  <2>1. CASE Sound(plan)'
    BY <1>1, <1>4, <2>1 DEF Sound, Window
  <2>2. CASE UNCHANGED <<target, backup, receipt>>
    <3>1. q \in Active
      BY <1>2, <2>2 DEF Active
    <3>2. Sound(q)
      BY <1>3, <3>1 DEF Reconcilable
    <3>. QED
      BY <2>2, <3>2 DEF Sound, Window
  <2>. QED
    BY <2>1, <2>2, UndoStep
<1>5. CASE q # plan
  <2>1. q \in Active
    BY <1>1, <1>2, <1>3, <1>5 DEF Active
  <2>2. Sound(q) /\ q.sel \cap plan.sel = {}
    BY <1>1, <1>3, <1>5, <2>1 DEF Reconcilable, Alone
  <2>3. q.sel \subseteq Paths \ plan.sel /\ Required(q) \subseteq q.sel
    BY <1>3, <2>2, RequiredPaths
  <2>4. \A p \in q.sel : target'[p] = target[p] /\ backup'[<<q, p>>] = backup[<<q, p>>]
    BY <1>3, <1>5, <2>3, StepPlaces
  <2>. QED
    BY <2>2, <2>3, <2>4 DEF Sound, Window
<1>. QED
  BY <1>4, <1>5

(* A command answers when it ends, and a rollback only at its end.           *)
LEMMA AnswerStep ==
  ASSUME Step, result = "none"
  PROVE  /\ pc # "idle"
         /\ pc' # "idle" => result' = "none"
         /\ pc' = "idle" => result' \in {"failed", "applied"} \/ Finish
<1>1. CASE Prepare \/ Start \/ Stage \/ Fill \/ Move
  BY <1>1 DEF Prepare, Start, Stage, Fill, Move
<1>2. CASE NoteMoved \/ Publish \/ NoteApplied \/ Verify \/ Commit
  BY <1>2 DEF NoteMoved, Publish, NoteApplied, NextAction, Verify, Commit
<1>3. CASE BeginRollback \/ Unstage \/ TakeBack \/ PutBack \/ NoteUndone
  BY <1>3 DEF BeginRollback, Unstage, TakeBack, PutBack, NoteUndone, NextUndo
<1>4. CASE Finish
  BY <1>4 DEF Finish
<1>. QED
  BY <1>1, <1>2, <1>3, <1>4 DEF Step, Forwards, Backwards

LEMMA FinishAnswers ==
  ASSUME FilesOK, LoopsOK, Core, Finish
  PROVE  Answered'
<1>. plan \in Plans /\ journal \in Receipts /\ Required(plan) \subseteq plan.sel
  BY UndoFacts
<1>1. /\ pc = "finish" /\ pc' = "idle" /\ UNCHANGED <<target, stage, backup, plan, slips>>
      /\ \/ bad /\ result' = "incomplete" /\ UNCHANGED faulted
         \/ /\ ~bad /\ result' = "rolledback"
            /\ receipt' = Written([journal EXCEPT !.state = "rolled-back"])
         \/ result' = "incomplete" /\ faulted' = TRUE
  BY DEF Finish
<1>2. todo = {} /\ Bound /\ Undoing /\ Blamed
  BY <1>1 DEF LoopsOK, Core
<1>3. RestoreCompletes'
  <2>1. bad => faulted \/ \E p \in Required(plan) : stage[<<plan, p>>] = "torn"
    BY <1>1, <1>2 DEF Blamed
  <2>. QED
    BY <1>1, <2>1 DEF RestoreCompletes
<1>4. CASE result' = "rolledback"
  <2>1. ~bad /\ receipt'[plan].orig = journal.orig
    BY <1>1, <1>4 DEF Written, FilesOK, Receipts
  <2>2. \A p \in Required(plan) \ slipped : Clean(p)
    BY <1>1, <1>2, <2>1 DEF Undoing, Stray
  <2>3. \A p \in Required(plan) : journal.orig[p] = plan.seen[p]
    BY <1>1, <1>2 DEF Bound, Running
  <2>4. \A p \in Required(plan) \ slipped : BackAsItWas(p)'
    BY <1>1, <2>1, <2>2, <2>3 DEF BackAsItWas, Clean, Same
  <2>. QED
    BY <1>1, <1>3, <1>4, <2>4 DEF Answered, RolledBackMeansRestored, CrashWindowsReconcile
<1>. QED
  BY <1>1, <1>3, <1>4 DEF Answered, RolledBackMeansRestored, CrashWindowsReconcile

(* A silent command leaves nothing to be answered for.                       *)
LEMMA NothingAnswered ==
  ASSUME result' \in {"none", "failed", "already", "applied", "restored", "crashed"}
  PROVE  Answered'
BY DEF Answered, RolledBackMeansRestored, CrashWindowsReconcile, RestoreCompletes

(* What the transactions left depends on the disk alone.                     *)
LEMMA PlacesKept ==
  ASSUME BackedUpOnly, OrigIsSeen, Reconcilable, UNCHANGED <<target, backup, receipt>>,
         reopened \subseteq reopened'
  PROVE  BackedUpOnly' /\ OrigIsSeen' /\ Reconcilable'
<1>1. Active' = Active
  BY DEF Active
<1>2. \A q \in Active : q.sel \cap reopened' = {} => Sound(q)
  BY DEF Reconcilable
<1>3. \A q : Sound(q)' = Sound(q)
  BY DEF Sound, Window
<1>. QED
  BY <1>1, <1>2, <1>3 DEF BackedUpOnly, OrigIsSeen, Reconcilable

(* What restoration looks for is what a window leaves.                       *)
LEMMA SoundRestorable ==
  ASSUME FilesOK, BackedUpOnly, OrigIsSeen, NEW q \in Plans, receipt[q].state # "none", Sound(q)
  PROVE  Restorable(q)
<1>1. q.sel \subseteq Paths /\ Required(q) \subseteq q.sel
  BY RequiredPaths
<1>2. \A p \in q.sel \ Required(q) : AsBefore(q, p)
  BY DEF Sound, OrigIsSeen, AsBefore
<1>3. ASSUME NEW p \in Required(q)
      PROVE  /\ BackedUp(q, p) => backup[<<q, p>>] = receipt[q].orig[p]
             /\ \/ Isolated(q, p) \/ InPlace(q, p)
                \/ ~BackedUp(q, p) /\ AsBefore(q, p)
  <2>1. /\ receipt[q].orig[p] = q.seen[p] /\ backup[<<q, p>>] \in {"absent", q.seen[p]}
        /\ Window(q, p) /\ q.seen[p] # Desired(p)
    BY <1>1 DEF OrigIsSeen, BackedUpOnly, Sound, Required
  <2>2. CASE backup[<<q, p>>] = "absent"
    BY <2>1, <2>2 DEF Window, BackedUp, AsBefore, InPlace
  <2>3. CASE backup[<<q, p>>] # "absent"
    BY <2>1, <2>3 DEF Window, BackedUp, Isolated, Desired
  <2>. QED
    BY <2>2, <2>3
<1>. QED
  BY <1>2, <1>3 DEF Restorable

(* ... and what it takes the flags to be is so, without a stray.             *)
LEMMA RestorableTold ==
  ASSUME FilesOK, BackedUpOnly, OrigIsSeen, receipt[plan].state # "none", Restorable(plan),
         Reconciled(plan) = journal
  PROVE  /\ Sound(plan) /\ \A p \in plan.sel : journal.orig[p] = plan.seen[p]
         /\ \A p \in Required(plan) : Told(p) /\ (Unflagged(p) => Same(p))
               /\ (p \in journal.moved \ journal.applied => target[p] = "absent")
<1>1. plan \in Plans /\ plan.sel \subseteq Paths /\ Required(plan) \subseteq plan.sel
  BY RequiredPaths DEF FilesOK
<1>2. /\ journal.orig = receipt[plan].orig
      /\ journal.moved = {p \in Required(plan) : Isolated(plan, p)}
      /\ journal.applied = {p \in Required(plan) : InPlace(plan, p)}
  BY <1>1 DEF Reconciled, FilesOK, Receipts
<1>3. \A p \in plan.sel : receipt[plan].orig[p] = plan.seen[p]
  BY <1>1 DEF OrigIsSeen
<1>4. \A p \in plan.sel \ Required(plan) : target[p] = plan.seen[p]
  BY <1>3 DEF Restorable, AsBefore
<1>5. ASSUME NEW p \in Required(plan)
      PROVE  /\ Window(plan, p) /\ Told(p) /\ (Unflagged(p) => Same(p))
             /\ p \in journal.moved \ journal.applied => target[p] = "absent"
  <2>1. /\ receipt[plan].orig[p] = plan.seen[p] /\ plan.seen[p] # Desired(p)
        /\ backup[<<plan, p>>] \in {"absent", plan.seen[p]}
    BY <1>1, <1>3 DEF BackedUpOnly, Required
  <2>2. /\ p \in journal.moved <=> Isolated(plan, p)
        /\ p \in journal.applied <=> InPlace(plan, p)
    BY <1>2
  <2>3. \/ Isolated(plan, p) \/ InPlace(plan, p)
        \/ ~BackedUp(plan, p) /\ AsBefore(plan, p)
    BY <1>1 DEF Restorable
  <2>4. CASE BackedUp(plan, p)
    <3>1. backup[<<plan, p>>] # "absent" /\ target[p] \in {"absent", Desired(p)}
      BY <2>3, <2>4 DEF BackedUp, Isolated, InPlace
    <3>2. p \in journal.applied <=> target[p] = Desired(p)
      BY <2>2, <2>4 DEF InPlace
    <3>3. p \in journal.moved \cup journal.applied
      BY <2>2, <2>3, <2>4
    <3>. QED
      BY <3>1, <3>2, <3>3 DEF Window, Told, Unflagged
  <2>5. CASE ~BackedUp(plan, p)
    <3>1. backup[<<plan, p>>] = "absent"
      BY <2>1, <2>5 DEF BackedUp
    <3>2. p \notin journal.moved
      BY <2>2, <2>5 DEF Isolated
    <3>3. CASE InPlace(plan, p)
      BY <2>1, <2>2, <2>5, <3>1, <3>2, <3>3 DEF InPlace, Window, Told, Unflagged
    <3>4. CASE ~InPlace(plan, p)
      <4>1. target[p] = plan.seen[p]
        BY <2>1, <2>3, <2>5, <3>4 DEF Isolated, AsBefore
      <4>. QED
        BY <2>2, <3>1, <3>2, <3>4, <4>1 DEF Window, Told, Same, Unflagged
    <3>. QED
      BY <3>3, <3>4
  <2>. QED
    BY <2>4, <2>5
<1>. QED
  BY <1>2, <1>3, <1>4, <1>5 DEF Sound

LEMMA UndoPlan ==
  ASSUME FilesOK, UndoInv, PlanApply \/ Crash
  PROVE  UndoInv'
<1>1. /\ UNCHANGED <<target, backup, receipt, reopened, touched, edits>>
      /\ \/ pc' = "planned" /\ result' = "none"
         \/ pc' = "idle" /\ result' = "crashed"
  BY DEF PlanApply, Crash
<1>2. Core' /\ Answered'
  BY <1>1, CoreIdle, NothingAnswered
<1>3. BackedUpOnly' /\ OrigIsSeen' /\ Reconcilable'
  BY <1>1, PlacesKept DEF UndoInv
<1>4. Quiet'
  BY <1>1 DEF UndoInv, Quiet
<1>. QED
  BY <1>2, <1>3, <1>4 DEF UndoInv

LEMMA UndoBeginApply ==
  ASSUME FilesOK, UndoInv, BeginApply
  PROVE  UndoInv'
<1>1. /\ UNCHANGED <<target, backup, receipt, reopened, touched, edits, plan>>
      /\ pc = "planned" /\ bad' = FALSE
      /\ \/ pc' = "idle" /\ result' \in {"failed", "already"}
         \/ pc' = "prepare" /\ plan = Reviewed(plan.sel) /\ UNCHANGED result
  BY DEF BeginApply
<1>2. result = "none"
  BY <1>1 DEF UndoInv, Quiet
<1>3. Core'
  <2>1. CASE pc' = "idle"
    BY <2>1, CoreIdle
  <2>2. CASE pc' = "prepare" /\ plan = Reviewed(plan.sel)
    <3>1. Ready' /\ Bound' /\ Telling'
      BY <1>1, <2>2 DEF Ready, Reviewed, Bound, Telling, Running, Working
    <3>2. Ahead' /\ Undoing' /\ Blamed'
      BY <1>1, <2>2 DEF Ahead, Undoing, Blamed
    <3>. QED
      BY <3>1, <3>2 DEF Core
  <2>. QED
    BY <1>1, <2>1, <2>2
<1>4. Answered'
  BY <1>1, <1>2, NothingAnswered
<1>5. BackedUpOnly' /\ OrigIsSeen' /\ Reconcilable'
  BY <1>1, PlacesKept DEF UndoInv
<1>6. Quiet'
  BY <1>1, <1>2 DEF UndoInv, Quiet
<1>. QED
  BY <1>3, <1>4, <1>5, <1>6 DEF UndoInv

LEMMA UndoPlanRestore ==
  ASSUME FilesOK, UndoInv, PlanRestore
  PROVE  UndoInv'
<1>1. PICK q \in Plans :
        /\ receipt[q].state # "none" /\ plan' = q
        /\ \/ pc' = "restoring" /\ result' = "none"
           \/ ~Restorable(q) /\ pc' = "idle" /\ result' = "unsafe"
  BY DEF PlanRestore
<1>2. UNCHANGED <<target, backup, receipt, reopened, touched, edits>>
  BY DEF PlanRestore
<1>3. Answered'
  <2>1. CASE result' = "unsafe"
    <3>1. ~Sound(q)
      BY <1>1, <2>1, SoundRestorable DEF UndoInv
    <3>2. receipt[q].state # "rolled-back" => q.sel \cap reopened # {}
      BY <1>1, <3>1 DEF UndoInv, Reconcilable, Active
    <3>. QED
      BY <1>1, <1>2, <2>1, <3>2
         DEF Answered, RolledBackMeansRestored, CrashWindowsReconcile, RestoreCompletes
  <2>. QED
    BY <1>1, <2>1, NothingAnswered
<1>4. Core'
  BY <1>1, CoreIdle
<1>5. BackedUpOnly' /\ OrigIsSeen' /\ Reconcilable'
  BY <1>2, PlacesKept DEF UndoInv
<1>6. Quiet'
  BY <1>1, <1>2 DEF UndoInv, Quiet
<1>. QED
  BY <1>3, <1>4, <1>5, <1>6 DEF UndoInv

LEMMA UndoBeginRestore ==
  ASSUME FilesOK, Recorded, UndoInv, BeginRestore
  PROVE  UndoInv'
<1>1. /\ UNCHANGED <<target, backup, receipt, touched, edits, plan, journal>>
      /\ pc = "restoring" /\ bad' = FALSE /\ reopened \subseteq reopened'
      /\ \/ pc' = "idle" /\ result' \in {"failed", "restored"}
         \/ /\ Restorable(plan) /\ Reconciled(plan) = journal
            /\ pc' = "rollback" /\ UNCHANGED result
  BY DEF BeginRestore
<1>2. result = "none" /\ receipt[plan].state # "none"
  BY <1>1 DEF UndoInv, Quiet, Recorded
<1>3. Core'
  <2>1. CASE pc' = "idle"
    BY <2>1, CoreIdle
  <2>2. CASE pc' = "rollback" /\ Restorable(plan) /\ Reconciled(plan) = journal
    <3>1. /\ Sound(plan) /\ \A p \in plan.sel : journal.orig[p] = plan.seen[p]
          /\ \A p \in Required(plan) : Told(p) /\ (Unflagged(p) => Same(p))
                /\ (p \in journal.moved \ journal.applied => target[p] = "absent")
      BY <1>2, <2>2, RestorableTold DEF UndoInv
    <3>2. Bound'
      BY <1>1, <3>1, SoundSame DEF Bound
    <3>3. \A p \in Required(plan) : Told(p)'
      BY <1>1, <3>1 DEF Told, Same, Unflagged
    <3>4. Telling'
      BY <1>1, <3>3 DEF Telling
    <3>. QED
      BY <1>1, <2>2, <3>2, <3>4, CoreRollback
  <2>. QED
    BY <1>1, <2>1, <2>2
<1>4. Answered'
  BY <1>1, <1>2, NothingAnswered
<1>5. BackedUpOnly' /\ OrigIsSeen' /\ Reconcilable'
  BY <1>1, PlacesKept DEF UndoInv
<1>6. Quiet'
  BY <1>1, <1>2 DEF UndoInv, Quiet
<1>. QED
  BY <1>3, <1>4, <1>5, <1>6 DEF UndoInv

LEMMA UndoRun ==
  ASSUME FilesOK, LoopsOK, Alone, UndoInv, Step
  PROVE  UndoInv'
<1>1. Core /\ BackedUpOnly /\ OrigIsSeen /\ Reconcilable /\ Quiet
  BY DEF UndoInv
<1>2. Core' /\ BackedUpOnly' /\ OrigIsSeen' /\ Reconcilable'
  BY <1>1, UndoStep, OrigStep, ReconcilableStep
<1>3. result = "none"
  <2>1. pc # "idle"
    BY StepReceipts
  <2>. QED
    BY <1>1, <2>1 DEF Quiet
<1>4. Quiet'
  BY <1>1, <1>3, AnswerStep, StepHistory DEF Quiet
<1>5. Answered'
  <2>1. CASE Finish
    BY <1>1, <2>1, FinishAnswers
  <2>2. CASE ~Finish
    BY <1>3, <2>2, AnswerStep, NothingAnswered
  <2>. QED
    BY <2>1, <2>2
<1>. QED
  BY <1>2, <1>4, <1>5 DEF UndoInv

LEMMA UndoSame == ASSUME UndoInv, UNCHANGED vars PROVE UndoInv'
<1>. UNCHANGED <<disk, command, owner, slips, faulted, counts>>
  BY DEF vars
<1>1. BackedUpOnly' /\ OrigIsSeen' /\ Reconcilable'
  BY PlacesKept DEF UndoInv
<1>2. Ready' /\ Bound' /\ Telling'
  BY DEF UndoInv, Core, Ready, Reviewed, Bound, Sound, Window, Telling, Told, Same, Stray
<1>3. Ahead'
  BY DEF UndoInv, Core, Ahead, Unflagged, OutOfTheWay, First
<1>4. Undoing'
  BY DEF UndoInv, Core, Undoing, Told, Same, Stray, TakenBack, Clean, Last
<1>5. Blamed' /\ Quiet'
  BY DEF UndoInv, Core, Blamed, Quiet
<1>6. Answered'
  BY DEF UndoInv, Answered, RolledBackMeansRestored, BackAsItWas, CrashWindowsReconcile,
         RestoreCompletes
<1>. QED
  BY <1>1, <1>2, <1>3, <1>4, <1>5, <1>6 DEF UndoInv, Core

LEMMA UndoInit == Init => UndoInv
<1> SUFFICES ASSUME Init PROVE UndoInv
  OBVIOUS
<1>1. NoReceipt.state = "none"
  BY DEF NoReceipt
<1>2. BackedUpOnly
  <2>1. \A q \in Plans : q.sel \subseteq Paths
    BY RequiredPaths
  <2>. QED
    BY <2>1 DEF Init, BackedUpOnly
<1>3. OrigIsSeen /\ Reconcilable
  BY <1>1 DEF Init, OrigIsSeen, Reconcilable, Active
<1>4. Core
  <2>1. Ready /\ Bound /\ Telling
    BY DEF Init, Ready, Bound, Telling, Running, Working
  <2>2. Ahead /\ Undoing /\ Blamed
    BY DEF Init, Ahead, Undoing, Blamed
  <2>. QED
    BY <2>1, <2>2 DEF Core
<1>5. Quiet /\ Answered
  BY DEF Init, Quiet, Answered, RolledBackMeansRestored, CrashWindowsReconcile,
         RestoreCompletes
<1>. QED
  BY <1>2, <1>3, <1>4, <1>5 DEF UndoInv

LEMMA UndoNext ==
  ASSUME MaxEdits = 0, TypeOK, Recorded, Alone, UndoInv, [Next]_vars
  PROVE  UndoInv'
<1>. FilesOK /\ LoopsOK
  BY DEF TypeOK
<1>1. ~Edit
  BY DEF Edit, UndoInv, Quiet
<1>2. CASE UNCHANGED vars
  BY <1>2, UndoSame
<1>. QED
  BY <1>1, <1>2, UndoPlan, UndoBeginApply, UndoPlanRestore, UndoBeginRestore, UndoRun DEF Next

(* Where nobody edits a path behind its back, a transaction can always be    *)
(* told and undone: through every crash and failed call, and for every       *)
(* number of paths, plans and restorations.                                  *)
THEOREM UndoInvariant ==
  ASSUME MaxEdits = 0
  PROVE  Spec => []UndoInv
<1>. DEFINE Inv == TypeOK /\ HasWork /\ Recorded /\ Alone /\ OneActivePerPath /\ UndoInv
<1>1. Init => Inv
  <2>1. Init => Recorded /\ Alone
    BY DEF Init, Recorded, Alone
  <2>2. NoReceipt.state = "none"
    BY DEF NoReceipt
  <2>3. Init => OneActivePerPath
    BY <2>2 DEF Init, OneActivePerPath, Active
  <2>. QED
    BY <2>1, <2>3, TypeInit, UndoInit
<1>2. Inv /\ [Next]_vars => Inv'
  <2>1. TypeOK => FilesOK
    BY DEF TypeOK
  <2>. QED
    BY <2>1, TypeNext, RecordedNext, AloneNext, UndoNext
<1>3. Inv => UndoInv
  OBVIOUS
<1>. QED
  BY <1>1, <1>2, <1>3, PTL DEF Spec

(* A rollback that answers without an error has put back every original,     *)
(* but for what a failed fsync left untold.                                  *)
THEOREM RolledBackAlwaysRestored ==
  ASSUME MaxEdits = 0
  PROVE  Spec => []RolledBackMeansRestored
<1>1. UndoInv => RolledBackMeansRestored
  BY DEF UndoInv, Answered
<1>. QED
  BY <1>1, UndoInvariant, PTL

(* Wherever a command stopped, restoration can tell what it left behind.     *)
THEOREM WindowsAlwaysReconcile ==
  ASSUME MaxEdits = 0
  PROVE  Spec => []CrashWindowsReconcile
<1>1. UndoInv => CrashWindowsReconcile
  BY DEF UndoInv, Answered
<1>. QED
  BY <1>1, UndoInvariant, PTL

(* A restoration fails only if one of its calls does, or a staged file was   *)
(* cut short.                                                                *)
THEOREM RestoreAlwaysCompletes ==
  ASSUME MaxEdits = 0
  PROVE  Spec => []RestoreCompletes
<1>1. UndoInv => RestoreCompletes
  BY DEF UndoInv, Answered
<1>. QED
  BY <1>1, UndoInvariant, PTL
=============================================================================
