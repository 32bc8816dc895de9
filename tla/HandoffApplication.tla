------------------------- MODULE HandoffApplication -------------------------
(* Applying the private Windows hand-off to a target root, and restoring it  *)
(* from its receipt (internal/handoff/application).  A plan is bound to what *)
(* it saw at every compiled path; a transaction stages each object beside    *)
(* its path, moves the original to a backup name, renames the staged object  *)
(* into place and journals every step in a receipt named after the plan.     *)
(*                                                                           *)
(* Every rename or write is synchronised before the next one starts, so a    *)
(* crash falls between two steps.  An observation and the call it guards are *)
(* one step: the code asks for no concurrent changes and only narrows that   *)
(* window.  The directories a transaction creates are not modelled.          *)
EXTENDS Naturals, FiniteSets

CONSTANTS Paths,        \* compiled destinations, numbered in action order
          Gone,         \* those whose desired state is absence
          Selections,   \* the sets of paths a choice of features selects
          MaxApplies, MaxRestores, MaxEdits, MaxFaults

ASSUME PathsAssumption == Paths \subseteq Nat /\ IsFiniteSet(Paths)
ASSUME GoneAssumption == Gone \subseteq Paths
ASSUME SelectionsAssumption == Selections \subseteq SUBSET Paths
ASSUME BoundsAssumption == /\ MaxApplies \in Nat /\ MaxRestores \in Nat
                           /\ MaxEdits \in Nat /\ MaxFaults \in Nat

(* What a path may hold: what was there before Lexr, what the hand-off asks  *)
(* for, or what the administrator has put there since.                       *)
Contents == {"absent", "original", "desired", "other"}
Staged   == {"absent", "torn", "desired"}
States   == {"none", "prepared", "applying", "committed", "rolling-back", "rolled-back"}

Desired(p) == IF p \in Gone THEN "absent" ELSE "desired"

Nothing == [p \in Paths |-> "absent"]

(* A plan's digest stands for the features it selects and what it saw.       *)
Plans == {q \in [sel : Selections \cup {{}}, seen : [Paths -> Contents]] :
             \A p \in Paths \ q.sel : q.seen[p] = "absent"}

Required(q) == {p \in q.sel : q.seen[p] # Desired(p)}

Receipts == [state : States, orig : [Paths -> Contents],
             moved : SUBSET Paths, applied : SUBSET Paths]

NoReceipt == [state |-> "none", orig |-> Nothing, moved |-> {}, applied |-> {}]

VARIABLES target,     \* what each compiled path holds
          stage,      \* the staged object of a plan beside a path
          backup,     \* the original a plan has moved aside
          receipt,    \* the receipt on disk of each plan
          pc, plan, journal, todo, bad, result,     \* the running command
          held,       \* what the machine's owner last put at each path
          touched,    \* paths edited since a plan last recorded their originals
          slipped,    \* paths renamed by a call whose synchronisation failed
          reopened,   \* paths of a rolled-back receipt that was restored again
          faulted,    \* a call of the last command has failed
          applies, restores, edits, faults

disk    == <<target, stage, backup, receipt>>
command == <<pc, plan, journal, todo, bad, result>>
owner   == <<held, touched>>
slips   == <<slipped, reopened>>
counts  == <<applies, restores, edits, faults>>
vars    == <<disk, command, owner, slips, faulted, counts>>

ApplySteps == {"prepare", "start", "stage", "fill", "move", "notemoved", "publish",
               "noteapplied", "verify", "commit"}
UndoSteps  == {"rollback", "undo", "putback", "noteundone", "finish"}
Forward    == {"stage", "fill", "move", "notemoved", "publish", "noteapplied"}
Backward   == {"undo", "putback", "noteundone"}
Answers    == {"none", "failed", "already", "applied", "unsafe", "restored",
               "rolledback", "incomplete", "crashed"}

Init ==
    /\ target \in [Paths -> {"absent", "original", "desired"}]
    /\ stage = [e \in Plans \X Paths |-> "absent"]
    /\ backup = [e \in Plans \X Paths |-> "absent"]
    /\ receipt = [q \in Plans |-> NoReceipt]
    /\ pc = "idle" /\ plan = [sel |-> {}, seen |-> Nothing] /\ journal = NoReceipt
    /\ todo = {} /\ bad = FALSE /\ result = "none"
    /\ held = [p \in Paths |-> IF target[p] = "original" THEN "original" ELSE "absent"]
    /\ touched = {} /\ slipped = {} /\ reopened = {} /\ faulted = FALSE
    /\ applies = 0 /\ restores = 0 /\ edits = 0 /\ faults = 0

-----------------------------------------------------------------------------

First(p) == p \in todo /\ \A q \in todo : p <= q
Last(p)  == p \in todo /\ \A q \in todo : q <= p

End(answer) == pc' = "idle" /\ result' = answer /\ todo' = {}

Fault == faults < MaxFaults /\ faults' = faults + 1 /\ faulted' = TRUE
NoFault == UNCHANGED <<faults, faulted>>
Fresh   == faulted' = FALSE /\ UNCHANGED faults

Bounds == <<applies, restores, edits>>

(* writeReceipt replaces the receipt atomically; when it fails the new one   *)
(* may be in place or not.                                                   *)
Written(j) == [receipt EXCEPT ![plan] = j]
MayBeWritten(j) == receipt' \in {receipt, Written(j)}

(* The deferred rollback of Apply: the in-memory journal goes with it.       *)
RollBack == pc' = "rollback" /\ todo' = {} /\ UNCHANGED result

-----------------------------------------------------------------------------
(* Plan and Apply.                                                           *)

Reviewed(sel) == [sel |-> sel, seen |-> [p \in Paths |-> IF p \in sel THEN target[p]
                                                                    ELSE "absent"]]

PlanApply ==
    /\ pc = "idle" /\ applies < MaxApplies
    /\ \E sel \in Selections : plan' = Reviewed(sel)
    /\ pc' = "planned" /\ result' = "none"
    /\ UNCHANGED <<disk, journal, todo, bad, owner, slips, faulted, counts>>

(* Receipts that are not rolled back, and ensureNoOverlappingActiveReceipt.  *)
Active == {q \in Plans : receipt[q].state \notin {"none", "rolled-back"}}

Overlaps(q) == \E r \in Active : r.sel \cap q.sel # {}

BeginApply ==
    /\ pc = "planned" /\ applies' = applies + 1
    /\ \/ plan # Reviewed(plan.sel) /\ End("failed") /\ Fresh
       \/ /\ plan = Reviewed(plan.sel) /\ Required(plan) = {} /\ End("already")
          /\ Fresh
       \/ /\ plan = Reviewed(plan.sel) /\ Required(plan) # {} /\ Overlaps(plan)
          /\ End("failed") /\ Fresh
       \/ /\ plan = Reviewed(plan.sel) /\ Required(plan) # {} /\ ~Overlaps(plan)
          /\ pc' = "prepare" /\ Fresh /\ UNCHANGED <<todo, result>>
       \/ Fault /\ End("failed")
    /\ bad' = FALSE
    /\ UNCHANGED <<disk, plan, journal, owner, slips, restores, edits>>

(* A staging or backup name of this plan is already taken.                   *)
Leftover(q) == \E p \in Required(q) :
                  \/ p \notin Gone /\ stage[<<q, p>>] # "absent"
                  \/ target[p] # "absent" /\ backup[<<q, p>>] # "absent"

Snapshot(q) == [p \in Paths |-> IF p \in q.sel THEN target[p] ELSE "absent"]

Prepare ==
    /\ pc = "prepare"
    /\ LET prepared == [state |-> "prepared", orig |-> Snapshot(plan),
                        moved |-> {}, applied |-> {}] IN
       \/ Leftover(plan) /\ End("failed") /\ NoFault /\ UNCHANGED <<receipt, journal, touched>>
       \/ /\ ~Leftover(plan) /\ journal' = prepared /\ receipt' = Written(prepared)
          /\ touched' = touched \ plan.sel
          /\ pc' = "start" /\ NoFault /\ UNCHANGED <<todo, result>>
       \/ /\ ~Leftover(plan) /\ Fault /\ MayBeWritten(prepared) /\ End("failed")
          /\ touched' = touched \ plan.sel /\ UNCHANGED journal
    /\ UNCHANGED <<target, stage, backup, plan, bad, held, slips, Bounds>>

Start ==
    /\ pc = "start"
    /\ LET applying == [journal EXCEPT !.state = "applying"] IN
       /\ journal' = applying
       /\ \/ /\ receipt' = Written(applying) /\ pc' = "stage" /\ todo' = Required(plan)
             /\ NoFault /\ UNCHANGED result
          \/ Fault /\ MayBeWritten(applying) /\ End("failed")
    /\ UNCHANGED <<target, stage, backup, plan, bad, owner, slips, Bounds>>

(* verifyObservedTarget                                                      *)
Unchanged(p) == target[p] = plan.seen[p]

Stage == \E p \in todo :
    /\ pc = "stage" /\ First(p)
    /\ \/ ~Unchanged(p) /\ RollBack /\ NoFault /\ UNCHANGED stage
       \/ /\ Unchanged(p) /\ p \in Gone /\ pc' = "move"
          /\ NoFault /\ UNCHANGED <<stage, todo, result>>
       \/ /\ Unchanged(p) /\ p \notin Gone /\ stage' = [stage EXCEPT ![<<plan, p>>] = "torn"]
          /\ pc' = "fill" /\ NoFault /\ UNCHANGED <<todo, result>>
       \/ Fault /\ RollBack /\ UNCHANGED stage
    /\ UNCHANGED <<target, backup, receipt, plan, journal, bad, owner, slips, Bounds>>

(* The staged file is removed again when its bytes cannot be written.        *)
Fill == \E p \in todo :
    /\ pc = "fill" /\ First(p)
    /\ \/ /\ stage' = [stage EXCEPT ![<<plan, p>>] = "desired"] /\ pc' = "move"
          /\ NoFault /\ UNCHANGED <<todo, result>>
       \/ /\ Fault /\ RollBack
          /\ \E s \in {"absent", "desired"} : stage' = [stage EXCEPT ![<<plan, p>>] = s]
    /\ UNCHANGED <<target, backup, receipt, plan, journal, bad, owner, slips, Bounds>>

Move == \E p \in todo :
    /\ pc = "move" /\ First(p)
    /\ LET moved == /\ target' = [target EXCEPT ![p] = "absent"]
                    /\ backup' = [backup EXCEPT ![<<plan, p>>] = target[p]]
           found == target[p] # "absent" IN
       \/ ~Unchanged(p) /\ RollBack /\ NoFault /\ UNCHANGED <<target, backup, journal, slipped>>
       \/ /\ Unchanged(p) /\ journal.orig[p] = "absent" /\ pc' = "publish"
          /\ NoFault /\ UNCHANGED <<target, backup, journal, slipped, todo, result>>
       \/ /\ Unchanged(p) /\ journal.orig[p] # "absent" /\ found /\ moved
          /\ journal' = [journal EXCEPT !.moved = @ \cup {p}] /\ pc' = "notemoved"
          /\ NoFault /\ UNCHANGED <<slipped, todo, result>>
       \/ /\ Unchanged(p) /\ journal.orig[p] # "absent" /\ ~found
          /\ RollBack /\ NoFault /\ UNCHANGED <<target, backup, journal, slipped>>
       \/ Fault /\ RollBack /\ UNCHANGED <<target, backup, journal, slipped>>
       \/ /\ Unchanged(p) /\ journal.orig[p] # "absent" /\ found /\ moved
          /\ Fault /\ RollBack /\ slipped' = slipped \cup {p} /\ UNCHANGED journal
    /\ UNCHANGED <<stage, receipt, plan, bad, owner, reopened, Bounds>>

NoteMoved ==
    /\ pc = "notemoved"
    /\ \/ receipt' = Written(journal) /\ pc' = "publish" /\ NoFault /\ UNCHANGED <<todo, result>>
       \/ Fault /\ MayBeWritten(journal) /\ RollBack
    /\ UNCHANGED <<target, stage, backup, plan, journal, bad, owner, slips, Bounds>>

(* The staged object is renamed onto a path that must be absent.             *)
Publish == \E p \in todo :
    /\ pc = "publish" /\ First(p)
    /\ LET published == /\ target' = [target EXCEPT ![p] = Desired(p)]
                        /\ stage' = [stage EXCEPT ![<<plan, p>>] = "absent"] IN
       \/ /\ target[p] # "absent" /\ RollBack /\ NoFault
          /\ UNCHANGED <<target, stage, journal, slipped>>
       \/ /\ target[p] = "absent" /\ published
          /\ journal' = [journal EXCEPT !.applied = @ \cup {p}] /\ pc' = "noteapplied"
          /\ NoFault /\ UNCHANGED <<slipped, todo, result>>
       \/ Fault /\ RollBack /\ UNCHANGED <<target, stage, journal, slipped>>
       \/ /\ target[p] = "absent" /\ published /\ Fault /\ RollBack
          /\ slipped' = slipped \cup {p} /\ UNCHANGED journal
    /\ UNCHANGED <<backup, receipt, plan, bad, owner, reopened, Bounds>>

NextAction(p) == IF todo = {p} THEN pc' = "verify" /\ todo' = {}
                               ELSE pc' = "stage" /\ todo' = todo \ {p}

NoteApplied == \E p \in todo :
    /\ pc = "noteapplied" /\ First(p)
    /\ \/ /\ receipt' = Written(journal) /\ NoFault
          /\ \/ target[p] = Desired(p) /\ NextAction(p) /\ UNCHANGED result
             \/ target[p] # Desired(p) /\ RollBack
       \/ Fault /\ MayBeWritten(journal) /\ RollBack
    /\ UNCHANGED <<target, stage, backup, plan, journal, bad, owner, slips, Bounds>>

(* The private store is validated again, then every selected path.           *)
Verify ==
    /\ pc = "verify"
    /\ \/ /\ \A p \in plan.sel : target[p] = Desired(p)
          /\ pc' = "commit" /\ NoFault /\ UNCHANGED <<todo, result>>
       \/ (\E p \in plan.sel : target[p] # Desired(p)) /\ RollBack /\ NoFault
       \/ Fault /\ RollBack
    /\ UNCHANGED <<disk, plan, journal, bad, owner, slips, Bounds>>

Commit ==
    /\ pc = "commit"
    /\ LET committed == [journal EXCEPT !.state = "committed"] IN
       /\ journal' = committed
       /\ \/ receipt' = Written(committed) /\ End("applied") /\ NoFault
          \/ Fault /\ MayBeWritten(committed) /\ RollBack
    /\ UNCHANGED <<target, stage, backup, plan, bad, owner, slips, Bounds>>

-----------------------------------------------------------------------------
(* rollbackTransaction, after a failed Apply and in Restore: an error is     *)
(* noted and the next action is undone all the same.                         *)

BeginRollback ==
    /\ pc = "rollback"
    /\ LET rolling == [journal EXCEPT !.state = "rolling-back"] IN
       /\ journal' = rolling
       /\ \/ receipt' = Written(rolling) /\ NoFault /\ UNCHANGED bad
          \/ Fault /\ MayBeWritten(rolling) /\ bad' = TRUE
    /\ pc' = "undo" /\ todo' = Required(plan)
    /\ UNCHANGED <<target, stage, backup, plan, result, owner, slips, Bounds>>

NextUndo(p) == IF todo = {p} THEN pc' = "finish" /\ todo' = {}
                             ELSE pc' = "undo" /\ todo' = todo \ {p}

Unstaged(p) == stage' = [stage EXCEPT ![<<plan, p>>] = "absent"]

(* removeReceiptStage: only an exact staged object is removed.               *)
Unstage == \E p \in todo :
    /\ pc = "undo" /\ Last(p) /\ p \notin journal.moved \cup journal.applied
    /\ \/ stage[<<plan, p>>] # "torn" /\ Unstaged(p) /\ NoFault /\ UNCHANGED bad
       \/ stage[<<plan, p>>] = "torn" /\ bad' = TRUE /\ NoFault /\ UNCHANGED stage
       \/ Fault /\ bad' = TRUE /\ UNCHANGED stage
    /\ NextUndo(p)
    /\ UNCHANGED <<target, backup, receipt, plan, journal, result, owner, slips, Bounds>>

(* restoreReceiptAction: a published object must still be the desired one.   *)
TakeBack == \E p \in todo :
    /\ pc = "undo" /\ Last(p) /\ p \in journal.moved \cup journal.applied
    /\ \/ /\ p \in journal.applied /\ target[p] = Desired(p)
          /\ target' = [target EXCEPT ![p] = "absent"]
          /\ pc' = "putback" /\ NoFault /\ UNCHANGED <<todo, bad>>
       \/ /\ p \notin journal.applied /\ pc' = "putback"
          /\ NoFault /\ UNCHANGED <<target, todo, bad>>
       \/ /\ p \in journal.applied /\ target[p] # Desired(p)
          /\ bad' = TRUE /\ NextUndo(p) /\ NoFault /\ UNCHANGED target
       \/ Fault /\ bad' = TRUE /\ NextUndo(p) /\ UNCHANGED target
    /\ UNCHANGED <<stage, backup, receipt, plan, journal, result, owner, slips, Bounds>>

(* Slip: the backup is renamed onto whatever is there.                       *)
MutantCanPutBack(p) == backup[<<plan, p>>] = journal.orig[p]

(* The backup must be the recorded original, and the path free for it.       *)
CanPutBack(p) == /\ backup[<<plan, p>>] = journal.orig[p]
                 /\ target[p] = "absent"

PutBack == \E p \in todo :
    /\ pc = "putback" /\ Last(p)
    /\ LET original == journal.orig[p] # "absent"
           back == /\ target' = [target EXCEPT ![p] = backup[<<plan, p>>]]
                   /\ backup' = [backup EXCEPT ![<<plan, p>>] = "absent"] IN
       \/ /\ IF original THEN CanPutBack(p) /\ back ELSE UNCHANGED <<target, backup>>
          /\ Unstaged(p) /\ pc' = "noteundone"
          /\ journal' = [journal EXCEPT !.moved = @ \ {p}, !.applied = @ \ {p}]
          /\ NoFault /\ UNCHANGED <<todo, bad>>
       \/ /\ original /\ ~CanPutBack(p) /\ bad' = TRUE /\ NextUndo(p)
          /\ NoFault /\ UNCHANGED <<target, stage, backup, journal>>
       \/ /\ Fault /\ bad' = TRUE /\ NextUndo(p)
          /\ \/ UNCHANGED <<target, stage, backup>>
             \/ /\ IF original THEN CanPutBack(p) /\ back ELSE UNCHANGED <<target, backup>>
                /\ Unstaged(p) \/ UNCHANGED stage
          /\ UNCHANGED journal
    /\ UNCHANGED <<receipt, plan, result, owner, slips, Bounds>>

NoteUndone == \E p \in todo :
    /\ pc = "noteundone" /\ Last(p) /\ NextUndo(p)
    /\ \/ receipt' = Written(journal) /\ NoFault /\ UNCHANGED bad
       \/ Fault /\ MayBeWritten(journal) /\ bad' = TRUE
    /\ UNCHANGED <<target, stage, backup, plan, journal, result, owner, slips, Bounds>>

(* Slip: the receipt is closed although an action could not be undone.       *)
MutantFinish ==
    /\ pc = "finish"
    /\ receipt' = Written([journal EXCEPT !.state = "rolled-back"])
    /\ End("rolledback") /\ NoFault
    /\ UNCHANGED <<target, stage, backup, plan, journal, bad, owner, slips, Bounds>>

Finish ==
    /\ pc = "finish"
    /\ LET rolledBack == [journal EXCEPT !.state = "rolled-back"] IN
       \/ bad /\ End("incomplete") /\ NoFault /\ UNCHANGED receipt
       \/ ~bad /\ receipt' = Written(rolledBack) /\ End("rolledback") /\ NoFault
       \/ ~bad /\ Fault /\ MayBeWritten(rolledBack) /\ End("incomplete")
    /\ UNCHANGED <<target, stage, backup, plan, journal, bad, owner, slips, Bounds>>

-----------------------------------------------------------------------------
(* PlanRestore and Restore.                                                  *)

BackedUp(q, p) == receipt[q].orig[p] # "absent" /\ backup[<<q, p>>] # "absent"

AsBefore(q, p) == target[p] = receipt[q].orig[p]

(* Slip: the journal is believed.                                            *)
MutantInPlace(q, p) == p \in receipt[q].applied

(* Slip: the window between the two renames of an action is not recognised.  *)
MutantIsolated(q, p) == BackedUp(q, p) /\ target[p] = Desired(p)

(* What reconcileReceipt takes the flags to be, whatever the journal says.   *)
InPlace(q, p) == /\ target[p] = Desired(p)
                 /\ BackedUp(q, p) \/ (receipt[q].orig[p] = "absent" /\ ~AsBefore(q, p))
Isolated(q, p) == /\ BackedUp(q, p)
                  /\ target[p] = Desired(p) \/ (p \notin Gone /\ target[p] = "absent")

Reconciled(q) == [receipt[q] EXCEPT !.moved = {p \in Required(q) : Isolated(q, p)},
                                    !.applied = {p \in Required(q) : InPlace(q, p)}]

Restorable(q) == \A p \in q.sel :
    IF p \in Required(q)
    THEN /\ BackedUp(q, p) => backup[<<q, p>>] = receipt[q].orig[p]
         /\ \/ Isolated(q, p) \/ InPlace(q, p)
            \/ ~BackedUp(q, p) /\ AsBefore(q, p)
    ELSE AsBefore(q, p)

PlanRestore ==
    /\ pc = "idle" /\ restores < MaxRestores
    /\ \E q \in Plans : /\ receipt[q].state # "none" /\ plan' = q
                        /\ \/ /\ Restorable(q) /\ journal' = Reconciled(q)
                              /\ pc' = "restoring" /\ result' = "none" /\ UNCHANGED <<todo, restores>>
                           \/ /\ ~Restorable(q) /\ End("unsafe") /\ restores' = restores + 1
                              /\ UNCHANGED journal
    /\ UNCHANGED <<disk, bad, owner, slips, faulted, applies, edits, faults>>

(* Nothing to undo: no flag, no staged object, and the receipt says so.      *)
Undone(q) == /\ journal.state = "rolled-back" /\ journal.moved = {} /\ journal.applied = {}
             /\ \A p \in Required(q) : stage[<<q, p>>] # "desired"

BeginRestore ==
    /\ pc = "restoring" /\ restores' = restores + 1
    /\ LET same == Restorable(plan) /\ Reconciled(plan) = journal IN
       \/ ~same /\ End("failed") /\ Fresh
       \/ same /\ Undone(plan) /\ End("restored") /\ Fresh
       \/ /\ same /\ ~Undone(plan) /\ pc' = "rollback" /\ Fresh
          /\ UNCHANGED <<todo, result>>
       \/ Fault /\ End("failed")
    /\ bad' = FALSE /\ slipped' = slipped \ plan.sel
    /\ reopened' = IF pc' = "rollback" /\ journal.state = "rolled-back"
                   THEN reopened \cup plan.sel ELSE reopened
    /\ UNCHANGED <<disk, plan, journal, owner, applies, edits>>

-----------------------------------------------------------------------------
(* The environment.                                                          *)

Edit ==
    /\ edits < MaxEdits /\ edits' = edits + 1
    /\ \E p \in Paths, c \in {"absent", "other"} :
        /\ target' = [target EXCEPT ![p] = c] /\ held' = [held EXCEPT ![p] = c]
        /\ touched' = touched \cup {p}
    /\ UNCHANGED <<stage, backup, receipt, command, slips, faulted, applies, restores, faults>>

(* The process is killed or the power fails.                                 *)
Crash ==
    /\ pc \in ApplySteps \cup UndoSteps /\ faults < MaxFaults /\ faults' = faults + 1
    /\ End("crashed")
    /\ UNCHANGED <<disk, plan, journal, bad, owner, slips, faulted, Bounds>>

Forwards == \/ Prepare \/ Start \/ Stage \/ Fill \/ Move \/ NoteMoved
            \/ Publish \/ NoteApplied \/ Verify \/ Commit
Backwards == \/ BeginRollback \/ Unstage \/ TakeBack \/ PutBack \/ NoteUndone \/ Finish

Step == Forwards \/ Backwards

Next == PlanApply \/ BeginApply \/ PlanRestore \/ BeginRestore \/ Step \/ Edit \/ Crash

Spec == Init /\ [][Next]_vars

-----------------------------------------------------------------------------
FilesOK ==
    /\ target \in [Paths -> Contents]
    /\ stage \in [Plans \X Paths -> Staged] /\ backup \in [Plans \X Paths -> Contents]
    /\ receipt \in [Plans -> Receipts] /\ plan \in Plans /\ journal \in Receipts

LoopsOK ==
    /\ pc \in {"idle", "planned", "restoring"} \cup ApplySteps \cup UndoSteps
    /\ todo \in SUBSET Required(plan)
    /\ IF pc \in Forward \cup Backward THEN todo # {} ELSE todo = {}

FlagsOK == bad \in BOOLEAN /\ faulted \in BOOLEAN

HistoryOK ==
    /\ result \in Answers
    /\ held \in [Paths -> {"absent", "original", "other"}]
    /\ touched \in SUBSET Paths /\ slipped \in SUBSET Paths /\ reopened \in SUBSET Paths
    /\ applies \in Nat /\ restores \in Nat /\ edits \in Nat /\ faults \in Nat

(* Every variable keeps to its set, a loop works on actions of its own plan, *)
(* and it always has one.                                                    *)
TypeOK == FilesOK /\ LoopsOK /\ FlagsOK /\ HistoryOK

(* What the owner of the machine last put at a path is still there, or in    *)
(* the backup of a transaction whose receipt names it.                       *)
ContentKept == \A p \in Paths : held[p] # "absent" =>
    \/ target[p] = held[p]
    \/ \E q \in Plans : backup[<<q, p>>] = held[p] /\ receipt[q].state # "none"

BackAsItWas(p) == /\ target[p] = receipt[plan].orig[p]
                  /\ backup[<<plan, p>>] = "absent" /\ stage[<<plan, p>>] = "absent"

(* A rollback that answers without an error has put back every original, but *)
(* for what the administrator edited and what a failed fsync left untold.    *)
RolledBackMeansRestored ==
    pc = "idle" /\ result = "rolledback" =>
        \A p \in Required(plan) \ (touched \cup slipped) : BackAsItWas(p)

(* Wherever a command stopped, restoration can tell what it left behind.     *)
CrashWindowsReconcile ==
    result = "unsafe" /\ receipt[plan].state # "rolled-back" =>
        plan.sel \cap (touched \cup reopened) # {}

(* A restoration fails only if one of its calls does, an object was edited,  *)
(* or a staged file was cut short.                                           *)
RestoreCompletes ==
    pc = "idle" /\ result = "incomplete" =>
        \/ faulted \/ plan.sel \cap touched # {}
        \/ \E p \in Required(plan) : stage[<<plan, p>>] = "torn"

(* A path has at most one transaction to be undone, as long as no receipt    *)
(* that was rolled back is restored a second time.                           *)
OneActivePerPath ==
    \A q \in Active, r \in Active : q # r => q.sel \cap r.sel \subseteq reopened

(* The receipt state rolled-back "records complete restoration of the        *)
(* pre-transaction state" (receipt.go).                                      *)
RolledBackIsComplete ==
    pc = "idle" /\ result = "rolledback" =>
        \A p \in Required(plan) \ touched : BackAsItWas(p)

(* The overlap check "prevents receipt chains whose rollback order could     *)
(* become ambiguous" (transaction.go).                                       *)
NoAmbiguousChain ==
    \A q \in Active, r \in Active : q # r => q.sel \cap r.sel = {}
=============================================================================
