------------------------ MODULE KernelInstall_proofs ------------------------
(* Theorems about the kernel transaction, for every bundle, request,       *)
(* maintainer-script behaviour and number of attempts and faults.          *)
EXTENDS KernelInstall, TLAPS

USE DEF PkgStates, Delivery, TargetMenu, FallbackMenu, Trees, ForeignUse, Bytes

-----------------------------------------------------------------------------
(* Every variable keeps to its set, whatever scripts and environment do.   *)

(* The values a fresh or crashed process starts from.                      *)
LEMMA BlankTypes == /\ NoPlan \in PlanType /\ NoMenu \in Menus
                    /\ NoRecovery \in RecoveryType /\ NoRequest \in RequestType
<1>1. NoPlan \in PlanType
  BY DEF NoPlan, PlanType
<1>2. NoMenu \in Menus
  BY DEF NoMenu, Menus
<1>3. NoRecovery \in RecoveryType
  BY DEF NoRecovery, RecoveryType
<1>4. NoRequest \in RequestType
  BY DEF NoRequest, RequestType
<1>. QED
  BY <1>1, <1>2, <1>3, <1>4

LEMMA TypeInit == Init => TypeOK
<1> SUFFICES ASSUME Init PROVE TypeOK
  OBVIOUS
<1>1. PICK m \in Machines :
        /\ pkg = [r \in Roles |-> IF r = BootSupport THEN m.support ELSE "none"]
        /\ menu = [target |-> "none", fallback |-> m.fallback, tree |-> m.tree,
                   foreign |-> m.foreign]
        /\ exactTree = IF m.tree = "exact" THEN "fallback" ELSE "none"
        /\ hook = m.hook
  BY DEF Init
<1>2. m \in MachineType
  BY MachinesAssumption
<1>3. pkg \in [Roles -> PkgStates]
  BY <1>1, <1>2 DEF MachineType
<1>4. menu \in Menus
  BY <1>1, <1>2 DEF MachineType, Menus
<1>5. hook \in {"none", "retirable", "unknown"}
        /\ exactTree \in {"none", "fallback", "other"}
  BY <1>1, <1>2 DEF MachineType
<1>. QED
  BY <1>3, <1>4, <1>5, BlankTypes DEF Init, TypeOK, Phases, Commands

LEMMA TypePreflight ==
  TypeOK /\ (Begin \/ Prepare \/ Stage \/ Recheck \/ CreateGRUBBackup) => TypeOK'
<1> SUFFICES ASSUME TypeOK, Begin \/ Prepare \/ Stage \/ Recheck \/ CreateGRUBBackup
             PROVE  TypeOK'
  OBVIOUS
<1> USE DEF TypeOK, target, boot, hookdir, intent, outcome, context, counts, Phases
<1>1. CASE Begin
  <2>1. attempts' \in Nat
    BY <1>1 DEF Begin
  <2>2. req' \in RequestType /\ leftover' \in BOOLEAN
    BY <1>1, RequestsAssumption DEF Begin, HasTarget
  <2>. QED
    BY <1>1, <2>1, <2>2, BlankTypes DEF Begin, Commands
<1>2. CASE Prepare
  <2>1. Reviewable => Binding \in {"none", "create", "verify"}
    BY DEF Reviewable, Binding, Menus
  <2>2. Reviewable => hook \in {"none", "retirable"}
    BY DEF Reviewable
  <2>3. FallbackView \in [bytes : Bytes, entries : FallbackMenu]
    BY DEF FallbackView, Menus
  <2>4. Classify(req.bundle) \in {"absent", "partial", "complete"}
    BY DEF Classify
  <2>5. Reviewable => [class |-> Classify(req.bundle), hook |-> hook,
                       binding |-> Binding, fallback |-> FallbackView] \in PlanType
    BY <2>1, <2>2, <2>3, <2>4 DEF PlanType
  <2>6. plan' \in PlanType
    BY <1>2, <2>5 DEF Prepare, Stop
  <2>. QED
    BY <1>2, <2>6 DEF Prepare, Stop
<1>3. CASE Stage
  BY <1>3 DEF Stage, Stop
<1>4. CASE Recheck
  BY <1>4 DEF Recheck, Stop
<1>5. CASE CreateGRUBBackup
  BY <1>5 DEF CreateGRUBBackup, Stop
<1>. QED
  BY <1>1, <1>2, <1>3, <1>4, <1>5

LEMMA TypePreparation ==
  TypeOK /\ (RetireHooks \/ CreateFallbackBinding) => TypeOK'
<1> SUFFICES ASSUME TypeOK, RetireHooks \/ CreateFallbackBinding PROVE TypeOK'
  OBVIOUS
<1> USE DEF TypeOK, target, boot, hookdir, intent, outcome, context, counts, Phases,
            Unwind
<1>1. CASE RetireHooks
  <2>1. saved' \in BOOLEAN
    BY <1>1 DEF RetireHooks
  <2>2. hook' \in {"none", "retirable", "unknown"}
    BY <1>1 DEF RetireHooks
  <2>3. /\ hooks' \in {"kept", "retired", "restored", "stranded"}
        /\ pc' \in Phases /\ cause' = cause /\ recovery' = recovery
        /\ result' \in {"none", "reviewed", "blocked", "failed", "ok"}
    BY <1>1 DEF RetireHooks
  <2>. QED
    BY <1>1, <2>1, <2>2, <2>3 DEF RetireHooks
<1>2. CASE CreateFallbackBinding
  BY <1>2 DEF CreateFallbackBinding
<1>. QED
  BY <1>1, <1>2

(* A regenerated menu is a menu, for every effect and target entry.        *)
LEMMA RegeneratedMenu ==
  ASSUME TypeOK, NEW e \in EffectType, NEW t \in TargetMenu, Regenerate(e, t)
  PROVE  menu' \in Menus
  BY DEF TypeOK, EffectType, Regenerate, Menus, StockTree, Entries

LEMMA TypeCommands ==
  TypeOK /\ (\/ CheckContext \/ RefuseCommand \/ InstallPackages \/ UpdateInitramfs
             \/ InitramfsMissing \/ EnsureInitramfs \/ RejectCompetingBootHooks
             \/ RefreshBoot) => TypeOK'
<1> SUFFICES ASSUME TypeOK,
                    \/ CheckContext \/ RefuseCommand \/ InstallPackages
                    \/ UpdateInitramfs \/ InitramfsMissing \/ EnsureInitramfs
                    \/ RejectCompetingBootHooks \/ RefreshBoot
             PROVE  TypeOK'
  OBVIOUS
<1> USE DEF TypeOK, target, boot, hookdir, intent, outcome, context, counts, Phases,
            Unwind, FailAndRollback, Commands
<1>1. CASE CheckContext
  BY <1>1 DEF CheckContext
<1>2. CASE RefuseCommand
  BY <1>2 DEF RefuseCommand
<1>3. CASE InstallPackages
  <2>1. PICK e \in ScriptEffects :
          /\ TouchFallback(e)
          /\ \/ /\ pkg' = Unpacked("installed") /\ files' = "whole"
                /\ initrd' = (e.initrd \/ initrd)
                /\ Regenerate(e, e.target) /\ pc' = "loop" /\ cmd' = "initramfs"
                /\ UNCHANGED outcome
             \/ /\ \/ UNCHANGED <<pkg, files>>
                   \/ pkg' = Unpacked("half") /\ files' = "some"
                   \/ pkg' = Unpacked("installed") /\ files' = "whole"
                /\ UNCHANGED initrd
                /\ Regenerate(e, "incomplete") \/ UNCHANGED menu
                /\ FailAndRollback("other") /\ UNCHANGED cmd
    BY <1>3 DEF InstallPackages
  <2>2. e \in EffectType
    BY EffectsAssumption
  <2>3. menu' \in Menus
    BY <2>1, <2>2, RegeneratedMenu DEF EffectType
  <2>4. bytes' \in Bytes /\ sharedTree' \in {"fallback", "target"}
          /\ hook' \in {"none", "retirable", "unknown"}
    BY <2>1, <2>2 DEF TouchFallback, EffectType
  <2>5. pkg' \in [Roles -> PkgStates] /\ files' \in {"none", "some", "whole"}
          /\ initrd' \in BOOLEAN
    BY <2>1, <2>2 DEF Unpacked, EffectType
  <2>6. executed' \in SUBSET Commands
    BY <1>3 DEF InstallPackages, Start
  <2>7. pc' \in Phases /\ cmd' \in Commands /\ cause' \in {"none", "other", "shared"}
          /\ recovery' = recovery /\ hooks' = hooks
          /\ result' \in {"none", "reviewed", "blocked", "failed", "ok"}
    BY <2>1
  <2>8. UNCHANGED <<exactTree, saved, mount, intent, backup, context, counts>>
    BY <1>3 DEF InstallPackages
  <2>. QED
    BY <2>3, <2>4, <2>5, <2>6, <2>7, <2>8
<1>4. CASE UpdateInitramfs
  BY <1>4 DEF UpdateInitramfs, Start
<1>5. CASE InitramfsMissing
  BY <1>5 DEF InitramfsMissing
<1>6. CASE EnsureInitramfs
  BY <1>6 DEF EnsureInitramfs, Start
<1>7. CASE RejectCompetingBootHooks
  BY <1>7 DEF RejectCompetingBootHooks
<1>8. CASE RefreshBoot
  <2>1. PICK e \in ScriptEffects :
          /\ TouchFallback(e)
          /\ \/ Regenerate(e, e.target) /\ pc' = "verify" /\ UNCHANGED outcome
             \/ /\ Regenerate(e, "incomplete") \/ UNCHANGED menu
                /\ FailAndRollback("other")
    BY <1>8 DEF RefreshBoot
  <2>2. e \in EffectType
    BY EffectsAssumption
  <2>3. menu' \in Menus
    BY <2>1, <2>2, RegeneratedMenu DEF EffectType
  <2>4. bytes' \in Bytes /\ sharedTree' \in {"fallback", "target"}
          /\ hook' \in {"none", "retirable", "unknown"}
    BY <2>1, <2>2 DEF TouchFallback, EffectType
  <2>5. executed' \in SUBSET Commands
    BY <1>8 DEF RefreshBoot, Start
  <2>6. pc' \in Phases /\ cause' \in {"none", "other", "shared"}
          /\ recovery' = recovery /\ hooks' = hooks
          /\ result' \in {"none", "reviewed", "blocked", "failed", "ok"}
    BY <2>1
  <2>7. UNCHANGED <<target, exactTree, saved, mount, intent, backup, cmd,
                    context, counts>>
    BY <1>8 DEF RefreshBoot
  <2>. QED
    BY <2>3, <2>4, <2>5, <2>6, <2>7
<1>. QED
  BY <1>1, <1>2, <1>3, <1>4, <1>5, <1>6, <1>7, <1>8

LEMMA TypeVerification ==
  TypeOK /\ (VerifyInstalled \/ VerifyScope \/ VerifyFallback) => TypeOK'
<1> SUFFICES ASSUME TypeOK, VerifyInstalled \/ VerifyScope \/ VerifyFallback
             PROVE  TypeOK'
  OBVIOUS
<1> USE DEF TypeOK, target, boot, hookdir, intent, outcome, context, counts, Phases,
            FailAndRollback, Advance
<1>1. CASE VerifyInstalled
  BY <1>1 DEF VerifyInstalled
<1>2. CASE VerifyScope
  BY <1>2 DEF VerifyScope
<1>3. CASE VerifyFallback
  <2>1. leftover' \in BOOLEAN
    BY <1>3 DEF VerifyFallback
  <2>2. /\ pc' \in Phases /\ cause' \in {"none", "other", "shared"}
        /\ recovery' = recovery /\ hooks' = hooks
        /\ result' \in {"none", "reviewed", "blocked", "failed", "ok"}
    BY <1>3 DEF VerifyFallback, Stop
  <2>. QED
    BY <1>3, <2>1, <2>2 DEF VerifyFallback
<1>. QED
  BY <1>1, <1>2, <1>3

LEMMA TypeRollback ==
  TypeOK /\ (\/ RollbackPackages \/ RestoreGRUB \/ CheckRollback
             \/ RestoreBootPreparation) => TypeOK'
<1> SUFFICES ASSUME TypeOK,
                    \/ RollbackPackages \/ RestoreGRUB \/ CheckRollback
                    \/ RestoreBootPreparation
             PROVE  TypeOK'
  OBVIOUS
<1> USE DEF TypeOK, target, boot, hookdir, intent, outcome, context, counts, Phases,
            RecoveryType, GiveUp, PurgeResult
<1>1. CASE RollbackPackages
  <2>1. menu' \in Menus
    <3>1. CASE \E e \in ScriptEffects : Regenerate(e, "none")
      BY <3>1, EffectsAssumption, RegeneratedMenu
    <3>. QED
      BY <1>1, <3>1 DEF RollbackPackages
  <2>0. Purged("none") \in [Roles -> PkgStates] /\ Purged("half") \in [Roles -> PkgStates]
    BY DEF Purged
  <2>2. pkg' \in [Roles -> PkgStates] /\ files' \in {"none", "some", "whole"}
    BY <1>1, <2>0 DEF RollbackPackages
  <2>3. initrd' \in BOOLEAN
    BY <1>1 DEF RollbackPackages
  <2>4. recovery' \in RecoveryType
    BY <1>1 DEF RollbackPackages
  <2>5. pc' \in Phases /\ cause' = cause /\ hooks' = hooks /\ result' = result
    BY <1>1 DEF RollbackPackages
  <2>. QED
    BY <1>1, <2>1, <2>2, <2>3, <2>4, <2>5 DEF RollbackPackages
<1>2. CASE RestoreGRUB
  <2>1. menu' \in Menus
    BY <1>2 DEF RestoreGRUB
  <2>2. recovery' \in RecoveryType
    BY <1>2 DEF RestoreGRUB
  <2>3. pc' \in Phases /\ cause' = cause /\ hooks' = hooks /\ result' = result
    BY <1>2 DEF RestoreGRUB
  <2>. QED
    BY <1>2, <2>1, <2>2, <2>3 DEF RestoreGRUB
<1>3. CASE CheckRollback
  BY <1>3 DEF CheckRollback
<1>4. CASE RestoreBootPreparation
  BY <1>4 DEF RestoreBootPreparation
<1>. QED
  BY <1>1, <1>2, <1>3, <1>4

LEMMA TypeEnvironment == TypeOK /\ Environment => TypeOK'
<1> SUFFICES ASSUME TypeOK, Environment PROVE TypeOK'
  OBVIOUS
<1> USE DEF TypeOK, target, boot, hookdir, intent, outcome, context, counts, Phases,
            process, Fault
<1>0. Fault => faults' \in Nat
  OBVIOUS
<1>1. CASE Cancel
  BY <1>0, <1>1 DEF Cancel
<1>4. CASE RollbackTimeout
  BY <1>0, <1>4 DEF RollbackTimeout
<1>5. CASE MountLost
  BY <1>0, <1>5 DEF MountLost
<1>6. CASE MountReturns
  BY <1>6 DEF MountReturns
<1>7. CASE HookAppears
  BY <1>0, <1>7 DEF HookAppears
<1>2. CASE TargetAppears
  <2>1. menu' \in Menus
    BY <1>2 DEF TargetAppears, Menus, StockTree
  <2>2. pkg' \in [Roles -> PkgStates]
    BY <1>2 DEF TargetAppears
  <2>. QED
    BY <1>0, <1>2, <2>1, <2>2 DEF TargetAppears
<1>3. CASE Crash
  <2>1. leftover' \in BOOLEAN
    BY <1>3 DEF Crash
  <2>. QED
    BY <1>0, <1>3, <2>1, BlankTypes DEF Crash, Commands
<1>. QED
  BY <1>1, <1>2, <1>3, <1>4, <1>5, <1>6, <1>7 DEF Environment

LEMMA TypeNext == TypeOK /\ [Next]_vars => TypeOK'
<1> SUFFICES ASSUME TypeOK, [Next]_vars PROVE TypeOK'
  OBVIOUS
<1>1. CASE UNCHANGED vars
  BY <1>1 DEF vars, TypeOK
<1>2. CASE Next
  BY <1>2, TypePreflight, TypePreparation, TypeCommands, TypeVerification,
     TypeRollback, TypeEnvironment DEF Next, Step
<1>. QED
  BY <1>1, <1>2

(* The state the transaction keeps stays well-formed.                      *)
THEOREM TypeCorrect == Spec => []TypeOK
  BY TypeInit, TypeNext, PTL DEF Spec
-----------------------------------------------------------------------------
(* The safety of a transaction, whatever the scripts and environment do.   *)

LEMMA InvInit == Init => TransactionInv
  BY DEF Init, TransactionInv, NoEarlyMutation, RolledBackOrEarly, TreesAgree,
         InstalledAfterUnpack, VerifiedBeforeSuccess, SuccessIsFinal, Unpacking,
         Preflight, Reviewed, BackedUp, Prepared, NoRecovery

(* An update-grub run keeps an embedded fallback embedded.                 *)
LEMMA RegenerationKeepsMode ==
  ASSUME NEW e, NEW t, Regenerate(e, t)
  PROVE  menu'.tree = "embedded" <=> menu.tree = "embedded"
  BY DEF Regenerate, StockTree

LEMMA InvStep == TypeOK /\ TransactionInv /\ Step => TransactionInv'
<1> SUFFICES ASSUME TypeOK, TransactionInv, Step PROVE TransactionInv'
  OBVIOUS
<1> USE DEF TransactionInv, NoEarlyMutation, RolledBackOrEarly, TreesAgree,
            InstalledAfterUnpack, VerifiedBeforeSuccess, SuccessIsFinal,
            Unpacking, HasOwnTree, BundleInstalled, TargetBoots,
            SuccessIsBootable, TreeProven,
            Preflight, Reviewed, BackedUp, Prepared,
            target, boot, hookdir, intent, outcome, context, counts
<1>1. CASE Prepare
  <2>1. Reviewable => (Binding = "none" <=> menu.tree = "embedded")
    BY DEF Reviewable, Binding, TypeOK
  <2>2. pc' = "stage" => plan'.binding = Binding /\ Reviewable
    BY <1>1 DEF Prepare, Stop
  <2>3. pc' \in {"stage", "done"} /\ executed = {} /\ executed' = {}
    BY <1>1 DEF Prepare, Stop
  <2>4. result' # "ok" /\ UNCHANGED <<menu, cmd>> /\ cmd = "install"
    BY <1>1 DEF Prepare, Stop
  <2>. QED
    BY <2>1, <2>2, <2>3, <2>4
<1>2. CASE Stage
  BY <1>2 DEF Stage, Stop
<1>3. CASE Recheck
  BY <1>3 DEF Recheck, Stop
<1>4. CASE CreateGRUBBackup
  BY <1>4 DEF CreateGRUBBackup, Stop
<1>5. CASE RetireHooks
  BY <1>5 DEF RetireHooks, Unwind
<1>6. CASE CreateFallbackBinding
  <2>1. plan.binding = "none" <=> menu.tree = "embedded"
    BY <1>6 DEF CreateFallbackBinding
  <2>2. pc' \in {"loop", "unwind"} /\ executed = {} /\ executed' = {}
          /\ UNCHANGED <<menu, backup, plan, cmd>>
    BY <1>6 DEF CreateFallbackBinding, Unwind
  <2>3. pc' = "loop" => HasOwnTree' /\ result' = result
    BY <1>6, <2>1 DEF CreateFallbackBinding, Unwind
  <2>4. pc' = "unwind" => result' = "failed"
    BY <1>6 DEF CreateFallbackBinding, Unwind
  <2>. QED
    BY <1>6, <2>1, <2>2, <2>3, <2>4 DEF CreateFallbackBinding
<1>7. CASE CheckContext
  BY <1>7 DEF CheckContext, Unwind, FailAndRollback, MutationStarted
<1>8. CASE RefuseCommand
  BY <1>8 DEF RefuseCommand, FailAndRollback
<1>9. CASE InstallPackages
  <2>1. HasOwnTree /\ pc = "run" /\ executed' # {} /\ cmd = "install"
    BY <1>9 DEF InstallPackages, Start
  <2>2. menu'.tree = "embedded" <=> menu.tree = "embedded"
    BY <1>9, RegenerationKeepsMode DEF InstallPackages
  <2>3. UNCHANGED <<exactTree, backup, plan, req>>
    BY <1>9 DEF InstallPackages
  <2>4. pc' = "loop" => BundleInstalled' /\ UNCHANGED result
    BY <1>9 DEF InstallPackages, Unpacked, FailAndRollback, TypeOK, RequestType
  <2>5. pc' \in {"loop", "rollback"} /\ (pc' = "rollback" => result' = "failed")
    BY <1>9 DEF InstallPackages, FailAndRollback
  <2>. QED
    BY <2>1, <2>2, <2>3, <2>4, <2>5
<1>10. CASE UpdateInitramfs
  BY <1>10 DEF UpdateInitramfs, Start, FailAndRollback
<1>11. CASE InitramfsMissing
  BY <1>11 DEF InitramfsMissing
<1>12. CASE EnsureInitramfs
  BY <1>12 DEF EnsureInitramfs, Start, FailAndRollback
<1>13. CASE RejectCompetingBootHooks
  BY <1>13 DEF RejectCompetingBootHooks, FailAndRollback
<1>14. CASE RefreshBoot
  BY <1>14 DEF RefreshBoot, Start, FailAndRollback, Regenerate, StockTree, TouchFallback
<1>15. CASE VerifyInstalled
  BY <1>15 DEF VerifyInstalled, Advance, FailAndRollback, TargetBoots
<1>16. CASE VerifyScope
  BY <1>16 DEF VerifyScope, Advance, FailAndRollback
<1>17. CASE VerifyFallback
  BY <1>17 DEF VerifyFallback, Stop, FailAndRollback, FallbackPreserved, FallbackView, FallbackVerifies
<1>18. CASE RollbackPackages
  <2>1. menu'.tree = "embedded" <=> menu.tree = "embedded"
    BY <1>18, RegenerationKeepsMode DEF RollbackPackages
  <2>2. UNCHANGED <<exactTree, backup, plan, req, executed, result>>
    BY <1>18 DEF RollbackPackages, GiveUp, PurgeResult
  <2>3. pc = "rollback" /\ pc' \in {"restore", "unwind"}
    BY <1>18 DEF RollbackPackages, GiveUp, PurgeResult
  <2>4. pc' = "unwind" => recovery'.report # "none"
    BY <1>18 DEF RollbackPackages, GiveUp, PurgeResult, TypeOK, RecoveryType
  <2>. QED
    BY <2>1, <2>2, <2>3, <2>4
<1>19. CASE RestoreGRUB
  <2>1. menu'.tree = "embedded" <=> menu.tree = "embedded"
    BY <1>19 DEF RestoreGRUB
  <2>2. UNCHANGED <<exactTree, backup, plan, req, executed, result>>
    BY <1>19 DEF RestoreGRUB, GiveUp
  <2>3. pc = "restore" /\ pc' \in {"check", "unwind"}
    BY <1>19 DEF RestoreGRUB, GiveUp
  <2>4. pc' = "unwind" => recovery'.report # "none"
    BY <1>19 DEF RestoreGRUB, GiveUp, TypeOK, RecoveryType
  <2>. QED
    BY <2>1, <2>2, <2>3, <2>4
<1>20. CASE CheckRollback
  BY <1>20 DEF CheckRollback
<1>21. CASE RestoreBootPreparation
  BY <1>21 DEF RestoreBootPreparation
<1>. QED
  BY <1>1, <1>2, <1>3, <1>4, <1>5, <1>6, <1>7, <1>8, <1>9, <1>10, <1>11,
     <1>12, <1>13, <1>14, <1>15, <1>16, <1>17, <1>18, <1>19, <1>20, <1>21 DEF Step

LEMMA InvBegin == TransactionInv /\ Begin => TransactionInv'
  BY DEF Begin, TransactionInv, NoEarlyMutation, RolledBackOrEarly, TreesAgree,
         InstalledAfterUnpack, VerifiedBeforeSuccess, SuccessIsFinal, Unpacking,
         Preflight, Reviewed, BackedUp, Prepared

LEMMA InvEnvironment == TypeOK /\ TransactionInv /\ Environment => TransactionInv'
<1> SUFFICES ASSUME TypeOK, TransactionInv, Environment PROVE TransactionInv'
  OBVIOUS
<1> USE DEF TransactionInv, NoEarlyMutation, RolledBackOrEarly, TreesAgree,
            InstalledAfterUnpack, VerifiedBeforeSuccess, SuccessIsFinal,
            Unpacking, HasOwnTree, BundleInstalled, TargetBoots,
            SuccessIsBootable, TreeProven,
            Preflight, Reviewed, BackedUp, Prepared,
            target, boot, hookdir, intent, outcome, context, counts, process
<1>1. CASE Cancel
  BY <1>1 DEF Cancel
<1>2. CASE RollbackTimeout
  BY <1>2 DEF RollbackTimeout
<1>3. CASE MountLost
  BY <1>3 DEF MountLost
<1>4. CASE MountReturns
  BY <1>4 DEF MountReturns
<1>5. CASE HookAppears
  BY <1>5 DEF HookAppears
<1>6. CASE TargetAppears
  <2>1. menu'.tree = "embedded" <=> menu.tree = "embedded"
    BY <1>6 DEF TargetAppears, StockTree, TypeOK, Menus
  <2>2. executed = {} /\ pc \in Early
    BY <1>6 DEF TargetAppears, MutationStarted
  <2>3. UNCHANGED <<exactTree, process>>
    BY <1>6 DEF TargetAppears
  <2>4. ~Unpacking /\ pc # "scope" /\ pc # "fallback" /\ result # "ok"
    BY <2>2 DEF Early
  <2>. QED
    BY <2>1, <2>2, <2>3, <2>4 DEF Early
<1>7. CASE Crash
  BY <1>7 DEF Crash
<1>. QED
  BY <1>1, <1>2, <1>3, <1>4, <1>5, <1>6, <1>7 DEF Environment

(* TransactionInv holds in every reachable state.                          *)
THEOREM TransactionInvariant == Spec => []TransactionInv
<1>1. TypeOK /\ TransactionInv /\ [Next]_vars => TransactionInv'
  <2> SUFFICES ASSUME TypeOK, TransactionInv, [Next]_vars PROVE TransactionInv'
    OBVIOUS
  <2>1. CASE UNCHANGED vars
    BY <2>1 DEF vars, TransactionInv, NoEarlyMutation, RolledBackOrEarly,
       TreesAgree, InstalledAfterUnpack, VerifiedBeforeSuccess, SuccessIsFinal,
       Unpacking, HasOwnTree, BundleInstalled, TargetBoots, SuccessIsBootable,
       TreeProven
  <2>2. CASE Next
    BY <2>2, InvBegin, InvStep, InvEnvironment DEF Next
  <2>. QED
    BY <2>1, <2>2
<1>. QED
  BY <1>1, InvInit, TypeCorrect, PTL DEF Spec

(* Success means a bootable target and an intact fallback.                 *)
THEOREM SuccessAlwaysBootable == Spec => []SuccessIsBootable
<1>1. TransactionInv => SuccessIsBootable
  BY DEF TransactionInv, SuccessIsFinal, SuccessIsBootable
<1>. QED
  BY <1>1, TransactionInvariant, PTL

(* No error path after the first package command skips the rollback.       *)
THEOREM ErrorsAlwaysRollBack == Spec => []ErrorsAfterMutationRollBack
<1>1. TransactionInv => ErrorsAfterMutationRollBack
  BY DEF TransactionInv, RolledBackOrEarly, ErrorsAfterMutationRollBack, MutationStarted
<1>. QED
  BY <1>1, TransactionInvariant, PTL

(* Package scripts never meet an external fallback without its own tree.   *)
THEOREM FallbackAlwaysBound == Spec => []FallbackTreeIsBound
<1>1. TransactionInv => FallbackTreeIsBound
  BY DEF TransactionInv, TreesAgree, HasOwnTree, FallbackTreeIsBound, MutationStarted
<1>. QED
  BY <1>1, TransactionInvariant, PTL

(* No step of the transaction or of a crash removes boot support.          *)
THEOREM SupportAlwaysSurvives == Spec => SupportSurvives
<1>1. TypeOK /\ [Next]_vars
        => [pkg[BootSupport] # "none" => pkg'[BootSupport] # "none"]_vars
  <2> SUFFICES ASSUME TypeOK, Next, pkg[BootSupport] # "none"
               PROVE  pkg'[BootSupport] # "none"
    OBVIOUS
  <2> USE RolesAssumption DEF TypeOK, target
  <2>1. CASE InstallPackages
    BY <2>1 DEF InstallPackages, Unpacked
  <2>2. CASE RollbackPackages
    BY <2>2 DEF RollbackPackages, Purged, Purgeable
  <2>3. CASE TargetAppears
    BY <2>3 DEF TargetAppears
  <2>4. CASE ~InstallPackages /\ ~RollbackPackages /\ ~TargetAppears
    <3>1. pkg' = pkg
      BY <2>4 DEF Next, Step, Environment, Begin, Prepare, Stage, Recheck,
         CreateGRUBBackup, RetireHooks, CreateFallbackBinding, CheckContext,
         RefuseCommand, UpdateInitramfs, InitramfsMissing, EnsureInitramfs,
         RejectCompetingBootHooks, RefreshBoot, VerifyInstalled, VerifyScope,
         VerifyFallback, Advance, RestoreGRUB, CheckRollback,
         RestoreBootPreparation, Cancel, RollbackTimeout, MountLost,
         MountReturns, HookAppears, Crash
    <3>. QED
      BY <3>1
  <2>. QED
    BY <2>1, <2>2, <2>3, <2>4
<1>. QED
  BY <1>1, TypeCorrect, PTL DEF Spec, SupportSurvives

-----------------------------------------------------------------------------
(* What a clean rollback receipt says.                                     *)

LEMMA RollbackInit == Init => RollbackInv
  BY DEF Init, RollbackInv, NoRecovery, Preflight, Prepared, BackedUp

(* No step outside rollback touches what rollback has recorded.            *)
LEMMA RollbackSteps == TypeOK /\ RollbackInv /\ Next => RollbackInv'
<1> SUFFICES ASSUME TypeOK, RollbackInv, Next PROVE RollbackInv'
  OBVIOUS
<1> USE DEF RollbackInv, Preflight, Prepared, BackedUp,
            target, boot, hookdir, intent, outcome, context, counts
<1>1. CASE Begin
  BY <1>1 DEF Begin, NoRecovery
<1>2. CASE Prepare
  BY <1>2 DEF Prepare, Stop, NoRecovery
<1>3. CASE Stage \/ Recheck \/ CreateGRUBBackup
  BY <1>3 DEF Stage, Recheck, CreateGRUBBackup, Stop, NoRecovery
<1>4. CASE RetireHooks \/ CreateFallbackBinding
  BY <1>4 DEF RetireHooks, CreateFallbackBinding, Unwind, NoRecovery
<1>5. CASE CheckContext \/ RefuseCommand
  BY <1>5 DEF CheckContext, RefuseCommand, Unwind, FailAndRollback, NoRecovery
<1>6. CASE InstallPackages
  <2>1. pc = "run" /\ pc' \in {"loop", "rollback"} /\ UNCHANGED recovery
    BY <1>6 DEF InstallPackages, Start, FailAndRollback
  <2>. QED
    BY <2>1 DEF NoRecovery
<1>7. CASE UpdateInitramfs \/ InitramfsMissing \/ EnsureInitramfs
  BY <1>7 DEF UpdateInitramfs, InitramfsMissing, EnsureInitramfs, Start,
     FailAndRollback, NoRecovery
<1>8. CASE RejectCompetingBootHooks
  BY <1>8 DEF RejectCompetingBootHooks, FailAndRollback, NoRecovery
<1>9. CASE RefreshBoot
  <2>1. pc = "run" /\ pc' \in {"verify", "rollback"} /\ UNCHANGED recovery
    BY <1>9 DEF RefreshBoot, Start, FailAndRollback
  <2>. QED
    BY <2>1 DEF NoRecovery
<1>10. CASE VerifyInstalled \/ VerifyScope \/ VerifyFallback
  BY <1>10 DEF VerifyInstalled, VerifyScope, VerifyFallback, Advance, Stop,
     FailAndRollback, NoRecovery
<1>11. CASE RollbackPackages
  <2>1. pc = "rollback" /\ recovery = NoRecovery /\ pc' \in {"restore", "unwind"}
    BY <1>11 DEF RollbackPackages, GiveUp, PurgeResult
  <2>2. recovery'.report # "clean" /\ ~recovery'.grub
    BY <1>11, <2>1 DEF RollbackPackages, GiveUp, PurgeResult, NoRecovery
  <2>3. recovery'.purge = "ok" => pkg' = Purged("none") /\ UNCHANGED req
    BY <1>11, <2>1 DEF RollbackPackages, GiveUp, PurgeResult, NoRecovery
  <2>4. pkg' = Purged("none") /\ UNCHANGED req
          => \A r \in req'.bundle \ {BootSupport} : pkg'[r] = "none"
    BY DEF Purged, Purgeable, TypeOK, RequestType
  <2>. QED
    BY <2>1, <2>2, <2>3, <2>4
<1>12. CASE RestoreGRUB
  <2>1. pc = "restore" /\ pc' \in {"check", "unwind"} /\ UNCHANGED <<pkg, req, backup>>
    BY <1>12 DEF RestoreGRUB, GiveUp
  <2>2. recovery'.report # "clean" /\ recovery'.purge = recovery.purge
    BY <1>12, <2>1 DEF RestoreGRUB, GiveUp, TypeOK, RecoveryType
  <2>3. pc' = "check" /\ recovery'.grub => menu' = backup
    BY <1>12, <2>1 DEF RestoreGRUB, GiveUp, TypeOK, RecoveryType
  <2>. QED
    BY <2>1, <2>2, <2>3
<1>13. CASE CheckRollback
  <2>1. pc = "check" /\ pc' = "unwind"
          /\ UNCHANGED <<pkg, files, initrd, menu, bytes, sharedTree, exactTree,
                         backup, req, plan>>
    BY <1>13 DEF CheckRollback
  <2>2. recovery'.report = "clean" => RolledBack
    BY <1>13 DEF CheckRollback, TypeOK, RecoveryType
  <2>3. RolledBack => CleanRollbackRestores'
    BY <2>1 DEF RolledBack, CleanRollbackRestores, FallbackVerifies,
       FallbackUnchanged, FallbackView, Absent, HasTarget, TypeOK, PlanType, TreeProven
  <2>. QED
    BY <2>1, <2>2, <2>3
<1>14. CASE RestoreBootPreparation
  BY <1>14 DEF RestoreBootPreparation, CleanRollbackRestores, HasTarget, TreeProven
<1>15. CASE Environment
  <2> USE DEF process, CleanRollbackRestores, HasTarget, TreeProven
  <2>1. CASE Cancel \/ RollbackTimeout \/ MountLost \/ MountReturns \/ HookAppears
    BY <2>1 DEF Cancel, RollbackTimeout, MountLost, MountReturns, HookAppears
  <2>2. CASE TargetAppears
    <3>1. pc \in Early /\ UNCHANGED process
      BY <2>2 DEF TargetAppears
    <3>. QED
      BY <3>1 DEF Early
  <2>3. CASE Crash
    BY <2>3 DEF Crash, NoRecovery
  <2>. QED
    BY <1>15, <2>1, <2>2, <2>3 DEF Environment
<1>. QED
  BY <1>1, <1>2, <1>3, <1>4, <1>5, <1>6, <1>7, <1>8, <1>9, <1>10, <1>11, <1>12,
     <1>13, <1>14, <1>15 DEF Next, Step

(* A receipt without a recovery error describes a machine that is back to  *)
(* what was reviewed, however the commands and the rollback went.          *)
THEOREM CleanRollbackAlwaysRestores == Spec => []CleanRollbackRestores
<1>1. TypeOK /\ RollbackInv /\ [Next]_vars => RollbackInv'
  <2> SUFFICES ASSUME TypeOK, RollbackInv, UNCHANGED vars PROVE RollbackInv'
    BY RollbackSteps
  <2>. QED
    BY DEF vars, RollbackInv, CleanRollbackRestores, HasTarget, TreeProven
<1>2. RollbackInv => CleanRollbackRestores
  BY DEF RollbackInv, CleanRollbackRestores
<1>. QED
  BY <1>1, <1>2, RollbackInit, TypeCorrect, PTL DEF Spec

-----------------------------------------------------------------------------
(* What a crash leaves, and who may build on it.                           *)

LEMMA LeftoverInit == Init => LeftoverInv
  BY DEF Init, LeftoverInv, BackedUp

LEMMA LeftoverSteps == NoEarlyMutation /\ LeftoverInv /\ Next => LeftoverInv'
<1> SUFFICES ASSUME NoEarlyMutation, LeftoverInv, Next PROVE LeftoverInv'
  OBVIOUS
<1> USE DEF LeftoverInv, BackedUp, HasTarget, NoEarlyMutation, Preflight,
            target, boot, hookdir, intent, outcome, context, counts
<1>1. CASE Begin
  BY <1>1 DEF Begin
<1>2. CASE Prepare
  BY <1>2 DEF Prepare, Stop
<1>3. CASE Stage
  BY <1>3 DEF Stage, Stop
<1>4. CASE Recheck
  <2>1. pc' = "backup" => StillFresh
    BY <1>4 DEF Recheck, Stop
  <2>2. StillFresh /\ HasTarget => req.overwrite
    BY DEF StillFresh, Absent
  <2>. QED
    BY <1>4, <2>1, <2>2 DEF Recheck, Stop
<1>5. CASE CreateGRUBBackup \/ RetireHooks \/ CreateFallbackBinding
  BY <1>5 DEF CreateGRUBBackup, RetireHooks, CreateFallbackBinding, Stop, Unwind
<1>6. CASE \/ CheckContext \/ RefuseCommand \/ InstallPackages \/ UpdateInitramfs
           \/ InitramfsMissing \/ EnsureInitramfs \/ RejectCompetingBootHooks
           \/ RefreshBoot
  <2>1. pc \in BackedUp /\ UNCHANGED <<req, leftover>> /\ pc' \notin Preflight
    BY <1>6 DEF CheckContext, RefuseCommand, InstallPackages, UpdateInitramfs,
       InitramfsMissing, EnsureInitramfs, RejectCompetingBootHooks, RefreshBoot,
       Start, FailAndRollback, Unwind
  <2>. QED
    BY <2>1
<1>7. CASE VerifyInstalled \/ VerifyScope
  BY <1>7 DEF VerifyInstalled, VerifyScope, Advance, FailAndRollback
<1>8. CASE VerifyFallback
  BY <1>8 DEF VerifyFallback, FailAndRollback, Stop
<1>9. CASE \/ RollbackPackages \/ RestoreGRUB \/ CheckRollback
           \/ RestoreBootPreparation
  <2>1. UNCHANGED <<req, leftover, executed>> /\ pc' \notin Preflight
    BY <1>9 DEF RollbackPackages, RestoreGRUB, CheckRollback,
       RestoreBootPreparation, GiveUp, PurgeResult
  <2>2. pc' \in BackedUp => pc \in BackedUp
    BY <1>9 DEF RollbackPackages, RestoreGRUB, CheckRollback,
       RestoreBootPreparation, GiveUp, PurgeResult
  <2>. QED
    BY <2>1, <2>2
<1>10. CASE Environment
  <2> USE DEF process
  <2>1. CASE \/ Cancel \/ RollbackTimeout \/ MountLost \/ MountReturns
             \/ HookAppears \/ Crash
    BY <2>1 DEF Cancel, RollbackTimeout, MountLost, MountReturns, HookAppears, Crash
  <2>2. CASE TargetAppears
    BY <2>2 DEF TargetAppears
  <2>. QED
    BY <1>10, <2>1, <2>2 DEF Environment
<1>. QED
  BY <1>1, <1>2, <1>3, <1>4, <1>5, <1>6, <1>7, <1>8, <1>9, <1>10 DEF Next, Step

(* The artefacts of a crashed transaction are reported, and only a request *)
(* that says --overwrite runs package commands over them.                  *)
THEOREM LeftoverAlwaysReviewed == Spec => []CrashLeftoverNeedsOverwrite
<1>1. LeftoverInv /\ UNCHANGED vars => LeftoverInv'
  BY DEF vars, LeftoverInv, HasTarget
<1>2. LeftoverInv => CrashLeftoverNeedsOverwrite
  BY DEF LeftoverInv, CrashLeftoverNeedsOverwrite
<1>3. TransactionInv => NoEarlyMutation
  BY DEF TransactionInv
<1>. QED
  BY <1>1, <1>2, <1>3, LeftoverInit, LeftoverSteps, TransactionInvariant, PTL DEF Spec

-----------------------------------------------------------------------------
(* The boot hook that a transaction retires.                               *)

(* Where the plan is to retire a hook: until it is retired it is there, and  *)
(* from then on the process knows that it has to be put back.                *)
HooksInv == plan.hook = "retirable" =>
    /\ pc \in {"stage", "recheck", "backup", "retire"} => hook # "none"
    /\ pc \in BackedUp \ {"retire"} => hooks = "retired"
    /\ pc = "unwind" => hook # "none" \/ hooks = "retired"
    /\ pc = "done" /\ result = "failed" => hook # "none" \/ hooks = "stranded"

LEMMA HooksInit == Init => HooksInv
  BY DEF Init, NoPlan, HooksInv

LEMMA HooksPreparation ==
  HooksInv /\ (\/ Begin \/ Prepare \/ Stage \/ Recheck \/ CreateGRUBBackup
               \/ RetireHooks \/ CreateFallbackBinding) => HooksInv'
<1> SUFFICES ASSUME HooksInv,
                    \/ Begin \/ Prepare \/ Stage \/ Recheck \/ CreateGRUBBackup
                    \/ RetireHooks \/ CreateFallbackBinding
             PROVE  HooksInv'
  OBVIOUS
<1> USE DEF HooksInv, BackedUp, hookdir, intent
<1>1. CASE Begin
  BY <1>1 DEF Begin, NoPlan
<1>2. CASE Prepare
  BY <1>2 DEF Prepare, Stop, outcome
<1>3. CASE Stage \/ Recheck \/ CreateGRUBBackup
  BY <1>3 DEF Stage, Recheck, CreateGRUBBackup, Stop
<1>4. CASE RetireHooks
  BY <1>4 DEF RetireHooks, Unwind
<1>5. CASE CreateFallbackBinding
  BY <1>5 DEF CreateFallbackBinding, Unwind, outcome
<1>. QED
  BY <1>1, <1>2, <1>3, <1>4, <1>5

LEMMA HooksCommands ==
  HooksInv /\ (\/ CheckContext \/ RefuseCommand \/ InstallPackages
               \/ UpdateInitramfs \/ InitramfsMissing \/ EnsureInitramfs
               \/ RejectCompetingBootHooks \/ RefreshBoot) => HooksInv'
<1> SUFFICES ASSUME HooksInv,
                    \/ CheckContext \/ RefuseCommand \/ InstallPackages
                    \/ UpdateInitramfs \/ InitramfsMissing \/ EnsureInitramfs
                    \/ RejectCompetingBootHooks \/ RefreshBoot
             PROVE  HooksInv'
  OBVIOUS
<1> USE DEF BackedUp, intent, outcome, FailAndRollback
<1>1. UNCHANGED plan /\ UNCHANGED hooks /\ pc \in BackedUp \ {"retire"}
  BY DEF CheckContext, RefuseCommand, InstallPackages, UpdateInitramfs,
         InitramfsMissing, EnsureInitramfs, RejectCompetingBootHooks, RefreshBoot,
         Start, Unwind
<1>2. pc' \in (BackedUp \ {"retire"}) \cup {"unwind"}
  BY DEF CheckContext, RefuseCommand, InstallPackages, UpdateInitramfs,
         InitramfsMissing, EnsureInitramfs, RejectCompetingBootHooks, RefreshBoot,
         Unwind
<1>. QED
  BY <1>1, <1>2 DEF HooksInv

LEMMA HooksVerification ==
  HooksInv /\ (\/ VerifyInstalled \/ VerifyScope \/ VerifyFallback
               \/ RollbackPackages \/ RestoreGRUB \/ CheckRollback
               \/ RestoreBootPreparation) => HooksInv'
<1> SUFFICES ASSUME HooksInv,
                    \/ VerifyInstalled \/ VerifyScope \/ VerifyFallback
                    \/ RollbackPackages \/ RestoreGRUB \/ CheckRollback
                    \/ RestoreBootPreparation
             PROVE  HooksInv'
  OBVIOUS
<1> USE DEF HooksInv, BackedUp, intent, outcome
<1>1. CASE VerifyInstalled \/ VerifyScope
  BY <1>1 DEF VerifyInstalled, VerifyScope, Advance, FailAndRollback
<1>2. CASE VerifyFallback
  BY <1>2 DEF VerifyFallback, Stop, FailAndRollback
<1>3. CASE RollbackPackages
  BY <1>3 DEF RollbackPackages, GiveUp, PurgeResult
<1>4. CASE RestoreGRUB
  BY <1>4 DEF RestoreGRUB, GiveUp
<1>5. CASE CheckRollback
  BY <1>5 DEF CheckRollback
<1>6. CASE RestoreBootPreparation
  BY <1>6 DEF RestoreBootPreparation
<1>. QED
  BY <1>1, <1>2, <1>3, <1>4, <1>5, <1>6

LEMMA HooksEnvironment == HooksInv /\ Environment => HooksInv'
<1> SUFFICES ASSUME HooksInv, Environment PROVE HooksInv'
  OBVIOUS
<1>1. CASE Crash
  BY <1>1 DEF Crash, HooksInv, NoPlan
<1>2. CASE \/ Cancel \/ RollbackTimeout \/ MountLost \/ MountReturns
           \/ TargetAppears \/ HookAppears
  <2>1. UNCHANGED <<plan, pc, hooks, result>>
    BY <1>2 DEF Cancel, RollbackTimeout, MountLost, MountReturns, TargetAppears,
                HookAppears, process
  <2>2. UNCHANGED hook \/ HookAppears
    BY <1>2 DEF Cancel, RollbackTimeout, MountLost, MountReturns, TargetAppears,
                hookdir
  <2>. QED
    BY <2>1, <2>2 DEF HooksInv, HookAppears
<1>. QED
  BY <1>1, <1>2 DEF Environment

(* A transaction that failed has its competing hook back in place, or says *)
(* that it could not put it back (restoreBootPreparation).                 *)
THEOREM FailedInstallAlwaysReturnsHooks == Spec => []FailedInstallReturnsHooks
<1>1. HooksInv /\ UNCHANGED vars => HooksInv'
  BY DEF vars, HooksInv
<1>2. HooksInv /\ Next => HooksInv'
  BY HooksPreparation, HooksCommands, HooksVerification, HooksEnvironment
     DEF Next, Step
<1>3. HooksInv => FailedInstallReturnsHooks
  BY DEF HooksInv, FailedInstallReturnsHooks
<1>. QED
  BY <1>1, <1>2, <1>3, HooksInit, PTL DEF Spec
=============================================================================
