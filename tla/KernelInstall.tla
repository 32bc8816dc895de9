---------------------------- MODULE KernelInstall ----------------------------
(***************************************************************************)
(* The native kernel transaction of internal/kernel/install: Install       *)
(* stages reviewed packages, re-reads the machine, retires competing boot  *)
(* hooks, binds the fallback's own device tree, runs the package commands  *)
(* and verifies the result; any failure after the first command ends in    *)
(* failAndRollback.  dpkg, the maintainer scripts and update-grub are      *)
(* external: a command ends with one of ScriptEffects, and a failed one    *)
(* may have done any part of its work.  Between any two steps the caller   *)
(* may cancel, a mount may go away, another tool may change the machine,   *)
(* and the machine may crash; what is on disk survives a crash, the        *)
(* process does not, and the operator may try again.                       *)
(***************************************************************************)
EXTENDS Integers, FiniteSets

CONSTANTS
    Roles,          \* package roles of the bundles
    BootSupport,    \* the role whose one package every kernel ABI shares
    Requests,       \* the requests an operator may make
    ScriptEffects,  \* what a maintainer script may do to the boot files
    Machines,       \* the machines a behaviour may start on
    MaxAttempts,    \* bound: transactions in one behaviour
    MaxFaults       \* bound: steps of the environment in one behaviour

PkgStates   == {"none", "half", "installed"}
Delivery    == {"embedded", "external"}
TargetMenu  == {"none", "incomplete"} \cup Delivery
FallbackMenu == {"lost", "labelled", "shortcut"}
Trees       == {"embedded", "shared", "exact"}
ForeignUse  == {"none", "target", "exact"}
Bytes       == {"original", "altered"}

Menus == [target : TargetMenu, fallback : FallbackMenu,
          tree : Trees, foreign : ForeignUse]

RequestType == [bundle : SUBSET Roles, delivery : Delivery,
                overwrite : BOOLEAN, dryRun : BOOLEAN]

EffectType == [target : TargetMenu \ {"none"},
               fallback : {"same", "promoted", "lost"},
               foreign : {"same", "target"}, bytes : {"same", "altered"},
               sharedTree : {"same", "target"}, hook : {"same", "retirable"},
               initrd : BOOLEAN]

MachineType == [support : {"none", "installed"}, fallback : FallbackMenu \ {"lost"},
                tree : Trees, foreign : {"none", "exact"},
                hook : {"none", "retirable"}]

ASSUME RolesAssumption == BootSupport \in Roles
ASSUME RequestsAssumption == Requests \subseteq RequestType
ASSUME EffectsAssumption == ScriptEffects \subseteq EffectType
ASSUME MachinesAssumption == Machines \subseteq MachineType
ASSUME BoundsAssumption == MaxAttempts \in Nat /\ MaxFaults \in Nat

VARIABLES
    \* the machine: survives a crash
    pkg,        \* dpkg record of each role's target package
    files,      \* target-ABI boot files, modules and trees: none, some, whole
    initrd,     \* the target's initramfs exists
    menu,       \* grub.cfg, as far as target and fallback go
    bytes,      \* the fallback's kernel, initramfs and modules
    sharedTree, \* whose device tree the shared /boot/dtb holds
    exactTree,  \* /boot/dtb-<fallback ABI>
    hook,       \* competing kernel boot hook: none, retirable, unknown
    saved,      \* a durable cleanup backup holds a retired hook
    mount,      \* the reviewed root and boot filesystems are mounted
    \* the process: lost in a crash
    pc, req, plan, backup, cmd, executed, cause, recovery, hooks, result,
    cancelled,  \* the caller's context
    expired,    \* the rollback's own two-minute context
    \* bounds and history
    attempts, faults,
    leftover    \* a crashed transaction left target artefacts behind

boot    == <<menu, bytes, sharedTree, exactTree>>
target  == <<pkg, files, initrd>>
hookdir == <<hook, saved>>
intent  == <<req, plan>>
outcome == <<cause, recovery, hooks, result>>
context == <<cancelled, expired>>
counts  == <<attempts, faults, leftover>>
vars == <<pkg, files, initrd, menu, bytes, sharedTree, exactTree, hook, saved,
          mount, pc, req, plan, backup, cmd, executed, cause, recovery, hooks,
          result, cancelled, expired, attempts, faults, leftover>>

-----------------------------------------------------------------------------
(* What the read-only checks observe.                                      *)

Resolvable == mount = "present" /\ ~cancelled

TreeProven == \/ menu.tree = "embedded"
              \/ menu.tree = "shared" /\ sharedTree = "fallback"
              \/ menu.tree = "exact"  /\ exactTree = "fallback"

FallbackVerifies == menu.fallback # "lost" /\ TreeProven

FallbackView == [bytes |-> bytes, entries |-> menu.fallback]

FallbackUnchanged(before, after) == before = after

(* Slip: any entry change is taken for the permitted promotion.            *)
MutantFallbackPreserved(before, after) == before.entries # "lost"

FallbackPreserved(before, after) ==
    /\ before.bytes = after.bytes
    /\ \/ before.entries = after.entries
       \/ before.entries = "shortcut" /\ after.entries = "labelled"

(* Slip: the fresh-target gate looks at records and menu, not at files.    *)
MutantAbsent(bundle) ==
    /\ menu.target = "none"
    /\ \A r \in Roles \ {BootSupport} : pkg[r] = "none"

Absent(bundle) ==
    /\ files = "none" /\ ~initrd /\ menu.target = "none"
    /\ \A r \in Roles \ {BootSupport} : pkg[r] = "none"
    /\ BootSupport \in bundle => pkg[BootSupport] # "half"

Complete(bundle) ==
    /\ files = "whole" /\ initrd /\ menu.target \in Delivery
    /\ \A r \in bundle : pkg[r] = "installed"

(* Anything of the target ABI at all: used by the properties.              *)
HasTarget == \/ files # "none" \/ initrd \/ menu.target # "none"
             \/ \E r \in Roles \ {BootSupport} : pkg[r] # "none"

Classify(bundle) == IF Absent(bundle) THEN "absent"
                    ELSE IF Complete(bundle) THEN "complete" ELSE "partial"

(* Slip: a missing exact-ABI tree is taken for "nothing to do".            *)
MutantBinding == IF menu.tree = "exact" THEN "verify" ELSE "none"

Binding == IF menu.tree = "embedded" THEN "none"
           ELSE CASE exactTree = "none"     -> "create"
                  [] exactTree = "fallback" -> "verify"
                  [] exactTree = "other"    -> "conflict"

SharesBootFiles(binding) == \/ menu.foreign = "target"
                            \/ menu.foreign = "exact" /\ binding = "create"

-----------------------------------------------------------------------------
NoPlan   == [class |-> "absent", hook |-> "none", binding |-> "none",
             fallback |-> [bytes |-> "original", entries |-> "lost"]]
NoMenu   == [target |-> "none", fallback |-> "lost", tree |-> "embedded",
             foreign |-> "none"]
NoRecovery == [attempted |-> FALSE, purge |-> "none", grub |-> FALSE,
               report |-> "none"]
NoRequest == [bundle |-> {}, delivery |-> "embedded", overwrite |-> FALSE,
              dryRun |-> FALSE]

PlanType == [class : {"absent", "partial", "complete"},
             hook : {"none", "retirable"},
             binding : {"none", "create", "verify"},
             fallback : [bytes : Bytes, entries : FallbackMenu]]
RecoveryType == [attempted : BOOLEAN, purge : {"none", "ok", "failed", "skipped"},
                 grub : BOOLEAN, report : {"none", "clean", "incomplete"}]

Phases == {"idle", "prepare", "stage", "recheck", "backup", "retire", "bind",
           "loop", "run", "missing", "reject", "verify", "scope", "fallback",
           "rollback", "restore", "check", "unwind", "done"}
Commands == {"install", "initramfs", "ensure", "refresh"}

Init ==
    /\ \E m \in Machines :
        /\ pkg = [r \in Roles |-> IF r = BootSupport THEN m.support ELSE "none"]
        /\ menu = [target |-> "none", fallback |-> m.fallback, tree |-> m.tree,
                   foreign |-> m.foreign]
        /\ exactTree = IF m.tree = "exact" THEN "fallback" ELSE "none"
        /\ hook = m.hook
    /\ files = "none" /\ initrd = FALSE
    /\ bytes = "original" /\ sharedTree = "fallback"
    /\ saved = FALSE /\ mount = "present"
    /\ pc = "idle" /\ req = NoRequest /\ plan = NoPlan /\ backup = NoMenu
    /\ cmd = "install" /\ executed = {} /\ cause = "none"
    /\ recovery = NoRecovery /\ hooks = "kept" /\ result = "none"
    /\ cancelled = FALSE /\ expired = FALSE
    /\ attempts = 0 /\ faults = 0 /\ leftover = FALSE

-----------------------------------------------------------------------------
(* Preflight: nothing on the machine changes.                              *)

Begin ==
    /\ pc \in {"idle", "done"} /\ attempts < MaxAttempts
    /\ req' \in Requests /\ leftover' = (leftover /\ HasTarget)
    /\ pc' = "prepare" /\ plan' = NoPlan /\ backup' = NoMenu
    /\ cmd' = "install" /\ executed' = {} /\ cause' = "none"
    /\ recovery' = NoRecovery /\ hooks' = "kept" /\ result' = "none"
    /\ cancelled' = FALSE /\ expired' = FALSE /\ attempts' = attempts + 1
    /\ UNCHANGED <<target, boot, hookdir, mount, faults>>

Stop(answer) == /\ pc' = "done" /\ result' = answer
                /\ UNCHANGED <<cause, recovery, hooks>>

Reviewable == /\ Resolvable /\ FallbackVerifies /\ hook # "unknown"
              /\ Binding # "conflict" /\ ~SharesBootFiles(Binding)
              /\ req.overwrite \/ Absent(req.bundle)

Prepare ==
    /\ pc = "prepare"
    /\ IF Reviewable
       THEN /\ plan' = [class |-> Classify(req.bundle), hook |-> hook,
                        binding |-> Binding, fallback |-> FallbackView]
            /\ IF req.dryRun THEN Stop("reviewed")
               ELSE pc' = "stage" /\ UNCHANGED outcome
       ELSE Stop("blocked") /\ UNCHANGED plan
    /\ UNCHANGED <<target, boot, hookdir, mount, req, backup, cmd, executed,
                   context, counts>>

(* Missing privilege, a package that changed, or metadata that differs.    *)
Stage ==
    /\ pc = "stage"
    /\ \/ ~cancelled /\ pc' = "recheck" /\ UNCHANGED outcome
       \/ Stop("blocked")
    /\ UNCHANGED <<target, boot, hookdir, mount, intent, backup, cmd, executed,
                   context, counts>>

StillFresh == \/ Absent(req.bundle)
              \/ req.overwrite /\ Classify(req.bundle) = plan.class

Recheck ==
    /\ pc = "recheck"
    /\ IF /\ Resolvable /\ StillFresh /\ FallbackVerifies
          /\ FallbackUnchanged(plan.fallback, FallbackView)
          /\ ~SharesBootFiles(plan.binding)
       THEN pc' = "backup" /\ UNCHANGED outcome
       ELSE Stop("blocked")
    /\ UNCHANGED <<target, boot, hookdir, mount, intent, backup, cmd, executed,
                   context, counts>>

CreateGRUBBackup ==
    /\ pc = "backup"
    /\ \/ ~cancelled /\ mount = "present" /\ backup' = menu /\ pc' = "retire"
          /\ UNCHANGED outcome
       \/ Stop("failed") /\ UNCHANGED backup
    /\ UNCHANGED <<target, boot, hookdir, mount, intent, cmd, executed,
                   context, counts>>

-----------------------------------------------------------------------------
(* Boot preparation: from here on every error return restores the hooks.   *)

(* Slip: an error return that the deferred restoration does not see.       *)
MutantUnwind == /\ pc' = "done" /\ result' = "failed" /\ UNCHANGED <<cause, recovery>>

Unwind == /\ pc' = "unwind" /\ result' = "failed" /\ UNCHANGED <<cause, recovery>>

(* cleanup.Apply publishes its backup before it removes the hook, and may  *)
(* fail before, between or after the two.                                  *)
RetireHooks ==
    /\ pc = "retire"
    /\ \/ plan.hook = "none" /\ hook = "none" /\ pc' = "bind"
          /\ UNCHANGED <<hookdir, outcome>>
       \/ plan.hook = "none" /\ hook # "none" /\ Unwind
          /\ UNCHANGED <<hookdir, hooks>>
       \/ plan.hook = "retirable" /\ hook = "retirable"
          /\ hook' = "none" /\ saved' = TRUE /\ hooks' = "retired"
          /\ pc' = "bind" /\ UNCHANGED <<cause, recovery, result>>
       \/ plan.hook = "retirable" /\ Unwind
          /\ \/ UNCHANGED <<hookdir, hooks>>
             \/ hook = "retirable" /\ saved' = TRUE /\ hooks' = "retired"
                /\ hook' \in {"none", "retirable"}
    /\ UNCHANGED <<target, boot, mount, intent, backup, cmd, executed,
                   context, counts>>

CreateFallbackBinding ==
    /\ pc = "bind"
    /\ \/ plan.binding = "none" /\ pc' = "loop"
          /\ UNCHANGED <<exactTree, outcome, hooks>>
       \/ plan.binding = "verify" /\ exactTree = "fallback" /\ ~cancelled
          /\ pc' = "loop" /\ UNCHANGED <<exactTree, outcome>>
       \/ plan.binding = "create" /\ exactTree = "none" /\ ~cancelled
          /\ mount = "present" /\ exactTree' = "fallback"
          /\ pc' = "loop" /\ UNCHANGED outcome
       \/ plan.binding # "none" /\ Unwind /\ UNCHANGED <<exactTree, hooks>>
       \/ plan.binding = "create" /\ exactTree = "none" /\ Unwind
          /\ exactTree' = "fallback" /\ UNCHANGED hooks
    /\ UNCHANGED <<target, menu, bytes, sharedTree, hookdir, mount, intent,
                   backup, cmd, executed, context, counts>>

-----------------------------------------------------------------------------
(* The package commands.                                                   *)

MutationStarted == executed # {}

FailAndRollback(why) == /\ pc' = "rollback" /\ cause' = why /\ result' = "failed"
                        /\ UNCHANGED <<recovery, hooks>>

(* The head of a command loop: ctx.Err() before each command.              *)
CheckContext ==
    /\ pc = "loop"
    /\ IF ~cancelled THEN pc' = "run" /\ UNCHANGED outcome
       ELSE IF MutationStarted THEN FailAndRollback("other")
       ELSE Unwind /\ UNCHANGED hooks
    /\ UNCHANGED <<target, boot, hookdir, mount, intent, backup, cmd, executed,
                   context, counts>>

(* runCommand resolves the mount identity before it starts anything; its   *)
(* callers roll back on any error it returns.                              *)
RefuseCommand ==
    /\ pc = "run" /\ ~Resolvable
    /\ FailAndRollback("other")
    /\ UNCHANGED <<target, boot, hookdir, mount, intent, backup, cmd, executed,
                   context, counts>>

StockTree == IF menu.tree = "embedded" THEN "embedded"
             ELSE IF exactTree = "none" THEN "shared" ELSE "exact"

Entries(e) == CASE e = "same"     -> menu.fallback
                [] e = "promoted" -> IF menu.fallback = "shortcut"
                                     THEN "labelled" ELSE menu.fallback
                [] e = "lost"     -> "lost"

(* update-grub rewrites grub.cfg.  Stock GRUB prefers dtb-<ABI> to dtb.    *)
Regenerate(e, t) ==
    menu' = [target |-> t, fallback |-> Entries(e.fallback), tree |-> StockTree,
             foreign |-> IF e.foreign = "same" THEN menu.foreign ELSE e.foreign]

TouchFallback(e) ==
    /\ bytes' = IF e.bytes = "same" THEN bytes ELSE e.bytes
    /\ sharedTree' = IF e.sharedTree = "same" THEN sharedTree ELSE e.sharedTree
    /\ hook' = IF e.hook = "same" THEN hook ELSE e.hook

Unpacked(state) == [r \in Roles |-> IF r \in req.bundle THEN state ELSE pkg[r]]

Start(c) == pc = "run" /\ Resolvable /\ cmd = c /\ executed' = executed \cup {c}

InstallPackages ==
    /\ Start("install")
    /\ \E e \in ScriptEffects :
        /\ TouchFallback(e)
        /\ \/ /\ pkg' = Unpacked("installed") /\ files' = "whole"
              /\ initrd' = (e.initrd \/ initrd)
              /\ Regenerate(e, e.target) /\ pc' = "loop" /\ cmd' = "initramfs"
              /\ UNCHANGED outcome
           \/ /\ \/ UNCHANGED <<pkg, files>>
                 \/ pkg' = Unpacked("half") /\ files' = "some"
                 \/ pkg' = Unpacked("installed") /\ files' = "whole"
              /\ UNCHANGED initrd
              /\ Regenerate(e, "incomplete") \/ UNCHANGED menu
              /\ FailAndRollback("other") /\ UNCHANGED cmd
    /\ UNCHANGED <<exactTree, saved, mount, intent, backup, context, counts>>

UpdateInitramfs ==
    /\ Start("initramfs")
    /\ \/ pc' = "missing" /\ UNCHANGED outcome
       \/ FailAndRollback("other")
    /\ UNCHANGED <<target, boot, hookdir, mount, intent, backup, cmd, context,
                   counts>>

InitramfsMissing ==
    /\ pc = "missing"
    /\ IF initrd THEN pc' = "reject" /\ UNCHANGED cmd
                 ELSE pc' = "loop" /\ cmd' = "ensure"
    /\ UNCHANGED <<target, boot, hookdir, mount, intent, backup, executed,
                   outcome, context, counts>>

(* Slip: the repair is repeated until the image exists.                    *)
MutantEnsureInitramfs ==
    /\ Start("ensure")
    /\ initrd' \in BOOLEAN
    /\ \/ pc' = "missing" /\ UNCHANGED outcome
       \/ FailAndRollback("other")
    /\ UNCHANGED <<pkg, files, boot, hookdir, mount, intent, backup, cmd,
                   context, counts>>

EnsureInitramfs ==
    /\ Start("ensure")
    /\ initrd' \in BOOLEAN
    /\ \/ pc' = "reject" /\ UNCHANGED outcome
       \/ FailAndRollback("other")
    /\ UNCHANGED <<pkg, files, boot, hookdir, mount, intent, backup, cmd,
                   context, counts>>

(* A package that reinstalls the retired hook is caught here.              *)
RejectCompetingBootHooks ==
    /\ pc = "reject"
    /\ IF hook # "none" THEN FailAndRollback("other") /\ UNCHANGED cmd
       ELSE /\ UNCHANGED outcome
            /\ IF req.delivery = "external" THEN pc' = "run" /\ cmd' = "refresh"
                                            ELSE pc' = "verify" /\ UNCHANGED cmd
    /\ UNCHANGED <<target, boot, hookdir, mount, intent, backup, executed,
                   context, counts>>

RefreshBoot ==
    /\ Start("refresh")
    /\ \E e \in ScriptEffects :
        /\ TouchFallback(e)
        /\ \/ Regenerate(e, e.target) /\ pc' = "verify" /\ UNCHANGED outcome
           \/ /\ Regenerate(e, "incomplete") \/ UNCHANGED menu
              /\ FailAndRollback("other")
    /\ UNCHANGED <<target, exactTree, saved, mount, intent, backup, cmd,
                   context, counts>>

-----------------------------------------------------------------------------
(* Verification of the installed target, then of the fallback.             *)

Advance(ok, next, why) ==
    /\ IF ok THEN pc' = next /\ UNCHANGED outcome ELSE FailAndRollback(why)
    /\ UNCHANGED <<target, boot, hookdir, mount, intent, backup, cmd, executed,
                   context, counts>>

TargetBoots == files = "whole" /\ initrd /\ menu.target \in Delivery

VerifyInstalled == pc = "verify" /\ Advance(Resolvable /\ TargetBoots, "scope", "other")

(* Only this inspection can see entries os-prober found during the install. *)
VerifyScope ==
    /\ pc = "scope"
    /\ Advance(Resolvable /\ ~SharesBootFiles("none"), "fallback",
               IF Resolvable THEN "shared" ELSE "other")

VerifyFallback ==
    /\ pc = "fallback"
    /\ IF /\ Resolvable /\ menu.target = req.delivery /\ FallbackVerifies
          /\ FallbackPreserved(plan.fallback, FallbackView)
       THEN Stop("ok") /\ leftover' = FALSE
       ELSE FailAndRollback("other") /\ UNCHANGED leftover
    /\ UNCHANGED <<target, boot, hookdir, mount, intent, backup, cmd, executed,
                   context, attempts, faults>>

-----------------------------------------------------------------------------
(* Rollback, on a context of its own.                                      *)

RollbackResolvable == mount = "present" /\ ~expired

Purgeable == req.bundle \ {BootSupport}

Purged(state) == [r \in Roles |-> IF r \in Purgeable THEN state ELSE pkg[r]]

GiveUp == /\ recovery' = [recovery EXCEPT !.attempted = TRUE, !.report = "incomplete"]
          /\ pc' = "unwind" /\ UNCHANGED <<cause, hooks, result>>

PurgeResult(p) ==
    /\ recovery' = [recovery EXCEPT !.attempted = TRUE, !.purge = p]
    /\ pc' = "restore" /\ UNCHANGED <<cause, hooks, result>>

RollbackPackages ==
    /\ pc = "rollback"
    /\ \/ /\ ~RollbackResolvable /\ GiveUp
          /\ UNCHANGED <<target, menu>>
       \/ /\ RollbackResolvable
          /\ \/ cause = "shared" \/ SharesBootFiles("none")
             \/ menu.target = "incomplete" \* a menu InspectGRUB cannot read
          /\ PurgeResult("skipped")
          /\ UNCHANGED <<target, menu>>
       \/ /\ RollbackResolvable /\ cause # "shared" /\ ~SharesBootFiles("none")
          /\ \/ /\ PurgeResult("ok")
                /\ pkg' = Purged("none")
                /\ files' \in {"none", "some"} /\ initrd' \in {FALSE, initrd}
                /\ \E e \in ScriptEffects : Regenerate(e, "none")
             \/ /\ PurgeResult("failed")
                /\ \/ UNCHANGED <<pkg, files>>
                   \/ pkg' = Purged("half") /\ files' = "some"
                /\ UNCHANGED <<initrd, menu>>
    /\ UNCHANGED <<bytes, sharedTree, exactTree, hookdir, mount, intent, backup,
                   cmd, executed, context, counts>>

RestoreGRUB ==
    /\ pc = "restore"
    /\ \/ /\ ~RollbackResolvable /\ GiveUp /\ UNCHANGED menu
       \/ /\ RollbackResolvable /\ menu' = backup
          /\ recovery' = [recovery EXCEPT !.grub = TRUE]
          /\ pc' = "check" /\ UNCHANGED <<cause, hooks, result>>
       \/ /\ RollbackResolvable /\ menu' \in {menu, backup}
          /\ pc' = "check" /\ UNCHANGED outcome
    /\ UNCHANGED <<target, bytes, sharedTree, exactTree, hookdir, mount, intent,
                   backup, cmd, executed, context, counts>>

(* Slip: errors of the purge command are dropped.                          *)
MutantRolledBack ==
    /\ recovery.grub /\ RollbackResolvable /\ FallbackVerifies
    /\ FallbackUnchanged(plan.fallback, FallbackView)
    /\ req.overwrite \/ Absent(req.bundle)

RolledBack ==
    /\ recovery.purge = "ok" /\ recovery.grub
    /\ RollbackResolvable /\ FallbackVerifies
    /\ FallbackUnchanged(plan.fallback, FallbackView)
    /\ req.overwrite \/ Absent(req.bundle)

CheckRollback ==
    /\ pc = "check"
    /\ recovery' = [recovery EXCEPT !.report = IF RolledBack THEN "clean"
                                               ELSE "incomplete"]
    /\ pc' = "unwind"
    /\ UNCHANGED <<target, boot, hookdir, mount, intent, backup, cmd, executed,
                   cause, hooks, result, context, counts>>

(* The deferred restoreBootPreparation: it ignores cancellation but not a  *)
(* changed mount; cleanup.Restore puts a missing hook back, accepts the    *)
(* exact one and refuses a path that holds anything else.                  *)
RestoreBootPreparation ==
    /\ pc = "unwind" /\ pc' = "done"
    /\ \/ hooks # "retired" /\ UNCHANGED <<hook, hooks>>
       \/ hooks = "retired" /\ mount = "present" /\ hook \in {"none", "retirable"}
          /\ hook' = "retirable" /\ hooks' = "restored"
       \/ hooks = "retired" /\ hooks' = "stranded" /\ UNCHANGED hook
    /\ UNCHANGED <<target, boot, saved, mount, intent, backup, cmd, executed,
                   cause, recovery, result, context, counts>>

-----------------------------------------------------------------------------
(* The environment.                                                        *)

Running == pc \notin {"idle", "done"}

Fault == faults < MaxFaults /\ faults' = faults + 1

process == <<pc, req, plan, backup, cmd, executed, cause, recovery, hooks,
             result>>

Cancel ==
    /\ Fault /\ Running /\ ~cancelled /\ cancelled' = TRUE
    /\ UNCHANGED <<target, boot, hookdir, mount, process, expired, attempts, leftover>>

RollbackTimeout ==
    /\ Fault /\ pc \in {"rollback", "restore", "check"} /\ ~expired /\ expired' = TRUE
    /\ UNCHANGED <<target, boot, hookdir, mount, process, cancelled, attempts, leftover>>

MountLost ==
    /\ Fault /\ mount = "present" /\ mount' = "away"
    /\ UNCHANGED <<target, boot, hookdir, process, context, attempts, leftover>>

MountReturns ==
    /\ ~Running /\ mount = "away" /\ mount' = "present"
    /\ UNCHANGED <<target, boot, hookdir, process, context, counts>>

(* Another package manager run installs the same ABI, at the latest before *)
(* this transaction's first command (from then on dpkg is not idle).       *)
Early == {"idle", "prepare", "stage", "recheck", "backup", "retire", "bind",
          "loop", "run"}

TargetAppears ==
    /\ Fault /\ mount = "present" /\ ~HasTarget
    /\ pc \in Early /\ ~MutationStarted
    /\ pkg' = [r \in Roles |-> "installed"] /\ files' = "whole" /\ initrd' = TRUE
    /\ menu' = [menu EXCEPT !.target = "embedded", !.tree = StockTree]
    /\ UNCHANGED <<bytes, sharedTree, exactTree, hookdir, mount, process,
                   context, attempts, leftover>>

HookAppears ==
    /\ Fault /\ hook = "none" /\ hook' \in {"retirable", "unknown"}
    /\ UNCHANGED <<target, boot, saved, mount, process, context, attempts, leftover>>

Crash ==
    /\ Fault /\ Running
    /\ pc' = "idle" /\ req' = NoRequest /\ plan' = NoPlan /\ backup' = NoMenu
    /\ cmd' = "install" /\ executed' = {} /\ cause' = "none"
    /\ recovery' = NoRecovery /\ hooks' = "kept" /\ result' = "none"
    /\ cancelled' = FALSE /\ expired' = FALSE
    /\ leftover' = (HasTarget /\ (leftover \/ MutationStarted))
    /\ UNCHANGED <<target, boot, hookdir, mount, attempts>>

-----------------------------------------------------------------------------
Step == \/ Prepare \/ Stage \/ Recheck \/ CreateGRUBBackup \/ RetireHooks
        \/ CreateFallbackBinding \/ CheckContext \/ RefuseCommand
        \/ InstallPackages \/ UpdateInitramfs \/ InitramfsMissing
        \/ EnsureInitramfs \/ RejectCompetingBootHooks \/ RefreshBoot
        \/ VerifyInstalled \/ VerifyScope \/ VerifyFallback
        \/ RollbackPackages \/ RestoreGRUB \/ CheckRollback
        \/ RestoreBootPreparation

Environment == \/ Cancel \/ RollbackTimeout \/ MountLost \/ MountReturns
               \/ TargetAppears \/ HookAppears \/ Crash

Next == Begin \/ Step \/ Environment

Spec == Init /\ [][Next]_vars /\ WF_vars(Step)

-----------------------------------------------------------------------------
(* Every variable keeps to its set, and a recovery is recorded only after  *)
(* rollback has begun.                                                     *)
TypeOK ==
    /\ pkg \in [Roles -> PkgStates] /\ files \in {"none", "some", "whole"}
    /\ initrd \in BOOLEAN /\ menu \in Menus /\ bytes \in Bytes
    /\ sharedTree \in {"fallback", "target"}
    /\ exactTree \in {"none", "fallback", "other"}
    /\ hook \in {"none", "retirable", "unknown"} /\ saved \in BOOLEAN
    /\ mount \in {"present", "away"}
    /\ pc \in Phases /\ req \in RequestType /\ plan \in PlanType
    /\ backup \in Menus /\ cmd \in Commands /\ executed \in SUBSET Commands
    /\ cause \in {"none", "other", "shared"} /\ recovery \in RecoveryType
    /\ hooks \in {"kept", "retired", "restored", "stranded"}
    /\ result \in {"none", "reviewed", "blocked", "failed", "ok"}
    /\ cancelled \in BOOLEAN /\ expired \in BOOLEAN
    /\ attempts \in Nat /\ faults \in Nat /\ leftover \in BOOLEAN

(* Install returns success only over a machine that boots the target with  *)
(* the delivery its bundle requires, every reviewed package recorded as    *)
(* installed, and the reviewed fallback still bootable from its own bytes, *)
(* whatever the maintainer scripts did on the way.                         *)
SuccessIsBootable ==
    result = "ok" =>
        /\ files = "whole" /\ initrd /\ menu.target = req.delivery
        /\ \A r \in req.bundle : pkg[r] = "installed"
        /\ bytes = plan.fallback.bytes /\ menu.fallback # "lost" /\ TreeProven

(* A rollback whose receipt carries no error has put back the exact menu   *)
(* that was backed up, removed every package it may remove, left the       *)
(* fallback as reviewed and, without --overwrite, nothing of the target.   *)
CleanRollbackRestores ==
    recovery.report = "clean" =>
        /\ menu = backup /\ TreeProven
        /\ bytes = plan.fallback.bytes /\ menu.fallback = plan.fallback.entries
        /\ \A r \in req.bundle \ {BootSupport} : pkg[r] = "none"
        /\ req.overwrite \/ ~HasTarget

(* Install never returns an error after its first package command without  *)
(* having gone through failAndRollback: no early return forgets it.        *)
ErrorsAfterMutationRollBack ==
    pc = "done" /\ result = "failed" /\ executed # {}
        => recovery.report # "none"

(* A failed transaction leaves the hook it planned to retire in place, or  *)
(* says that it could not put it back.                                     *)
FailedInstallReturnsHooks ==
    pc = "done" /\ result = "failed" /\ plan.hook = "retirable"
        => hook # "none" \/ hooks = "stranded"

(* Once a package command has started, an external-tree fallback has its   *)
(* own /boot/dtb-<ABI>, so that no regenerated menu, not even one a crash  *)
(* leaves behind, depends on the shared tree the target may replace.       *)
FallbackTreeIsBound ==
    executed # {} /\ menu.tree # "embedded" => exactTree = "fallback"

(* What a crashed transaction left of the target is never built upon by a  *)
(* later transaction that did not ask to overwrite.                        *)
CrashLeftoverNeedsOverwrite == executed # {} /\ leftover => req.overwrite

(* The boot-support package, shared with the fallback, is never removed.   *)
SupportSurvives ==
    [][pkg[BootSupport] # "none" => pkg'[BootSupport] # "none"]_vars

(* Every transaction ends: the initramfs repair is tried once and rollback *)
(* is bounded.                                                             *)
TransactionEnds == Running ~> ~Running

-----------------------------------------------------------------------------
(* The inductive strengthening behind the theorems of KernelInstall_proofs. *)

Preflight == {"idle", "prepare", "stage", "recheck", "backup", "retire", "bind"}
Reviewed  == {"stage", "recheck", "backup", "retire", "bind"}
BackedUp  == {"retire", "bind", "loop", "run", "missing", "reject", "verify",
              "scope", "fallback", "rollback", "restore", "check"}
Prepared  == BackedUp \ {"retire", "bind"}

Unpacking == \/ pc \in {"loop", "run"} /\ cmd # "install"
             \/ pc \in {"missing", "reject", "verify", "scope", "fallback"}

HasOwnTree == menu.tree # "embedded" => exactTree = "fallback"

BundleInstalled == \A r \in req.bundle : pkg[r] = "installed"

NoEarlyMutation == pc \in Preflight => executed = {} /\ cmd = "install"

RolledBackOrEarly ==
    /\ pc = "unwind" => executed = {} \/ recovery.report # "none"
    /\ pc = "done" /\ result = "failed" => executed = {} \/ recovery.report # "none"

TreesAgree ==
    /\ pc \in Reviewed => (plan.binding = "none" <=> menu.tree = "embedded")
    /\ pc \in BackedUp => (backup.tree = "embedded" <=> menu.tree = "embedded")
    /\ pc \in Prepared \/ executed # {} => HasOwnTree

InstalledAfterUnpack == Unpacking => executed # {} /\ BundleInstalled

VerifiedBeforeSuccess == pc \in {"scope", "fallback"} => TargetBoots

SuccessIsFinal == result = "ok" => pc = "done" /\ executed # {} /\ SuccessIsBootable

TransactionInv == /\ NoEarlyMutation /\ RolledBackOrEarly /\ TreesAgree
                  /\ InstalledAfterUnpack /\ VerifiedBeforeSuccess /\ SuccessIsFinal

(* Rollback, step by step: what the receipt says is what the machine holds. *)
RollbackInv ==
    /\ recovery.report = "clean" => pc \in {"unwind", "done"} /\ CleanRollbackRestores
    /\ pc \in {"restore", "check"} /\ recovery.purge = "ok"
          => \A r \in req.bundle \ {BootSupport} : pkg[r] = "none"
    /\ pc = "restore" => ~recovery.grub
    /\ pc \in Prepared \ {"restore", "check"} => recovery = NoRecovery
    /\ pc \in Preflight => recovery = NoRecovery
    /\ pc = "check" /\ recovery.grub => menu = backup

(* The target of a crashed transaction is still there when the next one is *)
(* reviewed, and only an overwriting request gets past the recheck.        *)
LeftoverInv ==
    /\ leftover /\ pc \in {"prepare", "stage", "recheck"} => HasTarget
    /\ leftover /\ (pc \in BackedUp \cup {"backup"} \/ executed # {}) => req.overwrite

-----------------------------------------------------------------------------
(* "If mutation or final verification fails, it attempts a bounded         *)
(* rollback" (docs/operator-manual/kernel-management.md:446): a transaction *)
(* that has started no package command does not purge the target it found. *)
PurgeOnlyAfterMutation ==
    recovery.purge = "ok" /\ plan.class # "absent" => MutationStarted
=============================================================================
