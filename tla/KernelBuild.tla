----------------------------- MODULE KernelBuild ----------------------------
(* lexr kernel build, as internal/kernel/build runs it: a command takes the  *)
(* lock of its work directory, captures a local source if it is given one,   *)
(* and runs a recipe in a container; it publishes what the recipe leaves in  *)
(* the private transaction.  The source tree and the packages stay behind in *)
(* the Docker volume, where the next command's recipe finds them.            *)
(*                                                                           *)
(* A container outlives a command that is killed, and one that fails to      *)
(* remove it.                                                                *)
EXTENDS Naturals, FiniteSets

CONSTANTS Builds,        \* the commands given, each once
          BldRequests,   \* what they may ask for
          LastCommit,    \* bound: the last commit of the source
          MaxBldFaults   \* bound: failures, kills, and flawed packages

ASSUME BuildAssumption ==
    /\ BldRequests \subseteq [kind : {"https", "local"}, reset : BOOLEAN,
                              skipClean : BOOLEAN,
                              mode : {"source", "stubble", "nostubble"}]
    /\ LastCommit \in Nat \ {0} /\ MaxBldFaults \in Nat
    /\ "unlocked" \notin Builds

VARIABLES bldPc,         \* how far each command is
          bldAsk,        \* what it was asked for
          bldPlan,       \* the local commit its plan names
          bldBox,        \* how far its container is
          bldOut,        \* what is in its transaction
          bldSeen,       \* the packages whose digests it has taken
          bldPublished,  \* what it has published, if anything
          bldLock,       \* whose lock the work directory has
          bldTree,       \* the source tree in the volume
          bldDebs,       \* the commits the packages beside it are of
          bldTip,        \* the commit of the branch, the remote's and the worktree's
          bldStray,      \* a container has outlived the lock
          bldFaults

bldVars == <<bldPc, bldAsk, bldPlan, bldBox, bldOut, bldSeen, bldPublished,
             bldLock, bldTree, bldDebs, bldTip, bldStray, bldFaults>>

Unlocked == "unlocked"
(* A tree in the volume: of a fetch, of a local archive, a git directory     *)
(* without a remote's name, or a directory that is none.                     *)
NoTree == [kind |-> "absent", rev |-> 0, dirty |-> FALSE]
Debris == [NoTree EXCEPT !.kind = "debris"]
Unlinked == [NoTree EXCEPT !.kind = "unlinked"]
TreeOf(kind, rev) == [kind |-> kind, rev |-> rev, dirty |-> FALSE]

NoOutput == [rev |-> 0, packages |-> {}, delivery |-> "external",
             flaw |-> "none", support |-> FALSE]

(* What can be wrong with packages: the maintainer scripts of the image, the *)
(* pairing of image and modules, the sections of the boot image, the device  *)
(* trees beside it, the tools that joined them, the records the firmware     *)
(* selects them by, or the account the recipe gives of all this.             *)
Flaws == {"scripts", "roles", "sections", "trees", "tools", "selectors", "account"}

BldInit ==
    /\ bldPc = [c \in Builds |-> "idle"]
    /\ bldAsk \in [Builds -> BldRequests]
    /\ bldPlan = [c \in Builds |-> 0]
    /\ bldBox = [c \in Builds |-> "none"]
    /\ bldOut = [c \in Builds |-> NoOutput]
    /\ bldSeen = [c \in Builds |-> {}]
    /\ bldPublished = [c \in Builds |-> NoOutput]
    /\ bldLock = Unlocked /\ bldTree = NoTree /\ bldDebs = {}
    /\ bldTip = 1
    /\ bldStray = FALSE /\ bldFaults = 0

-----------------------------------------------------------------------------
BldTo(c, from, to) == bldPc[c] = from /\ bldPc' = [bldPc EXCEPT ![c] = to]

BldResult == <<bldSeen, bldPublished>>
BldVolume == <<bldTree, bldDebs>>

BldFault   == bldFaults < MaxBldFaults /\ bldFaults' = bldFaults + 1
BldNoFault == UNCHANGED bldFaults

IsLocal(c) == bldAsk[c].kind = "local"

BoxRunning == {"source", "make", "collect", "inspect"}

(* The lock is the directory, and in it the file, that the command made.     *)
LockOwned(c) == bldLock = c

(* The command returns, and takes its own lock away.                         *)
ReleaseLock(c) ==
    /\ bldPc' = [bldPc EXCEPT ![c] = "over"]
    /\ bldLock' = IF LockOwned(c) THEN Unlocked ELSE bldLock
    /\ UNCHANGED <<bldAsk, bldPlan, BldResult, bldTip>>

(* A local worktree must be clean, and its commit and tree archive as they   *)
(* are; the plan names the commit.                                           *)
InspectLocalSource(c) == bldTip

BldBegin(c) ==
    /\ BldTo(c, "idle", "planned")
    /\ bldPlan' = [bldPlan EXCEPT ![c] = IF IsLocal(c) THEN InspectLocalSource(c) ELSE 0]
    /\ UNCHANGED <<bldAsk, bldBox, bldOut, BldResult, bldLock, BldVolume,
                   bldTip, bldStray, bldFaults>>

(* Slip: a lock that is there already is shared.                             *)
MutantAcquireLock(c) ==
    /\ BldTo(c, "planned", "locked")
    /\ bldLock' = c
    /\ UNCHANGED <<bldAsk, bldPlan, bldBox, bldOut, BldResult, BldVolume,
                   bldTip, bldStray, bldFaults>>

AcquireLock(c) ==
    /\ BldTo(c, "planned", "locked")
    /\ bldLock = Unlocked /\ bldLock' = c
    /\ UNCHANGED <<bldAsk, bldPlan, bldBox, bldOut, BldResult, BldVolume,
                   bldTip, bldStray, bldFaults>>

LockIsTaken(c) ==
    /\ BldTo(c, "planned", "over")
    /\ bldLock # Unlocked
    /\ UNCHANGED <<bldAsk, bldPlan, bldBox, bldOut, BldResult, bldLock,
                   BldVolume, bldTip, bldStray, bldFaults>>

(* The archive is of the plan's commit, which must be the worktree's before  *)
(* and after it is made.                                                     *)
CaptureSnapshot(c) ==
    /\ BldTo(c, "locked", "captured")
    /\ IsLocal(c) => InspectLocalSource(c) = bldPlan[c]
    /\ UNCHANGED <<bldAsk, bldPlan, bldBox, bldOut, BldResult, bldLock,
                   BldVolume, bldTip, bldStray, bldFaults>>

SnapshotChanged(c) ==
    /\ bldPc[c] = "locked" /\ IsLocal(c) /\ InspectLocalSource(c) # bldPlan[c]
    /\ ReleaseLock(c)
    /\ UNCHANGED <<bldBox, bldOut, BldVolume, bldStray, bldFaults>>

(* The volume must carry the labels of this work directory.                  *)
EnsureWorkVolume(c) ==
    /\ BldTo(c, "captured", "ready")
    /\ UNCHANGED <<bldAsk, bldPlan, bldBox, bldOut, BldResult, bldLock,
                   BldVolume, bldTip, bldStray, bldFaults>>

RunContainer(c) ==
    /\ BldTo(c, "ready", "running")
    /\ bldBox' = [bldBox EXCEPT ![c] = "source"]
    /\ UNCHANGED <<bldAsk, bldPlan, bldOut, BldResult, bldLock, BldVolume,
                   bldTip, bldStray, bldFaults>>

-----------------------------------------------------------------------------
(* The recipe.                                                               *)
BoxTo(c, from, to) == bldBox[c] = from /\ bldBox' = [bldBox EXCEPT ![c] = to]

BldCommand == <<bldPc, bldAsk, bldPlan, BldResult, bldLock, bldTip, bldStray>>

(* A tree that is kept for a fetch: a clean checkout with the remote's name. *)
(* As fetches are shallow, an older commit in it counts as one of its own.   *)
FetchedTree == [kind |-> "https", rev |-> bldTip, dirty |-> FALSE]

UsableForFetch(tree) ==
    \/ tree.kind = "absent"
    \/ tree.kind = "https" /\ ~tree.dirty /\ tree.rev \in {0, bldTip}

SourceFromRemote(c) ==
    /\ ~IsLocal(c)
    /\ bldAsk[c].reset \/ UsableForFetch(bldTree)
    /\ bldTree' = FetchedTree
    /\ bldOut' = [bldOut EXCEPT ![c].rev = bldTip]

(* A tree that is of the archive already is used again.                      *)
OfTheArchive(c, tree) == tree.kind = "local" /\ tree.rev = bldPlan[c]

(* The archive is extracted beside the tree, and takes its place once the    *)
(* tree and commit made of it are the plan's.                                *)
ExtractedTree(c) == TreeOf("local", bldPlan[c])

UsableForArchive(c, tree) ==
    IF OfTheArchive(c, tree) THEN ~tree.dirty
    ELSE tree.kind = "absent" \/ ~bldAsk[c].skipClean

SourceFromArchive(c) ==
    /\ IsLocal(c)
    /\ bldAsk[c].reset \/ UsableForArchive(c, bldTree)
    /\ bldTree' = ExtractedTree(c)
    /\ bldOut' = [bldOut EXCEPT ![c].rev = bldTree'.rev]

BoxSource(c) ==
    /\ BoxTo(c, "source", "make")
    /\ SourceFromRemote(c) \/ SourceFromArchive(c)
    /\ UNCHANGED <<BldCommand, bldDebs, bldFaults>>

SourceRefused(c) ==
    /\ BoxTo(c, "source", "refused")
    /\ ~bldAsk[c].reset
    /\ IF IsLocal(c) THEN ~UsableForArchive(c, bldTree) ELSE ~UsableForFetch(bldTree)
    /\ UNCHANGED <<BldCommand, bldOut, BldVolume, bldFaults>>

(* The packages of earlier builds are deleted first.                         *)
PackagesMade == bldDebs' = {bldTree.rev}

(* The build may leave the tree with changes that git sees.                  *)
BoxMake(c) ==
    /\ BoxTo(c, "make", "collect")
    /\ PackagesMade
    /\ bldTree' \in {bldTree, [bldTree EXCEPT !.dirty = TRUE]}
    /\ \E delivery \in {"embedded", "external"}, flaw \in Flaws \cup {"none"} :
         /\ bldOut' = [bldOut EXCEPT ![c].delivery = delivery, ![c].flaw = flaw]
         /\ IF flaw = "none" THEN BldNoFault ELSE BldFault
    /\ UNCHANGED BldCommand

BoxCollect(c) ==
    /\ BoxTo(c, "collect", "inspect")
    /\ bldOut' = [bldOut EXCEPT ![c].packages = bldDebs]
    /\ UNCHANGED <<BldCommand, BldVolume, bldFaults>>

(* One image and one modules package, of one version and ABI.                *)
OneRuntimePair(out) == Cardinality(out.packages) = 1

RolesMatch(out) == out.flaw # "roles"

(* The maintainer scripts are of a reviewed family.                          *)
ScriptsReviewed(out) == out.flaw # "scripts"

SectionsBounded(out) == out.flaw # "sections"

(* A mode that was asked for must be what the boot image turned out to be.   *)
DeliveryMatches(mode, out) ==
    /\ mode = "stubble" => out.delivery = "embedded"
    /\ mode = "nostubble" => out.delivery = "external"

(* Every embedded tree is of one packaged file, and the trees of this        *)
(* machine's variants are among them.                                        *)
TreesPaired(out) == out.flaw # "trees"

VariantsDeclared(out) == TreesPaired(out)

ToolsIdentified(out) == out.flaw # "tools"

SelectorsKnown(out) == out.flaw # "selectors"

RecipeAccepts(c) ==
    LET out == bldOut[c]
    IN  /\ RolesMatch(out) /\ ScriptsReviewed(out)
        /\ DeliveryMatches(bldAsk[c].mode, out) /\ SectionsBounded(out)
        /\ TreesPaired(out) /\ VariantsDeclared(out)
        /\ ToolsIdentified(out) /\ SelectorsKnown(out)

BoxInspect(c) ==
    /\ bldBox[c] = "inspect"
    /\ bldBox' = [bldBox EXCEPT ![c] =
           IF ~OneRuntimePair(bldOut[c]) THEN "refused"
           ELSE IF RecipeAccepts(c) THEN "done" ELSE "failed"]
    /\ UNCHANGED <<BldCommand, bldOut, BldVolume, bldFaults>>

(* What a recipe that stops may leave of the tree and the packages.          *)
Interrupted(c) ==
    {bldTree, [bldTree EXCEPT !.dirty = bldTree.rev # 0]}
        \cup IF bldBox[c] = "source" THEN {NoTree, Debris, Unlinked} ELSE {}
        \cup IF bldBox[c] = "source" /\ ~IsLocal(c) THEN {TreeOf("https", 0)} ELSE {}

BoxStops(c, to) ==
    /\ bldBox' = [bldBox EXCEPT ![c] = to]
    /\ bldTree' \in Interrupted(c)
    /\ bldDebs' \in {bldDebs, {}, {bldTree.rev} \ {0}}

BoxFails(c) ==
    /\ bldBox[c] \in BoxRunning
    /\ BldFault /\ BoxStops(c, "failed")
    /\ UNCHANGED <<BldCommand, bldOut>>

-----------------------------------------------------------------------------
(* The container is gone by itself, or is removed by force.                  *)
ContainerFailed(c) ==
    /\ bldPc[c] = "running" /\ bldBox[c] \in {"failed", "refused"}
    /\ ReleaseLock(c)
    /\ UNCHANGED <<bldBox, bldOut, BldVolume, bldStray, bldFaults>>

InterruptedAndRemoved(c) ==
    /\ bldPc[c] = "running" /\ bldBox[c] \in BoxRunning
    /\ BldFault /\ BoxStops(c, "gone") /\ ReleaseLock(c)
    /\ UNCHANGED <<bldOut, bldStray>>

(* The removal fails, and the lock is taken away none the less.              *)
InterruptedNotRemoved(c) ==
    /\ bldPc[c] = "running" /\ bldBox[c] \in BoxRunning
    /\ BldFault /\ ReleaseLock(c)
    /\ bldStray' = TRUE
    /\ UNCHANGED <<bldBox, bldOut, BldVolume>>

(* Each file of the recipe's account is small, regular and does not change   *)
(* while it is read ...                                                      *)
AccountReadable(out) == out.flaw # "account"

(* ... and the account must agree with the plan.                             *)
ProvenanceAgrees(c) ==
    /\ AccountReadable(bldOut[c])
    /\ IsLocal(c) => bldOut[c].rev = bldPlan[c]
    /\ DeliveryMatches(bldAsk[c].mode, bldOut[c])

ReadProvenance(c) ==
    /\ bldBox[c] = "done" /\ ProvenanceAgrees(c)
    /\ BldTo(c, "running", "ran")
    /\ UNCHANGED <<bldAsk, bldPlan, bldBox, bldOut, BldResult, bldLock,
                   BldVolume, bldTip, bldStray, bldFaults>>

ProvenanceDiffers(c) ==
    /\ bldPc[c] = "running" /\ bldBox[c] = "done" /\ ~ProvenanceAgrees(c)
    /\ ReleaseLock(c)
    /\ UNCHANGED <<bldBox, bldOut, BldVolume, bldStray, bldFaults>>

(* Trees that the boot image does not carry need the package that puts them  *)
(* in place, built in a container of its own.                                *)
PrepareBootSupport(c) ==
    /\ BldTo(c, "ran", "complete")
    /\ bldOut' = [bldOut EXCEPT ![c].support = bldOut[c].delivery = "external"]
    /\ UNCHANGED <<bldAsk, bldPlan, bldBox, BldResult, bldLock, BldVolume,
                   bldTip, bldStray, bldFaults>>

InspectArtifacts(c) ==
    /\ BldTo(c, "complete", "inspected")
    /\ OneRuntimePair(bldOut[c])
    /\ bldSeen' = [bldSeen EXCEPT ![c] = bldOut[c].packages]
    /\ UNCHANGED <<bldAsk, bldPlan, bldBox, bldOut, bldPublished, bldLock,
                   BldVolume, bldTip, bldStray, bldFaults>>

(* A package in the transaction is exchanged after it was inspected.         *)
EditTransaction(c) ==
    /\ bldPc[c] = "inspected" /\ bldOut[c].packages # {}
    /\ BldFault
    /\ bldOut' = [bldOut EXCEPT ![c].packages = {}]
    /\ UNCHANGED <<bldPc, bldAsk, bldPlan, bldBox, BldResult, bldLock,
                   BldVolume, bldTip, bldStray>>

CopyVerified(c) == bldOut[c].packages = bldSeen[c]

(* Copied with their digests compared, and renamed into place as one         *)
(* directory; a failure to synchronise its parent is reported.               *)
PublishArtifacts(c) ==
    /\ BldTo(c, "inspected", "published")
    /\ CopyVerified(c)
    /\ bldPublished' = [bldPublished EXCEPT ![c] = bldOut[c]]
    /\ UNCHANGED <<bldAsk, bldPlan, bldBox, bldOut, bldSeen, bldLock, BldVolume,
                   bldTip, bldStray, bldFaults>>

PackageChanged(c) ==
    /\ bldPc[c] = "inspected" /\ ~CopyVerified(c)
    /\ ReleaseLock(c)
    /\ UNCHANGED <<bldBox, bldOut, BldVolume, bldStray, bldFaults>>

BldReturn(c) ==
    /\ bldPc[c] = "published" /\ ReleaseLock(c)
    /\ UNCHANGED <<bldBox, bldOut, BldVolume, bldStray, bldFaults>>

(* A step of the command fails; what its transaction holds is removed.       *)
BldError(c) ==
    /\ bldPc[c] \in {"locked", "captured", "ready", "ran", "complete", "inspected", "published"}
    /\ BldFault /\ ReleaseLock(c)
    /\ UNCHANGED <<bldBox, bldOut, BldVolume, bldStray>>

(* A command that is killed leaves its lock, and its container running.      *)
BldKill(c) ==
    /\ bldPc[c] \notin {"idle", "over", "killed"}
    /\ BldFault
    /\ bldPc' = [bldPc EXCEPT ![c] = "killed"]
    /\ UNCHANGED <<bldAsk, bldPlan, bldBox, bldOut, BldResult, bldLock,
                   BldVolume, bldTip, bldStray>>

(* The operator removes the lock a killed command left, once its container   *)
(* has come to an end.                                                       *)
RemoveStaleLock(c) ==
    /\ bldLock = c /\ bldPc[c] = "killed" /\ bldBox[c] \notin BoxRunning
    /\ bldLock' = Unlocked
    /\ UNCHANGED <<bldPc, bldAsk, bldPlan, bldBox, bldOut, BldResult,
                   BldVolume, bldTip, bldStray, bldFaults>>

(* The branch moves on.                                                      *)
PushCommit ==
    /\ bldTip < LastCommit /\ bldTip' = bldTip + 1
    /\ UNCHANGED <<bldPc, bldAsk, bldPlan, bldBox, bldOut, BldResult,
                   bldLock, BldVolume, bldStray, bldFaults>>

BldNext ==
    \/ PushCommit
    \/ \E c \in Builds :
         \/ BldBegin(c) \/ AcquireLock(c) \/ LockIsTaken(c)
         \/ CaptureSnapshot(c) \/ SnapshotChanged(c) \/ EnsureWorkVolume(c)
         \/ RunContainer(c) \/ BoxSource(c) \/ SourceRefused(c) \/ BoxMake(c)
         \/ BoxCollect(c) \/ BoxInspect(c) \/ BoxFails(c)
         \/ ContainerFailed(c) \/ InterruptedAndRemoved(c)
         \/ InterruptedNotRemoved(c) \/ ReadProvenance(c)
         \/ ProvenanceDiffers(c) \/ PrepareBootSupport(c)
         \/ InspectArtifacts(c) \/ EditTransaction(c) \/ PublishArtifacts(c)
         \/ PackageChanged(c) \/ BldReturn(c)
         \/ BldError(c) \/ BldKill(c) \/ RemoveStaleLock(c)

BldSpec == BldInit /\ [][BldNext]_bldVars

-----------------------------------------------------------------------------
(* What is published was built from the commit its provenance names, which   *)
(* is the one planned, and delivers device trees as asked, whatever earlier  *)
(* commands left in the volume.  That holds unless a container has outlived  *)
(* the lock: then a later command shares the volume with it.                 *)
BuiltIsAsked ==
    \A c \in Builds :
        LET p == bldPublished[c]
        IN  p # NoOutput /\ ~bldStray =>
                /\ p.packages = {p.rev}
                /\ IsLocal(c) => p.rev = bldPlan[c]
                /\ DeliveryMatches(bldAsk[c].mode, p)
                /\ p.delivery = "external" => p.support
                /\ p.flaw = "none"

(* With --reset-source no build is refused for what it finds in the volume.  *)
ResetAlwaysBuilds ==
    \A c \in Builds : bldBox[c] = "refused" /\ ~bldStray => ~bldAsk[c].reset

BldTypeOK ==
    /\ bldAsk \in [Builds -> BldRequests]
    /\ bldPlan \in [Builds -> 0 .. LastCommit]
    /\ bldLock \in Builds \cup {Unlocked}
    /\ bldTip \in 1 .. LastCommit
    /\ bldDebs \subseteq 0 .. LastCommit
    /\ bldFaults \in 0 .. MaxBldFaults
=============================================================================
