---------------------------- MODULE SensorBuild ----------------------------
(* lexr sensors build, as internal/sensors/build runs it: the pinned source  *)
(* is staged as a snapshot, one container initialises a volume of its own,   *)
(* another builds in it from the snapshot; what that one leaves is copied    *)
(* out, decoded, and published under a name of its own.  Containers and      *)
(* volume are kept; a build that fails observes, and if need be stops, the   *)
(* containers it attempted.  The deadline of the build can pass anywhere; it *)
(* counts as a failure of the step that meets it.                            *)
EXTENDS Naturals, FiniteSets

CONSTANTS MaxSenFaults,  \* bound: steps and commands that fail
          MaxSenEdits    \* bound: things that are edited

ASSUME SensorAssumption == MaxSenFaults \in Nat /\ MaxSenEdits \in Nat

VARIABLES senPc,         \* the next step
          senBox,        \* the container of each phase
          senRunFailed,  \* the attached run was interrupted, or failed
          senTerminal,   \* the terminal state each phase's result holds
          senAttempted,  \* the phases attempted
          senTodo,       \* those a failed build has yet to observe
          senBuilt,      \* what the second container left in the volume
          senStaging, senFinal, \* the directory staged, and the one published
          senResult,     \* what the result tells
          senEdited,     \* what others have edited
          senFaults

senVars == <<senPc, senBox, senRunFailed, senTerminal, senAttempted,
             senTodo, senBuilt, senStaging, senFinal, senResult, senEdited,
             senFaults>>

SenPhases == {"init", "build"}

(* A container: absent, created, running (or paused, or restarting), or      *)
(* exited; the name is kept for it.                                          *)
BoxStates == {"absent", "created", "running", "succeeded", "stopped"}

(* What is wrong with an archive: the tar around it, a member, a native      *)
(* object, or what it says of the build, its tests, providers and loaders.   *)
ArchiveFlaws == {"transport", "members", "elf", "tables", "report", "tests",
                 "dependencies", "loaders"}

(* What others may edit: the source, its snapshot, the engine behind the     *)
(* socket, the mounts below the directories, the volume, a container or its  *)
(* limits, and the directory that is staged or published.                    *)
Editable == {"repository", "snapshot", "engine", "mounts", "volume",
             "init", "build", "limits", "staging", "final"}

NothingBuilt == [pinned |-> FALSE, flaw |-> "none"]

SenInit ==
    /\ senPc = "plan"
    /\ senBox = [p \in SenPhases |-> "absent"]
    /\ senRunFailed = FALSE
    /\ senTerminal = [p \in SenPhases |-> "none"]
    /\ senAttempted = {} /\ senTodo = {}
    /\ senBuilt = NothingBuilt
    /\ senStaging = FALSE /\ senFinal = FALSE
    /\ senResult = [failed |-> FALSE, unknown |-> {}, published |-> FALSE,
                    located |-> FALSE, durable |-> FALSE]
    /\ senEdited = {} /\ senFaults = 0

-----------------------------------------------------------------------------
SenTo(from, to) == senPc = from /\ senPc' = to

SenDocker == <<senBox, senTerminal, senAttempted, senBuilt>>
SenFiles  == <<senStaging, senFinal>>

SenFault   == senFaults < MaxSenFaults /\ senFaults' = senFaults + 1
SenNoFault == UNCHANGED senFaults

Unedited(thing) == thing \notin senEdited

(* A failed build recovers the phases it attempted, the second one first.    *)
SenFail ==
    /\ senPc' = IF senAttempted = {} THEN "over" ELSE "recover"
    /\ senResult' = [senResult EXCEPT !.failed = TRUE]
    /\ senTodo' = senAttempted
    /\ UNCHANGED <<senRunFailed, senEdited>>

(* The transport is bound to one engine, behind one local socket.            *)
TransportVerified == Unedited("engine")

TopologyVerified == Unedited("mounts")

SnapshotVerified == Unedited("snapshot")

(* The engine and the dependency image are those the build began with.       *)
ReadyImage == TransportVerified

VolumeVerified == TransportVerified /\ Unedited("volume")

ExactOwnership(p) == Unedited(p)

(* A container can be inspected that is the build's own, on its own engine.  *)
InspectPhase(p) == TransportVerified /\ senBox[p] # "absent" /\ ExactOwnership(p)

MountsExact(p) == ExactOwnership(p)

(* Its isolation, limits, command and mounts are as they were asked for.     *)
PolicyHolds(p) == MountsExact(p) /\ Unedited("limits")

(* A state that says for sure that nothing of the container runs.            *)
TerminalObserved(p) == senBox[p] # "running"

SuccessfulTerminal(state) == state = "succeeded"

PhaseCompleted(p) ==
    /\ SuccessfulTerminal(senTerminal[p])
    /\ InspectPhase(p) /\ PolicyHolds(p)
    /\ senBox[p] = senTerminal[p]

PhasesCompleted == \A p \in SenPhases : PhaseCompleted(p)

-----------------------------------------------------------------------------
(* A step that goes on if it finds what it demands, and fails if it does not *)
(* or meets an error.                                                        *)
FailsAt(step, demand) ==
    /\ senPc = step
    /\ IF demand THEN SenFault ELSE SenNoFault
    /\ SenFail

Check(step, next, demand) ==
    /\ \/ /\ SenTo(step, next) /\ demand
          /\ UNCHANGED <<senRunFailed, senTodo, senResult, senEdited, senFaults>>
       \/ FailsAt(step, demand)
    /\ UNCHANGED <<SenDocker, SenFiles>>

(* The source is the pinned one.                                             *)
VerifySource == Unedited("repository")

SenPlan == Check("plan", "prepare", TopologyVerified /\ VerifySource)

PrepareDependencies == Check("prepare", "stage", ReadyImage /\ TopologyVerified)

StageRepository == Check("stage", "volume", VerifySource /\ SnapshotVerified)

CreateVolume == Check("volume", "create", VolumeVerified)

(* The phase at hand: the second follows the first one's success.            *)
SenPhase == IF SuccessfulTerminal(senTerminal["init"]) THEN "build" ELSE "init"

(* docker create; an answer that is lost leaves a container whose identifier *)
(* the build does not know.                                                  *)
PhaseCreate ==
    /\ senAttempted' = senAttempted \cup {SenPhase}
    /\ \/ /\ SenTo("create", "inspect") /\ TransportVerified
          /\ senBox' = [senBox EXCEPT ![SenPhase] = "created"]
          /\ UNCHANGED <<senRunFailed, senTodo, senResult, senEdited, senFaults>>
       \/ /\ SenTo("create", "recover")
          /\ senResult' = [senResult EXCEPT !.failed = TRUE]
          /\ senTodo' = senAttempted'
          /\ \/ ~TransportVerified /\ SenNoFault /\ UNCHANGED senBox
             \/ /\ SenFault
                /\ senBox' \in {senBox, [senBox EXCEPT ![SenPhase] = "created"]}
          /\ UNCHANGED <<senRunFailed, senEdited>>
    /\ UNCHANGED <<senTerminal, senBuilt, SenFiles>>

(* It must be the build's own, as asked for, and not started yet.            *)
PhaseInspect ==
    Check("inspect", "start", /\ InspectPhase(SenPhase) /\ PolicyHolds(SenPhase)
                              /\ senBox[SenPhase] = "created")

(* docker start --attach; it may fail before the container runs.             *)
PhaseStart ==
    /\ SenTo("start", "attached")
    /\ \/ /\ senBox' = [senBox EXCEPT ![SenPhase] = "running"]
          /\ UNCHANGED <<senRunFailed, senFaults>>
       \/ SenFault /\ senRunFailed' = TRUE /\ UNCHANGED senBox
    /\ UNCHANGED <<senTerminal, senAttempted, senTodo, senBuilt,
                   SenFiles, senResult, senEdited>>

(* The container comes to its end.  The init recipe demands an empty volume; *)
(* the build recipe checks all it packs, and still what it packs is data.    *)
BoxEnds(p) ==
    /\ senBox[p] = "running"
    /\ \E end \in {"succeeded", "stopped"} :
         /\ senBox' = [senBox EXCEPT ![p] = end]
         /\ \/ p = "init" /\ UNCHANGED senBuilt
            \/ /\ p = "build"
               /\ \E flaw \in ArchiveFlaws \cup {"none"} :
                    senBuilt' = [pinned |-> SnapshotVerified, flaw |-> flaw]
    /\ UNCHANGED <<senPc, senRunFailed, senTerminal, senAttempted,
                   senTodo, SenFiles, senResult, senEdited, senFaults>>

(* The attached command ends with its container, or is interrupted.          *)
PhaseDetach ==
    /\ SenTo("attached", "observe")
    /\ IF senRunFailed \/ senBox[SenPhase] # "running"
       THEN UNCHANGED <<senRunFailed, senFaults>>
       ELSE SenFault /\ senRunFailed' = TRUE
    /\ UNCHANGED <<SenDocker, senTodo, SenFiles, senResult, senEdited>>

(* The outcome is observed on a deadline of its own.                         *)
PhaseObserve ==
    /\ SenTo("observe", IF SenPhase = "init" THEN "between" ELSE "completed")
    /\ InspectPhase(SenPhase) /\ PolicyHolds(SenPhase) /\ ~senRunFailed
    /\ SuccessfulTerminal(senBox[SenPhase])
    /\ senTerminal' = [senTerminal EXCEPT ![SenPhase] = senBox[SenPhase]]
    /\ UNCHANGED <<senBox, senRunFailed, senAttempted, senTodo,
                   senBuilt, SenFiles, senResult, senEdited, senFaults>>

PhaseFails ==
    /\ senPc = "observe"
    /\ \/ /\ InspectPhase(SenPhase) /\ PolicyHolds(SenPhase)
          /\ senRunFailed \/ ~SuccessfulTerminal(senBox[SenPhase])
          /\ senTerminal' = [senTerminal EXCEPT ![SenPhase] = senBox[SenPhase]]
          /\ SenNoFault
       \/ /\ UNCHANGED senTerminal
          /\ IF InspectPhase(SenPhase) /\ PolicyHolds(SenPhase) THEN SenFault ELSE SenNoFault
    /\ SenFail
    /\ UNCHANGED <<senBox, senAttempted, senBuilt, SenFiles>>

-----------------------------------------------------------------------------
BetweenPhases == Check("between", "create", SnapshotVerified /\ VolumeVerified)

VerifyCompleted == Check("completed", "copy", SnapshotVerified /\ PhasesCompleted)

(* The archive, as it is copied out of the stopped container.                *)
CopyOut == Check("copy", "decode", TransportVerified)

DecodeDockerCopy(flaw) == flaw # "transport"

DecodeArtifactArchive(flaw) == flaw # "members"

InspectNativeELF(flaw) == flaw # "elf"

ValidateLoaderTables(flaw) == flaw # "tables"

ValidateNativeELFs(flaw) == InspectNativeELF(flaw) /\ ValidateLoaderTables(flaw)

ValidateTestLog(flaw) == flaw # "tests"

ValidateDependencies(flaw) == flaw # "dependencies"

ValidateLoaders(flaw) == flaw # "loaders"

ValidateEvidence(flaw) ==
    /\ flaw # "report" /\ ValidateTestLog(flaw)
    /\ ValidateDependencies(flaw) /\ ValidateLoaders(flaw)

ArchiveAccepted(flaw) ==
    /\ DecodeDockerCopy(flaw) /\ DecodeArtifactArchive(flaw)
    /\ ValidateNativeELFs(flaw) /\ ValidateEvidence(flaw)

DecodeArchive ==
    Check("decode", "recheck", ArchiveAccepted(senBuilt.flaw) /\ SnapshotVerified)

SenRecheck ==
    Check("recheck", "publish", /\ ReadyImage /\ VolumeVerified
                                /\ PhasesCompleted /\ SnapshotVerified)

(* Members, links and receipt are written in a directory that is created for *)
(* them; what is staged, or published, when a step fails stays.              *)
StagePublication ==
    /\ \/ /\ SenTo("publish", "admit")
          /\ senStaging' = TRUE
          /\ UNCHANGED <<senRunFailed, senTodo, senResult, senEdited, senFaults>>
       \/ FailsAt("publish", TRUE) /\ senStaging' \in BOOLEAN
    /\ UNCHANGED <<SenDocker, senFinal>>

BeforeRename ==
    Check("admit", "rename", TransportVerified /\ TopologyVerified /\ SnapshotVerified)

(* They are the closed set they have to be.                                  *)
MembersVerified == Unedited("staging") /\ Unedited("final")

(* The rename replaces nothing.                                              *)
RenamePublication ==
    /\ \/ /\ SenTo("rename", "locate") /\ MembersVerified
          /\ senStaging' = FALSE /\ senFinal' = TRUE
          /\ senResult' = [senResult EXCEPT !.published = TRUE]
          /\ UNCHANGED <<senRunFailed, senTodo, senEdited, senFaults>>
       \/ FailsAt("rename", MembersVerified) /\ UNCHANGED SenFiles
    /\ UNCHANGED SenDocker

LocatePublication ==
    /\ \/ /\ SenTo("locate", "sync") /\ MembersVerified
          /\ senResult' = [senResult EXCEPT !.located = TRUE]
          /\ UNCHANGED <<senRunFailed, senTodo, senEdited, senFaults>>
       \/ FailsAt("locate", MembersVerified)
    /\ UNCHANGED <<SenDocker, SenFiles>>

SyncPublication ==
    /\ \/ /\ SenTo("sync", "over")
          /\ senResult' = [senResult EXCEPT !.durable = TRUE]
          /\ UNCHANGED <<senRunFailed, senTodo, senEdited, senFaults>>
       \/ FailsAt("sync", TRUE)
    /\ UNCHANGED <<SenDocker, SenFiles>>

-----------------------------------------------------------------------------
Recovering == IF "build" \in senTodo THEN "build" ELSE "init"

(* The phase is observed; or its end is unverified, and the result says so.  *)
Recovered(p) ==
    /\ senTodo' = senTodo \ {p}
    /\ senPc' = IF senTodo' = {} THEN "over" ELSE "recover"

KnownStopped(p) ==
    /\ Recovered(p)
    /\ senTerminal' = [senTerminal EXCEPT ![p] = senBox[p]]
    /\ UNCHANGED senResult

Unverified(p) ==
    /\ Recovered(p)
    /\ senResult' = [senResult EXCEPT !.unknown = @ \cup {p}]
    /\ UNCHANGED senTerminal

RecoverPhase ==
    /\ senPc = "recover"
    /\ LET p == Recovering
       IN  \/ /\ InspectPhase(p) /\ TerminalObserved(p)
              /\ KnownStopped(p) /\ SenNoFault
           \/ /\ InspectPhase(p) /\ ~TerminalObserved(p)
              /\ senPc' = "stop"
              /\ UNCHANGED <<senTodo, senTerminal, senResult, senFaults>>
           \/ /\ IF InspectPhase(p) THEN SenFault ELSE SenNoFault
              /\ Unverified(p)
    /\ UNCHANGED <<senBox, senRunFailed, senAttempted, senBuilt,
                   SenFiles, senEdited>>

(* docker stop, whose failure is recorded and not returned.                  *)
StopPhase ==
    /\ SenTo("stop", "stopped")
    /\ LET p == Recovering
       IN  \/ /\ senBox' = [senBox EXCEPT ![p] = IF @ = "running" THEN "stopped" ELSE @]
              /\ SenNoFault
           \/ SenFault /\ UNCHANGED senBox
    /\ UNCHANGED <<senRunFailed, senTerminal, senAttempted, senTodo,
                   senBuilt, SenFiles, senResult, senEdited>>

(* Slip: a container that was told to stop is taken to have stopped.         *)
MutantStoppedAgain(p) == InspectPhase(p)

StoppedAgain(p) == InspectPhase(p) /\ TerminalObserved(p)

ObserveAgain ==
    /\ senPc = "stopped"
    /\ LET p == Recovering
       IN  \/ StoppedAgain(p) /\ KnownStopped(p) /\ SenNoFault
           \/ /\ IF StoppedAgain(p) THEN SenFault ELSE SenNoFault
              /\ Unverified(p)
    /\ UNCHANGED <<senBox, senRunFailed, senAttempted, senBuilt,
                   SenFiles, senEdited>>

SenKill ==
    /\ senPc \notin {"over", "killed"} /\ SenFault
    /\ senPc' = "killed"
    /\ UNCHANGED <<SenDocker, senRunFailed, senTodo, SenFiles,
                   senResult, senEdited>>

(* Somebody edits one of these; what is put back in time goes unseen.        *)
SenEdit ==
    /\ senPc \notin {"over", "killed"}
    /\ Cardinality(senEdited) < MaxSenEdits
    /\ \E thing \in Editable \ senEdited :
         /\ thing \in SenPhases => senBox[thing] # "absent"
         /\ thing = "staging" => senStaging
         /\ thing = "final" => senFinal
         /\ senEdited' = senEdited \cup {thing}
    /\ UNCHANGED <<senPc, SenDocker, senRunFailed, senTodo, SenFiles,
                   senResult, senFaults>>

SenNext ==
    \/ SenPlan \/ PrepareDependencies \/ StageRepository \/ CreateVolume
    \/ PhaseCreate \/ PhaseInspect \/ PhaseStart \/ PhaseDetach \/ PhaseObserve \/ PhaseFails
    \/ \E p \in SenPhases : BoxEnds(p)
    \/ BetweenPhases \/ VerifyCompleted \/ CopyOut \/ DecodeArchive \/ SenRecheck
    \/ StagePublication \/ BeforeRename \/ RenamePublication
    \/ LocatePublication \/ SyncPublication
    \/ RecoverPhase \/ StopPhase \/ ObserveAgain \/ SenKill \/ SenEdit

SenSpec == SenInit /\ [][SenNext]_senVars

-----------------------------------------------------------------------------
(* A build that has returned leaves no container running without saying that *)
(* its end is unverified, and no directory published without naming it; and  *)
(* one that succeeded has published, durably, what was built of the pinned   *)
(* source and accepted.                                                      *)
ResultTells ==
    senPc = "over" =>
        /\ \A p \in SenPhases : senBox[p] = "running" => p \in senResult.unknown
        /\ senFinal => senResult.published
        /\ ~senResult.failed =>
              /\ senFinal /\ senResult.located /\ senResult.durable
              /\ senBuilt.pinned /\ ArchiveAccepted(senBuilt.flaw)
              /\ \A p \in SenPhases : senBox[p] = "succeeded"

SenTypeOK ==
    /\ senBox \in [SenPhases -> BoxStates]
    /\ senTerminal \in [SenPhases -> BoxStates \cup {"none"}]
    /\ senRunFailed \in BOOLEAN /\ senStaging \in BOOLEAN /\ senFinal \in BOOLEAN
    /\ senAttempted \subseteq SenPhases /\ senTodo \subseteq SenPhases
    /\ senBuilt \in [pinned : BOOLEAN, flaw : ArchiveFlaws \cup {"none"}]
    /\ senResult \in [failed : BOOLEAN, unknown : SUBSET SenPhases,
                      published : BOOLEAN, located : BOOLEAN, durable : BOOLEAN]
    /\ senEdited \subseteq Editable
    /\ senFaults \in 0 .. MaxSenFaults
=============================================================================
