--------------------------- MODULE PackageRelease ---------------------------
(* lexr kernel release, audio release and camera release: prepare and        *)
(* validate (internal/kernel/releaseprep, internal/audio/release,            *)
(* internal/camera/release, internal/userspace/producer).                    *)
(*                                                                           *)
(* All three assemble a directory under a private name from inputs that      *)
(* others can change meanwhile, check it, and give it the release's name by  *)
(* a rename that replaces nothing.  They differ in what authorises an input  *)
(* and in what they look at again: a kernel's inputs are those of the plan,  *)
(* audio's are pinned in the program, a camera bundle's follow from the      *)
(* digest the caller expects; audio and camera also need the compatibility   *)
(* declaration in the repository, clean and as reviewed, twice.              *)
(*                                                                           *)
(* Two preparations of one release may run at once, fail anywhere or be      *)
(* killed.  An edit leaves a record that agrees with nothing.                *)
EXTENDS Naturals

CONSTANTS Packagers, NoRelease, Stranger,   \* owners of a directory
          LastBuild,                        \* builds whose files are coherent
          MaxPkgEdits, MaxPkgFaults         \* bounds

ASSUME PackageAssumption ==
    /\ NoRelease \notin Packagers /\ Stranger \notin Packagers /\ NoRelease # Stranger
    /\ LastBuild \in Nat \ {0}
    /\ MaxPkgEdits \in Nat /\ MaxPkgFaults \in Nat

NoContent   == 0
Declared    == 1                    \* what is pinned, expected, or declared
Coherent    == 1 .. LastBuild
Damaged     == LastBuild + 1
PkgContents == 0 .. LastBuild + 1

(* The packages, tuning and topology; and what goes with them: corresponding *)
(* source and licences, the matcher's base, or the build receipt.            *)
PkgInputs == {"payload", "extra"}
(* The declaration of a kernel is its bundle.                                *)
PkgTexts  == {"declaration", "sums", "notes", "manifest"}
PkgFiles  == PkgInputs \cup PkgTexts
PkgWritten == {"absent", "written", "edited"}

VARIABLES pkgKind,
          pkgSource,    \* what each input holds
          pkgHead,      \* the declaration in the repository
          pkgRecord,    \* the identities each preparation recorded
          pkgStaging,   \* whose directory is at its private name
          pkgFile,      \* the inputs in it, later in its release
          pkgText,      \* and the texts
          pkgNoted,     \* the notes as the manifest records them
          pkgPc, pkgAnswer,
          pkgOutput,    \* whose directory is at the release's name
          pkgLate,      \* files changed after the code last looked at them
          pkgStuck,     \* staging directories that could not be removed
          pkgAccepted,  \* what validation accepted
          pkgEdits, pkgFaults

pkgWorld  == <<pkgKind, pkgSource, pkgHead>>
pkgStaged == <<pkgFile, pkgText, pkgNoted>>
pkgPlaces == <<pkgStaging, pkgOutput, pkgStuck>>
pkgAfter  == <<pkgLate, pkgAccepted>>
pkgBounds == <<pkgEdits, pkgFaults>>
pkgVars == <<pkgWorld, pkgRecord, pkgStaged, pkgPc, pkgAnswer, pkgPlaces,
             pkgAfter, pkgBounds>>

(* The order of the steps, from one to the next.                             *)
KernelOrder == [
    idle |-> "absent", absent |-> "payload", payload |-> "extra", extra |-> "planned",
    planned |-> "revalidate", revalidate |-> "appeared", appeared |-> "stage",
    stage |-> "copy", copy |-> "copyextra", copyextra |-> "declaration",
    declaration |-> "manifest", manifest |-> "notes", notes |-> "sums",
    sums |-> "check", check |-> "last", last |-> "publish", publish |-> "sync"]

AudioOrder == [
    idle |-> "absent", absent |-> "payload", payload |-> "extra", extra |-> "authorise",
    authorise |-> "planned", planned |-> "appeared", appeared |-> "stage",
    stage |-> "copy", copy |-> "copyextra", copyextra |-> "inspect",
    inspect |-> "declaration", declaration |-> "sums", sums |-> "notes",
    notes |-> "manifest", manifest |-> "check", check |-> "identity",
    identity |-> "reauthorise", reauthorise |-> "recheck", recheck |-> "publish",
    publish |-> "sync"]

CameraOrder == [
    idle |-> "authorise", authorise |-> "planned", planned |-> "stage",
    stage |-> "copy", copy |-> "copyextra", copyextra |-> "validate",
    validate |-> "inspect", inspect |-> "sums", sums |-> "notes",
    notes |-> "manifest", manifest |-> "check", check |-> "reauthorise",
    reauthorise |-> "compat", compat |-> "publish", publish |-> "sync",
    sync |-> "confirm"]

PkgOrder == [kernel |-> KernelOrder, audio |-> AudioOrder, camera |-> CameraOrder]

PkgBefore == {"absent", "payload", "extra", "authorise", "planned", "revalidate",
              "appeared", "stage"}
PkgDuring == {"copy", "copyextra", "validate", "inspect", "declaration", "sums",
              "notes", "manifest", "check", "last", "identity", "reauthorise",
              "recheck", "compat", "publish"}
PkgPcs == {"idle", "sync", "confirm", "cleanup", "done", "dead"} \cup PkgBefore \cup PkgDuring
PkgAnswers == {"none", "planned", "failed", "published", "published, not durable"}

NoInputs == [i \in PkgInputs |-> NoContent]
AsDeclared == [i \in PkgInputs |-> Declared]
NoTexts  == [t \in PkgTexts |-> "absent"]
NotAccepted == [by |-> NoRelease, files |-> NoInputs, texts |-> NoTexts]

PkgInit ==
    /\ pkgKind \in DOMAIN PkgOrder
    /\ pkgSource = AsDeclared /\ pkgHead = Declared
    /\ pkgRecord = [p \in Packagers |-> NoInputs]
    /\ pkgStaging = [p \in Packagers |-> NoRelease]
    /\ pkgFile = [p \in Packagers |-> NoInputs]
    /\ pkgText = [p \in Packagers |-> NoTexts]
    /\ pkgNoted = [p \in Packagers |-> "absent"]
    /\ pkgPc = [p \in Packagers |-> "idle"]
    /\ pkgAnswer = [p \in Packagers |-> "none"]
    /\ pkgOutput = NoRelease
    /\ pkgLate = {} /\ pkgStuck = {} /\ pkgAccepted = NotAccepted
    /\ pkgEdits = 0 /\ pkgFaults = 0

-----------------------------------------------------------------------------
PkgAdvance(p) ==
    /\ pkgPc' = [pkgPc EXCEPT ![p] = PkgOrder[pkgKind][@]]
    /\ UNCHANGED pkgAnswer

PkgEnd(p, answer) ==
    /\ pkgPc' = [pkgPc EXCEPT ![p] = "done"]
    /\ pkgAnswer' = [pkgAnswer EXCEPT ![p] = answer]

(* An error returns; from the moment there is a staging directory, through   *)
(* the deferred clean-up.                                                    *)
PkgStop(p) ==
    /\ pkgPc' = [pkgPc EXCEPT ![p] = IF @ \in PkgDuring THEN "cleanup" ELSE "done"]
    /\ pkgAnswer' = [pkgAnswer EXCEPT ![p] = "failed"]

PkgUnless(refused, p) == IF refused THEN PkgStop(p) ELSE PkgAdvance(p)

(* What is read or written by name is in the directory that has the name.    *)
PkgReachable(p) == pkgStaging[p] # NoRelease

(* A host that cannot rename without replacing ends it at once.              *)
PkgBegin(p) ==
    /\ pkgPc[p] = "idle"
    /\ PkgAdvance(p) \/ PkgStop(p)
    /\ UNCHANGED <<pkgWorld, pkgRecord, pkgStaged, pkgPlaces, pkgAfter, pkgBounds>>

(* Nothing may have the release's name: for kernel and audio before the      *)
(* inputs are read and again before they stage, for kernel before it         *)
(* publishes as well.                                                        *)
PkgLookForOutput(p) ==
    /\ pkgPc[p] \in {"absent", "appeared", "last"}
    /\ PkgUnless(pkgOutput # NoRelease, p)
    /\ UNCHANGED <<pkgWorld, pkgRecord, pkgStaged, pkgPlaces, pkgAfter, pkgBounds>>

(* A native build must be coherent, what goes with it need only be there;    *)
(* every source of audio must be the pinned one.                             *)
NativeBuildDecodes == pkgSource["payload"] \in Coherent
SourceIsPinned(i)  == pkgSource[i] = Declared
InputRefused(i) ==
    \/ pkgKind = "kernel" /\ i = "payload" /\ ~NativeBuildDecodes
    \/ pkgKind = "audio" /\ ~SourceIsPinned(i)

PkgInspectInput(p) ==
    \E i \in PkgInputs :
       /\ pkgPc[p] = i
       /\ pkgRecord' = [pkgRecord EXCEPT ![p][i] = pkgSource[i]]
       /\ PkgUnless(InputRefused(i), p)
       /\ UNCHANGED <<pkgWorld, pkgStaged, pkgPlaces, pkgAfter, pkgBounds>>

(* producer.Prepare and, before the rename, producer.Revalidate: the         *)
(* repository is clean, its declaration is the one compiled in, and the      *)
(* decision on the payload's target is reached again.                        *)
Authenticates == pkgHead = Declared

PkgAuthorise(p) ==
    /\ pkgPc[p] \in {"authorise", "reauthorise"}
    /\ PkgUnless(~Authenticates, p)
    /\ UNCHANGED <<pkgWorld, pkgRecord, pkgStaged, pkgPlaces, pkgAfter, pkgBounds>>

(* A dry run ends with the plan.                                             *)
PkgFinishPlan(p) ==
    /\ pkgPc[p] = "planned"
    /\ PkgAdvance(p) \/ PkgEnd(p, "planned")
    /\ UNCHANGED <<pkgWorld, pkgRecord, pkgStaged, pkgPlaces, pkgAfter, pkgBounds>>

(* revalidatePlan: the kernel's inputs are still the planned ones.           *)
PlanStands(p) == pkgSource = pkgRecord[p]

PkgRevalidatePlan(p) ==
    /\ pkgPc[p] = "revalidate"
    /\ PkgUnless(~PlanStands(p), p)
    /\ UNCHANGED <<pkgWorld, pkgRecord, pkgStaged, pkgPlaces, pkgAfter, pkgBounds>>

(* The parent is created if need be, and a directory of a fresh name in it.  *)
PkgStage(p) ==
    /\ pkgPc[p] = "stage" /\ PkgAdvance(p)
    /\ pkgStaging' = [pkgStaging EXCEPT ![p] = p]
    /\ UNCHANGED <<pkgWorld, pkgRecord, pkgStaged, pkgOutput, pkgStuck, pkgAfter, pkgBounds>>

(* An input is copied.  Kernel and audio compare it with what they recorded, *)
(* and audio what it makes of the matcher's base with its pin; a camera      *)
(* bundle is copied as it is, its declaration with it.                       *)
CopiedIsRecorded(p, i) == pkgSource[i] = pkgRecord[p][i]

PkgCopy(p, i) ==
    /\ PkgUnless(~PkgReachable(p) \/ (pkgKind # "camera" /\ ~CopiedIsRecorded(p, i)), p)
    /\ pkgFile' = [pkgFile EXCEPT ![p][i] = pkgSource[i]]
    /\ pkgText' = [pkgText EXCEPT ![p]["declaration"] =
          IF pkgKind = "camera" THEN "written" ELSE @]
    /\ UNCHANGED <<pkgWorld, pkgRecord, pkgNoted, pkgPlaces, pkgAfter, pkgBounds>>

PkgCopyPayload(p) == pkgPc[p] = "copy" /\ PkgCopy(p, "payload")
PkgCopyExtra(p)   == pkgPc[p] = "copyextra" /\ PkgCopy(p, "extra")

(* The private copy of the camera bundle must follow from the digest the     *)
(* caller expects, and its declaration be the authorised one.                *)
BundleIsExpected(p) == pkgFile[p] = AsDeclared
CompatibilityHolds(p) == pkgText[p]["declaration"] = "written"

PkgValidateBundle(p) ==
    /\ pkgPc[p] = "validate"
    /\ PkgUnless(~BundleIsExpected(p) \/ ~CompatibilityHolds(p), p)
    /\ UNCHANGED <<pkgWorld, pkgRecord, pkgStaged, pkgPlaces, pkgAfter, pkgBounds>>

(* The staged files are recorded: those of a camera bundle as they now are,  *)
(* those of audio if they are the pinned ones.                               *)
PkgInspectStaged(p) ==
    /\ pkgPc[p] = "inspect"
    /\ PkgUnless(\/ NoContent \in {pkgFile[p][i] : i \in PkgInputs}
                 \/ pkgKind = "audio" /\ pkgFile[p] # AsDeclared, p)
    /\ pkgRecord' = [pkgRecord EXCEPT ![p] = pkgFile[p]]
    /\ UNCHANGED <<pkgWorld, pkgStaged, pkgPlaces, pkgAfter, pkgBounds>>

(* A text is written to a new file; the manifest of a camera release records *)
(* the notes as they now are.                                                *)
PkgWriteText(p) ==
    \E t \in PkgTexts :
       /\ pkgPc[p] = t
       /\ PkgUnless(~PkgReachable(p), p)
       /\ pkgText' = [pkgText EXCEPT ![p][t] = "written"]
       /\ pkgNoted' = [pkgNoted EXCEPT ![p] = IF t = "manifest" THEN pkgText[p]["notes"] ELSE @]
       /\ UNCHANGED <<pkgWorld, pkgRecord, pkgFile, pkgPlaces, pkgAfter, pkgBounds>>

(* What the texts of a directory must be.                                    *)
ManifestDecodes(p)  == pkgText[p]["manifest"] = "written"
ChecksumsAgree(p)   == pkgText[p]["sums"] = "written"
NotesFollow(p)      == pkgText[p]["notes"] = "written"
BundleFollows(p)    == pkgText[p]["declaration"] = "written"

(* Slip: only the texts are validated.                                       *)
MutantKernelReleaseHolds(p) ==
    ManifestDecodes(p) /\ ChecksumsAgree(p) /\ NotesFollow(p) /\ BundleFollows(p)

(* validateDirectory of a kernel release: exactly the files of the manifest, *)
(* with the sums, the bundle and the notes that follow from it.              *)
KernelReleaseHolds(p) ==
    /\ ManifestDecodes(p) /\ ChecksumsAgree(p) /\ NotesFollow(p) /\ BundleFollows(p)
    /\ pkgFile[p] = pkgRecord[p]

(* validateDirectory of an audio release, with the manifest in memory: all   *)
(* files are there, but the manifest among them is not read.                 *)
SetIsClosed(p) == \A t \in PkgTexts : pkgText[p][t] # "absent"
AudioReleaseHolds(p) ==
    /\ SetIsClosed(p) /\ pkgFile[p] = AsDeclared
    /\ CompatibilityHolds(p) /\ ChecksumsAgree(p) /\ NotesFollow(p)

(* validatePreparedDirectory of a camera release: all files are there, and   *)
(* the checksums are those recorded.                                         *)
CameraReleaseHolds(p) ==
    /\ SetIsClosed(p) /\ NoContent \notin {pkgFile[p][i] : i \in PkgInputs}
    /\ ChecksumsAgree(p)

PkgReleaseHolds(p) ==
    \/ pkgKind = "kernel" /\ KernelReleaseHolds(p)
    \/ pkgKind = "audio" /\ AudioReleaseHolds(p)
    \/ pkgKind = "camera" /\ CameraReleaseHolds(p)

PkgCheck(p) ==
    /\ pkgPc[p] \in {"check", "recheck"}
    /\ PkgUnless(~PkgReachable(p) \/ ~PkgReleaseHolds(p), p)
    /\ UNCHANGED <<pkgWorld, pkgRecord, pkgStaged, pkgPlaces, pkgAfter, pkgBounds>>

(* Audio: the staging directory is still its own.                            *)
PkgProveIdentity(p) ==
    /\ pkgPc[p] = "identity"
    /\ PkgUnless(pkgStaging[p] # p, p)
    /\ UNCHANGED <<pkgWorld, pkgRecord, pkgStaged, pkgPlaces, pkgAfter, pkgBounds>>

(* Camera: the declaration is looked at again.                               *)
PkgConfirmCompatibility(p) ==
    /\ pkgPc[p] = "compat"
    /\ PkgUnless(~CompatibilityHolds(p), p)
    /\ UNCHANGED <<pkgWorld, pkgRecord, pkgStaged, pkgPlaces, pkgAfter, pkgBounds>>

(* The rename, of whatever has the staging name.                             *)
PkgPublish(p) ==
    /\ pkgPc[p] = "publish"
    /\ IF PkgReachable(p) /\ pkgOutput = NoRelease
       THEN /\ pkgOutput' = pkgStaging[p]
            /\ pkgStaging' = [pkgStaging EXCEPT ![p] = NoRelease]
            /\ PkgAdvance(p)
       ELSE PkgStop(p) /\ UNCHANGED <<pkgOutput, pkgStaging>>
    /\ UNCHANGED <<pkgWorld, pkgRecord, pkgStaged, pkgStuck, pkgAfter, pkgBounds>>

(* The parent is synchronised.  A camera release is not yet called published.*)
PkgSync(p) ==
    /\ pkgPc[p] = "sync"
    /\ IF pkgKind = "camera" THEN PkgAdvance(p) ELSE PkgEnd(p, "published")
    /\ UNCHANGED <<pkgWorld, pkgRecord, pkgStaged, pkgPlaces, pkgAfter, pkgBounds>>

(* Camera: the manifest at the release's name is the one written before.     *)
PkgConfirm(p) ==
    /\ pkgPc[p] = "confirm"
    /\ PkgEnd(p, IF ManifestDecodes(p) THEN "published" ELSE "failed")
    /\ UNCHANGED <<pkgWorld, pkgRecord, pkgStaged, pkgPlaces, pkgAfter, pkgBounds>>

(* The deferred clean-up removes the staging directory only if it is its own.*)
PkgCleanUp(p) ==
    /\ pkgPc[p] = "cleanup"
    /\ pkgPc' = [pkgPc EXCEPT ![p] = "done"]
    /\ pkgStaging' = [pkgStaging EXCEPT ![p] = IF @ = p THEN NoRelease ELSE @]
    /\ UNCHANGED <<pkgWorld, pkgRecord, pkgStaged, pkgAnswer, pkgOutput, pkgStuck,
                   pkgAfter, pkgBounds>>

PkgFaulty == pkgFaults < MaxPkgFaults /\ pkgFaults' = pkgFaults + 1

PkgCleanUpFails(p) ==
    /\ pkgPc[p] = "cleanup" /\ pkgStaging[p] = p /\ PkgFaulty
    /\ pkgPc' = [pkgPc EXCEPT ![p] = "done"]
    /\ pkgStuck' = pkgStuck \cup {p}
    /\ UNCHANGED <<pkgWorld, pkgRecord, pkgStaged, pkgAnswer, pkgStaging, pkgOutput,
                   pkgAfter, pkgEdits>>

(* Any call fails.  After the rename, kernel and audio return an error with  *)
(* a receipt that says published; camera an error alone.                     *)
PkgFault(p) ==
    /\ pkgPc[p] \in PkgBefore \cup PkgDuring \cup {"sync", "confirm"} /\ PkgFaulty
    /\ IF pkgPc[p] = "sync" /\ pkgKind # "camera"
       THEN PkgEnd(p, "published, not durable") ELSE PkgStop(p)
    /\ UNCHANGED <<pkgWorld, pkgRecord, pkgStaged, pkgPlaces, pkgAfter, pkgEdits>>

PkgKill(p) ==
    /\ pkgPc[p] \in PkgPcs \ {"idle", "done", "dead"}
    /\ pkgPc' = [pkgPc EXCEPT ![p] = "dead"]
    /\ UNCHANGED <<pkgWorld, pkgRecord, pkgStaged, pkgAnswer, pkgPlaces, pkgAfter, pkgBounds>>

-----------------------------------------------------------------------------
(* Validate, of the release in place.  A kernel's need only agree with       *)
(* itself; audio's manifest must be canonical and the declaration still      *)
(* authorised; a camera release must be the one whose digest preparation     *)
(* handed over, every file as recorded, and the bundle proved again.         *)
CameraContractHolds(p) ==
    /\ ManifestDecodes(p) /\ pkgFile[p] = pkgRecord[p]
    /\ pkgText[p]["notes"] = pkgNoted[p] /\ CameraReleaseHolds(p)

(* Slip: a camera bundle that is as recorded is not proved again.            *)
MutantPkgAccepts(p) ==
    \/ pkgKind = "kernel" /\ KernelReleaseHolds(p)
    \/ /\ pkgKind = "audio" /\ Authenticates
       /\ ManifestDecodes(p) /\ AudioReleaseHolds(p)
    \/ /\ pkgKind = "camera" /\ Authenticates /\ pkgAnswer[p] = "published"
       /\ CameraContractHolds(p) /\ CompatibilityHolds(p)

PkgAccepts(p) ==
    \/ pkgKind = "kernel" /\ KernelReleaseHolds(p)
    \/ /\ pkgKind = "audio" /\ Authenticates
       /\ ManifestDecodes(p) /\ AudioReleaseHolds(p)
    \/ /\ pkgKind = "camera" /\ Authenticates /\ pkgAnswer[p] = "published"
       /\ CameraContractHolds(p) /\ BundleIsExpected(p) /\ CompatibilityHolds(p)

PkgValidate(p) ==
    /\ pkgOutput = p /\ PkgAccepts(p)
    /\ pkgAccepted' = [by |-> p, files |-> pkgFile[p], texts |-> pkgText[p]]
    /\ UNCHANGED <<pkgWorld, pkgRecord, pkgStaged, pkgPc, pkgAnswer, pkgPlaces,
                   pkgLate, pkgBounds>>

-----------------------------------------------------------------------------
PkgEdit == pkgEdits < MaxPkgEdits /\ pkgEdits' = pkgEdits + 1

(* An input is exchanged or damaged.                                         *)
PkgEditSource ==
    /\ PkgEdit
    /\ \E i \in PkgInputs, c \in Coherent \cup {Damaged} :
          c # pkgSource[i] /\ pkgSource' = [pkgSource EXCEPT ![i] = c]
    /\ UNCHANGED <<pkgKind, pkgHead, pkgRecord, pkgStaged, pkgPc, pkgAnswer, pkgPlaces,
                   pkgAfter, pkgFaults>>

(* Where nothing is looked at again.                                         *)
PkgGone == {"done", "dead"}
PkgOut  == {"publish", "sync", "confirm"} \cup PkgGone
UnwatchedKernel(f) == PkgOut \cup {"last"}
UnwatchedAudio(f) ==
    CASE f = "manifest"  -> PkgPcs
      [] f = "authority" -> PkgOut \cup {"recheck"}
      [] OTHER           -> PkgOut
UnwatchedCamera(f) ==
    CASE f = "manifest"    -> PkgGone
      [] f = "notes"       -> PkgPcs
      [] f = "declaration" -> PkgOut
      [] f = "authority"   -> PkgOut \cup {"compat"}
      [] f = "sums"        -> PkgOut \cup {"reauthorise", "compat"}
      [] OTHER -> PkgOut \cup {"inspect", "sums", "notes", "manifest", "check",
                               "reauthorise", "compat"}

PkgUnwatched(p, f) ==
    \/ pkgKind = "kernel" /\ pkgPc[p] \in UnwatchedKernel(f)
    \/ pkgKind = "audio" /\ pkgPc[p] \in UnwatchedAudio(f)
    \/ pkgKind = "camera" /\ pkgPc[p] \in UnwatchedCamera(f)

(* The repository is changed.                                                *)
PkgEditHead ==
    /\ PkgEdit /\ pkgHead = Declared /\ pkgHead' = Damaged
    /\ pkgLate' = pkgLate \cup
          {e \in Packagers \X {"authority"} : PkgUnwatched(e[1], e[2])}
    /\ UNCHANGED <<pkgKind, pkgSource, pkgRecord, pkgStaged, pkgPc, pkgAnswer, pkgPlaces,
                   pkgAccepted, pkgFaults>>

(* A file of a staging directory or of the release is edited.                *)
PkgEditFile(p) ==
    /\ PkgEdit /\ p \in {pkgStaging[p], pkgOutput}
    /\ \E f \in PkgFiles :
          /\ \/ /\ f \in PkgInputs /\ pkgFile[p][f] # NoContent
                /\ pkgFile' = [pkgFile EXCEPT ![p][f] = Damaged]
                /\ UNCHANGED pkgText
             \/ /\ f \in PkgTexts /\ pkgText[p][f] = "written"
                /\ pkgText' = [pkgText EXCEPT ![p][f] = "edited"]
                /\ UNCHANGED pkgFile
          /\ pkgLate' = IF PkgUnwatched(p, f) THEN pkgLate \cup {<<p, f>>} ELSE pkgLate
    /\ UNCHANGED <<pkgWorld, pkgRecord, pkgNoted, pkgPc, pkgAnswer, pkgPlaces,
                   pkgAccepted, pkgFaults>>

(* The staging directory is moved away, or another is put in its place.      *)
PkgSwap(p) ==
    /\ PkgEdit /\ pkgStaging[p] = p
    /\ \E d \in {NoRelease, Stranger} : pkgStaging' = [pkgStaging EXCEPT ![p] = d]
    /\ pkgFile' = [pkgFile EXCEPT ![p] = NoInputs]
    /\ pkgText' = [pkgText EXCEPT ![p] = NoTexts]
    /\ UNCHANGED <<pkgWorld, pkgRecord, pkgNoted, pkgPc, pkgAnswer, pkgOutput, pkgStuck,
                   pkgAfter, pkgFaults>>

-----------------------------------------------------------------------------
PkgStep(p) ==
    \/ PkgBegin(p) \/ PkgLookForOutput(p) \/ PkgInspectInput(p) \/ PkgAuthorise(p)
    \/ PkgFinishPlan(p) \/ PkgRevalidatePlan(p) \/ PkgStage(p) \/ PkgCopyPayload(p)
    \/ PkgCopyExtra(p) \/ PkgValidateBundle(p) \/ PkgInspectStaged(p) \/ PkgWriteText(p)
    \/ PkgCheck(p) \/ PkgProveIdentity(p) \/ PkgConfirmCompatibility(p) \/ PkgPublish(p)
    \/ PkgSync(p) \/ PkgConfirm(p) \/ PkgCleanUp(p) \/ PkgValidate(p)

PkgNext ==
    \/ PkgEditSource \/ PkgEditHead
    \/ \E p \in Packagers :
          \/ PkgStep(p) \/ PkgCleanUpFails(p) \/ PkgFault(p) \/ PkgKill(p)
          \/ PkgEditFile(p) \/ PkgSwap(p)

PkgSpec == PkgInit /\ [][PkgNext]_pkgVars

-----------------------------------------------------------------------------
PkgTypeOK ==
    /\ pkgKind \in DOMAIN PkgOrder
    /\ pkgSource \in [PkgInputs -> PkgContents] /\ pkgHead \in PkgContents
    /\ pkgRecord \in [Packagers -> [PkgInputs -> PkgContents]]
    /\ pkgStaging \in [Packagers -> Packagers \cup {NoRelease, Stranger}]
    /\ pkgFile \in [Packagers -> [PkgInputs -> PkgContents]]
    /\ pkgText \in [Packagers -> [PkgTexts -> PkgWritten]]
    /\ pkgNoted \in [Packagers -> PkgWritten]
    /\ pkgPc \in [Packagers -> PkgPcs] /\ pkgAnswer \in [Packagers -> PkgAnswers]
    /\ pkgOutput \in Packagers \cup {NoRelease, Stranger}
    /\ pkgLate \subseteq Packagers \X (PkgFiles \cup {"authority"})
    /\ pkgStuck \subseteq Packagers
    /\ pkgAccepted \in [by : Packagers \cup {NoRelease}, files : [PkgInputs -> PkgContents],
                        texts : [PkgTexts -> PkgWritten]]
    /\ pkgEdits \in Nat /\ pkgFaults \in Nat

(* What a release of each kind is to consist of.                             *)
PkgAuthorised(p) == IF pkgKind = "kernel" THEN pkgRecord[p] ELSE AsDeclared

(* The directory at the release's name consists of what authorises it, with  *)
(* complete records beside it and, unless it is a kernel, under a            *)
(* declaration that stands; whatever was exchanged, edited or run meanwhile, *)
(* except for what was changed after the program last looks at it.  A camera *)
(* manifest is looked at only before the release is called published.        *)
PackageIsAuthorised ==
    \A p \in Packagers :
        pkgOutput = p =>
            /\ \A i \in PkgInputs :
                  pkgFile[p][i] = PkgAuthorised(p)[i] \/ <<p, i>> \in pkgLate
            /\ \A t \in PkgTexts :
                  \/ pkgText[p][t] = "written" \/ <<p, t>> \in pkgLate
                  \/ pkgKind = "camera" /\ t = "manifest" /\ pkgAnswer[p] # "published"
            /\ \/ pkgKind = "kernel" \/ pkgHead = Declared
               \/ <<p, "authority">> \in pkgLate

(* A preparation that says "published" has given the name to its directory   *)
(* or to one put in its place, and one that only fails leaves neither its    *)
(* staging directory nor a release, except the camera's, which may fail      *)
(* after the rename.                                                         *)
PackageAnswerTells ==
    \A p \in Packagers :
        /\ pkgAnswer[p] \in {"published", "published, not durable"}
              => pkgOutput \in {p, Stranger}
        /\ pkgPc[p] = "done" /\ pkgAnswer[p] = "failed" =>
              /\ pkgOutput = p => pkgKind = "camera"
              /\ pkgStaging[p] = p => p \in pkgStuck

(* What validation accepts is authorised, however late its files had been    *)
(* changed: every input is, and every text is as written, save that a camera *)
(* release's notes may have been changed before they were recorded.          *)
AcceptedIsAuthorised ==
    LET a == pkgAccepted IN
    a.by # NoRelease =>
        /\ a.files = PkgAuthorised(a.by)
        /\ \A t \in PkgTexts : a.texts[t] = "written" \/ (pkgKind = "camera" /\ t = "notes")
=============================================================================
