-------------------------- MODULE UserspaceInstall --------------------------
(* lexr userspace install, as internal/userspace/install runs it: the audio  *)
(* set, the native IPTSD release, the Wi-Fi board data and the camera        *)
(* packages, and internal/userspace/manager, which runs one after another.   *)
(* Files are copied into place one by one, after backups, each by a rename   *)
(* that may succeed although the copy reports an error; a failure undoes     *)
(* what was done.  The administrator edits files at any moment, the bundle   *)
(* and its evidence may change, and the command may be killed.               *)
EXTENDS IPTSDRelease, Compatibility, FiniteSetsExt

CONSTANTS UsrTargets,     \* bound: the files of a component
          MaxUsrFaults,   \* bound: calls that fail
          MaxUsrEdits     \* bound: edits by others

ASSUME UserspaceAssumption ==
    UsrTargets \in Nat \ {0} /\ MaxUsrFaults \in Nat /\ MaxUsrEdits \in Nat

VARIABLES usrRequest,   \* the components, dry run, activation wanted, evidence
          usrQueue,     \* the components left, the current one first
          usrPc,        \* the next step
          usrAt,        \* the target it is at
          usrFile,      \* what is at each target
          usrSource,    \* what each file to install holds
          usrOriginal,  \* what the plan saw at each target
          usrBackup,    \* the private copies of that
          usrMask,      \* the unit that masks the generic daemon
          usrMaskSeen,  \* what the plan saw there
          usrMaskMade,  \* the command put it there
          usrApplied,   \* the targets a rollback has to restore
          usrEvidence,  \* the compatibility evidence is what was assessed
          usrRecords,   \* the records of it that are kept
          usrReceipt,   \* what the receipt says
          usrActive,    \* the activation commands succeeded
          usrResult,    \* installed, failed, and left: a rollback was partial
          usrFaults, usrEdits

usrVars == <<usrRequest, usrQueue, usrPc, usrAt, usrFile, usrSource,
             usrOriginal, usrBackup, usrMask, usrMaskSeen, usrMaskMade,
             usrApplied, usrEvidence, usrRecords, usrReceipt, usrActive,
             usrResult, usrFaults, usrEdits>>

Component == Head(usrQueue)
Targets   == IF Component = "wifi" THEN {1} ELSE 1 .. UsrTargets

(* The audio selector, the last of its files, may be the distribution's link.*)
Originals(component) ==
    {f \in [1 .. UsrTargets -> {"none", "old", "new", "link"}] :
        \A i \in 1 .. UsrTargets :
            f[i] = "link" => component = "audio" /\ i = UsrTargets}

(* An explicit component, or the recommended ones after one another.         *)
UsrRequests ==
    [components : {<<"audio", "iptsd">>, <<"audio">>, <<"iptsd">>, <<"wifi">>,
                   <<"camera">>},
     dryRun : BOOLEAN, live : BOOLEAN, evidence : BOOLEAN]

UsrInit ==
    /\ usrRequest \in UsrRequests
    /\ usrQueue = usrRequest.components
    /\ usrPc = "select"
    /\ usrAt = 1
    /\ usrFile = [i \in 1 .. UsrTargets |-> "none"]
    /\ usrSource = [i \in 1 .. UsrTargets |-> "new"]
    /\ usrOriginal = usrFile /\ usrBackup = usrFile
    /\ usrMask = "none" /\ usrMaskSeen = "none" /\ usrMaskMade = FALSE
    /\ usrApplied = {}
    /\ usrEvidence = TRUE /\ usrRecords = 0
    /\ usrReceipt = "none" /\ usrActive = FALSE
    /\ usrResult = [installed |-> FALSE, failed |-> FALSE, left |-> FALSE]
    /\ usrFaults = 0 /\ usrEdits = 0

Planned  == <<usrRequest, usrQueue, usrOriginal, usrMaskSeen>>
Copies   == <<usrFile, usrBackup, usrApplied>>
Masking  == <<usrMask, usrMaskMade>>
Kept     == <<usrRecords, usrReceipt, usrActive>>
Outside  == <<usrSource, usrEvidence, usrEdits>>

UsrFault   == usrFaults < MaxUsrFaults /\ usrFaults' = usrFaults + 1
UsrNoFault == UNCHANGED usrFaults

GoTo(pc) == usrPc' = pc /\ UNCHANGED usrResult

End(installed) ==
    /\ usrPc' = "over"
    /\ usrResult' = [usrResult EXCEPT !.installed = installed]

UsrFail(pc) == usrPc' = pc /\ usrResult' = [usrResult EXCEPT !.failed = TRUE]

(* Fails with files in place that the result names as installed.             *)
FailInstalled ==
    /\ usrPc' = "over"
    /\ usrResult' = [usrResult EXCEPT !.installed = TRUE, !.failed = TRUE]

-----------------------------------------------------------------------------
(* What is asked of the inputs before anything is planned.                   *)

(* The receipt names the compiled component, repository and release; each    *)
(* member is listed once, with the compiled size and digest, and has them.   *)
VerifyBundle == \A i \in Targets : usrSource[i] = "new"

(* Exactly one kind of authority is in the camera's directory; a build or a  *)
(* release of one's own needs the repository and its expected digest.        *)
CameraInputKind(authorities, hasRepository) ==
    CASE "downloaded" \in authorities /\ authorities # {"downloaded"} -> "refused"
      [] "release" \in authorities /\ "build" \notin authorities -> "refused"
      [] "downloaded" \in authorities ->
            IF hasRepository THEN "refused" ELSE "downloaded"
      [] authorities = {} \/ ~hasRepository -> "refused"
      [] "release" \in authorities -> "release"
      [] OTHER -> "build"

(* The markers of Fedora's own package.  One path other packages use too: it *)
(* tells of the package only with the packaged bytes.                        *)
NativeIPTSD(markers) ==
    CASE markers.own = "absent" /\ markers.shared # "packaged" -> "absent"
      [] \A m \in DOMAIN markers : markers[m] = "packaged" -> "complete"
      [] OTHER -> "partial"

(* A board database is a set of entries, each the selectors it names and a   *)
(* payload.  The Surface's own selector goes before the fallback.            *)
BoardEntries(database, selector) == {e \in database : selector \in e.selectors}

SelectBoard(database) ==
    CASE \E s \in {"surface", "fallback"} : Cardinality(BoardEntries(database, s)) > 1
            -> "refused"
      [] \E e \in database : e.selectors # {} /\ e.payload = "none" -> "refused"
      [] BoardEntries(database, "surface") # {} -> "native"
      [] BoardEntries(database, "fallback") # {} -> "fallback"
      [] OTHER -> "refused"

Databases ==
    SUBSET [selectors : SUBSET {"surface", "fallback"}, payload : {"board", "none"}]

Markers == [{"own", "shared"} -> {"absent", "packaged", "changed"}]

Authorities == SUBSET {"downloaded", "build", "release"}

(* A custom unit, or a link elsewhere, where the mask belongs is refused.    *)
InspectMask(mask) == mask \in {"none", "null"}

(* How a component's own input is judged: "install", "retain", "refused".    *)
InputVerdicts ==
    CASE Component = "wifi" ->
            {IF SelectBoard(d) = "native" THEN "retain"
             ELSE IF SelectBoard(d) = "fallback" THEN "install" ELSE "refused" :
                d \in Databases}
      [] Component = "camera" ->
            {IF CameraInputKind(a, r) = "refused" THEN "refused" ELSE "install" :
                a \in Authorities, r \in BOOLEAN}
      [] Component = "iptsd" ->
            {IF NativeIPTSD(m) = "absent" THEN v ELSE "refused" :
                m \in Markers, v \in ReleaseVerdicts}
      [] OTHER -> {"install", "refused"}

(* The evidence that it fits the machine is asked for too, but of Wi-Fi.     *)
Verdicts ==
    IF Component = "wifi" THEN InputVerdicts
    ELSE {IF fits THEN v ELSE "refused" :
             fits \in CompatibilityAssessments(usrRequest.evidence),
             v \in InputVerdicts}

-----------------------------------------------------------------------------
(* A catalogue the user brings may only narrow the compiled one: a component *)
(* of it keeps its policy, release and evidence, allows no action more and no*)
(* kernel outside the range.                                                 *)
CompiledActions == {"status", "pull", "install"}
CompiledRange   == [from |-> 1, through |-> 2]

Catalogues ==
    [known : BOOLEAN, policy : {"compiled", "other"}, release : {"compiled", "other"},
     actions : SUBSET {"status", "pull", "build", "install"},
     range : [from : 0 .. 3, through : 0 .. 3]]

IntersectCatalogue(entry) ==
    /\ entry.known
    /\ entry.actions \subseteq CompiledActions
    /\ entry.policy = "compiled" /\ entry.release = "compiled"
    /\ entry.range.from >= CompiledRange.from
    /\ entry.range.through <= CompiledRange.through

InstallPermitted == {IntersectCatalogue(e) /\ "install" \in e.actions : e \in Catalogues}

UsrSelect ==
    /\ usrPc = "select"
    /\ \E permitted \in InstallPermitted :
         IF ~permitted THEN UsrFail("over")
         ELSE GoTo(IF Len(usrQueue) > 1 /\ ~usrRequest.dryRun THEN "preflight" ELSE "plan")
    /\ UsrNoFault
    /\ UNCHANGED <<Planned, usrAt, Copies, Masking, Kept, Outside>>

(* The recommended set is planned as a whole before any of it is installed.  *)
UsrPreflight ==
    /\ usrPc = "preflight"
    /\ GoTo("plan") \/ UsrFail("over")
    /\ UsrNoFault
    /\ UNCHANGED <<Planned, usrAt, Copies, Masking, Kept, Outside>>

(* The inputs are verified, the evidence assessed and the targets looked at. *)
(* A Wi-Fi board that is there already only needs the radio to be restarted. *)
UsrPlan ==
    /\ usrPc = "plan"
    /\ \E verdict \in Verdicts, originals \in Originals(Component),
          mask \in {"none", "null", "custom"} :
         /\ Component # "iptsd" => mask = "none"
         /\ usrOriginal' = originals /\ usrFile' = originals
         /\ usrMaskSeen' = mask /\ usrMask' = mask
         /\ \/ /\ verdict = "refused" \/ ~InspectMask(mask) \/ ~VerifyBundle
               /\ UsrFail("over")
            \/ /\ verdict # "refused" /\ InspectMask(mask) /\ VerifyBundle
               /\ \/ usrRequest.dryRun /\ End(FALSE)
                  \/ /\ ~usrRequest.dryRun
                     /\ IF Component = "wifi" /\ (verdict = "retain" \/ originals[1] = "new")
                        THEN usrPc' = "activate" /\ usrResult' = [usrResult EXCEPT !.installed = TRUE]
                        ELSE GoTo(IF Component = "camera" THEN "copy" ELSE "backup")
    /\ UsrNoFault
    /\ UNCHANGED <<usrRequest, usrQueue, usrAt, usrBackup, usrApplied,
                   usrMaskMade, Kept, Outside>>

(* Slip: the distribution's link is not backed up.                           *)
MutantReplaced(i) == usrOriginal[i] \notin {"none", "link"}

Replaced(i) == usrOriginal[i] # "none"

Unsaved == {i \in Targets : Replaced(i) /\ usrBackup[i] = "none"}

(* What is saved has to be what the plan saw.                                *)
UsrBackUp ==
    /\ usrPc = "backup" /\ Unsaved # {}
    /\ LET i == Min(Unsaved)
       IN \/ /\ usrFile[i] = usrOriginal[i]
             /\ usrBackup' = [usrBackup EXCEPT ![i] = usrOriginal[i]]
             /\ UNCHANGED <<usrPc, usrResult>> /\ UsrNoFault
          \/ /\ (usrFile[i] # usrOriginal[i] /\ UsrNoFault) \/ UsrFault
             /\ UsrFail("over") /\ UNCHANGED usrBackup
    /\ UNCHANGED <<Planned, usrAt, usrFile, usrApplied, Masking, Kept, Outside>>

UsrBackedUp ==
    /\ usrPc = "backup" /\ Unsaved = {}
    /\ GoTo(IF Component = "wifi" THEN "prepare" ELSE "check")
    /\ UsrNoFault
    /\ UNCHANGED <<Planned, usrAt, Copies, Masking, Kept, Outside>>

(* A file is replaced by a rename: an error may come before it, or after it, *)
(* from the synchronisation of the directory.                                *)
ReceiptWritten(says) == usrReceipt' = says /\ UsrNoFault
ReceiptFails(says)   == usrReceipt' \in {usrReceipt, says} /\ UsrFault

(* The Wi-Fi board's receipt is written ahead of it.                         *)
UsrPrepare ==
    /\ usrPc = "prepare"
    /\ \/ ReceiptWritten("prepared") /\ GoTo("check")
       \/ ReceiptFails("prepared") /\ UsrFail("over")
    /\ UNCHANGED <<Planned, usrAt, Copies, Masking, usrRecords, usrActive, Outside>>

-----------------------------------------------------------------------------
(* The evidence is assessed again before each file, Wi-Fi has none; and IPTSD*)
(* and Wi-Fi look at the target again.                                       *)
RevalidateCompatibility == usrRequest.evidence /\ Component # "wifi" => usrEvidence

RevalidateTarget(i) ==
    Component \in {"iptsd", "wifi"} => usrFile[i] = usrOriginal[i]

UsrCheck ==
    /\ usrPc = "check"
    /\ IF RevalidateCompatibility /\ RevalidateTarget(usrAt)
       THEN GoTo("copy")
       ELSE UsrFail(IF Component = "wifi" THEN "over" ELSE "rollback")
    /\ UsrNoFault
    /\ UNCHANGED <<Planned, usrAt, Copies, Masking, Kept, Outside>>

(* What is copied has to have the digest; a link is replaced only where the  *)
(* plan saw it, and then only that one.                                      *)
MayCopy(i) ==
    /\ usrSource[i] = "new"
    /\ (usrFile[i] = "link") = (usrOriginal[i] = "link")

AfterCopy ==
    IF usrAt < Cardinality(Targets) THEN "check"
    ELSE CASE Component = "audio" -> "records"
           [] Component = "iptsd" -> "mask"
           [] Component = "wifi"  -> "receipt"

UsrCopy ==
    /\ usrPc = "copy" /\ Component # "camera"
    /\ MayCopy(usrAt)
    /\ usrFile' = [usrFile EXCEPT ![usrAt] = usrSource[usrAt]]
    /\ usrApplied' = usrApplied \cup {usrAt}
    /\ usrAt' = usrAt + 1
    /\ GoTo(AfterCopy) /\ UsrNoFault
    /\ UNCHANGED <<Planned, usrBackup, Masking, Kept, Outside>>

(* Slip: a copy that reported an error is taken not to have happened.        *)
MutantCounts(i, content) == FALSE

(* After an error the target is looked at: with the verified bytes in it, it *)
(* has to be restored too.                                                   *)
Counts(i, content) ==
    content = "new" /\ (Component = "iptsd" => usrOriginal[i] # "new")

UsrCopyFails ==
    /\ usrPc = "copy" /\ Component # "camera"
    /\ \/ ~MayCopy(usrAt) /\ UsrNoFault /\ UNCHANGED usrFile
       \/ UsrFault /\ UNCHANGED usrFile
       \/ /\ MayCopy(usrAt) /\ UsrFault
          /\ usrFile' = [usrFile EXCEPT ![usrAt] = usrSource[usrAt]]
    /\ usrApplied' = usrApplied \cup {i \in {usrAt} : Counts(i, usrFile'[i])}
    /\ UsrFail("rollback")
    /\ UNCHANGED <<Planned, usrAt, usrBackup, Masking, Kept, Outside>>

(* The camera's packages are staged with their digests, and apt installs     *)
(* them; it may fail with any of them installed.                             *)
UsrApt ==
    /\ usrPc = "copy" /\ Component = "camera"
    /\ \/ /\ VerifyBundle /\ RevalidateCompatibility
          /\ usrFile' = [i \in 1 .. UsrTargets |-> "new"]
          /\ GoTo("records") /\ UsrNoFault
       \/ /\ ~(VerifyBundle /\ RevalidateCompatibility)
          /\ UsrFail("over") /\ UsrNoFault /\ UNCHANGED usrFile
       \/ /\ VerifyBundle /\ RevalidateCompatibility
          /\ \E done \in SUBSET Targets :
               usrFile' = [i \in 1 .. UsrTargets |->
                             IF i \in done THEN "new" ELSE usrFile[i]]
          /\ UsrFail("over") /\ UsrFault
    /\ UNCHANGED <<Planned, usrAt, usrBackup, usrApplied, Masking, Kept, Outside>>

(* The generic daemon is masked; a mask that is there stays.                 *)
UsrMaskGeneric ==
    /\ usrPc = "mask"
    /\ \/ /\ usrMask = usrMaskSeen
          /\ usrMask' = "null" /\ usrMaskMade' = (usrMaskSeen = "none")
          /\ \/ GoTo("records") /\ UsrNoFault
             \/ usrMaskSeen = "none" /\ UsrFail("rollback") /\ UsrFault
       \/ /\ \/ usrMask # usrMaskSeen /\ UsrNoFault
             \/ usrMaskSeen = "none" /\ UsrFault
          /\ UNCHANGED Masking /\ UsrFail("rollback")
    /\ UNCHANGED <<Planned, usrAt, Copies, Kept, Outside>>

(* Two records of the assessment are kept, once it has been made again.  What*)
(* is installed by then stays.                                               *)
UsrRecord ==
    /\ usrPc = "records"
    /\ IF ~usrRequest.evidence
       THEN /\ UNCHANGED usrRecords /\ UsrNoFault
            /\ IF Component = "iptsd" THEN GoTo("receipt") ELSE End(TRUE)
       ELSE \/ /\ RevalidateCompatibility
               /\ usrRecords' = 2 /\ UsrNoFault
               /\ IF Component = "iptsd" THEN GoTo("receipt") ELSE End(TRUE)
            \/ /\ ~RevalidateCompatibility /\ UsrNoFault
               /\ UNCHANGED usrRecords /\ FailInstalled
            \/ /\ RevalidateCompatibility /\ UsrFault
               /\ usrRecords' \in 0 .. 2 /\ FailInstalled
    /\ UNCHANGED <<Planned, usrAt, Copies, Masking, usrReceipt, usrActive, Outside>>

-----------------------------------------------------------------------------
(* IPTSD for another root needs no activation, and its receipt is complete.  *)
FirstReceipt ==
    IF Component = "iptsd" /\ ~usrRequest.live THEN "activated" ELSE "installed"

UsrReceipt ==
    /\ usrPc = "receipt"
    /\ ReceiptWritten(FirstReceipt)
    /\ usrResult' = [usrResult EXCEPT !.installed = TRUE]
    /\ usrPc' = IF Component = "iptsd" /\ ~usrRequest.live THEN "over" ELSE "activate"
    /\ UNCHANGED <<Planned, usrAt, Copies, Masking, usrRecords, usrActive, Outside>>

(* Slip: the files are restored while the receipt still tells of them.       *)
MutantAfterReceipt == "rollback"

(* IPTSD takes the receipt back before it restores the files.                *)
AfterReceipt == IF Component = "iptsd" THEN "take back" ELSE "rollback"

UsrReceiptFails ==
    /\ usrPc = "receipt"
    /\ ReceiptFails(FirstReceipt) /\ UsrFail(AfterReceipt)
    /\ UNCHANGED <<Planned, usrAt, Copies, Masking, usrRecords, usrActive, Outside>>

UsrTakeBackReceipt ==
    /\ usrPc = "take back"
    /\ usrPc' = "rollback"
    /\ \/ usrReceipt' = "none" /\ UsrNoFault /\ UNCHANGED usrResult
       \/ /\ usrReceipt # "none" /\ UsrFault
          /\ usrReceipt' \in {usrReceipt, "none"}
          /\ usrResult' = [usrResult EXCEPT !.left = TRUE]
    /\ UNCHANGED <<Planned, usrAt, Copies, Masking, usrRecords, usrActive, Outside>>

(* All commands of IPTSD run, those of Wi-Fi up to the first that fails, if  *)
(* the plan for them is still the same; the legacy service may be absent.    *)
UsrActivate ==
    /\ usrPc = "activate"
    /\ \/ ~usrRequest.live /\ UNCHANGED <<usrActive, usrResult>> /\ UsrNoFault
       \/ usrRequest.live /\ usrActive' = TRUE /\ UNCHANGED usrResult /\ UsrNoFault
       \/ /\ usrRequest.live /\ UNCHANGED usrActive /\ UsrFault
          /\ usrResult' = [usrResult EXCEPT !.failed = TRUE]
    /\ usrPc' = IF usrReceipt = "none" THEN "over" ELSE "final"
    /\ UNCHANGED <<Planned, usrAt, Copies, Masking, usrRecords, usrReceipt, Outside>>

LastReceipt ==
    CASE ~usrRequest.live -> "installed"
      [] usrActive -> "activated"
      [] OTHER -> "incomplete"

UsrLastReceipt ==
    /\ usrPc = "final"
    /\ \/ ReceiptWritten(LastReceipt) /\ GoTo("over")
       \/ ReceiptFails(LastReceipt) /\ UsrFail("over")
    /\ UNCHANGED <<Planned, usrAt, Copies, Masking, usrRecords, usrActive, Outside>>

-----------------------------------------------------------------------------
(* A rollback removes a mask of its own, and restores in reverse order; what *)
(* it cannot restore it leaves, and goes on.                                 *)
Left == usrResult' = [usrResult EXCEPT !.left = TRUE]

UsrRemoveMask ==
    /\ usrPc = "rollback" /\ usrMaskMade
    /\ usrMaskMade' = FALSE
    /\ \/ usrMask \in {"none", "null"} /\ usrMask' = "none" /\ UsrNoFault /\ UNCHANGED usrResult
       \/ usrMask = "custom" /\ UNCHANGED usrMask /\ UsrNoFault /\ Left
       \/ usrMask = "null" /\ usrMask' \in {"null", "none"} /\ UsrFault /\ Left
    /\ UNCHANGED <<Planned, usrPc, usrAt, Copies, Kept, Outside>>

(* IPTSD, and the audio selector's link, are restored only over the bytes    *)
(* that were installed.                                                      *)
MayRestore(i) ==
    Component = "iptsd" \/ usrOriginal[i] = "link" => usrFile[i] = "new"

UsrRestore ==
    /\ usrPc = "rollback" /\ ~usrMaskMade /\ usrApplied # {}
    /\ LET i == Max(usrApplied)
           restored == [usrFile EXCEPT ![i] = usrBackup[i]]
       IN /\ usrApplied' = usrApplied \ {i}
          /\ \/ MayRestore(i) /\ usrFile' = restored /\ UsrNoFault /\ UNCHANGED usrResult
             \/ ~MayRestore(i) /\ UNCHANGED usrFile /\ UsrNoFault /\ Left
             \/ MayRestore(i) /\ usrFile' \in {usrFile, restored} /\ UsrFault /\ Left
    /\ UNCHANGED <<Planned, usrPc, usrAt, usrBackup, Masking, Kept, Outside>>

(* Wi-Fi still calls its file installed if it could not take it back.        *)
UsrRolledBack ==
    /\ usrPc = "rollback" /\ ~usrMaskMade /\ usrApplied = {}
    /\ End(Component = "wifi" /\ usrResult.left)
    /\ UsrNoFault
    /\ UNCHANGED <<Planned, usrAt, Copies, Masking, Kept, Outside>>

(* The next component, once this one is installed.                           *)
UsrNextComponent ==
    /\ usrPc = "over" /\ Len(usrQueue) > 1 /\ ~usrResult.failed
    /\ usrQueue' = Tail(usrQueue)
    /\ usrPc' = "plan" /\ usrAt' = 1
    /\ usrFile' = [i \in 1 .. UsrTargets |-> "none"]
    /\ usrOriginal' = usrFile' /\ usrBackup' = usrFile'
    /\ usrSource' = [i \in 1 .. UsrTargets |-> "new"]
    /\ usrApplied' = {} /\ usrRecords' = 0
    /\ usrResult' = [usrResult EXCEPT !.installed = FALSE]
    /\ UNCHANGED <<usrRequest, usrMask, usrMaskSeen, usrMaskMade, usrEvidence,
                   usrReceipt, usrActive, usrFaults, usrEdits>>

-----------------------------------------------------------------------------
(* Others edit a target, the mask's place, or the bundle; or the evidence is *)
(* not the same any more.  What IPTSD and Wi-Fi install is staged privately. *)
UsrEdit ==
    /\ usrPc \notin {"select", "preflight", "plan", "over", "killed"}
    /\ usrEdits < MaxUsrEdits /\ usrEdits' = usrEdits + 1
    /\ \/ /\ \E i \in Targets : usrFile' = [usrFile EXCEPT ![i] = "edited"]
          /\ UNCHANGED <<usrMask, usrSource, usrEvidence>>
       \/ /\ Component = "iptsd"
          /\ usrMask' \in {"none", "custom"} \ {usrMask}
          /\ UNCHANGED <<usrFile, usrSource, usrEvidence>>
       \/ /\ Component \in {"audio", "camera"}
          /\ \E i \in Targets : usrSource' = [usrSource EXCEPT ![i] = "tampered"]
          /\ UNCHANGED <<usrFile, usrMask, usrEvidence>>
       \/ /\ usrEvidence' = FALSE /\ usrEvidence
          /\ UNCHANGED <<usrFile, usrMask, usrSource>>
    /\ UNCHANGED <<Planned, usrPc, usrAt, usrBackup, usrApplied, usrMaskMade,
                   Kept, usrResult, usrFaults>>

UsrKill ==
    /\ usrPc \notin {"over", "killed"}
    /\ usrPc' = "killed"
    /\ UNCHANGED <<Planned, usrAt, Copies, Masking, Kept, Outside, usrResult,
                   usrFaults>>

UsrStep ==
    \/ UsrSelect \/ UsrPreflight \/ UsrPlan \/ UsrBackUp \/ UsrBackedUp \/ UsrPrepare
    \/ UsrCheck \/ UsrCopy \/ UsrCopyFails \/ UsrApt \/ UsrMaskGeneric
    \/ UsrRecord \/ UsrReceipt \/ UsrReceiptFails \/ UsrTakeBackReceipt
    \/ UsrActivate \/ UsrLastReceipt
    \/ UsrRemoveMask \/ UsrRestore \/ UsrRolledBack \/ UsrNextComponent

UsrNext == UsrStep \/ UsrEdit \/ UsrKill

UsrSpec == UsrInit /\ [][UsrNext]_usrVars

-----------------------------------------------------------------------------
Transactional == Component # "camera"

(* At every moment, a kill included, what the plan saw at a target that now  *)
(* holds the component's file is in the private backup; and of a Wi-Fi board *)
(* a receipt written ahead tells.                                            *)
OriginalsSaved ==
    Transactional =>
        \A i \in Targets :
            usrFile[i] = "new" /\ usrOriginal[i] # "new" =>
                /\ usrBackup[i] = usrOriginal[i]
                /\ Component = "wifi" => usrReceipt # "none"

(* An installation that failed, says that nothing is installed and reports   *)
(* no trouble with its rollback has left every target as it was, or as       *)
(* somebody edited it, no mask of its own, and no IPTSD receipt.             *)
FailureRestores ==
    (usrPc = "over" /\ Transactional /\ usrResult.failed
        /\ ~usrResult.installed /\ ~usrResult.left) =>
        /\ \A i \in Targets : usrFile[i] \in {usrOriginal[i], "edited"}
        /\ usrMask = "null" => usrMaskSeen = "null"
        /\ Component = "iptsd" => usrReceipt = "none"

(* An IPTSD receipt tells of files that are there, unless somebody edited    *)
(* them or it could not be taken back; one that calls the activation complete*)
(* for the running system follows commands that succeeded.                   *)
ReceiptTells ==
    Component = "iptsd" /\ usrReceipt # "none" /\ ~usrResult.left =>
        /\ \A i \in Targets : usrFile[i] \in {"new", "edited"}
        /\ usrReceipt = "activated" /\ usrRequest.live => usrActive

UsrTypeOK ==
    /\ usrRequest \in UsrRequests
    /\ usrApplied \subseteq 1 .. UsrTargets
    /\ usrRecords \in 0 .. 2
    /\ usrReceipt \in {"none", "prepared", "installed", "activated", "incomplete"}
    /\ usrResult \in [installed : BOOLEAN, failed : BOOLEAN, left : BOOLEAN]
    /\ usrFaults \in 0 .. MaxUsrFaults /\ usrEdits \in 0 .. MaxUsrEdits
=============================================================================
