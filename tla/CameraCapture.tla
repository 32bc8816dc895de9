---------------------------- MODULE CameraCapture ----------------------------
(* lexr camera capture (internal/camera/capture): the one route from the     *)
(* sensor to a video node is found in the kernel's media graph and set up,   *)
(* frames are streamed from it, and six files that are reserved first hold   *)
(* the frames and the evidence about them.                                   *)
(*                                                                           *)
(* The graph, the video node and the directory are everybody's: captures run *)
(* at once under one output name, other camera clients set the route, stream *)
(* from it or make it disappear, and others use the names of the files.      *)
EXTENDS Naturals, Sequences, SequencesExt

CONSTANTS Capturers, Nil, Client,   \* users of the node, makers of files
          Routes,                   \* what the graph may lead over
          Settings,                 \* links and formats, in the order they are set
          MaxCapEdits, MaxCapFaults \* bounds

ASSUME CaptureAssumption ==
    /\ Nil \notin Capturers /\ Client \notin Capturers /\ Nil # Client
    /\ Nil \notin Routes /\ Settings \in Nat \ {0}
    /\ MaxCapEdits \in Nat /\ MaxCapFaults \in Nat

Evidence  == <<"raw", "before", "after", "stream", "kernel", "statistics">>
CapFiles  == {"raw", "before", "after", "stream", "kernel", "statistics"}
AllSet    == 1 .. Settings
GraphSet  == 1 .. Settings - 1      \* all but the video node's own format

VARIABLES capGraph,     \* the one route there is, or Nil
          capExact,     \* the settings that are as a capture needs them
          capUser,      \* who streams
          capFile,      \* who made each file, and who wrote to it last
          capRoute,     \* the route each capture found
          capAt,        \* files reserved, later settings made
          capSeen,      \* the settings in the graph it read again
          capShot,      \* those its frames were made with
          capPc, capAnswer,
          capLogged,    \* captures that an error in the kernel log counts for
          capNoise,     \* those the kernel emitted one for while they streamed
          capDisturbed, \* those whose settings others changed once checked
          capExchanged, \* reserved files that others removed or replaced
          capHurt,      \* files of others that captures wrote to or removed
          capEdits, capFaults

capMedia == <<capGraph, capExact, capUser>>
capOwn   == <<capRoute, capAt, capSeen, capShot>>
capLog   == <<capLogged, capNoise>>
capDisk  == <<capFile, capHurt>>
capPast  == <<capDisturbed, capExchanged, capEdits>>
capVars  == <<capMedia, capDisk, capOwn, capPc, capAnswer, capLog, capPast, capFaults>>

CapWork == {"discover", "media", "video", "reserve", "release", "before", "configure",
            "format", "topology", "after", "confirm", "log", "stream", "streaming",
            "kernel", "failed", "buffers", "analyse", "statistics"}
CapPcs  == {"idle", "done", "dead"} \cup CapWork

File(maker, writer) == [made |-> maker, holds |-> writer]

CapInit ==
    /\ capGraph \in Routes \cup {Nil} /\ capExact = {} /\ capUser = Nil
    /\ \E taken \in SUBSET {"raw", "stream"} :
          capFile = [f \in CapFiles |-> File(IF f \in taken THEN Client ELSE Nil, Nil)]
    /\ capRoute = [p \in Capturers |-> Nil] /\ capAt = [p \in Capturers |-> 0]
    /\ capSeen = [p \in Capturers |-> {}] /\ capShot = [p \in Capturers |-> {}]
    /\ capPc = [p \in Capturers |-> "idle"]
    /\ capAnswer = [p \in Capturers |-> "none"]
    /\ capLogged = {} /\ capNoise = {}
    /\ capDisturbed = {} /\ capExchanged = {} /\ capHurt = {}
    /\ capEdits = 0 /\ capFaults = 0

-----------------------------------------------------------------------------
CapTo(p, next) == capPc' = [capPc EXCEPT ![p] = next] /\ UNCHANGED capAnswer

CapEnd(p, answer) ==
    /\ capPc' = [capPc EXCEPT ![p] = "done"]
    /\ capAnswer' = [capAnswer EXCEPT ![p] = answer]

(* Once frames were asked for, the kernel log is kept with an error, too.    *)
CapStop(p) == IF capPc[p] \in {"stream", "streaming"} THEN CapTo(p, "failed")
              ELSE IF capPc[p] = "reserve" THEN CapTo(p, "release")
              ELSE CapEnd(p, "failed")

CapUnless(refused, p, next) == IF refused THEN CapStop(p) ELSE CapTo(p, next)

(* The host, the running kernel, its modules and the number of frames.       *)
CapBegin(p) ==
    /\ capPc[p] = "idle"
    /\ CapTo(p, "discover") \/ CapStop(p)
    /\ UNCHANGED <<capMedia, capDisk, capOwn, capLog, capPast, capFaults>>

(* discover: exactly one media device has the route.                         *)
CapDiscover(p) ==
    /\ capPc[p] = "discover" /\ CapUnless(capGraph = Nil, p, "media")
    /\ capRoute' = [capRoute EXCEPT ![p] = capGraph]
    /\ UNCHANGED <<capMedia, capDisk, capAt, capSeen, capShot, capLog, capPast, capFaults>>

(* Nobody uses the media device, nor the video node.  A dry run ends here.   *)
CapMediaFree(p) ==
    /\ capPc[p] = "media" /\ CapUnless(capUser # Nil, p, "video")
    /\ UNCHANGED <<capMedia, capDisk, capOwn, capLog, capPast, capFaults>>

CapVideoFree(p) ==
    /\ capPc[p] = "video"
    /\ CapUnless(capUser # Nil, p, "reserve") \/ (capUser = Nil /\ CapEnd(p, "planned"))
    /\ UNCHANGED <<capMedia, capDisk, capOwn, capLog, capPast, capFaults>>

Hurt(p, f) == capHurt' = IF capFile[f].made \in {Nil, p} THEN capHurt ELSE capHurt \cup {f}

(* Slip: a file that is there is taken over.                                 *)
MutantCapReserve(p) ==
    /\ capPc[p] = "reserve"
    /\ IF capAt[p] = Len(Evidence)
       THEN capAt' = [capAt EXCEPT ![p] = 0] /\ CapTo(p, "before") /\ UNCHANGED capDisk
       ELSE LET f == Evidence[capAt[p] + 1] IN
            /\ capAt' = [capAt EXCEPT ![p] = @ + 1] /\ CapTo(p, "reserve")
            /\ capFile' = [capFile EXCEPT ![f] = File(p, Nil)] /\ Hurt(p, f)
    /\ UNCHANGED <<capMedia, capRoute, capSeen, capShot, capLog, capPast, capFaults>>

(* prepareEvidence creates the files, one after the other, where there is    *)
(* none; ...                                                                 *)
CapReserve(p) ==
    /\ capPc[p] = "reserve"
    /\ IF capAt[p] = Len(Evidence)
       THEN capAt' = [capAt EXCEPT ![p] = 0] /\ CapTo(p, "before") /\ UNCHANGED capFile
       ELSE LET f == Evidence[capAt[p] + 1] IN
            IF capFile[f].made = Nil
            THEN /\ capAt' = [capAt EXCEPT ![p] = @ + 1] /\ CapTo(p, "reserve")
                 /\ capFile' = [capFile EXCEPT ![f] = File(p, Nil)]
            ELSE CapStop(p) /\ UNCHANGED <<capAt, capFile>>
    /\ UNCHANGED <<capMedia, capHurt, capRoute, capSeen, capShot, capLog, capPast,
                   capFaults>>

(* ... if one cannot be, those it created are removed, by their names.       *)
CapRelease(p) ==
    /\ capPc[p] = "release" /\ capAt[p] > 0 /\ CapTo(p, "release")
    /\ capAt' = [capAt EXCEPT ![p] = @ - 1]
    /\ LET f == Evidence[capAt[p]] IN
       capFile' = [capFile EXCEPT ![f] = File(Nil, Nil)] /\ Hurt(p, f)
    /\ UNCHANGED <<capMedia, capRoute, capSeen, capShot, capLog, capPast, capFaults>>

CapReleased(p) ==
    /\ capPc[p] = "release" /\ capAt[p] = 0 /\ CapStop(p)
    /\ UNCHANGED <<capMedia, capDisk, capOwn, capLog, capPast, capFaults>>

(* writeEvidence replaces what the file under a reserved name holds, and     *)
(* creates none.                                                             *)
CapWrite(p, f, next) ==
    IF capFile[f].made = Nil THEN CapStop(p) /\ UNCHANGED capDisk
    ELSE capFile' = [capFile EXCEPT ![f].holds = p] /\ Hurt(p, f) /\ CapTo(p, next)

CapWriteBefore(p) ==
    /\ capPc[p] = "before" /\ CapWrite(p, "before", "configure")
    /\ UNCHANGED <<capMedia, capOwn, capLog, capPast, capFaults>>

(* configure makes the settings one after the other, on the route found.     *)
CapConfigure(p) ==
    /\ capPc[p] = "configure"
    /\ IF capGraph = capRoute[p]
       THEN /\ capExact' = capExact \cup {capAt[p] + 1}
            /\ capAt' = [capAt EXCEPT ![p] = @ + 1]
            /\ CapTo(p, IF capAt[p] + 1 = Settings THEN "format" ELSE "configure")
       ELSE CapStop(p) /\ UNCHANGED <<capExact, capAt>>
    /\ UNCHANGED <<capGraph, capUser, capDisk, capRoute, capSeen, capShot, capLog,
                   capPast, capFaults>>

(* verifyVideoFormat: the video node has the format asked for.               *)
CapVerifyFormat(p) ==
    /\ capPc[p] = "format"
    /\ CapUnless(capGraph # capRoute[p] \/ Settings \notin capExact, p, "topology")
    /\ UNCHANGED <<capMedia, capDisk, capOwn, capLog, capPast, capFaults>>

(* The graph is read again, and stored; ...                                  *)
CapReadTopology(p) ==
    /\ capPc[p] = "topology" /\ CapTo(p, "after")
    /\ capSeen' = [capSeen EXCEPT ![p] =
          IF capGraph = capRoute[p] THEN capExact \cap GraphSet ELSE {}]
    /\ UNCHANGED <<capMedia, capDisk, capRoute, capAt, capShot, capLog, capPast, capFaults>>

CapWriteAfter(p) ==
    /\ capPc[p] = "after" /\ CapWrite(p, "after", "confirm")
    /\ UNCHANGED <<capMedia, capOwn, capLog, capPast, capFaults>>

(* Slip: that the route is there is enough.                                  *)
MutantCapConfirm(p) ==
    /\ capPc[p] = "confirm" /\ CapUnless(capGraph # capRoute[p], p, "log")
    /\ UNCHANGED <<capMedia, capDisk, capOwn, capLog, capPast, capFaults>>

(* ... validateConfiguredTopology: its links and formats are all as set.     *)
CapConfirm(p) ==
    /\ capPc[p] = "confirm" /\ CapUnless(capSeen[p] # GraphSet, p, "log")
    /\ UNCHANGED <<capMedia, capDisk, capOwn, capLog, capPast, capFaults>>

(* The time from which the kernel log counts, in whole seconds: an error     *)
(* before it may count as well.                                              *)
CapStartLog(p) ==
    /\ capPc[p] = "log" /\ CapTo(p, "stream")
    /\ capLogged' \in {capLogged, capLogged \ {p}}
    /\ UNCHANGED <<capMedia, capDisk, capOwn, capNoise, capPast, capFaults>>

(* captureFrames opens the stream's log and runs the tool; the kernel lets   *)
(* one user stream at a time.                                                *)
CapStartStream(p) ==
    /\ capPc[p] = "stream"
    /\ IF capGraph = capRoute[p] /\ capUser = Nil
       THEN /\ CapWrite(p, "stream", "streaming")
            /\ IF capFile["stream"].made = Nil THEN UNCHANGED <<capUser, capShot>>
               ELSE capUser' = p /\ capShot' = [capShot EXCEPT ![p] = capExact]
       ELSE CapStop(p) /\ UNCHANGED <<capDisk, capUser, capShot>>
    /\ UNCHANGED <<capGraph, capExact, capRoute, capAt, capSeen, capLog, capPast, capFaults>>

(* The tool makes the raw file if it is gone.  The file must have the size   *)
(* of the frames asked for.                                                  *)
CapFinishStream(p) ==
    /\ capPc[p] = "streaming" /\ capUser' = Nil
    /\ capFile' = [capFile EXCEPT !["raw"] = File(IF @.made = Nil THEN p ELSE @.made, p)]
    /\ Hurt(p, "raw")
    /\ CapTo(p, "kernel") \/ CapStop(p)
    /\ UNCHANGED <<capGraph, capExact, capOwn, capLog, capPast, capFaults>>

(* collectKernelLog keeps what the journal, or else the ring buffer, has     *)
(* about the camera; an error in it ends the capture.                        *)
KeepLog(p) ==
    IF capFile["kernel"].made = Nil THEN UNCHANGED capDisk
    ELSE capFile' = [capFile EXCEPT !["kernel"].holds = p] /\ Hurt(p, "kernel")

CapCollectLog(p) ==
    /\ capPc[p] = "kernel"
    /\ IF p \in capLogged THEN KeepLog(p) /\ CapStop(p)
       ELSE CapWrite(p, "kernel", "buffers")
    /\ UNCHANGED <<capMedia, capOwn, capLog, capPast, capFaults>>

(* After streaming failed, whether it can be kept is not looked at.          *)
CapFailed(p) ==
    /\ capPc[p] = "failed" /\ CapStop(p)
    /\ KeepLog(p) \/ UNCHANGED capDisk
    /\ UNCHANGED <<capMedia, capOwn, capLog, capPast, capFaults>>

(* validateCaptureLog: every buffer was full; Analyse: the frames differ,    *)
(* and are not flat; the statistics are the last file.                       *)
CapInspect(p, at, f, next) ==
    /\ capPc[p] = at
    /\ CapUnless(capFile[f].made = Nil, p, next) \/ CapStop(p)
    /\ UNCHANGED <<capMedia, capDisk, capOwn, capLog, capPast, capFaults>>

CapCheckBuffers(p) == CapInspect(p, "buffers", "stream", "analyse")
CapAnalyse(p)      == CapInspect(p, "analyse", "raw", "statistics")

CapWriteStatistics(p) ==
    /\ capPc[p] = "statistics"
    /\ IF capFile["statistics"].made = Nil THEN CapStop(p) /\ UNCHANGED capDisk
       ELSE /\ capFile' = [capFile EXCEPT !["statistics"].holds = p]
            /\ Hurt(p, "statistics") /\ CapEnd(p, "captured")
    /\ UNCHANGED <<capMedia, capOwn, capLog, capPast, capFaults>>

(* A command or another call fails, or takes longer than it may.  Removals   *)
(* that fail leave their file.                                               *)
CapFault == capFaults < MaxCapFaults /\ capFaults' = capFaults + 1

CapFails(p) ==
    /\ CapFault
    /\ \/ /\ capPc[p] \in CapWork \ {"release", "failed", "streaming"}
          /\ CapStop(p) /\ UNCHANGED capAt
       \/ /\ capPc[p] = "release" /\ capAt[p] > 0 /\ CapTo(p, "release")
          /\ capAt' = [capAt EXCEPT ![p] = @ - 1]
    /\ UNCHANGED <<capMedia, capDisk, capRoute, capSeen, capShot, capLog, capPast>>

CapKill(p) ==
    /\ capPc[p] \in CapWork
    /\ capPc' = [capPc EXCEPT ![p] = "dead"]
    /\ capUser' = IF capUser = p THEN Nil ELSE capUser
    /\ UNCHANGED <<capGraph, capExact, capDisk, capOwn, capAnswer, capLog, capPast,
                   capFaults>>

-----------------------------------------------------------------------------
(* The kernel emits an error about the camera.                               *)
CapEmit ==
    /\ CapFault
    /\ capLogged' = Capturers /\ capNoise' = capNoise \cup (Capturers \cap {capUser})
    /\ UNCHANGED <<capMedia, capDisk, capOwn, capPc, capAnswer, capPast>>

CapEdit == capEdits < MaxCapEdits /\ capEdits' = capEdits + 1

(* Captures that had looked at setting s, and have not streamed.             *)
Checked(s) == {p \in Capturers :
    \/ capPc[p] \in {"after", "confirm", "log", "stream"}
    \/ capPc[p] = "topology" /\ s = Settings}

(* Another client changes a setting, or the route itself.                    *)
CapEditSetting ==
    /\ CapEdit
    /\ \E s \in capExact : capExact' = capExact \ {s} /\ capDisturbed' = capDisturbed \cup Checked(s)
    /\ UNCHANGED <<capGraph, capUser, capDisk, capOwn, capPc, capAnswer, capLog,
                   capExchanged, capFaults>>

CapEditRoute ==
    /\ CapEdit
    /\ capGraph' \in (Routes \cup {Nil}) \ {capGraph} /\ capExact' = {}
    /\ capDisturbed' = capDisturbed \cup Checked(Settings)
    /\ UNCHANGED <<capUser, capDisk, capOwn, capPc, capAnswer, capLog, capExchanged,
                   capFaults>>

(* Another client streams, and stops.                                        *)
CapClientStarts ==
    /\ CapEdit /\ capUser = Nil /\ capUser' = Client
    /\ UNCHANGED <<capGraph, capExact, capDisk, capOwn, capPc, capAnswer, capLog,
                   capDisturbed, capExchanged, capFaults>>

CapClientStops ==
    /\ capUser = Client /\ capUser' = Nil
    /\ UNCHANGED <<capGraph, capExact, capDisk, capOwn, capPc, capAnswer, capLog,
                   capPast, capFaults>>

(* A file is removed, or replaced by another.                                *)
CapExchange ==
    /\ CapEdit
    /\ \E f \in CapFiles, maker \in {Nil, Client} :
          /\ capFile[f].made # maker /\ capFile' = [capFile EXCEPT ![f] = File(maker, Nil)]
          /\ capExchanged' = IF capFile[f].made \in Capturers THEN capExchanged \cup {f}
                             ELSE capExchanged
    /\ UNCHANGED <<capMedia, capHurt, capOwn, capPc, capAnswer, capLog, capDisturbed,
                   capFaults>>

-----------------------------------------------------------------------------
CapStep(p) ==
    \/ CapBegin(p) \/ CapDiscover(p) \/ CapMediaFree(p) \/ CapVideoFree(p)
    \/ CapReserve(p) \/ CapRelease(p) \/ CapReleased(p) \/ CapWriteBefore(p)
    \/ CapConfigure(p) \/ CapVerifyFormat(p) \/ CapReadTopology(p) \/ CapWriteAfter(p)
    \/ CapConfirm(p) \/ CapStartLog(p) \/ CapStartStream(p) \/ CapFinishStream(p)
    \/ CapCollectLog(p) \/ CapFailed(p) \/ CapCheckBuffers(p) \/ CapAnalyse(p)
    \/ CapWriteStatistics(p) \/ CapFails(p) \/ CapKill(p)

CapNext ==
    \/ CapEmit \/ CapEditSetting \/ CapEditRoute \/ CapClientStarts \/ CapClientStops
    \/ CapExchange \/ \E p \in Capturers : CapStep(p)

CapSpec == CapInit /\ [][CapNext]_capVars

-----------------------------------------------------------------------------
CapTypeOK ==
    /\ capGraph \in Routes \cup {Nil} /\ capExact \subseteq AllSet
    /\ capUser \in Capturers \cup {Nil, Client}
    /\ capFile \in [CapFiles -> [made : Capturers \cup {Nil, Client},
                                 holds : Capturers \cup {Nil}]]
    /\ capRoute \in [Capturers -> Routes \cup {Nil}] /\ capAt \in [Capturers -> Nat]
    /\ capSeen \in [Capturers -> SUBSET GraphSet]
    /\ capShot \in [Capturers -> SUBSET AllSet]
    /\ capPc \in [Capturers -> CapPcs]
    /\ capAnswer \in [Capturers -> {"none", "planned", "failed", "captured"}]
    /\ capLogged \subseteq Capturers /\ capNoise \subseteq Capturers
    /\ capDisturbed \subseteq Capturers
    /\ capExchanged \subseteq CapFiles /\ capHurt \subseteq CapFiles
    /\ capEdits \in Nat /\ capFaults \in Nat

(* A capture neither writes to nor removes a file that is not its own, not   *)
(* even another capture's under the same name, unless others put that file   *)
(* where one had been reserved.                                              *)
OthersFilesKept == capHurt \subseteq capExchanged

(* A capture that succeeds streamed over the route with every setting as it  *)
(* must be, unless others changed one after it was checked; the kernel       *)
(* emitted no error meanwhile; and all six files hold what this capture      *)
(* wrote, unless others exchanged them.                                      *)
CaptureTells ==
    \A p \in Capturers : capAnswer[p] = "captured" =>
        /\ capShot[p] = AllSet \/ p \in capDisturbed
        /\ p \notin capNoise
        /\ \A f \in CapFiles \ capExchanged : capFile[f].holds = p
=============================================================================
