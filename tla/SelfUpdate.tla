----------------------------- MODULE SelfUpdate -----------------------------
(* lexr upgrade (internal/cli/upgrade.go, internal/update).  The newest or   *)
(* an exactly selected release is found, its program fetched and compared    *)
(* with the release's manifest of checksums, and put at the executable's     *)
(* path: by one rename, or, on Windows, where a running program cannot be    *)
(* replaced, by two.                                                         *)
(*                                                                           *)
(* Several may run from one path, each started from what lies there by then. *)
(* Calls fail, programs are killed, newer releases appear and the files of   *)
(* one are uploaded anew, first the one and then the other.                  *)
EXTENDS Naturals

CONSTANTS Updaters, NoUpdater,
          InstalledTags,            \* versions the first program may have; 0 is
                                    \* that of a local build
          LastTag,                  \* releases ever published
          MaxUpdChanges, MaxUpdFaults   \* bounds

ASSUME UpdateAssumption ==
    /\ NoUpdater \notin Updaters
    /\ LastTag \in Nat \ {0} /\ InstalledTags \subseteq 0 .. LastTag
    /\ MaxUpdChanges \in Nat /\ MaxUpdFaults \in Nat

Tags  == 1 .. LastTag
Newest == 0                                 \* no tag is selected
Bytes == {"first", "second", "damaged"}     \* of one release's program

VARIABLES updSystem,    \* the operating system
          updTarget, updOld,    \* the program at the executable's path, and
                                \* at the one it is moved aside to
          updTemp,      \* the temporary file of each updater
          updAsk,       \* the tag each is told to install, or Newest
          updRuns,      \* the program each runs
          updTag, updBytes,     \* what each has selected and fetched
          updLatest, updAsset, updSums,     \* the newest release, and for each
                                \* one its program and what its manifest covers
          updVerified,  \* what manifests were seen to cover
          updPc, updAnswer,
          updBroken,    \* killed, or failed, before the path was filled again
          updChanges, updFaults

updFiles  == <<updTarget, updOld, updTemp>>
updRemote == <<updLatest, updAsset, updSums>>
updChosen == <<updTag, updBytes>>
updGiven  == <<updSystem, updAsk>>
updVars == <<updGiven, updFiles, updRuns, updChosen, updRemote, updVerified,
             updPc, updAnswer, updBroken, updChanges, updFaults>>

Program(tag, bytes, by) == [tag |-> tag, bytes |-> bytes, by |-> by]
Programs == [tag : 0 .. LastTag, bytes : Bytes, by : Updaters \cup {NoUpdater}]
NoProgram == Program(0, "damaged", NoUpdater)

UpdGap  == {"create", "write", "rename", "discard", "restore"}
UpdLive == UpdGap \cup {"discover", "fetch", "verify", "remove", "aside", "report"}
UpdPcs  == {"idle", "done", "dead"} \cup UpdLive

UpdInit ==
    /\ updSystem \in {"unix", "windows"}
    /\ \E t \in InstalledTags : updTarget = Program(t, "first", NoUpdater)
    /\ updOld = NoProgram
    /\ updTemp = [p \in Updaters |-> "none"]
    /\ updAsk \in [Updaters -> Tags \cup {Newest}]
    /\ updRuns = [p \in Updaters |-> NoProgram]
    /\ updTag = [p \in Updaters |-> 0]
    /\ updBytes = [p \in Updaters |-> "damaged"]
    /\ updLatest \in Tags
    /\ updAsset = [t \in Tags |-> "first"]
    /\ updSums \in [Tags -> {"first", "none"}]
    /\ updVerified = {}
    /\ updPc = [p \in Updaters |-> "idle"]
    /\ updAnswer = [p \in Updaters |-> "none"]
    /\ updBroken = {} /\ updChanges = 0 /\ updFaults = 0

-----------------------------------------------------------------------------
UpdTo(p, next) == updPc' = [updPc EXCEPT ![p] = next] /\ UNCHANGED updAnswer

UpdEnd(p, answer) ==
    /\ updPc' = [updPc EXCEPT ![p] = "done"]
    /\ updAnswer' = [updAnswer EXCEPT ![p] = answer]

UpdFault == updFaults < MaxUpdFaults /\ updFaults' = updFaults + 1

(* The program at the path is started.                                       *)
UpdBegin(p) ==
    /\ updPc[p] = "idle" /\ updTarget # NoProgram
    /\ updRuns' = [updRuns EXCEPT ![p] = updTarget]
    /\ UpdTo(p, "discover")
    /\ UNCHANGED <<updGiven, updFiles, updChosen, updRemote, updVerified,
                   updBroken, updChanges, updFaults>>

(* upgradeWith takes the newest release if it outranks the running program,  *)
(* which a local build never lets it; upgradeToWith takes the one selected,  *)
(* if it is published and not what runs already.                             *)
Current(p) == updRuns[p].tag
IsNewer(current, candidate) == current \in Tags /\ candidate > current

UpdDiscover(p) ==
    /\ updPc[p] = "discover"
    /\ LET tag == IF updAsk[p] = Newest THEN updLatest ELSE updAsk[p] IN
       /\ updTag' = [updTag EXCEPT ![p] = tag]
       /\ CASE tag > updLatest -> UpdEnd(p, "failed")
            [] updAsk[p] = Newest /\ ~IsNewer(Current(p), tag) -> UpdEnd(p, "up to date")
            [] updAsk[p] = tag /\ Current(p) = tag -> UpdEnd(p, "up to date")
            [] OTHER -> UpdTo(p, "fetch")
    /\ UNCHANGED <<updGiven, updFiles, updRuns, updBytes, updRemote, updVerified,
                   updBroken, updChanges, updFaults>>

(* applyRelease fetches the program, possibly damaged on its way, ...        *)
UpdFetch(p) ==
    /\ updPc[p] = "fetch" /\ UpdTo(p, "verify")
    /\ \/ /\ updBytes' = [updBytes EXCEPT ![p] = updAsset[updTag[p]]]
          /\ UNCHANGED updFaults
       \/ updBytes' = [updBytes EXCEPT ![p] = "damaged"] /\ UpdFault
    /\ UNCHANGED <<updGiven, updFiles, updRuns, updTag, updRemote, updVerified,
                   updBroken, updChanges>>

UpdStart == IF updSystem = "windows" THEN "remove" ELSE "create"

(* Slip: a release without a manifest is not checked.                        *)
MutantUpdVerify(p) ==
    /\ updPc[p] = "verify"
    /\ IF updSums[updTag[p]] \in {updBytes[p], "none"}
       THEN /\ updVerified' = updVerified \cup
                  ({updTag[p]} \X ({updSums[updTag[p]]} \cap Bytes))
            /\ UpdTo(p, UpdStart)
       ELSE UpdEnd(p, "failed") /\ UNCHANGED updVerified
    /\ UNCHANGED <<updGiven, updFiles, updRuns, updChosen, updRemote, updBroken,
                   updChanges, updFaults>>

(* ... and then the manifest, without which, or unless it covers exactly     *)
(* these bytes, nothing is done.                                             *)
UpdVerify(p) ==
    /\ updPc[p] = "verify"
    /\ IF updSums[updTag[p]] = updBytes[p]
       THEN /\ updVerified' = updVerified \cup {<<updTag[p], updBytes[p]>>}
            /\ UpdTo(p, UpdStart)
       ELSE UpdEnd(p, "failed") /\ UNCHANGED updVerified
    /\ UNCHANGED <<updGiven, updFiles, updRuns, updChosen, updRemote, updBroken,
                   updChanges, updFaults>>

(* Windows neither removes nor replaces the file of a program that runs.     *)
Runs(program) == \E p \in Updaters : updPc[p] \in UpdLive /\ updRuns[p] = program
Locked(program) == updSystem = "windows" /\ program # NoProgram /\ Runs(program)

(* applyWindows.  What an earlier update moved aside is removed if it can    *)
(* be; whether it was is not looked at.                                      *)
UpdRemoveOld(p) ==
    /\ updPc[p] = "remove" /\ UpdTo(p, "aside")
    /\ \/ ~Locked(updOld) /\ updOld' = NoProgram /\ UNCHANGED updFaults
       \/ Locked(updOld) /\ UNCHANGED <<updOld, updFaults>>
       \/ UpdFault /\ UNCHANGED updOld
    /\ UNCHANGED <<updGiven, updTarget, updTemp, updRuns, updChosen, updRemote,
                   updVerified, updBroken, updChanges>>

UpdMoveAside(p) ==
    /\ updPc[p] = "aside"
    /\ IF updTarget # NoProgram /\ ~Locked(updOld)
       THEN /\ updOld' = updTarget /\ updTarget' = NoProgram
            /\ UpdTo(p, "create")
       ELSE UpdEnd(p, "failed") /\ UNCHANGED <<updTarget, updOld>>
    /\ UNCHANGED <<updGiven, updTemp, updRuns, updChosen, updRemote, updVerified,
                   updBroken, updChanges, updFaults>>

(* replaceFile.  A temporary file beside the path is created, filled, made   *)
(* executable and synchronised, ...                                          *)
UpdCreate(p) ==
    /\ updPc[p] = "create" /\ UpdTo(p, "write")
    /\ updTemp' = [updTemp EXCEPT ![p] = "part"]
    /\ UNCHANGED <<updGiven, updTarget, updOld, updRuns, updChosen, updRemote,
                   updVerified, updBroken, updChanges, updFaults>>

UpdWrite(p) ==
    /\ updPc[p] = "write" /\ UpdTo(p, "rename")
    /\ updTemp' = [updTemp EXCEPT ![p] = "whole"]
    /\ UNCHANGED <<updGiven, updTarget, updOld, updRuns, updChosen, updRemote,
                   updVerified, updBroken, updChanges, updFaults>>

(* ... and renamed to it.                                                    *)
UpdRename(p) ==
    /\ updPc[p] = "rename"
    /\ IF ~Locked(updTarget)
       THEN /\ updTarget' = Program(updTag[p], updBytes[p], p)
            /\ updTemp' = [updTemp EXCEPT ![p] = "none"]
            /\ UpdTo(p, "report")
       ELSE UpdTo(p, "discard") /\ UNCHANGED <<updTarget, updTemp>>
    /\ UNCHANGED <<updGiven, updOld, updRuns, updChosen, updRemote, updVerified,
                   updBroken, updChanges, updFaults>>

(* Success is printed; that this fails is an error as well.                  *)
UpdReport(p) ==
    /\ updPc[p] = "report"
    /\ \/ UpdEnd(p, "updated") /\ UNCHANGED updFaults
       \/ UpdEnd(p, "failed") /\ UpdFault
    /\ UNCHANGED <<updGiven, updFiles, updRuns, updChosen, updRemote, updVerified,
                   updBroken, updChanges>>

(* Slip: what was moved aside stays there.                                   *)
MutantUpdDiscard(p) ==
    /\ updPc[p] = "discard"
    /\ updTemp' = [updTemp EXCEPT ![p] = "none"]
    /\ UpdEnd(p, "failed")
    /\ UNCHANGED <<updGiven, updTarget, updOld, updRuns, updChosen, updRemote,
                   updVerified, updBroken, updChanges, updFaults>>

(* After a failure the temporary file is removed, and on Windows what was    *)
(* moved aside is moved back; neither is looked at.                          *)
UpdDiscard(p) ==
    /\ updPc[p] = "discard"
    /\ \/ updTemp' = [updTemp EXCEPT ![p] = "none"] /\ UNCHANGED updFaults
       \/ UpdFault /\ UNCHANGED updTemp
    /\ IF updSystem = "windows" THEN UpdTo(p, "restore") ELSE UpdEnd(p, "failed")
    /\ UNCHANGED <<updGiven, updTarget, updOld, updRuns, updChosen, updRemote,
                   updVerified, updBroken, updChanges>>

UpdRestore(p) ==
    /\ updPc[p] = "restore" /\ UpdEnd(p, "failed")
    /\ \/ /\ IF updOld # NoProgram /\ ~Locked(updTarget)
             THEN updTarget' = updOld /\ updOld' = NoProgram
             ELSE UNCHANGED <<updTarget, updOld>>
          /\ UNCHANGED <<updBroken, updFaults>>
       \/ /\ UpdFault /\ updBroken' = updBroken \cup {p}
          /\ UNCHANGED <<updTarget, updOld>>
    /\ UNCHANGED <<updGiven, updTemp, updRuns, updChosen, updRemote, updVerified,
                   updChanges>>

(* A call fails: no answer from the network, an asset that is missing or a   *)
(* draft, a directory that cannot be written to, a rename that is refused.   *)
UpdFails(p) ==
    /\ UpdFault
    /\ \/ updPc[p] \in {"discover", "fetch", "verify", "aside"} /\ UpdEnd(p, "failed")
       \/ updPc[p] \in {"create", "write", "rename"} /\ UpdTo(p, "discard")
    /\ UNCHANGED <<updGiven, updFiles, updRuns, updChosen, updRemote, updVerified,
                   updBroken, updChanges>>

UpdKill(p) ==
    /\ updPc[p] \in UpdLive
    /\ updPc' = [updPc EXCEPT ![p] = "dead"]
    /\ updBroken' = IF updPc[p] \in UpdGap THEN updBroken \cup {p} ELSE updBroken
    /\ UNCHANGED <<updGiven, updFiles, updRuns, updChosen, updRemote, updVerified,
                   updAnswer, updChanges, updFaults>>

(* A newer release is published; a release's program, or its manifest, is    *)
(* uploaded anew.                                                            *)
UpdPublish ==
    /\ updChanges < MaxUpdChanges /\ updChanges' = updChanges + 1
    /\ \/ /\ updLatest < LastTag /\ updLatest' = updLatest + 1
          /\ UNCHANGED <<updAsset, updSums>>
       \/ /\ \E t \in Tags : updAsset' = [updAsset EXCEPT ![t] = "second"]
          /\ UNCHANGED <<updLatest, updSums>>
       \/ /\ \E t \in Tags : updSums' = [updSums EXCEPT ![t] = "second"]
          /\ UNCHANGED <<updLatest, updAsset>>
    /\ UNCHANGED <<updGiven, updFiles, updRuns, updChosen, updVerified, updPc,
                   updAnswer, updBroken, updFaults>>

UpdStep(p) ==
    \/ UpdBegin(p) \/ UpdDiscover(p) \/ UpdFetch(p) \/ UpdVerify(p) \/ UpdRemoveOld(p)
    \/ UpdMoveAside(p) \/ UpdCreate(p) \/ UpdWrite(p) \/ UpdRename(p) \/ UpdReport(p)
    \/ UpdDiscard(p) \/ UpdRestore(p) \/ UpdFails(p) \/ UpdKill(p)

UpdNext == UpdPublish \/ \E p \in Updaters : UpdStep(p)

UpdSpec == UpdInit /\ [][UpdNext]_updVars

-----------------------------------------------------------------------------
UpdTypeOK ==
    /\ updSystem \in {"unix", "windows"}
    /\ updTarget \in Programs /\ updOld \in Programs
    /\ updTemp \in [Updaters -> {"none", "part", "whole"}]
    /\ updAsk \in [Updaters -> 0 .. LastTag]
    /\ updRuns \in [Updaters -> Programs]
    /\ updTag \in [Updaters -> 0 .. LastTag] /\ updBytes \in [Updaters -> Bytes]
    /\ updLatest \in Tags /\ updAsset \in [Tags -> Bytes]
    /\ updSums \in [Tags -> Bytes \cup {"none"}]
    /\ updVerified \subseteq Tags \X Bytes
    /\ updPc \in [Updaters -> UpdPcs]
    /\ updAnswer \in [Updaters -> {"none", "failed", "up to date", "updated"}]
    /\ updBroken \subseteq Updaters
    /\ updChanges \in Nat /\ updFaults \in Nat

(* The executable never goes missing: its path is empty only on Windows,     *)
(* while an updater is between its two renames or after it was stopped or    *)
(* failed there, and then the program that was there lies beside it, however *)
(* many updaters run.                                                        *)
ExecutableRemains ==
    updTarget = NoProgram =>
        /\ updSystem = "windows" /\ updOld # NoProgram
        /\ \E p \in Updaters : updPc[p] \in UpdGap \/ p \in updBroken

(* What an updater put at the path is what it selected, with bytes that the  *)
(* manifest of that release covered when it was fetched; unless a release    *)
(* was selected by its tag, it outranks the program that the updater ran.    *)
Selected(program) ==
    /\ <<program.tag, program.bytes>> \in updVerified
    /\ \/ updAsk[program.by] = program.tag
       \/ updAsk[program.by] = Newest /\ IsNewer(Current(program.by), program.tag)

UpdateIsVerified ==
    \A program \in {updTarget, updOld} : program.by # NoUpdater => Selected(program)
=============================================================================
