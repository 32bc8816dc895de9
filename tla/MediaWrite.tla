----------------------------- MODULE MediaWrite -----------------------------
(* Writing an image to a removable device and reading it back                *)
(* (internal/media).  Everything the manager does to a device goes through   *)
(* one path, and a plan is bound to a fingerprint; the device behind the     *)
(* path may be exchanged, mounted or used by others between any two calls.   *)
(*                                                                           *)
(* A handle belongs to the device it was opened on and fails once that is    *)
(* unplugged.  Written chunks stay in the page cache until they are flushed; *)
(* the last close drops it, so a later open reads what the device holds.     *)
EXTENDS Naturals, FiniteSets

CONSTANTS Devices, NoDevice,
          Fingerprint,  \* calculateDeviceFingerprint of each device at the path
          Chunks,       \* the length of the image
          MaxRuns, MaxPlugs, MaxEdits

ASSUME DevicesAssumption == NoDevice \notin Devices /\ IsFiniteSet(Devices)
ASSUME FingerprintAssumption == DOMAIN Fingerprint = Devices
ASSUME ChunksAssumption == Chunks \in Nat \ {0}
ASSUME BoundsAssumption == MaxRuns \in Nat /\ MaxPlugs \in Nat /\ MaxEdits \in Nat

Chunk == 1..Chunks

(* What a chunk of a device may hold: its former content, the planned image, *)
(* other bytes of the manager's, what the device made of a write it did not  *)
(* keep, or what somebody else has put there.                                *)
Content == {"old", "image", "bad", "corrupt", "foreign"}

(* Free, with ordinary mounts, or refused in any case: the running system is *)
(* on it, it is in use, read-only, or holds the source image.                *)
Uses == {"free", "mounted", "refused"}

States == {"not-started", "dry-run", "prepared", "writing", "written",
           "verifying", "verified", "complete"}

VARIABLES slot, plugs,        \* the device behind the path; how often one came
          use,                \* by each device
          durable, cache,     \* what each device holds, and what is read from it
          source,             \* the image file: "planned" or "changed"
          pc, plan,           \* the planned fingerprint, as a set
          handle,             \* the open raw device, and when it had been plugged
          done, intact,       \* chunks written; they hash to the plan's digest
          reads, good,        \* chunks read back; likewise
          state,              \* of the receipt
          wrote,              \* devices this execution has changed
          late,               \* chunks others wrote since they were read back
          runs, edits

devices == <<slot, plugs, use, durable, cache, source>>
command == <<pc, plan, handle, done, intact, reads, good, state>>
vars    == <<devices, command, wrote, late, runs, edits>>

Closed == [dev |-> NoDevice, plug |-> 0]

Steps == {"first", "unmount", "final", "open", "opened", "copy", "sync", "close",
          "before", "reopen", "reopened", "read", "last", "eject"}

Init ==
    /\ slot \in Devices \cup {NoDevice} /\ plugs = 0 /\ use \in [Devices -> Uses]
    /\ durable = [d \in Devices |-> [c \in Chunk |-> "old"]] /\ cache = durable
    /\ source = "planned" /\ pc = "idle" /\ plan = {} /\ handle = Closed
    /\ done = 0 /\ intact = TRUE /\ reads = 0 /\ good = TRUE /\ state = "not-started"
    /\ wrote = {} /\ late = {} /\ runs = 0 /\ edits = 0

-----------------------------------------------------------------------------

Go(next) == pc' = next /\ UNCHANGED <<plan, handle, done, intact, reads, good, state>>

(* Any error ends the execution with the receipt it has, and closes what is  *)
(* open.                                                                     *)
Fail(answer) ==
    /\ pc' = "idle" /\ state' = answer /\ handle' = Closed
    /\ UNCHANGED <<plan, done, intact, reads, good>>

World == UNCHANGED <<devices, wrote, late, runs, edits>>

(* validateWriteTarget of what is behind the path                            *)
Usable(uses) == slot # NoDevice /\ use[slot] \in uses

(* inspectPlannedTarget                                                      *)
Suits(uses) == Usable(uses) /\ Fingerprint[slot] \in plan

Alive == handle.dev # NoDevice /\ handle = [dev |-> slot, plug |-> plugs]

Plan ==
    /\ pc = "idle" /\ runs < MaxRuns
    /\ Usable({"free", "mounted"}) /\ source = "planned"
    /\ pc' = "planned" /\ plan' = {Fingerprint[slot]} /\ state' = "not-started" /\ wrote' = {}
    /\ UNCHANGED <<devices, handle, done, intact, reads, good, late, runs, edits>>

(* The plan is checked, the phrase compared, and the image hashed again      *)
(* through the handle it is then written from.                               *)
Begin ==
    /\ pc = "planned" /\ runs' = runs + 1
    /\ \/ pc' = "idle" /\ state' = "dry-run"
       \/ pc' = "idle" /\ state' = "not-started"
       \/ source = "planned" /\ pc' = "first" /\ state' = "not-started"
    /\ done' = 0 /\ intact' = TRUE /\ reads' = 0 /\ good' = TRUE /\ wrote' = {}
    /\ UNCHANGED <<devices, plan, handle, late, edits>>

FirstInspection ==
    /\ pc = "first"
    /\ (Suits({"free", "mounted"}) /\ Go("unmount")) \/ Fail(state)
    /\ World

(* The mounts are those of the first inspection, the command takes a path.   *)
Unmount ==
    /\ pc = "unmount"
    /\ \/ Go("final") /\ UNCHANGED use
       \/ /\ Usable({"mounted"}) /\ use' = [use EXCEPT ![slot] = "free"]
          /\ Go("final") \/ Fail(state)
       \/ Fail(state) /\ UNCHANGED use
    /\ UNCHANGED <<slot, plugs, durable, cache, source, wrote, late, runs, edits>>

FinalInspection ==
    /\ pc = "final"
    /\ \/ /\ Suits({"free"}) /\ pc' = "open" /\ state' = "prepared"
          /\ UNCHANGED <<plan, handle, done, intact, reads, good>>
       \/ Fail(state)
    /\ World

-----------------------------------------------------------------------------
(* write                                                                     *)

Opens(next) ==
    /\ slot # NoDevice /\ handle' = [dev |-> slot, plug |-> plugs] /\ pc' = next
    /\ UNCHANGED <<plan, done, intact, reads, good, state>>

OpenWrite == pc = "open" /\ (Opens("opened") \/ Fail(state)) /\ World

(* Slip: an opened device is not inspected again.                            *)
MutantInspectOpened == pc = "opened" /\ (Go("copy") \/ Fail(state)) /\ World

InspectOpened ==
    /\ pc = "opened" /\ ((Suits({"free"}) /\ Go("copy")) \/ Fail(state))
    /\ World

(* Slip: only whole chunks count.                                            *)
MutantMutated(short) == IF done > 0 THEN "writing" ELSE state

(* The state of the receipt once write has returned.                         *)
Mutated(short) == IF done > 0 \/ short THEN "writing" ELSE state

Read == IF source = "planned" THEN {"image"} ELSE {"image", "bad"}

Put(c, v) ==
    /\ Alive /\ cache' = [cache EXCEPT ![handle.dev][c] = v]
    /\ wrote' = wrote \cup {handle.dev}

Remains(count) == count < Chunks

(* One chunk; a write may be cut short, and so may the loop at any chunk by  *)
(* cancellation, the progress callback, the image or the device.             *)
Copy ==
    /\ pc = "copy" /\ Remains(done)
    /\ \/ \E v \in Read :
            /\ Put(done + 1, v) /\ done' = done + 1 /\ intact' = (intact /\ v = "image")
            /\ UNCHANGED <<pc, plan, handle, reads, good, state>>
       \/ Put(done + 1, "bad") /\ Fail(Mutated(TRUE))
       \/ Fail(Mutated(FALSE)) /\ UNCHANGED <<cache, wrote>>
    /\ UNCHANGED <<slot, plugs, use, durable, source, late, runs, edits>>

(* The image must end here, and what was written must be what was planned.   *)
CheckSource ==
    /\ pc = "copy" /\ ~Remains(done)
    /\ (intact /\ Go("sync")) \/ Fail("writing")
    /\ World

(* A device may keep less than it acknowledges.                              *)
Flushed == {cache[handle.dev]} \cup
           {[cache[handle.dev] EXCEPT ![c] = "corrupt"] : c \in Chunk}

Sync ==
    /\ pc = "sync"
    /\ \/ /\ Alive /\ Go("close")
          /\ \E f \in Flushed : durable' = [durable EXCEPT ![handle.dev] = f]
       \/ Fail("writing") /\ UNCHANGED durable
    /\ UNCHANGED <<slot, plugs, use, cache, source, wrote, late, runs, edits>>

(* Only the last close of a device that is still there has a cache to drop.  *)
Close ==
    /\ pc = "close" /\ handle' = Closed
    /\ cache' = IF Alive THEN [cache EXCEPT ![handle.dev] = durable[handle.dev]] ELSE cache
    /\ \/ pc' = "before" /\ state' = "written"
       \/ pc' = "idle" /\ state' = "writing"
    /\ UNCHANGED <<slot, plugs, use, durable, source, plan, done, intact, reads, good,
                   wrote, late, runs, edits>>

-----------------------------------------------------------------------------
(* readback, and what follows it                                             *)

BeforeReadBack ==
    /\ pc = "before" /\ ((Suits({"free"}) /\ Go("reopen")) \/ Fail(state))
    /\ World

OpenRead == pc = "reopen" /\ (Opens("reopened") \/ Fail(state)) /\ World

InspectReopened ==
    /\ pc = "reopened" /\ ((Suits({"free"}) /\ Go("read")) \/ Fail(state))
    /\ World

ReadBack ==
    /\ pc = "read" /\ Remains(reads)
    /\ \/ /\ Alive /\ reads' = reads + 1
          /\ good' = (good /\ cache[handle.dev][reads + 1] = "image")
          /\ late' = late \ {<<handle.dev, reads + 1>>}
          /\ UNCHANGED <<pc, plan, handle, done, intact, state>>
       \/ (Fail(state) \/ Fail("verifying")) /\ UNCHANGED late
    /\ UNCHANGED <<devices, wrote, runs, edits>>

(* Slip: the digest of what was written is compared.                         *)
MutantMatches == intact

Matches == good

Compare ==
    /\ pc = "read" /\ ~Remains(reads)
    /\ \/ /\ Matches /\ pc' = "last" /\ state' = "verifying" /\ handle' = Closed
          /\ UNCHANGED <<plan, done, intact, reads, good>>
       \/ Fail("verifying")
    /\ World

LastInspection ==
    /\ pc = "last"
    /\ \/ /\ Suits({"free"}) /\ pc' = "eject" /\ state' = "verified"
          /\ UNCHANGED <<plan, handle, done, intact, reads, good>>
       \/ Fail(state)
    /\ World

(* Whatever is behind the path is powered off.                               *)
Eject ==
    /\ pc = "eject"
    /\ \/ slot # NoDevice /\ slot' = NoDevice /\ Fail("complete")
       \/ Fail(state) /\ UNCHANGED slot
    /\ UNCHANGED <<plugs, use, durable, cache, source, wrote, late, runs, edits>>

-----------------------------------------------------------------------------
(* The environment.                                                          *)

(* What has not been flushed may be lost, chunk by chunk.                    *)
Unplug ==
    /\ slot # NoDevice /\ slot' = NoDevice
    /\ \E kept \in SUBSET Chunk :
        LET left == [c \in Chunk |-> IF c \in kept THEN cache[slot][c] ELSE durable[slot][c]]
        IN durable' = [durable EXCEPT ![slot] = left] /\ cache' = [cache EXCEPT ![slot] = left]
    /\ UNCHANGED <<plugs, use, source, command, wrote, late, runs, edits>>

Plug ==
    /\ slot = NoDevice /\ plugs < MaxPlugs /\ plugs' = plugs + 1
    /\ \E d \in Devices, u \in Uses : slot' = d /\ use' = [use EXCEPT ![d] = u]
    /\ UNCHANGED <<durable, cache, source, command, wrote, late, runs, edits>>

(* It is mounted, unmounted or taken into use by somebody else.              *)
Reuse ==
    /\ slot # NoDevice /\ \E u \in Uses : use' = [use EXCEPT ![slot] = u]
    /\ UNCHANGED <<slot, plugs, durable, cache, source, command, wrote, late, runs, edits>>

Edit ==
    /\ slot # NoDevice /\ edits < MaxEdits /\ edits' = edits + 1
    /\ \E c \in Chunk : /\ durable' = [durable EXCEPT ![slot][c] = "foreign"]
                        /\ cache' = [cache EXCEPT ![slot][c] = "foreign"]
                        /\ late' = late \cup {<<slot, c>>}
    /\ UNCHANGED <<slot, plugs, use, source, command, wrote, runs>>

EditSource ==
    /\ source' = "changed"
    /\ UNCHANGED <<slot, plugs, use, durable, cache, command, wrote, late, runs, edits>>

Write == OpenWrite \/ InspectOpened \/ Copy \/ CheckSource \/ Sync \/ Close
Verify == \/ BeforeReadBack \/ OpenRead \/ InspectReopened \/ ReadBack
          \/ Compare \/ LastInspection \/ Eject
Environment == Unplug \/ Plug \/ Reuse \/ Edit \/ EditSource

Next == \/ Plan \/ Begin \/ FirstInspection \/ Unmount \/ FinalInspection
        \/ Write \/ Verify \/ Environment

Spec == Init /\ [][Next]_vars

-----------------------------------------------------------------------------
DevicesOK ==
    /\ slot \in Devices \cup {NoDevice} /\ plugs \in Nat /\ use \in [Devices -> Uses]
    /\ durable \in [Devices -> [Chunk -> Content]] /\ cache \in [Devices -> [Chunk -> Content]]
    /\ source \in {"planned", "changed"}

CommandOK ==
    /\ pc \in {"idle", "planned"} \cup Steps /\ state \in States
    /\ plan \subseteq {Fingerprint[d] : d \in Devices}
    /\ handle \in [dev : Devices \cup {NoDevice}, plug : Nat]
    /\ done \in 0..Chunks /\ reads \in 0..Chunks

FlagsOK == intact \in BOOLEAN /\ good \in BOOLEAN

HistoryOK == /\ wrote \subseteq Devices /\ late \subseteq Devices \X Chunk
             /\ runs \in Nat /\ edits \in Nat

(* Every variable keeps to its set, and the loops stop at the image's end.   *)
TypeOK == DevicesOK /\ CommandOK /\ FlagsOK /\ HistoryOK

(* Only a device with the fingerprint the operator confirmed is ever written *)
(* to, however devices are exchanged behind the path.                        *)
OnlyPlannedWritten == \A d \in wrote : Fingerprint[d] \in plan

(* A receipt that tells of no write stands for a device nothing was written  *)
(* to.                                                                       *)
NothingUntold ==
    pc = "idle" /\ state \in {"not-started", "dry-run", "prepared"} => wrote = {}

(* Once the receipt says written, no chunk of some planned device still has  *)
(* its former content or a half-written one.                                 *)
WrittenIsFlushed ==
    state \in {"written", "verifying", "verified", "complete"} =>
        \E d \in Devices : /\ Fingerprint[d] \in plan
                           /\ \A c \in Chunk : durable[d][c] \notin {"old", "bad"}

(* A verified device holds the image, except where somebody else has written *)
(* since it was read back.                                                   *)
VerifiedIsDurable ==
    state \in {"verified", "complete"} =>
        \E d \in Devices : /\ Fingerprint[d] \in plan
                           /\ \A c \in Chunk : durable[d][c] = "image" \/ <<d, c>> \in late
=============================================================================
