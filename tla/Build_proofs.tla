---------------------------- MODULE Build_proofs ----------------------------
(* Theorems about kernel builds, the installation of userspace components,   *)
(* sensor builds and package releases, for every value of the constants.     *)
EXTENDS KernelBuild, UserspaceInstall, SensorBuild, PackageRelease, FiniteSetTheorems, TLAPS

-----------------------------------------------------------------------------
(* The build of a kernel.                                                    *)

BuildFields == {"rev", "packages", "delivery", "flaw", "support"}

BldShape ==
    /\ DOMAIN bldPc = Builds /\ DOMAIN bldPlan = Builds /\ DOMAIN bldBox = Builds
    /\ DOMAIN bldOut = Builds /\ DOMAIN bldSeen = Builds /\ DOMAIN bldPublished = Builds
    /\ \A c \in Builds : /\ DOMAIN bldOut[c] = BuildFields
                        /\ bldOut[c].flaw \in Flaws \cup {"none"}

(* A command at work, and a container that runs, have the lock.              *)
BoxlessPcs == {"idle", "planned", "locked", "captured", "ready"}
PackedPcs  == {"ran", "complete", "inspected"}

HeldAt(c) ==
    /\ \/ bldPc[c] \in {"locked", "captured", "ready", "running", "published"} \cup PackedPcs
       \/ bldBox[c] \in BoxRunning
       => bldLock = c
    /\ bldPc[c] \in BoxlessPcs => bldBox[c] = "none"
    /\ bldPc[c] \in PackedPcs \cup {"published"} => bldBox[c] = "done"
    /\ bldPc[c] \in BoxlessPcs \cup {"running"} \cup PackedPcs => bldPublished[c] = NoOutput

(* What a container has made of the volume, while it has it for itself.      *)
MadeAt(c) ==
    /\ bldBox[c] \in {"make", "collect", "inspect", "done"} /\ IsLocal(c) =>
          bldOut[c].rev = bldPlan[c]
    /\ bldBox[c] = "make" => bldTree.rev = bldOut[c].rev
    /\ bldBox[c] = "collect" => bldDebs = {bldOut[c].rev}
    /\ bldBox[c] = "inspect" => bldOut[c].packages = {bldOut[c].rev}
    /\ bldBox[c] = "refused" => ~bldAsk[c].reset
    /\ bldBox[c] = "done" => RecipeAccepts(c)

(* What the command has checked of it.                                       *)
CheckedAt(c) ==
    /\ bldBox[c] = "done" /\ bldPc[c] \in {"running", "ran", "complete"} =>
          bldOut[c].packages = {bldOut[c].rev}
    /\ bldPc[c] \in PackedPcs => bldOut[c].flaw = "none"
    /\ bldPc[c] \in {"complete", "inspected"} =>
          (bldOut[c].delivery = "external" => bldOut[c].support)
    /\ bldPc[c] = "inspected" => bldSeen[c] = {bldOut[c].rev}

AskedAt(c) ==
    bldPublished[c] # NoOutput =>
        /\ bldPublished[c].packages = {bldPublished[c].rev}
        /\ IsLocal(c) => bldPublished[c].rev = bldPlan[c]
        /\ DeliveryMatches(bldAsk[c].mode, bldPublished[c])
        /\ bldPublished[c].delivery = "external" => bldPublished[c].support
        /\ bldPublished[c].flaw = "none"

BuiltAt(c) == HeldAt(c) /\ MadeAt(c) /\ CheckedAt(c) /\ AskedAt(c)

BuiltInv == BldShape /\ (~bldStray => \A c \in Builds : BuiltAt(c))

(* What a step of one command leaves alone of another.                       *)
LEMMA BuiltElsewhere ==
  ASSUME BuiltInv, ~bldStray, NEW c \in Builds,
         bldPc'[c] = bldPc[c], bldAsk' = bldAsk, bldPlan'[c] = bldPlan[c],
         bldBox'[c] = bldBox[c], bldOut'[c] = bldOut[c], bldSeen'[c] = bldSeen[c],
         bldPublished'[c] = bldPublished[c], bldLock = c => bldLock' = c,
         bldLock # c \/ UNCHANGED <<bldTree, bldDebs>>
  PROVE  BuiltAt(c)'
<1>0. BuiltAt(c) /\ IsLocal(c)' = IsLocal(c)
  BY DEF BuiltInv, IsLocal
<1>1. HeldAt(c)'
  BY <1>0 DEF BuiltAt, HeldAt
<1>2. MadeAt(c)'
  <2>1. RecipeAccepts(c) => RecipeAccepts(c)'
    BY DEF RecipeAccepts
  <2>. QED
    BY <1>0, <2>1 DEF BuiltAt, HeldAt, MadeAt, BoxRunning
<1>3. CheckedAt(c)'
  BY <1>0 DEF BuiltAt, CheckedAt
<1>4. AskedAt(c)'
  BY <1>0 DEF BuiltAt, AskedAt
<1>. QED
  BY <1>1, <1>2, <1>3, <1>4 DEF BuiltAt

(* One lemma for every step.                                                 *)
LEMMA BuiltBldBegin ==
  ASSUME BuiltInv, BuildAssumption, NEW c \in Builds, BldBegin(c)
  PROVE  BuiltInv'
<1>. USE DEF BldTo, BldResult, BldVolume
<1>1. BldShape'
  BY DEF BuiltInv, BldShape, BldBegin, BuildFields
<1>2. bldStray \/ bldStray' \/ \A d \in Builds : BuiltAt(d)'
  <2>. SUFFICES ASSUME ~bldStray, ~bldStray' PROVE \A d \in Builds : BuiltAt(d)'
    OBVIOUS
  <2>0. BuiltAt(c) /\ BldShape /\ bldAsk' = bldAsk
    BY DEF BuiltInv, BldBegin
  <2>1. HeldAt(c)'
    BY <2>0 DEF BldShape, BuiltAt, HeldAt, BldBegin, BoxRunning, PackedPcs, BoxlessPcs
  <2>2. MadeAt(c)'
    BY <2>0 DEF BuiltAt, HeldAt, MadeAt, BldBegin, BoxlessPcs
  <2>3. CheckedAt(c)'
    BY <2>0 DEF CheckedAt, BldBegin, PackedPcs
  <2>4. AskedAt(c)'
    BY <2>0 DEF BuiltAt, HeldAt, AskedAt, BldBegin, BoxlessPcs
  <2>5. ASSUME NEW d \in Builds \ {c} PROVE BuiltAt(d)'
    <3>1. /\ bldPc'[d] = bldPc[d] /\ bldPlan'[d] = bldPlan[d] /\ bldBox'[d] = bldBox[d]
          /\ bldOut'[d] = bldOut[d] /\ bldSeen'[d] = bldSeen[d]
          /\ bldPublished'[d] = bldPublished[d]
      BY <2>0 DEF BldShape, BldBegin
    <3>2. bldLock = d => bldLock' = d
      BY DEF BldBegin, BuildAssumption, Unlocked
    <3>3. bldLock # d \/ UNCHANGED <<bldTree, bldDebs>>
      BY <2>0 DEF BuiltAt, HeldAt, BldBegin, BoxRunning
    <3>. QED
      BY <2>0, <3>1, <3>2, <3>3, BuiltElsewhere
  <2>. QED
    BY <2>1, <2>2, <2>3, <2>4, <2>5 DEF BuiltAt
<1>3. bldStray => bldStray'
  BY DEF BldBegin
<1>. QED
  BY <1>1, <1>2, <1>3 DEF BuiltInv

LEMMA BuiltAcquireLock ==
  ASSUME BuiltInv, BuildAssumption, NEW c \in Builds, AcquireLock(c)
  PROVE  BuiltInv'
<1>. USE DEF BldTo, BldResult, BldVolume
<1>1. BldShape'
  BY DEF BuiltInv, BldShape, AcquireLock, BuildFields
<1>2. bldStray \/ bldStray' \/ \A d \in Builds : BuiltAt(d)'
  <2>. SUFFICES ASSUME ~bldStray, ~bldStray' PROVE \A d \in Builds : BuiltAt(d)'
    OBVIOUS
  <2>0. BuiltAt(c) /\ BldShape /\ bldAsk' = bldAsk
    BY DEF BuiltInv, AcquireLock
  <2>1. HeldAt(c)'
    BY <2>0 DEF BldShape, BuiltAt, HeldAt, AcquireLock, BoxRunning, PackedPcs,
       BoxlessPcs
  <2>2. MadeAt(c)'
    BY <2>0 DEF BuiltAt, MadeAt, IsLocal, RecipeAccepts, AcquireLock
  <2>3. CheckedAt(c)'
    BY <2>0 DEF CheckedAt, AcquireLock, PackedPcs
  <2>4. AskedAt(c)'
    BY <2>0 DEF BuiltAt, AskedAt, IsLocal, AcquireLock
  <2>5. ASSUME NEW d \in Builds \ {c} PROVE BuiltAt(d)'
    <3>1. /\ bldPc'[d] = bldPc[d] /\ bldPlan'[d] = bldPlan[d] /\ bldBox'[d] = bldBox[d]
          /\ bldOut'[d] = bldOut[d] /\ bldSeen'[d] = bldSeen[d]
          /\ bldPublished'[d] = bldPublished[d]
      BY <2>0 DEF BldShape, AcquireLock
    <3>2. bldLock = d => bldLock' = d
      BY DEF AcquireLock, BuildAssumption, Unlocked
    <3>3. bldLock # d \/ UNCHANGED <<bldTree, bldDebs>>
      BY <2>0 DEF BuiltAt, HeldAt, AcquireLock, BoxRunning
    <3>. QED
      BY <2>0, <3>1, <3>2, <3>3, BuiltElsewhere
  <2>. QED
    BY <2>1, <2>2, <2>3, <2>4, <2>5 DEF BuiltAt
<1>3. bldStray => bldStray'
  BY DEF AcquireLock
<1>. QED
  BY <1>1, <1>2, <1>3 DEF BuiltInv

LEMMA BuiltLockIsTaken ==
  ASSUME BuiltInv, BuildAssumption, NEW c \in Builds, LockIsTaken(c)
  PROVE  BuiltInv'
<1>. USE DEF BldTo, BldResult, BldVolume
<1>1. BldShape'
  BY DEF BuiltInv, BldShape, LockIsTaken, BuildFields
<1>2. bldStray \/ bldStray' \/ \A d \in Builds : BuiltAt(d)'
  <2>. SUFFICES ASSUME ~bldStray, ~bldStray' PROVE \A d \in Builds : BuiltAt(d)'
    OBVIOUS
  <2>0. BuiltAt(c) /\ BldShape /\ bldAsk' = bldAsk
    BY DEF BuiltInv, LockIsTaken
  <2>1. HeldAt(c)'
    BY <2>0 DEF BldShape, BuiltAt, HeldAt, LockIsTaken, BoxRunning, PackedPcs,
       BoxlessPcs
  <2>2. MadeAt(c)'
    BY <2>0 DEF BuiltAt, MadeAt, IsLocal, RecipeAccepts, LockIsTaken
  <2>3. CheckedAt(c)'
    BY <2>0 DEF CheckedAt, LockIsTaken, PackedPcs
  <2>4. AskedAt(c)'
    BY <2>0 DEF BuiltAt, AskedAt, IsLocal, LockIsTaken
  <2>5. ASSUME NEW d \in Builds \ {c} PROVE BuiltAt(d)'
    <3>1. /\ bldPc'[d] = bldPc[d] /\ bldPlan'[d] = bldPlan[d] /\ bldBox'[d] = bldBox[d]
          /\ bldOut'[d] = bldOut[d] /\ bldSeen'[d] = bldSeen[d]
          /\ bldPublished'[d] = bldPublished[d]
      BY <2>0 DEF BldShape, LockIsTaken
    <3>2. bldLock = d => bldLock' = d
      BY DEF LockIsTaken, BuildAssumption, Unlocked
    <3>3. bldLock # d \/ UNCHANGED <<bldTree, bldDebs>>
      BY <2>0 DEF BuiltAt, HeldAt, LockIsTaken, BoxRunning
    <3>. QED
      BY <2>0, <3>1, <3>2, <3>3, BuiltElsewhere
  <2>. QED
    BY <2>1, <2>2, <2>3, <2>4, <2>5 DEF BuiltAt
<1>3. bldStray => bldStray'
  BY DEF LockIsTaken
<1>. QED
  BY <1>1, <1>2, <1>3 DEF BuiltInv

LEMMA BuiltCaptureSnapshot ==
  ASSUME BuiltInv, BuildAssumption, NEW c \in Builds, CaptureSnapshot(c)
  PROVE  BuiltInv'
<1>. USE DEF BldTo, BldResult, BldVolume
<1>1. BldShape'
  BY DEF BuiltInv, BldShape, CaptureSnapshot, BuildFields
<1>2. bldStray \/ bldStray' \/ \A d \in Builds : BuiltAt(d)'
  <2>. SUFFICES ASSUME ~bldStray, ~bldStray' PROVE \A d \in Builds : BuiltAt(d)'
    OBVIOUS
  <2>0. BuiltAt(c) /\ BldShape /\ bldAsk' = bldAsk
    BY DEF BuiltInv, CaptureSnapshot
  <2>1. HeldAt(c)'
    BY <2>0 DEF BldShape, BuiltAt, HeldAt, CaptureSnapshot, BoxRunning, PackedPcs,
       BoxlessPcs
  <2>2. MadeAt(c)'
    BY <2>0 DEF BuiltAt, MadeAt, IsLocal, RecipeAccepts, CaptureSnapshot
  <2>3. CheckedAt(c)'
    BY <2>0 DEF CheckedAt, CaptureSnapshot, PackedPcs
  <2>4. AskedAt(c)'
    BY <2>0 DEF BuiltAt, AskedAt, IsLocal, CaptureSnapshot
  <2>5. ASSUME NEW d \in Builds \ {c} PROVE BuiltAt(d)'
    <3>1. /\ bldPc'[d] = bldPc[d] /\ bldPlan'[d] = bldPlan[d] /\ bldBox'[d] = bldBox[d]
          /\ bldOut'[d] = bldOut[d] /\ bldSeen'[d] = bldSeen[d]
          /\ bldPublished'[d] = bldPublished[d]
      BY <2>0 DEF BldShape, CaptureSnapshot
    <3>2. bldLock = d => bldLock' = d
      BY DEF CaptureSnapshot, BuildAssumption, Unlocked
    <3>3. bldLock # d \/ UNCHANGED <<bldTree, bldDebs>>
      BY <2>0 DEF BuiltAt, HeldAt, CaptureSnapshot, BoxRunning
    <3>. QED
      BY <2>0, <3>1, <3>2, <3>3, BuiltElsewhere
  <2>. QED
    BY <2>1, <2>2, <2>3, <2>4, <2>5 DEF BuiltAt
<1>3. bldStray => bldStray'
  BY DEF CaptureSnapshot
<1>. QED
  BY <1>1, <1>2, <1>3 DEF BuiltInv

LEMMA BuiltSnapshotChanged ==
  ASSUME BuiltInv, BuildAssumption, NEW c \in Builds, SnapshotChanged(c)
  PROVE  BuiltInv'
<1>. USE DEF BldResult, BldVolume, ReleaseLock, LockOwned
<1>1. BldShape'
  BY DEF BuiltInv, BldShape, SnapshotChanged, BuildFields
<1>2. bldStray \/ bldStray' \/ \A d \in Builds : BuiltAt(d)'
  <2>. SUFFICES ASSUME ~bldStray, ~bldStray' PROVE \A d \in Builds : BuiltAt(d)'
    OBVIOUS
  <2>0. BuiltAt(c) /\ BldShape /\ bldAsk' = bldAsk
    BY DEF BuiltInv, SnapshotChanged
  <2>1. HeldAt(c)'
    BY <2>0 DEF BldShape, BuiltAt, HeldAt, SnapshotChanged, BoxRunning, PackedPcs,
       BoxlessPcs
  <2>2. MadeAt(c)'
    BY <2>0 DEF BuiltAt, MadeAt, RecipeAccepts, SnapshotChanged
  <2>3. CheckedAt(c)'
    BY <2>0 DEF CheckedAt, SnapshotChanged, PackedPcs
  <2>4. AskedAt(c)'
    BY <2>0 DEF BuiltAt, AskedAt, SnapshotChanged
  <2>5. ASSUME NEW d \in Builds \ {c} PROVE BuiltAt(d)'
    <3>1. /\ bldPc'[d] = bldPc[d] /\ bldPlan'[d] = bldPlan[d] /\ bldBox'[d] = bldBox[d]
          /\ bldOut'[d] = bldOut[d] /\ bldSeen'[d] = bldSeen[d]
          /\ bldPublished'[d] = bldPublished[d]
      BY <2>0 DEF BldShape, SnapshotChanged
    <3>2. bldLock = d => bldLock' = d
      BY DEF SnapshotChanged, BuildAssumption, Unlocked
    <3>3. bldLock # d \/ UNCHANGED <<bldTree, bldDebs>>
      BY <2>0 DEF BuiltAt, HeldAt, SnapshotChanged, BoxRunning
    <3>. QED
      BY <2>0, <3>1, <3>2, <3>3, BuiltElsewhere
  <2>. QED
    BY <2>1, <2>2, <2>3, <2>4, <2>5 DEF BuiltAt
<1>3. bldStray => bldStray'
  BY DEF SnapshotChanged
<1>. QED
  BY <1>1, <1>2, <1>3 DEF BuiltInv

LEMMA BuiltEnsureWorkVolume ==
  ASSUME BuiltInv, BuildAssumption, NEW c \in Builds, EnsureWorkVolume(c)
  PROVE  BuiltInv'
<1>. USE DEF BldTo, BldResult, BldVolume
<1>1. BldShape'
  BY DEF BuiltInv, BldShape, EnsureWorkVolume, BuildFields
<1>2. bldStray \/ bldStray' \/ \A d \in Builds : BuiltAt(d)'
  <2>. SUFFICES ASSUME ~bldStray, ~bldStray' PROVE \A d \in Builds : BuiltAt(d)'
    OBVIOUS
  <2>0. BuiltAt(c) /\ BldShape /\ bldAsk' = bldAsk
    BY DEF BuiltInv, EnsureWorkVolume
  <2>1. HeldAt(c)'
    BY <2>0 DEF BldShape, BuiltAt, HeldAt, EnsureWorkVolume, BoxRunning, PackedPcs,
       BoxlessPcs
  <2>2. MadeAt(c)'
    BY <2>0 DEF BuiltAt, MadeAt, IsLocal, RecipeAccepts, EnsureWorkVolume
  <2>3. CheckedAt(c)'
    BY <2>0 DEF CheckedAt, EnsureWorkVolume, PackedPcs
  <2>4. AskedAt(c)'
    BY <2>0 DEF BuiltAt, AskedAt, IsLocal, EnsureWorkVolume
  <2>5. ASSUME NEW d \in Builds \ {c} PROVE BuiltAt(d)'
    <3>1. /\ bldPc'[d] = bldPc[d] /\ bldPlan'[d] = bldPlan[d] /\ bldBox'[d] = bldBox[d]
          /\ bldOut'[d] = bldOut[d] /\ bldSeen'[d] = bldSeen[d]
          /\ bldPublished'[d] = bldPublished[d]
      BY <2>0 DEF BldShape, EnsureWorkVolume
    <3>2. bldLock = d => bldLock' = d
      BY DEF EnsureWorkVolume, BuildAssumption, Unlocked
    <3>3. bldLock # d \/ UNCHANGED <<bldTree, bldDebs>>
      BY <2>0 DEF BuiltAt, HeldAt, EnsureWorkVolume, BoxRunning
    <3>. QED
      BY <2>0, <3>1, <3>2, <3>3, BuiltElsewhere
  <2>. QED
    BY <2>1, <2>2, <2>3, <2>4, <2>5 DEF BuiltAt
<1>3. bldStray => bldStray'
  BY DEF EnsureWorkVolume
<1>. QED
  BY <1>1, <1>2, <1>3 DEF BuiltInv

LEMMA BuiltRunContainer ==
  ASSUME BuiltInv, BuildAssumption, NEW c \in Builds, RunContainer(c)
  PROVE  BuiltInv'
<1>. USE DEF BldTo, BldResult, BldVolume
<1>1. BldShape'
  BY DEF BuiltInv, BldShape, RunContainer, BuildFields
<1>2. bldStray \/ bldStray' \/ \A d \in Builds : BuiltAt(d)'
  <2>. SUFFICES ASSUME ~bldStray, ~bldStray' PROVE \A d \in Builds : BuiltAt(d)'
    OBVIOUS
  <2>0. BuiltAt(c) /\ BldShape /\ bldAsk' = bldAsk
    BY DEF BuiltInv, RunContainer
  <2>1. HeldAt(c)'
    BY <2>0 DEF BldShape, BuiltAt, HeldAt, RunContainer, BoxRunning, PackedPcs,
       BoxlessPcs
  <2>2. MadeAt(c)'
    BY <2>0 DEF BldShape, MadeAt, RunContainer
  <2>3. CheckedAt(c)'
    BY <2>0 DEF BldShape, CheckedAt, RunContainer, PackedPcs
  <2>4. AskedAt(c)'
    BY <2>0 DEF BuiltAt, AskedAt, IsLocal, RunContainer
  <2>5. ASSUME NEW d \in Builds \ {c} PROVE BuiltAt(d)'
    <3>1. /\ bldPc'[d] = bldPc[d] /\ bldPlan'[d] = bldPlan[d] /\ bldBox'[d] = bldBox[d]
          /\ bldOut'[d] = bldOut[d] /\ bldSeen'[d] = bldSeen[d]
          /\ bldPublished'[d] = bldPublished[d]
      BY <2>0 DEF BldShape, RunContainer
    <3>2. bldLock = d => bldLock' = d
      BY DEF RunContainer, BuildAssumption, Unlocked
    <3>3. bldLock # d \/ UNCHANGED <<bldTree, bldDebs>>
      BY <2>0 DEF BuiltAt, HeldAt, RunContainer, BoxRunning
    <3>. QED
      BY <2>0, <3>1, <3>2, <3>3, BuiltElsewhere
  <2>. QED
    BY <2>1, <2>2, <2>3, <2>4, <2>5 DEF BuiltAt
<1>3. bldStray => bldStray'
  BY DEF RunContainer
<1>. QED
  BY <1>1, <1>2, <1>3 DEF BuiltInv

LEMMA BuiltBoxSource ==
  ASSUME BuiltInv, BuildAssumption, NEW c \in Builds, BoxSource(c)
  PROVE  BuiltInv'
<1>. USE DEF BoxTo, BldCommand, BldResult
<1>1. BldShape'
  BY DEF BuiltInv, BldShape, BoxSource, SourceFromRemote, SourceFromArchive, BuildFields
<1>2. bldStray \/ bldStray' \/ \A d \in Builds : BuiltAt(d)'
  <2>. SUFFICES ASSUME ~bldStray, ~bldStray' PROVE \A d \in Builds : BuiltAt(d)'
    OBVIOUS
  <2>0. BuiltAt(c) /\ BldShape /\ bldAsk' = bldAsk
    BY DEF BuiltInv, BoxSource
  <2>1. HeldAt(c)'
    BY <2>0 DEF BuiltAt, HeldAt, BoxSource, BoxRunning
  <2>2. MadeAt(c)'
    BY <2>0 DEF BldShape, MadeAt, IsLocal, BoxSource, SourceFromRemote,
       SourceFromArchive, FetchedTree, ExtractedTree, TreeOf, BuildFields
  <2>3. CheckedAt(c)'
    BY <2>0 DEF BuiltAt, HeldAt, CheckedAt, BoxSource, PackedPcs
  <2>4. AskedAt(c)'
    BY <2>0 DEF BuiltAt, AskedAt, IsLocal, BoxSource
  <2>5. ASSUME NEW d \in Builds \ {c} PROVE BuiltAt(d)'
    <3>1. /\ bldPc'[d] = bldPc[d] /\ bldPlan'[d] = bldPlan[d] /\ bldBox'[d] = bldBox[d]
          /\ bldOut'[d] = bldOut[d] /\ bldSeen'[d] = bldSeen[d]
          /\ bldPublished'[d] = bldPublished[d]
      BY <2>0 DEF BldShape, BoxSource, SourceFromRemote, SourceFromArchive, FetchedTree,
         ExtractedTree, TreeOf
    <3>2. bldLock = d => bldLock' = d
      BY DEF BoxSource, BuildAssumption, Unlocked
    <3>3. bldLock # d \/ UNCHANGED <<bldTree, bldDebs>>
      BY <2>0 DEF BuiltAt, HeldAt, BoxSource, BoxRunning
    <3>. QED
      BY <2>0, <3>1, <3>2, <3>3, BuiltElsewhere
  <2>. QED
    BY <2>1, <2>2, <2>3, <2>4, <2>5 DEF BuiltAt
<1>3. bldStray => bldStray'
  BY DEF BoxSource
<1>. QED
  BY <1>1, <1>2, <1>3 DEF BuiltInv

LEMMA BuiltSourceRefused ==
  ASSUME BuiltInv, BuildAssumption, NEW c \in Builds, SourceRefused(c)
  PROVE  BuiltInv'
<1>. USE DEF BoxTo, BldCommand, BldResult, BldVolume
<1>1. BldShape'
  BY DEF BuiltInv, BldShape, SourceRefused, BuildFields
<1>2. bldStray \/ bldStray' \/ \A d \in Builds : BuiltAt(d)'
  <2>. SUFFICES ASSUME ~bldStray, ~bldStray' PROVE \A d \in Builds : BuiltAt(d)'
    OBVIOUS
  <2>0. BuiltAt(c) /\ BldShape /\ bldAsk' = bldAsk
    BY DEF BuiltInv, SourceRefused
  <2>1. HeldAt(c)'
    BY <2>0 DEF BldShape, BuiltAt, HeldAt, SourceRefused, BoxRunning, PackedPcs,
       BoxlessPcs
  <2>2. MadeAt(c)'
    BY <2>0 DEF MadeAt, SourceRefused
  <2>3. CheckedAt(c)'
    BY <2>0 DEF BuiltAt, CheckedAt, SourceRefused
  <2>4. AskedAt(c)'
    BY <2>0 DEF BuiltAt, AskedAt, IsLocal, SourceRefused
  <2>5. ASSUME NEW d \in Builds \ {c} PROVE BuiltAt(d)'
    <3>1. /\ bldPc'[d] = bldPc[d] /\ bldPlan'[d] = bldPlan[d] /\ bldBox'[d] = bldBox[d]
          /\ bldOut'[d] = bldOut[d] /\ bldSeen'[d] = bldSeen[d]
          /\ bldPublished'[d] = bldPublished[d]
      BY <2>0 DEF BldShape, SourceRefused
    <3>2. bldLock = d => bldLock' = d
      BY DEF SourceRefused, BuildAssumption, Unlocked
    <3>3. bldLock # d \/ UNCHANGED <<bldTree, bldDebs>>
      BY <2>0 DEF BuiltAt, HeldAt, SourceRefused, BoxRunning
    <3>. QED
      BY <2>0, <3>1, <3>2, <3>3, BuiltElsewhere
  <2>. QED
    BY <2>1, <2>2, <2>3, <2>4, <2>5 DEF BuiltAt
<1>3. bldStray => bldStray'
  BY DEF SourceRefused
<1>. QED
  BY <1>1, <1>2, <1>3 DEF BuiltInv

LEMMA BuiltBoxMake ==
  ASSUME BuiltInv, BuildAssumption, NEW c \in Builds, BoxMake(c)
  PROVE  BuiltInv'
<1>. USE DEF BoxTo, BldCommand, BldResult, BldFault, BldNoFault
<1>1. BldShape'
  BY DEF BuiltInv, BldShape, BoxMake, PackagesMade, BuildFields
<1>2. bldStray \/ bldStray' \/ \A d \in Builds : BuiltAt(d)'
  <2>. SUFFICES ASSUME ~bldStray, ~bldStray' PROVE \A d \in Builds : BuiltAt(d)'
    OBVIOUS
  <2>0. BuiltAt(c) /\ BldShape /\ bldAsk' = bldAsk
    BY DEF BuiltInv, BoxMake
  <2>1. HeldAt(c)'
    BY <2>0 DEF BuiltAt, HeldAt, BoxMake, BoxRunning
  <2>2. MadeAt(c)'
    BY <2>0 DEF BldShape, BuiltAt, MadeAt, IsLocal, BoxMake, PackagesMade
  <2>3. CheckedAt(c)'
    BY <2>0 DEF BuiltAt, HeldAt, CheckedAt, BoxMake, PackedPcs
  <2>4. AskedAt(c)'
    BY <2>0 DEF BuiltAt, AskedAt, IsLocal, BoxMake
  <2>5. ASSUME NEW d \in Builds \ {c} PROVE BuiltAt(d)'
    <3>1. /\ bldPc'[d] = bldPc[d] /\ bldPlan'[d] = bldPlan[d] /\ bldBox'[d] = bldBox[d]
          /\ bldOut'[d] = bldOut[d] /\ bldSeen'[d] = bldSeen[d]
          /\ bldPublished'[d] = bldPublished[d]
      BY <2>0 DEF BldShape, BoxMake, PackagesMade
    <3>2. bldLock = d => bldLock' = d
      BY DEF BoxMake, BuildAssumption, Unlocked
    <3>3. bldLock # d \/ UNCHANGED <<bldTree, bldDebs>>
      BY <2>0 DEF BuiltAt, HeldAt, BoxMake, BoxRunning
    <3>. QED
      BY <2>0, <3>1, <3>2, <3>3, BuiltElsewhere
  <2>. QED
    BY <2>1, <2>2, <2>3, <2>4, <2>5 DEF BuiltAt
<1>3. bldStray => bldStray'
  BY DEF BoxMake
<1>. QED
  BY <1>1, <1>2, <1>3 DEF BuiltInv

LEMMA BuiltBoxCollect ==
  ASSUME BuiltInv, BuildAssumption, NEW c \in Builds, BoxCollect(c)
  PROVE  BuiltInv'
<1>. USE DEF BoxTo, BldCommand, BldResult, BldVolume
<1>1. BldShape'
  BY DEF BuiltInv, BldShape, BoxCollect, BuildFields
<1>2. bldStray \/ bldStray' \/ \A d \in Builds : BuiltAt(d)'
  <2>. SUFFICES ASSUME ~bldStray, ~bldStray' PROVE \A d \in Builds : BuiltAt(d)'
    OBVIOUS
  <2>0. BuiltAt(c) /\ BldShape /\ bldAsk' = bldAsk
    BY DEF BuiltInv, BoxCollect
  <2>1. HeldAt(c)'
    BY <2>0 DEF BldShape, BuiltAt, HeldAt, BoxCollect, BoxRunning, PackedPcs, BoxlessPcs
  <2>2. MadeAt(c)'
    BY <2>0 DEF BldShape, BuiltAt, MadeAt, IsLocal, BoxCollect
  <2>3. CheckedAt(c)'
    BY <2>0 DEF BuiltAt, CheckedAt, BoxCollect
  <2>4. AskedAt(c)'
    BY <2>0 DEF BuiltAt, AskedAt, IsLocal, BoxCollect
  <2>5. ASSUME NEW d \in Builds \ {c} PROVE BuiltAt(d)'
    <3>1. /\ bldPc'[d] = bldPc[d] /\ bldPlan'[d] = bldPlan[d] /\ bldBox'[d] = bldBox[d]
          /\ bldOut'[d] = bldOut[d] /\ bldSeen'[d] = bldSeen[d]
          /\ bldPublished'[d] = bldPublished[d]
      BY <2>0 DEF BldShape, BoxCollect
    <3>2. bldLock = d => bldLock' = d
      BY DEF BoxCollect, BuildAssumption, Unlocked
    <3>3. bldLock # d \/ UNCHANGED <<bldTree, bldDebs>>
      BY <2>0 DEF BuiltAt, HeldAt, BoxCollect, BoxRunning
    <3>. QED
      BY <2>0, <3>1, <3>2, <3>3, BuiltElsewhere
  <2>. QED
    BY <2>1, <2>2, <2>3, <2>4, <2>5 DEF BuiltAt
<1>3. bldStray => bldStray'
  BY DEF BoxCollect
<1>. QED
  BY <1>1, <1>2, <1>3 DEF BuiltInv

LEMMA BuiltBoxInspect ==
  ASSUME BuiltInv, BuildAssumption, NEW c \in Builds, BoxInspect(c)
  PROVE  BuiltInv'
<1>. USE DEF BldCommand, BldResult, BldVolume
<1>1. BldShape'
  BY DEF BuiltInv, BldShape, BoxInspect, OneRuntimePair, BuildFields
<1>2. bldStray \/ bldStray' \/ \A d \in Builds : BuiltAt(d)'
  <2>. SUFFICES ASSUME ~bldStray, ~bldStray' PROVE \A d \in Builds : BuiltAt(d)'
    OBVIOUS
  <2>0. BuiltAt(c) /\ BldShape /\ bldAsk' = bldAsk
    BY DEF BuiltInv, BoxInspect
  <2>1. HeldAt(c)'
    BY <2>0 DEF BuiltAt, HeldAt, BoxInspect, BoxRunning
  <2>2. MadeAt(c)'
    <3>1. bldBox[c] = "inspect" /\ OneRuntimePair(bldOut[c])
      <4>1. bldBox[c] = "inspect" /\ bldOut[c].packages = {bldOut[c].rev}
        BY <2>0 DEF BoxInspect, BuiltAt, MadeAt
      <4>. QED
        BY <4>1, FS_Singleton DEF OneRuntimePair
    <3>2. /\ bldBox'[c] \in {"done", "failed"} /\ (bldBox'[c] = "done" => RecipeAccepts(c))
          /\ UNCHANGED <<bldOut, bldPlan, bldAsk>>
      BY <2>0, <3>1 DEF BldShape, BoxInspect
    <3>3. RecipeAccepts(c) => RecipeAccepts(c)'
      BY <3>2 DEF RecipeAccepts
    <3>. QED
      BY <2>0, <3>1, <3>2, <3>3 DEF BuiltAt, MadeAt, IsLocal
  <2>3. CheckedAt(c)'
    BY <2>0 DEF BuiltAt, MadeAt, CheckedAt, BoxInspect
  <2>4. AskedAt(c)'
    BY <2>0 DEF BuiltAt, AskedAt, IsLocal, BoxInspect
  <2>5. ASSUME NEW d \in Builds \ {c} PROVE BuiltAt(d)'
    <3>1. /\ bldPc'[d] = bldPc[d] /\ bldPlan'[d] = bldPlan[d] /\ bldBox'[d] = bldBox[d]
          /\ bldOut'[d] = bldOut[d] /\ bldSeen'[d] = bldSeen[d]
          /\ bldPublished'[d] = bldPublished[d]
      BY <2>0 DEF BldShape, BoxInspect, OneRuntimePair
    <3>2. bldLock = d => bldLock' = d
      BY DEF BoxInspect, BuildAssumption, Unlocked
    <3>3. bldLock # d \/ UNCHANGED <<bldTree, bldDebs>>
      BY <2>0 DEF BuiltAt, HeldAt, BoxInspect, BoxRunning
    <3>. QED
      BY <2>0, <3>1, <3>2, <3>3, BuiltElsewhere
  <2>. QED
    BY <2>1, <2>2, <2>3, <2>4, <2>5 DEF BuiltAt
<1>3. bldStray => bldStray'
  BY DEF BoxInspect
<1>. QED
  BY <1>1, <1>2, <1>3 DEF BuiltInv

LEMMA BuiltBoxFails ==
  ASSUME BuiltInv, BuildAssumption, NEW c \in Builds, BoxFails(c)
  PROVE  BuiltInv'
<1>. USE DEF BldCommand, BldResult, BldFault
<1>1. BldShape'
  BY DEF BuiltInv, BldShape, BoxFails, BoxStops, BuildFields
<1>2. bldStray \/ bldStray' \/ \A d \in Builds : BuiltAt(d)'
  <2>. SUFFICES ASSUME ~bldStray, ~bldStray' PROVE \A d \in Builds : BuiltAt(d)'
    OBVIOUS
  <2>0. BuiltAt(c) /\ BldShape /\ bldAsk' = bldAsk
    BY DEF BuiltInv, BoxFails
  <2>1. HeldAt(c)'
    BY <2>0 DEF BuiltAt, HeldAt, BoxFails, BoxRunning
  <2>2. MadeAt(c)'
    BY <2>0 DEF BldShape, MadeAt, BoxFails, BoxStops
  <2>3. CheckedAt(c)'
    BY <2>0 DEF BuiltAt, CheckedAt, BoxFails, BoxStops
  <2>4. AskedAt(c)'
    BY <2>0 DEF BuiltAt, AskedAt, IsLocal, BoxFails
  <2>5. ASSUME NEW d \in Builds \ {c} PROVE BuiltAt(d)'
    <3>1. /\ bldPc'[d] = bldPc[d] /\ bldPlan'[d] = bldPlan[d] /\ bldBox'[d] = bldBox[d]
          /\ bldOut'[d] = bldOut[d] /\ bldSeen'[d] = bldSeen[d]
          /\ bldPublished'[d] = bldPublished[d]
      BY <2>0 DEF BldShape, BoxFails, BoxStops
    <3>2. bldLock = d => bldLock' = d
      BY DEF BoxFails, BuildAssumption, Unlocked
    <3>3. bldLock # d \/ UNCHANGED <<bldTree, bldDebs>>
      BY <2>0 DEF BuiltAt, HeldAt, BoxFails, BoxRunning
    <3>. QED
      BY <2>0, <3>1, <3>2, <3>3, BuiltElsewhere
  <2>. QED
    BY <2>1, <2>2, <2>3, <2>4, <2>5 DEF BuiltAt
<1>3. bldStray => bldStray'
  BY DEF BoxFails
<1>. QED
  BY <1>1, <1>2, <1>3 DEF BuiltInv

LEMMA BuiltContainerFailed ==
  ASSUME BuiltInv, BuildAssumption, NEW c \in Builds, ContainerFailed(c)
  PROVE  BuiltInv'
<1>. USE DEF BldResult, BldVolume, ReleaseLock, LockOwned
<1>1. BldShape'
  BY DEF BuiltInv, BldShape, ContainerFailed, BuildFields
<1>2. bldStray \/ bldStray' \/ \A d \in Builds : BuiltAt(d)'
  <2>. SUFFICES ASSUME ~bldStray, ~bldStray' PROVE \A d \in Builds : BuiltAt(d)'
    OBVIOUS
  <2>0. BuiltAt(c) /\ BldShape /\ bldAsk' = bldAsk
    BY DEF BuiltInv, ContainerFailed
  <2>1. HeldAt(c)'
    BY <2>0 DEF BldShape, BuiltAt, HeldAt, ContainerFailed, BoxRunning, PackedPcs,
       BoxlessPcs
  <2>2. MadeAt(c)'
    BY <2>0 DEF BuiltAt, MadeAt, ContainerFailed
  <2>3. CheckedAt(c)'
    BY <2>0 DEF CheckedAt, ContainerFailed, PackedPcs
  <2>4. AskedAt(c)'
    BY <2>0 DEF BuiltAt, HeldAt, AskedAt, ContainerFailed
  <2>5. ASSUME NEW d \in Builds \ {c} PROVE BuiltAt(d)'
    <3>1. /\ bldPc'[d] = bldPc[d] /\ bldPlan'[d] = bldPlan[d] /\ bldBox'[d] = bldBox[d]
          /\ bldOut'[d] = bldOut[d] /\ bldSeen'[d] = bldSeen[d]
          /\ bldPublished'[d] = bldPublished[d]
      BY <2>0 DEF BldShape, ContainerFailed
    <3>2. bldLock = d => bldLock' = d
      BY DEF ContainerFailed, BuildAssumption, Unlocked
    <3>3. bldLock # d \/ UNCHANGED <<bldTree, bldDebs>>
      BY <2>0 DEF BuiltAt, HeldAt, ContainerFailed, BoxRunning
    <3>. QED
      BY <2>0, <3>1, <3>2, <3>3, BuiltElsewhere
  <2>. QED
    BY <2>1, <2>2, <2>3, <2>4, <2>5 DEF BuiltAt
<1>3. bldStray => bldStray'
  BY DEF ContainerFailed
<1>. QED
  BY <1>1, <1>2, <1>3 DEF BuiltInv

LEMMA BuiltInterruptedAndRemoved ==
  ASSUME BuiltInv, BuildAssumption, NEW c \in Builds, InterruptedAndRemoved(c)
  PROVE  BuiltInv'
<1>. USE DEF BldResult, ReleaseLock, LockOwned, BldFault
<1>1. BldShape'
  BY DEF BuiltInv, BldShape, InterruptedAndRemoved, BoxStops, BuildFields
<1>2. bldStray \/ bldStray' \/ \A d \in Builds : BuiltAt(d)'
  <2>. SUFFICES ASSUME ~bldStray, ~bldStray' PROVE \A d \in Builds : BuiltAt(d)'
    OBVIOUS
  <2>0. BuiltAt(c) /\ BldShape /\ bldAsk' = bldAsk
    BY DEF BuiltInv, InterruptedAndRemoved
  <2>1. HeldAt(c)'
    BY <2>0 DEF BldShape, HeldAt, InterruptedAndRemoved, BoxStops, BoxRunning,
       PackedPcs, BoxlessPcs
  <2>2. MadeAt(c)'
    BY <2>0 DEF BldShape, MadeAt, InterruptedAndRemoved, BoxStops
  <2>3. CheckedAt(c)'
    BY <2>0 DEF BldShape, CheckedAt, InterruptedAndRemoved, PackedPcs
  <2>4. AskedAt(c)'
    BY <2>0 DEF BuiltAt, HeldAt, AskedAt, InterruptedAndRemoved
  <2>5. ASSUME NEW d \in Builds \ {c} PROVE BuiltAt(d)'
    <3>1. /\ bldPc'[d] = bldPc[d] /\ bldPlan'[d] = bldPlan[d] /\ bldBox'[d] = bldBox[d]
          /\ bldOut'[d] = bldOut[d] /\ bldSeen'[d] = bldSeen[d]
          /\ bldPublished'[d] = bldPublished[d]
      BY <2>0 DEF BldShape, InterruptedAndRemoved, BoxStops
    <3>2. bldLock = d => bldLock' = d
      BY DEF InterruptedAndRemoved, BuildAssumption, Unlocked
    <3>3. bldLock # d \/ UNCHANGED <<bldTree, bldDebs>>
      BY <2>0 DEF BuiltAt, HeldAt, InterruptedAndRemoved, BoxRunning
    <3>. QED
      BY <2>0, <3>1, <3>2, <3>3, BuiltElsewhere
  <2>. QED
    BY <2>1, <2>2, <2>3, <2>4, <2>5 DEF BuiltAt
<1>3. bldStray => bldStray'
  BY DEF InterruptedAndRemoved
<1>. QED
  BY <1>1, <1>2, <1>3 DEF BuiltInv

LEMMA BuiltInterruptedNotRemoved ==
  ASSUME BuiltInv, BuildAssumption, NEW c \in Builds, InterruptedNotRemoved(c)
  PROVE  BuiltInv'
<1>. USE DEF BldResult, BldVolume, ReleaseLock, LockOwned, BldFault
<1>1. BldShape'
  BY DEF BuiltInv, BldShape, InterruptedNotRemoved, BuildFields
<1>2. bldStray \/ bldStray' \/ \A d \in Builds : BuiltAt(d)'
  <2>. SUFFICES ASSUME ~bldStray, ~bldStray' PROVE \A d \in Builds : BuiltAt(d)'
    OBVIOUS
  <2>0. BuiltAt(c) /\ BldShape /\ bldAsk' = bldAsk
    BY DEF BuiltInv, InterruptedNotRemoved
  <2>1. HeldAt(c)'
    BY <2>0 DEF BldShape, BuiltAt, HeldAt, InterruptedNotRemoved, BoxRunning, PackedPcs,
       BoxlessPcs
  <2>2. MadeAt(c)'
    BY <2>0 DEF InterruptedNotRemoved
  <2>3. CheckedAt(c)'
    BY <2>0 DEF InterruptedNotRemoved
  <2>4. AskedAt(c)'
    BY <2>0 DEF InterruptedNotRemoved
  <2>5. ASSUME NEW d \in Builds \ {c} PROVE BuiltAt(d)'
    <3>1. /\ bldPc'[d] = bldPc[d] /\ bldPlan'[d] = bldPlan[d] /\ bldBox'[d] = bldBox[d]
          /\ bldOut'[d] = bldOut[d] /\ bldSeen'[d] = bldSeen[d]
          /\ bldPublished'[d] = bldPublished[d]
      BY <2>0 DEF BldShape, InterruptedNotRemoved
    <3>2. bldLock = d => bldLock' = d
      BY DEF InterruptedNotRemoved, BuildAssumption, Unlocked
    <3>3. bldLock # d \/ UNCHANGED <<bldTree, bldDebs>>
      BY <2>0 DEF BuiltAt, HeldAt, InterruptedNotRemoved, BoxRunning
    <3>. QED
      BY <2>0, <3>1, <3>2, <3>3, BuiltElsewhere
  <2>. QED
    BY <2>1, <2>2, <2>3, <2>4, <2>5 DEF BuiltAt
<1>3. bldStray => bldStray'
  BY DEF InterruptedNotRemoved
<1>. QED
  BY <1>1, <1>2, <1>3 DEF BuiltInv

LEMMA BuiltReadProvenance ==
  ASSUME BuiltInv, BuildAssumption, NEW c \in Builds, ReadProvenance(c)
  PROVE  BuiltInv'
<1>. USE DEF BldTo, BldResult, BldVolume
<1>1. BldShape'
  BY DEF BuiltInv, BldShape, ReadProvenance, ProvenanceAgrees, AccountReadable,
     BuildFields
<1>2. bldStray \/ bldStray' \/ \A d \in Builds : BuiltAt(d)'
  <2>. SUFFICES ASSUME ~bldStray, ~bldStray' PROVE \A d \in Builds : BuiltAt(d)'
    OBVIOUS
  <2>0. BuiltAt(c) /\ BldShape /\ bldAsk' = bldAsk
    BY DEF BuiltInv, ReadProvenance
  <2>1. HeldAt(c)'
    BY <2>0 DEF BuiltAt, HeldAt, ReadProvenance, BoxlessPcs
  <2>2. MadeAt(c)'
    BY <2>0 DEF BuiltAt, MadeAt, IsLocal, RecipeAccepts, ReadProvenance
  <2>3. CheckedAt(c)'
    BY <2>0 DEF BldShape, BuiltAt, MadeAt, CheckedAt, ReadProvenance, ProvenanceAgrees,
       AccountReadable, Flaws, RecipeAccepts, RolesMatch, ScriptsReviewed,
       SectionsBounded, TreesPaired, ToolsIdentified, SelectorsKnown
  <2>4. AskedAt(c)'
    BY <2>0 DEF BuiltAt, HeldAt, AskedAt, ReadProvenance
  <2>5. ASSUME NEW d \in Builds \ {c} PROVE BuiltAt(d)'
    <3>1. /\ bldPc'[d] = bldPc[d] /\ bldPlan'[d] = bldPlan[d] /\ bldBox'[d] = bldBox[d]
          /\ bldOut'[d] = bldOut[d] /\ bldSeen'[d] = bldSeen[d]
          /\ bldPublished'[d] = bldPublished[d]
      BY <2>0 DEF BldShape, ReadProvenance, ProvenanceAgrees, AccountReadable
    <3>2. bldLock = d => bldLock' = d
      BY DEF ReadProvenance, BuildAssumption, Unlocked
    <3>3. bldLock # d \/ UNCHANGED <<bldTree, bldDebs>>
      BY <2>0 DEF BuiltAt, HeldAt, ReadProvenance, BoxRunning
    <3>. QED
      BY <2>0, <3>1, <3>2, <3>3, BuiltElsewhere
  <2>. QED
    BY <2>1, <2>2, <2>3, <2>4, <2>5 DEF BuiltAt
<1>3. bldStray => bldStray'
  BY DEF ReadProvenance
<1>. QED
  BY <1>1, <1>2, <1>3 DEF BuiltInv

LEMMA BuiltProvenanceDiffers ==
  ASSUME BuiltInv, BuildAssumption, NEW c \in Builds, ProvenanceDiffers(c)
  PROVE  BuiltInv'
<1>. USE DEF BldResult, BldVolume, ReleaseLock, LockOwned
<1>1. BldShape'
  BY DEF BuiltInv, BldShape, ProvenanceDiffers, BuildFields
<1>2. bldStray \/ bldStray' \/ \A d \in Builds : BuiltAt(d)'
  <2>. SUFFICES ASSUME ~bldStray, ~bldStray' PROVE \A d \in Builds : BuiltAt(d)'
    OBVIOUS
  <2>0. BuiltAt(c) /\ BldShape /\ bldAsk' = bldAsk
    BY DEF BuiltInv, ProvenanceDiffers
  <2>1. HeldAt(c)'
    BY <2>0 DEF BldShape, BuiltAt, HeldAt, ProvenanceDiffers, BoxRunning, PackedPcs,
       BoxlessPcs
  <2>2. MadeAt(c)'
    BY <2>0 DEF BuiltAt, MadeAt, IsLocal, RecipeAccepts, ProvenanceDiffers
  <2>3. CheckedAt(c)'
    BY <2>0 DEF BldShape, CheckedAt, ProvenanceDiffers, PackedPcs
  <2>4. AskedAt(c)'
    BY <2>0 DEF BuiltAt, HeldAt, AskedAt, ProvenanceDiffers
  <2>5. ASSUME NEW d \in Builds \ {c} PROVE BuiltAt(d)'
    <3>1. /\ bldPc'[d] = bldPc[d] /\ bldPlan'[d] = bldPlan[d] /\ bldBox'[d] = bldBox[d]
          /\ bldOut'[d] = bldOut[d] /\ bldSeen'[d] = bldSeen[d]
          /\ bldPublished'[d] = bldPublished[d]
      BY <2>0 DEF BldShape, ProvenanceDiffers
    <3>2. bldLock = d => bldLock' = d
      BY DEF ProvenanceDiffers, BuildAssumption, Unlocked
    <3>3. bldLock # d \/ UNCHANGED <<bldTree, bldDebs>>
      BY <2>0 DEF BuiltAt, HeldAt, ProvenanceDiffers, BoxRunning
    <3>. QED
      BY <2>0, <3>1, <3>2, <3>3, BuiltElsewhere
  <2>. QED
    BY <2>1, <2>2, <2>3, <2>4, <2>5 DEF BuiltAt
<1>3. bldStray => bldStray'
  BY DEF ProvenanceDiffers
<1>. QED
  BY <1>1, <1>2, <1>3 DEF BuiltInv

LEMMA BuiltPrepareBootSupport ==
  ASSUME BuiltInv, BuildAssumption, NEW c \in Builds, PrepareBootSupport(c)
  PROVE  BuiltInv'
<1>. USE DEF BldTo, BldResult, BldVolume
<1>1. BldShape'
  BY DEF BuiltInv, BldShape, PrepareBootSupport, BuildFields
<1>2. bldStray \/ bldStray' \/ \A d \in Builds : BuiltAt(d)'
  <2>. SUFFICES ASSUME ~bldStray, ~bldStray' PROVE \A d \in Builds : BuiltAt(d)'
    OBVIOUS
  <2>0. BuiltAt(c) /\ BldShape /\ bldAsk' = bldAsk
    BY DEF BuiltInv, PrepareBootSupport
  <2>1. HeldAt(c)'
    BY <2>0 DEF BldShape, BuiltAt, HeldAt, PrepareBootSupport, BoxRunning, PackedPcs,
       BoxlessPcs
  <2>2. MadeAt(c)'
    BY <2>0 DEF BuiltAt, MadeAt, IsLocal, RecipeAccepts, PrepareBootSupport, RolesMatch,
       ScriptsReviewed, DeliveryMatches, SectionsBounded, TreesPaired,
       VariantsDeclared, ToolsIdentified, SelectorsKnown
  <2>3. CheckedAt(c)'
    BY <2>0 DEF BldShape, BuiltAt, CheckedAt, PrepareBootSupport, PackedPcs, BuildFields
  <2>4. AskedAt(c)'
    BY <2>0 DEF BuiltAt, AskedAt, IsLocal, PrepareBootSupport
  <2>5. ASSUME NEW d \in Builds \ {c} PROVE BuiltAt(d)'
    <3>1. /\ bldPc'[d] = bldPc[d] /\ bldPlan'[d] = bldPlan[d] /\ bldBox'[d] = bldBox[d]
          /\ bldOut'[d] = bldOut[d] /\ bldSeen'[d] = bldSeen[d]
          /\ bldPublished'[d] = bldPublished[d]
      BY <2>0 DEF BldShape, PrepareBootSupport
    <3>2. bldLock = d => bldLock' = d
      BY DEF PrepareBootSupport, BuildAssumption, Unlocked
    <3>3. bldLock # d \/ UNCHANGED <<bldTree, bldDebs>>
      BY <2>0 DEF BuiltAt, HeldAt, PrepareBootSupport, BoxRunning
    <3>. QED
      BY <2>0, <3>1, <3>2, <3>3, BuiltElsewhere
  <2>. QED
    BY <2>1, <2>2, <2>3, <2>4, <2>5 DEF BuiltAt
<1>3. bldStray => bldStray'
  BY DEF PrepareBootSupport
<1>. QED
  BY <1>1, <1>2, <1>3 DEF BuiltInv

LEMMA BuiltInspectArtifacts ==
  ASSUME BuiltInv, BuildAssumption, NEW c \in Builds, InspectArtifacts(c)
  PROVE  BuiltInv'
<1>. USE DEF BldTo, BldVolume
<1>1. BldShape'
  BY DEF BuiltInv, BldShape, InspectArtifacts, BuildFields
<1>2. bldStray \/ bldStray' \/ \A d \in Builds : BuiltAt(d)'
  <2>. SUFFICES ASSUME ~bldStray, ~bldStray' PROVE \A d \in Builds : BuiltAt(d)'
    OBVIOUS
  <2>0. BuiltAt(c) /\ BldShape /\ bldAsk' = bldAsk
    BY DEF BuiltInv, InspectArtifacts
  <2>1. HeldAt(c)'
    BY <2>0 DEF BldShape, BuiltAt, HeldAt, InspectArtifacts, BoxRunning, PackedPcs,
       BoxlessPcs
  <2>2. MadeAt(c)'
    BY <2>0 DEF BuiltAt, MadeAt, IsLocal, RecipeAccepts, InspectArtifacts
  <2>3. CheckedAt(c)'
    BY <2>0 DEF BldShape, BuiltAt, HeldAt, CheckedAt, InspectArtifacts, PackedPcs
  <2>4. AskedAt(c)'
    BY <2>0 DEF BuiltAt, AskedAt, IsLocal, InspectArtifacts
  <2>5. ASSUME NEW d \in Builds \ {c} PROVE BuiltAt(d)'
    <3>1. /\ bldPc'[d] = bldPc[d] /\ bldPlan'[d] = bldPlan[d] /\ bldBox'[d] = bldBox[d]
          /\ bldOut'[d] = bldOut[d] /\ bldSeen'[d] = bldSeen[d]
          /\ bldPublished'[d] = bldPublished[d]
      BY <2>0 DEF BldShape, InspectArtifacts
    <3>2. bldLock = d => bldLock' = d
      BY DEF InspectArtifacts, BuildAssumption, Unlocked
    <3>3. bldLock # d \/ UNCHANGED <<bldTree, bldDebs>>
      BY <2>0 DEF BuiltAt, HeldAt, InspectArtifacts, BoxRunning
    <3>. QED
      BY <2>0, <3>1, <3>2, <3>3, BuiltElsewhere
  <2>. QED
    BY <2>1, <2>2, <2>3, <2>4, <2>5 DEF BuiltAt
<1>3. bldStray => bldStray'
  BY DEF InspectArtifacts
<1>. QED
  BY <1>1, <1>2, <1>3 DEF BuiltInv

LEMMA BuiltEditTransaction ==
  ASSUME BuiltInv, BuildAssumption, NEW c \in Builds, EditTransaction(c)
  PROVE  BuiltInv'
<1>. USE DEF BldResult, BldVolume, BldFault
<1>1. BldShape'
  BY DEF BuiltInv, BldShape, EditTransaction, BuildFields
<1>2. bldStray \/ bldStray' \/ \A d \in Builds : BuiltAt(d)'
  <2>. SUFFICES ASSUME ~bldStray, ~bldStray' PROVE \A d \in Builds : BuiltAt(d)'
    OBVIOUS
  <2>0. BuiltAt(c) /\ BldShape /\ bldAsk' = bldAsk
    BY DEF BuiltInv, EditTransaction
  <2>1. HeldAt(c)'
    BY <2>0 DEF BldShape, BuiltAt, HeldAt, EditTransaction, BoxRunning, PackedPcs,
       BoxlessPcs
  <2>2. MadeAt(c)'
    BY <2>0 DEF BuiltAt, HeldAt, MadeAt, IsLocal, RecipeAccepts, EditTransaction,
       PackedPcs, RolesMatch, ScriptsReviewed, DeliveryMatches, SectionsBounded,
       TreesPaired, VariantsDeclared, ToolsIdentified, SelectorsKnown
  <2>3. CheckedAt(c)'
    BY <2>0 DEF BuiltAt, CheckedAt, EditTransaction
  <2>4. AskedAt(c)'
    BY <2>0 DEF BuiltAt, AskedAt, IsLocal, EditTransaction
  <2>5. ASSUME NEW d \in Builds \ {c} PROVE BuiltAt(d)'
    <3>1. /\ bldPc'[d] = bldPc[d] /\ bldPlan'[d] = bldPlan[d] /\ bldBox'[d] = bldBox[d]
          /\ bldOut'[d] = bldOut[d] /\ bldSeen'[d] = bldSeen[d]
          /\ bldPublished'[d] = bldPublished[d]
      BY <2>0 DEF BldShape, EditTransaction
    <3>2. bldLock = d => bldLock' = d
      BY DEF EditTransaction, BuildAssumption, Unlocked
    <3>3. bldLock # d \/ UNCHANGED <<bldTree, bldDebs>>
      BY <2>0 DEF BuiltAt, HeldAt, EditTransaction, BoxRunning
    <3>. QED
      BY <2>0, <3>1, <3>2, <3>3, BuiltElsewhere
  <2>. QED
    BY <2>1, <2>2, <2>3, <2>4, <2>5 DEF BuiltAt
<1>3. bldStray => bldStray'
  BY DEF EditTransaction
<1>. QED
  BY <1>1, <1>2, <1>3 DEF BuiltInv

LEMMA BuiltPublishArtifacts ==
  ASSUME BuiltInv, BuildAssumption, NEW c \in Builds, PublishArtifacts(c)
  PROVE  BuiltInv'
<1>. USE DEF BldTo, BldVolume
<1>1. BldShape'
  BY DEF BuiltInv, BldShape, PublishArtifacts, CopyVerified, BuildFields
<1>2. bldStray \/ bldStray' \/ \A d \in Builds : BuiltAt(d)'
  <2>. SUFFICES ASSUME ~bldStray, ~bldStray' PROVE \A d \in Builds : BuiltAt(d)'
    OBVIOUS
  <2>0. BuiltAt(c) /\ BldShape /\ bldAsk' = bldAsk
    BY DEF BuiltInv, PublishArtifacts
  <2>1. HeldAt(c)'
    BY <2>0 DEF BldShape, BuiltAt, HeldAt, PublishArtifacts, PackedPcs, BoxlessPcs
  <2>2. MadeAt(c)'
    BY <2>0 DEF BuiltAt, MadeAt, IsLocal, RecipeAccepts, PublishArtifacts
  <2>3. CheckedAt(c)'
    BY <2>0 DEF BldShape, CheckedAt, PublishArtifacts, PackedPcs
  <2>4. AskedAt(c)'
    BY <2>0 DEF BuiltAt, HeldAt, MadeAt, CheckedAt, AskedAt, IsLocal, PublishArtifacts,
       CopyVerified, PackedPcs, RecipeAccepts
  <2>5. ASSUME NEW d \in Builds \ {c} PROVE BuiltAt(d)'
    <3>1. /\ bldPc'[d] = bldPc[d] /\ bldPlan'[d] = bldPlan[d] /\ bldBox'[d] = bldBox[d]
          /\ bldOut'[d] = bldOut[d] /\ bldSeen'[d] = bldSeen[d]
          /\ bldPublished'[d] = bldPublished[d]
      BY <2>0 DEF BldShape, PublishArtifacts, CopyVerified
    <3>2. bldLock = d => bldLock' = d
      BY DEF PublishArtifacts, BuildAssumption, Unlocked
    <3>3. bldLock # d \/ UNCHANGED <<bldTree, bldDebs>>
      BY <2>0 DEF BuiltAt, HeldAt, PublishArtifacts, BoxRunning
    <3>. QED
      BY <2>0, <3>1, <3>2, <3>3, BuiltElsewhere
  <2>. QED
    BY <2>1, <2>2, <2>3, <2>4, <2>5 DEF BuiltAt
<1>3. bldStray => bldStray'
  BY DEF PublishArtifacts
<1>. QED
  BY <1>1, <1>2, <1>3 DEF BuiltInv

LEMMA BuiltPackageChanged ==
  ASSUME BuiltInv, BuildAssumption, NEW c \in Builds, PackageChanged(c)
  PROVE  BuiltInv'
<1>. USE DEF BldResult, BldVolume, ReleaseLock, LockOwned
<1>1. BldShape'
  BY DEF BuiltInv, BldShape, PackageChanged, BuildFields
<1>2. bldStray \/ bldStray' \/ \A d \in Builds : BuiltAt(d)'
  <2>. SUFFICES ASSUME ~bldStray, ~bldStray' PROVE \A d \in Builds : BuiltAt(d)'
    OBVIOUS
  <2>0. BuiltAt(c) /\ BldShape /\ bldAsk' = bldAsk
    BY DEF BuiltInv, PackageChanged
  <2>1. HeldAt(c)'
    BY <2>0 DEF BldShape, BuiltAt, HeldAt, PackageChanged, BoxRunning, PackedPcs,
       BoxlessPcs
  <2>2. MadeAt(c)'
    BY <2>0 DEF BuiltAt, MadeAt, IsLocal, RecipeAccepts, PackageChanged
  <2>3. CheckedAt(c)'
    BY <2>0 DEF BldShape, CheckedAt, PackageChanged, PackedPcs
  <2>4. AskedAt(c)'
    BY <2>0 DEF BuiltAt, AskedAt, IsLocal, PackageChanged
  <2>5. ASSUME NEW d \in Builds \ {c} PROVE BuiltAt(d)'
    <3>1. /\ bldPc'[d] = bldPc[d] /\ bldPlan'[d] = bldPlan[d] /\ bldBox'[d] = bldBox[d]
          /\ bldOut'[d] = bldOut[d] /\ bldSeen'[d] = bldSeen[d]
          /\ bldPublished'[d] = bldPublished[d]
      BY <2>0 DEF BldShape, PackageChanged
    <3>2. bldLock = d => bldLock' = d
      BY DEF PackageChanged, BuildAssumption, Unlocked
    <3>3. bldLock # d \/ UNCHANGED <<bldTree, bldDebs>>
      BY <2>0 DEF BuiltAt, HeldAt, PackageChanged, BoxRunning
    <3>. QED
      BY <2>0, <3>1, <3>2, <3>3, BuiltElsewhere
  <2>. QED
    BY <2>1, <2>2, <2>3, <2>4, <2>5 DEF BuiltAt
<1>3. bldStray => bldStray'
  BY DEF PackageChanged
<1>. QED
  BY <1>1, <1>2, <1>3 DEF BuiltInv

LEMMA BuiltBldReturn ==
  ASSUME BuiltInv, BuildAssumption, NEW c \in Builds, BldReturn(c)
  PROVE  BuiltInv'
<1>. USE DEF BldResult, BldVolume, ReleaseLock, LockOwned
<1>1. BldShape'
  BY DEF BuiltInv, BldShape, BldReturn, BuildFields
<1>2. bldStray \/ bldStray' \/ \A d \in Builds : BuiltAt(d)'
  <2>. SUFFICES ASSUME ~bldStray, ~bldStray' PROVE \A d \in Builds : BuiltAt(d)'
    OBVIOUS
  <2>0. BuiltAt(c) /\ BldShape /\ bldAsk' = bldAsk
    BY DEF BuiltInv, BldReturn
  <2>1. HeldAt(c)'
    BY <2>0 DEF BldShape, BuiltAt, HeldAt, BldReturn, BoxRunning, PackedPcs, BoxlessPcs
  <2>2. MadeAt(c)'
    BY <2>0 DEF BuiltAt, MadeAt, IsLocal, RecipeAccepts, BldReturn
  <2>3. CheckedAt(c)'
    BY <2>0 DEF CheckedAt, BldReturn, PackedPcs
  <2>4. AskedAt(c)'
    BY <2>0 DEF BuiltAt, AskedAt, IsLocal, BldReturn
  <2>5. ASSUME NEW d \in Builds \ {c} PROVE BuiltAt(d)'
    <3>1. /\ bldPc'[d] = bldPc[d] /\ bldPlan'[d] = bldPlan[d] /\ bldBox'[d] = bldBox[d]
          /\ bldOut'[d] = bldOut[d] /\ bldSeen'[d] = bldSeen[d]
          /\ bldPublished'[d] = bldPublished[d]
      BY <2>0 DEF BldShape, BldReturn
    <3>2. bldLock = d => bldLock' = d
      BY DEF BldReturn, BuildAssumption, Unlocked
    <3>3. bldLock # d \/ UNCHANGED <<bldTree, bldDebs>>
      BY <2>0 DEF BuiltAt, HeldAt, BldReturn, BoxRunning
    <3>. QED
      BY <2>0, <3>1, <3>2, <3>3, BuiltElsewhere
  <2>. QED
    BY <2>1, <2>2, <2>3, <2>4, <2>5 DEF BuiltAt
<1>3. bldStray => bldStray'
  BY DEF BldReturn
<1>. QED
  BY <1>1, <1>2, <1>3 DEF BuiltInv

LEMMA BuiltBldError ==
  ASSUME BuiltInv, BuildAssumption, NEW c \in Builds, BldError(c)
  PROVE  BuiltInv'
<1>. USE DEF BldResult, BldVolume, ReleaseLock, LockOwned, BldFault
<1>1. BldShape'
  BY DEF BuiltInv, BldShape, BldError, BuildFields
<1>2. bldStray \/ bldStray' \/ \A d \in Builds : BuiltAt(d)'
  <2>. SUFFICES ASSUME ~bldStray, ~bldStray' PROVE \A d \in Builds : BuiltAt(d)'
    OBVIOUS
  <2>0. BuiltAt(c) /\ BldShape /\ bldAsk' = bldAsk
    BY DEF BuiltInv, BldError
  <2>1. HeldAt(c)'
    BY <2>0 DEF BldShape, BuiltAt, HeldAt, BldError, BoxRunning, PackedPcs, BoxlessPcs
  <2>2. MadeAt(c)'
    BY <2>0 DEF BuiltAt, MadeAt, IsLocal, RecipeAccepts, BldError
  <2>3. CheckedAt(c)'
    BY <2>0 DEF BldShape, CheckedAt, BldError, PackedPcs
  <2>4. AskedAt(c)'
    BY <2>0 DEF BuiltAt, AskedAt, IsLocal, BldError
  <2>5. ASSUME NEW d \in Builds \ {c} PROVE BuiltAt(d)'
    <3>1. /\ bldPc'[d] = bldPc[d] /\ bldPlan'[d] = bldPlan[d] /\ bldBox'[d] = bldBox[d]
          /\ bldOut'[d] = bldOut[d] /\ bldSeen'[d] = bldSeen[d]
          /\ bldPublished'[d] = bldPublished[d]
      BY <2>0 DEF BldShape, BldError
    <3>2. bldLock = d => bldLock' = d
      BY DEF BldError, BuildAssumption, Unlocked
    <3>3. bldLock # d \/ UNCHANGED <<bldTree, bldDebs>>
      BY <2>0 DEF BuiltAt, HeldAt, BldError, BoxRunning
    <3>. QED
      BY <2>0, <3>1, <3>2, <3>3, BuiltElsewhere
  <2>. QED
    BY <2>1, <2>2, <2>3, <2>4, <2>5 DEF BuiltAt
<1>3. bldStray => bldStray'
  BY DEF BldError
<1>. QED
  BY <1>1, <1>2, <1>3 DEF BuiltInv

LEMMA BuiltBldKill ==
  ASSUME BuiltInv, BuildAssumption, NEW c \in Builds, BldKill(c)
  PROVE  BuiltInv'
<1>. USE DEF BldResult, BldVolume, BldFault
<1>1. BldShape'
  BY DEF BuiltInv, BldShape, BldKill, BuildFields
<1>2. bldStray \/ bldStray' \/ \A d \in Builds : BuiltAt(d)'
  <2>. SUFFICES ASSUME ~bldStray, ~bldStray' PROVE \A d \in Builds : BuiltAt(d)'
    OBVIOUS
  <2>0. BuiltAt(c) /\ BldShape /\ bldAsk' = bldAsk
    BY DEF BuiltInv, BldKill
  <2>1. HeldAt(c)'
    BY <2>0 DEF BldShape, BuiltAt, HeldAt, BldKill, BoxRunning, PackedPcs, BoxlessPcs
  <2>2. MadeAt(c)'
    BY <2>0 DEF BuiltAt, MadeAt, IsLocal, RecipeAccepts, BldKill
  <2>3. CheckedAt(c)'
    BY <2>0 DEF BldShape, CheckedAt, BldKill, PackedPcs
  <2>4. AskedAt(c)'
    BY <2>0 DEF BuiltAt, AskedAt, IsLocal, BldKill
  <2>5. ASSUME NEW d \in Builds \ {c} PROVE BuiltAt(d)'
    <3>1. /\ bldPc'[d] = bldPc[d] /\ bldPlan'[d] = bldPlan[d] /\ bldBox'[d] = bldBox[d]
          /\ bldOut'[d] = bldOut[d] /\ bldSeen'[d] = bldSeen[d]
          /\ bldPublished'[d] = bldPublished[d]
      BY <2>0 DEF BldShape, BldKill
    <3>2. bldLock = d => bldLock' = d
      BY DEF BldKill, BuildAssumption, Unlocked
    <3>3. bldLock # d \/ UNCHANGED <<bldTree, bldDebs>>
      BY <2>0 DEF BuiltAt, HeldAt, BldKill, BoxRunning
    <3>. QED
      BY <2>0, <3>1, <3>2, <3>3, BuiltElsewhere
  <2>. QED
    BY <2>1, <2>2, <2>3, <2>4, <2>5 DEF BuiltAt
<1>3. bldStray => bldStray'
  BY DEF BldKill
<1>. QED
  BY <1>1, <1>2, <1>3 DEF BuiltInv

LEMMA BuiltRemoveStaleLock ==
  ASSUME BuiltInv, BuildAssumption, NEW c \in Builds, RemoveStaleLock(c)
  PROVE  BuiltInv'
<1>. USE DEF BldResult, BldVolume
<1>1. BldShape'
  BY DEF BuiltInv, BldShape, RemoveStaleLock, BuildFields
<1>2. bldStray \/ bldStray' \/ \A d \in Builds : BuiltAt(d)'
  <2>. SUFFICES ASSUME ~bldStray, ~bldStray' PROVE \A d \in Builds : BuiltAt(d)'
    OBVIOUS
  <2>0. BuiltAt(c) /\ BldShape /\ bldAsk' = bldAsk
    BY DEF BuiltInv, RemoveStaleLock
  <2>1. HeldAt(c)'
    BY <2>0 DEF BldShape, BuiltAt, HeldAt, RemoveStaleLock, BoxRunning, PackedPcs,
       BoxlessPcs
  <2>2. MadeAt(c)'
    BY <2>0 DEF BuiltAt, MadeAt, IsLocal, RecipeAccepts, RemoveStaleLock
  <2>3. CheckedAt(c)'
    BY <2>0 DEF BuiltAt, CheckedAt, RemoveStaleLock
  <2>4. AskedAt(c)'
    BY <2>0 DEF BuiltAt, AskedAt, IsLocal, RemoveStaleLock
  <2>5. ASSUME NEW d \in Builds \ {c} PROVE BuiltAt(d)'
    <3>1. /\ bldPc'[d] = bldPc[d] /\ bldPlan'[d] = bldPlan[d] /\ bldBox'[d] = bldBox[d]
          /\ bldOut'[d] = bldOut[d] /\ bldSeen'[d] = bldSeen[d]
          /\ bldPublished'[d] = bldPublished[d]
      BY <2>0 DEF BldShape, RemoveStaleLock
    <3>2. bldLock = d => bldLock' = d
      BY DEF RemoveStaleLock, BuildAssumption, Unlocked
    <3>3. bldLock # d \/ UNCHANGED <<bldTree, bldDebs>>
      BY <2>0 DEF BuiltAt, HeldAt, RemoveStaleLock, BoxRunning
    <3>. QED
      BY <2>0, <3>1, <3>2, <3>3, BuiltElsewhere
  <2>. QED
    BY <2>1, <2>2, <2>3, <2>4, <2>5 DEF BuiltAt
<1>3. bldStray => bldStray'
  BY DEF RemoveStaleLock
<1>. QED
  BY <1>1, <1>2, <1>3 DEF BuiltInv

(* As long as no container outlives the lock, only its holder has the volume,*)
(* and what its recipe collects is of the commit it records (the lock and    *)
(* the recipe of internal/kernel/build).                                     *)
THEOREM BuildInvariant == BldSpec => []BuiltInv
<1>1. BldInit => BuiltInv
  <2>. SUFFICES ASSUME BldInit PROVE BuiltInv
    OBVIOUS
  <2>1. BldShape
    BY DEF BldInit, BldShape, BuildFields, NoOutput
  <2>2. ASSUME NEW c \in Builds PROVE BuiltAt(c)
    BY DEF BldInit, BuiltAt, HeldAt, MadeAt, CheckedAt, AskedAt, BoxRunning, PackedPcs
  <2>. QED
    BY <2>1, <2>2 DEF BuiltInv
<1>2. BuiltInv /\ [BldNext]_bldVars => BuiltInv'
  <2>. SUFFICES ASSUME BuiltInv, [BldNext]_bldVars PROVE BuiltInv'
    OBVIOUS
  <2>1. ASSUME NEW c \in Builds,
               BldBegin(c) \/ AcquireLock(c) \/ LockIsTaken(c) \/ CaptureSnapshot(c)
                 \/ SnapshotChanged(c) \/ EnsureWorkVolume(c) \/ RunContainer(c)
        PROVE  BuiltInv'
    BY <2>1, BuildAssumption, BuiltBldBegin, BuiltAcquireLock, BuiltLockIsTaken,
       BuiltCaptureSnapshot, BuiltSnapshotChanged, BuiltEnsureWorkVolume,
       BuiltRunContainer
  <2>2. ASSUME NEW c \in Builds,
               BoxSource(c) \/ SourceRefused(c) \/ BoxMake(c) \/ BoxCollect(c)
                 \/ BoxInspect(c) \/ BoxFails(c)
        PROVE  BuiltInv'
    BY <2>2, BuildAssumption, BuiltBoxSource, BuiltSourceRefused, BuiltBoxMake,
       BuiltBoxCollect, BuiltBoxInspect, BuiltBoxFails
  <2>3. ASSUME NEW c \in Builds,
               ContainerFailed(c) \/ InterruptedAndRemoved(c)
                 \/ InterruptedNotRemoved(c) \/ ReadProvenance(c)
                 \/ ProvenanceDiffers(c) \/ PrepareBootSupport(c)
                 \/ InspectArtifacts(c)
        PROVE  BuiltInv'
    BY <2>3, BuildAssumption, BuiltContainerFailed, BuiltInterruptedAndRemoved,
       BuiltInterruptedNotRemoved, BuiltReadProvenance, BuiltProvenanceDiffers,
       BuiltPrepareBootSupport, BuiltInspectArtifacts
  <2>4. ASSUME NEW c \in Builds,
               EditTransaction(c) \/ PublishArtifacts(c) \/ PackageChanged(c)
                 \/ BldReturn(c) \/ BldError(c) \/ BldKill(c) \/ RemoveStaleLock(c)
        PROVE  BuiltInv'
    BY <2>4, BuildAssumption, BuiltEditTransaction, BuiltPublishArtifacts,
       BuiltPackageChanged, BuiltBldReturn, BuiltBldError, BuiltBldKill,
       BuiltRemoveStaleLock
  <2>5. CASE PushCommit \/ UNCHANGED bldVars
    <3>1. UNCHANGED <<bldPc, bldAsk, bldPlan, bldBox, bldOut, bldSeen, bldPublished,
                      bldLock, bldTree, bldDebs, bldStray>>
      BY <2>5 DEF PushCommit, bldVars, BldResult, BldVolume
    <3>2. BldShape'
      BY <3>1 DEF BuiltInv, BldShape
    <3>3. ASSUME NEW c \in Builds, ~bldStray PROVE BuiltAt(c)'
      BY <3>1, <3>3, BuiltElsewhere
    <3>. QED
      BY <3>1, <3>2, <3>3 DEF BuiltInv
  <2>. QED
    BY <2>1, <2>2, <2>3, <2>4, <2>5 DEF BldNext
<1>. QED
  BY <1>1, <1>2, PTL DEF BldSpec

(* For any number of commands, commits and faults, and any requests: what is *)
(* published is of the commit planned and delivers device trees as asked,    *)
(* unless a container has outlived the lock (Build, internal/kernel/build).  *)
THEOREM BuiltAlwaysAsked == BldSpec => []BuiltIsAsked
<1>1. BuiltInv => BuiltIsAsked
  BY DEF BuiltInv, BuiltAt, AskedAt, BuiltIsAsked
<1>. QED
  BY <1>1, BuildInvariant, PTL

(* And a command that resets the source is not refused for what earlier ones *)
(* left in the volume (the recipe's --reset-source).                         *)
THEOREM ResetNeverRefused == BldSpec => []ResetAlwaysBuilds
<1>1. BuiltInv => ResetAlwaysBuilds
  BY DEF BuiltInv, BuiltAt, MadeAt, ResetAlwaysBuilds
<1>. QED
  BY <1>1, BuildInvariant, PTL

-----------------------------------------------------------------------------
(* The installation of userspace components.                                 *)

Queues == {<<"audio", "iptsd">>, <<"audio">>, <<"iptsd">>, <<"wifi">>, <<"camera">>}

Before  == {"select", "preflight", "plan"}
Changing    == {"check", "copy", "mask", "records", "receipt", "take back", "rollback"}

UsrShape ==
    /\ usrQueue \in Queues
    /\ usrPc = "take back" => Component = "iptsd"
    /\ usrPc = "prepare" => Component = "wifi"
    /\ usrPc \in {"receipt", "activate", "final"} => Component \in {"iptsd", "wifi"}
    /\ DOMAIN usrFile = 1 .. UsrTargets /\ DOMAIN usrBackup = 1 .. UsrTargets

(* From the end of the backups on there is one of every target, and of a     *)
(* Wi-Fi board a receipt.                                                    *)
SavedAt(i) ==
    /\ usrPc \in Before =>
          usrFile[i] = "none" /\ usrOriginal[i] = "none" /\ usrBackup[i] = "none"
    /\ usrBackup[i] \in {"none", usrOriginal[i]}
    /\ Transactional /\ usrPc \in Changing \cup {"prepare"} /\ i \in Targets =>
          usrBackup[i] = usrOriginal[i]
    /\ Transactional /\ i \in Targets /\ usrFile[i] = "new" /\ usrOriginal[i] # "new" =>
          /\ usrBackup[i] = usrOriginal[i]
          /\ Component = "wifi" => usrReceipt # "none"

SavedInv ==
    /\ UsrShape
    /\ Component = "wifi" /\ usrPc \in Changing => usrReceipt # "none"
    /\ \A i \in 1 .. UsrTargets : SavedAt(i)

(* A step that changes no target and no backup.                              *)
LEMMA SavedKept ==
  ASSUME SavedInv, UNCHANGED <<usrQueue, usrFile, usrOriginal, usrBackup>>,
         usrReceipt # "none" => usrReceipt' # "none",
         usrPc' \in Before => usrPc \in Before,
         usrPc' \in Changing \cup {"prepare"} => usrPc \in Changing \cup {"prepare"},
         usrPc' = "take back" => Component = "iptsd",
         usrPc' = "prepare" => usrPc = "prepare",
         usrPc' \in {"receipt", "activate", "final"} => Component \in {"iptsd", "wifi"},
         Component = "wifi" /\ usrPc' \in Changing => usrReceipt' # "none"
  PROVE  SavedInv'
<1>0. Component' = Component /\ Targets' = Targets /\ Transactional' = Transactional
  BY DEF Component, Targets, Transactional
<1>1. UsrShape'
  BY <1>0 DEF SavedInv, UsrShape
<1>2. ASSUME NEW i \in 1 .. UsrTargets PROVE SavedAt(i)'
  BY <1>0 DEF SavedInv, SavedAt
<1>. QED
  BY <1>0, <1>1, <1>2 DEF SavedInv
(* The first of the components, and what is left after it.                   *)
LEMMA QueuesFirst ==
  ASSUME NEW q \in Queues
  PROVE  /\ Head(q) \in {"audio", "iptsd", "wifi", "camera"}
         /\ Len(q) > 1 => q = <<"audio", "iptsd">> /\ Tail(q) = <<"iptsd">>
<1>1. CASE q = <<"audio", "iptsd">>
  <2>1. Head(q) = "audio"
    BY <1>1
  <2>2. Tail(q) = <<"iptsd">>
    BY <1>1
  <2>. QED
    BY <2>1, <2>2 DEF Queues
<1>2. CASE \E c \in {"audio", "iptsd", "wifi", "camera"} : q = <<c>>
  BY <1>2 DEF Queues
<1>. QED
  BY <1>1, <1>2 DEF Queues

(* Every step keeps what is saved.                                           *)
LEMMA SavedSteps ==
  ASSUME SavedInv, UserspaceAssumption, UsrNext
  PROVE  SavedInv'
<1>. USE DEF Planned, Copies, Masking, Kept, Outside, GoTo, End, UsrFail, FailInstalled,
             ReceiptWritten, ReceiptFails
<1>0. /\ Component \in {"audio", "iptsd", "wifi", "camera"}
      /\ \A i \in Targets : i \in 1 .. UsrTargets
  <2>1. Component \in {"audio", "iptsd", "wifi", "camera"}
    BY QueuesFirst DEF SavedInv, UsrShape, Component
  <2>2. \A i \in Targets : i \in 1 .. UsrTargets
    BY DEF Targets, UserspaceAssumption
  <2>. QED
    BY <2>1, <2>2
<1>1. CASE UsrSelect
  BY <1>1, SavedKept DEF UsrSelect, Before, Changing
<1>2. CASE UsrPreflight
  BY <1>2, SavedKept DEF UsrPreflight, Before, Changing
<1>3. CASE UsrPlan
  <2>1. PICK originals \in Originals(Component) :
            usrOriginal' = originals /\ usrFile' = originals
    BY <1>3 DEF UsrPlan
  <2>2. /\ usrPc = "plan" /\ usrPc' \in {"over", "activate", "copy", "backup"}
        /\ usrPc' = "copy" => Component = "camera"
        /\ usrPc' = "activate" => Component = "wifi"
        /\ UNCHANGED <<usrQueue, usrBackup>>
    BY <1>3 DEF UsrPlan
  <2>3. Component' = Component /\ Targets' = Targets /\ Transactional' = Transactional
    BY <2>2 DEF Component, Targets, Transactional
  <2>4. UsrShape'
    BY <2>1, <2>2, <2>3 DEF SavedInv, UsrShape, Originals
  <2>5. ASSUME NEW i \in 1 .. UsrTargets PROVE SavedAt(i)'
    BY <2>1, <2>2, <2>3 DEF SavedInv, SavedAt, Before, Changing, Transactional
  <2>. QED
    BY <2>2, <2>3, <2>4, <2>5 DEF SavedInv, Changing
<1>4. CASE UsrBackUp
  <2>1. PICK n : usrBackup' = [usrBackup EXCEPT ![n] = usrOriginal[n]] \/ usrBackup' = usrBackup
    BY <1>4 DEF UsrBackUp
  <2>2. /\ usrPc = "backup" /\ usrPc' \in {"backup", "over"}
        /\ UNCHANGED <<usrQueue, usrFile, usrOriginal, usrReceipt>>
    BY <1>4 DEF UsrBackUp
  <2>3. Component' = Component /\ Targets' = Targets /\ Transactional' = Transactional
    BY <2>2 DEF Component, Targets, Transactional
  <2>4. UsrShape'
    BY <2>1, <2>2, <2>3 DEF SavedInv, UsrShape
  <2>5. ASSUME NEW i \in 1 .. UsrTargets PROVE SavedAt(i)'
    <3>1. usrBackup'[i] \in {usrBackup[i], usrOriginal[i]}
      BY <2>1 DEF SavedInv, UsrShape
    <3>. QED
      BY <2>2, <2>3, <3>1 DEF SavedInv, SavedAt, Before, Changing
  <2>. QED
    BY <2>2, <2>3, <2>4, <2>5 DEF SavedInv, Changing
<1>5. CASE UsrBackedUp
  <2>1. /\ usrPc = "backup" /\ usrPc' = IF Component = "wifi" THEN "prepare" ELSE "check"
        /\ UNCHANGED <<usrQueue, usrFile, usrOriginal, usrBackup, usrReceipt>>
        /\ Unsaved = {}
    BY <1>5 DEF UsrBackedUp
  <2>2. Component' = Component /\ Targets' = Targets /\ Transactional' = Transactional
    BY <2>1 DEF Component, Targets, Transactional
  <2>3. UsrShape'
    BY <2>1, <2>2 DEF SavedInv, UsrShape
  <2>4. ASSUME NEW i \in 1 .. UsrTargets PROVE SavedAt(i)'
    <3>1. i \in Targets => usrBackup[i] = usrOriginal[i]
      BY <2>1 DEF SavedInv, SavedAt, Unsaved, Replaced
    <3>. QED
      BY <2>1, <2>2, <3>1 DEF SavedInv, SavedAt, Before, Changing
  <2>. QED
    BY <2>1, <2>2, <2>3, <2>4 DEF SavedInv, Changing
<1>6. CASE UsrPrepare
  BY <1>6, SavedKept DEF UsrPrepare, Before, Changing
<1>7. CASE UsrCheck
  BY <1>7, SavedKept DEF UsrCheck, Before, Changing, SavedInv
<1>8. CASE UsrCopy \/ UsrCopyFails
  <2>1. PICK c : usrFile' = [usrFile EXCEPT ![usrAt] = c] \/ usrFile' = usrFile
    BY <1>8 DEF UsrCopy, UsrCopyFails
  <2>2. /\ usrPc = "copy" /\ usrPc' \in Changing \ {"take back"}
        /\ UNCHANGED <<usrQueue, usrOriginal, usrBackup, usrReceipt>>
        /\ Component # "camera" /\ (usrPc' = "receipt" => Component = "wifi")
    <3>1. CASE UsrCopy
      BY <1>0, <3>1 DEF UsrCopy, AfterCopy, Changing
    <3>2. CASE UsrCopyFails
      BY <3>2 DEF UsrCopyFails, Changing
    <3>. QED
      BY <1>8, <3>1, <3>2
  <2>3. Component' = Component /\ Targets' = Targets /\ Transactional' = Transactional
    BY <2>2 DEF Component, Targets, Transactional
  <2>4. UsrShape'
    BY <2>1, <2>2, <2>3 DEF SavedInv, UsrShape, Changing
  <2>5. ASSUME NEW i \in 1 .. UsrTargets PROVE SavedAt(i)'
    <3>1. usrPc \in Changing /\ usrPc' \notin Before
      BY <2>2 DEF Changing, Before
    <3>2. Component = "wifi" => usrReceipt # "none"
      BY <3>1 DEF SavedInv
    <3>. QED
      BY <2>2, <2>3, <3>1, <3>2 DEF SavedInv, SavedAt
  <2>. QED
    BY <2>2, <2>3, <2>4, <2>5 DEF SavedInv, Changing
<1>9. CASE UsrApt
  <2>1. /\ usrPc = "copy" /\ usrPc' \in {"records", "over"} /\ Component = "camera"
        /\ DOMAIN usrFile' = 1 .. UsrTargets
        /\ UNCHANGED <<usrQueue, usrOriginal, usrBackup>>
    BY <1>9 DEF UsrApt, SavedInv, UsrShape
  <2>2. Component' = Component /\ Targets' = Targets /\ Transactional' = Transactional
    BY <2>1 DEF Component, Targets, Transactional
  <2>. QED
    BY <2>1, <2>2 DEF SavedInv, UsrShape, SavedAt, Transactional, Before, Changing
<1>10. CASE UsrMaskGeneric
  BY <1>10, SavedKept DEF UsrMaskGeneric, Before, Changing, SavedInv
<1>11. CASE UsrRecord
  BY <1>11, SavedKept DEF UsrRecord, Before, Changing, SavedInv
<1>12. CASE UsrReceipt
  BY <1>12, SavedKept DEF UsrReceipt, FirstReceipt, Before, Changing, SavedInv, UsrShape
<1>13. CASE UsrReceiptFails
  BY <1>13, SavedKept DEF UsrReceiptFails, FirstReceipt, AfterReceipt, Before, Changing,
     SavedInv
<1>14. CASE UsrTakeBackReceipt
  <2>1. /\ usrPc = "take back" /\ usrPc' = "rollback" /\ Component = "iptsd"
        /\ UNCHANGED <<usrQueue, usrFile, usrOriginal, usrBackup>>
    BY <1>14 DEF UsrTakeBackReceipt, SavedInv, UsrShape
  <2>2. Component' = Component /\ Targets' = Targets /\ Transactional' = Transactional
    BY <2>1 DEF Component, Targets, Transactional
  <2>. QED
    BY <2>1, <2>2 DEF SavedInv, UsrShape, SavedAt, Before, Changing
<1>15. CASE UsrActivate
  BY <1>15, SavedKept DEF UsrActivate, Before, Changing, SavedInv, UsrShape
<1>16. CASE UsrLastReceipt
  BY <1>16, SavedKept DEF UsrLastReceipt, LastReceipt, Before, Changing
<1>17. CASE UsrRemoveMask
  BY <1>17, SavedKept DEF UsrRemoveMask, Before, Changing, SavedInv
<1>18. CASE UsrRestore \/ UsrEdit
  <2>1. PICK n : \/ usrFile' = [usrFile EXCEPT ![n] = usrBackup[n]]
                 \/ usrFile' = [usrFile EXCEPT ![n] = "edited"] \/ usrFile' = usrFile
    BY <1>18 DEF UsrRestore, UsrEdit
  <2>2. /\ usrPc' = usrPc /\ usrPc \notin Before
        /\ UNCHANGED <<usrQueue, usrOriginal, usrBackup, usrReceipt>>
    BY <1>18 DEF UsrRestore, UsrEdit, Before
  <2>3. Component' = Component /\ Targets' = Targets /\ Transactional' = Transactional
    BY <2>2 DEF Component, Targets, Transactional
  <2>4. UsrShape'
    BY <2>1, <2>2, <2>3 DEF SavedInv, UsrShape
  <2>5. ASSUME NEW i \in 1 .. UsrTargets PROVE SavedAt(i)'
    <3>1. usrFile'[i] \in {usrFile[i], usrBackup[i], "edited"}
      BY <2>1 DEF SavedInv, UsrShape
    <3>. QED
      BY <2>2, <2>3, <3>1 DEF SavedInv, SavedAt
  <2>. QED
    BY <2>2, <2>3, <2>4, <2>5 DEF SavedInv
<1>19. CASE UsrRolledBack
  BY <1>19, SavedKept DEF UsrRolledBack, Before, Changing, SavedInv
<1>20. CASE UsrNextComponent
  <2>1. /\ usrPc' = "plan" /\ usrFile' = [i \in 1 .. UsrTargets |-> "none"]
        /\ usrOriginal' = usrFile' /\ usrBackup' = usrFile'
    BY <1>20 DEF UsrNextComponent
  <2>2. usrQueue' \in Queues
    BY <1>20, QueuesFirst DEF UsrNextComponent, SavedInv, UsrShape, Queues
  <2>. QED
    BY <2>1, <2>2 DEF SavedInv, UsrShape, SavedAt, Changing, Before
<1>21. CASE UsrKill
  BY <1>21, SavedKept DEF UsrKill, Before, Changing, SavedInv
<1>. QED
  BY <1>1, <1>2, <1>3, <1>4, <1>5, <1>6, <1>7, <1>8, <1>9, <1>10, <1>11, <1>12,
     <1>13, <1>14, <1>15, <1>16, <1>17, <1>18, <1>19, <1>20, <1>21 DEF UsrNext, UsrStep

(* For any number of targets, faults and edits, and at every moment of an    *)
(* installation, killed or not: an original that the component has replaced  *)
(* is in the private backup (the backups of internal/userspace/install).     *)
THEOREM OriginalsAlwaysSaved == UsrSpec => []OriginalsSaved
<1>1. UsrInit => SavedInv
  <2>. SUFFICES ASSUME UsrInit PROVE SavedInv
    OBVIOUS
  <2>1. usrQueue \in Queues
    BY DEF UsrInit, UsrRequests, Queues
  <2>. QED
    BY <2>1 DEF UsrInit, SavedInv, UsrShape, SavedAt, Changing, Before
<1>2. SavedInv /\ [UsrNext]_usrVars => SavedInv'
  <2>. SUFFICES ASSUME SavedInv, [UsrNext]_usrVars PROVE SavedInv'
    OBVIOUS
  <2>1. CASE UsrNext
    BY <2>1, SavedSteps, UserspaceAssumption
  <2>2. CASE UNCHANGED usrVars
    BY <2>2, SavedKept DEF usrVars, SavedInv, UsrShape
  <2>. QED
    BY <2>1, <2>2
<1>3. SavedInv => OriginalsSaved
  <2>1. \A i \in Targets : i \in 1 .. UsrTargets
    BY UserspaceAssumption DEF UserspaceAssumption, Targets
  <2>. QED
    BY <2>1 DEF SavedInv, SavedAt, OriginalsSaved
<1>. QED
  BY <1>1, <1>2, <1>3, PTL DEF UsrSpec
(* Where an installation is, and what of it a failure would have to undo.    *)
ResultIs == usrResult \in [installed : BOOLEAN, failed : BOOLEAN, left : BOOLEAN]

Early == Before \cup {"backup", "prepare"}

MaskFlow ==
    /\ Component # "iptsd" => ~usrMaskMade /\ usrPc \notin {"mask", "take back"}
    /\ usrPc \in Early \cup {"check", "copy", "mask"} => usrMaskMade = FALSE
    /\ usrPc \in Changing \cup {"backup", "prepare"} => usrMaskSeen \in {"none", "null"}
    /\ usrMask = "null" /\ usrMaskSeen # "null" => usrMaskMade \/ usrResult.left

(* A failure that reports nothing has nothing left to undo.                  *)
UndoneFlow ==
    /\ usrPc \in Early => usrApplied = {} /\ usrAt = 1
    /\ usrPc \in {"check", "copy"} => usrAt \in 1 .. UsrTargets
    /\ Component = "wifi" /\ usrPc \in {"check", "copy"} => usrApplied = {}
    /\ usrPc \in {"activate", "final"} => usrResult.installed
    /\ usrPc = "over" /\ Transactional /\ usrResult.failed /\ ~usrResult.installed
         /\ ~usrResult.left => usrApplied = {} /\ usrMaskMade = FALSE

ReceiptFlow ==
    /\ Component \in {"audio", "camera"} => usrReceipt = "none"
    /\ Component = "iptsd" =>
         /\ usrPc \in Early \cup {"check", "copy", "mask", "records", "receipt"} =>
               usrReceipt = "none"
         /\ usrPc = "rollback" /\ ~usrResult.left => usrReceipt = "none"
         /\ usrPc = "over" /\ usrResult.failed /\ ~usrResult.installed
              /\ ~usrResult.left => usrReceipt = "none"
         /\ usrReceipt = "activated" /\ usrRequest.live => usrActive

(* What is not to be restored is as it was; what is finished is in place.    *)
BackAt(i) ==
    Transactional /\ i \in Targets /\ ~usrResult.left /\ i \notin usrApplied =>
        usrFile[i] \in {usrOriginal[i], "edited"}

ThereAt(i) ==
    Component = "iptsd" /\ (\/ usrPc \in {"mask", "records", "receipt", "take back",
                                         "activate", "final"}
                            \/ usrPc \in {"check", "copy"} /\ i < usrAt
                            \/ usrReceipt # "none" /\ ~usrResult.left) =>
        usrFile[i] \in {"new", "edited"}

FlowInv ==
    /\ SavedInv /\ ResultIs /\ MaskFlow /\ UndoneFlow /\ ReceiptFlow
    /\ \A i \in 1 .. UsrTargets : BackAt(i) /\ ThereAt(i)

(* How many targets a component has.                                         *)
LEMMA TargetsCount ==
  ASSUME UserspaceAssumption
  PROVE  Cardinality(Targets) = IF Component = "wifi" THEN 1 ELSE UsrTargets
<1>1. Cardinality(1 .. UsrTargets) = UsrTargets
  BY FS_Interval DEF UserspaceAssumption
<1>2. Cardinality({1}) = 1
  BY FS_Singleton
<1>. QED
  BY <1>1, <1>2 DEF Targets

(* One lemma for every step.                                                 *)
LEMMA FlowSelect ==
  ASSUME FlowInv, UserspaceAssumption, UsrSelect
  PROVE  FlowInv'
<1>. USE DEF Planned, Copies, Masking, Kept, Outside, GoTo, UsrFail
<1>0. /\ SavedInv /\ ResultIs /\ UsrNext /\ UNCHANGED usrQueue
  BY DEF FlowInv, UsrNext, UsrStep, UsrSelect
<1>1. Component' = Component /\ Targets' = Targets /\ Transactional' = Transactional
  BY <1>0 DEF Component, Targets, Transactional
<1>2. Component \in {"audio", "iptsd", "wifi", "camera"} /\ DOMAIN usrFile = 1 .. UsrTargets
  BY <1>0, QueuesFirst DEF SavedInv, UsrShape, Component
<1>3. SavedInv'
  BY <1>0, SavedSteps
<1>4. ResultIs'
  BY <1>0 DEF ResultIs, UsrSelect
<1>5. MaskFlow'
  BY <1>0, <1>1, <1>2 DEF FlowInv, MaskFlow, ResultIs, UsrSelect, Before, Early,
     Changing
<1>6. UndoneFlow'
  BY <1>0, <1>1, <1>2 DEF FlowInv, MaskFlow, UndoneFlow, UsrSelect, Before, Early
<1>7. ReceiptFlow'
  BY <1>0, <1>1, <1>2 DEF FlowInv, ReceiptFlow, UsrSelect, Before, Early
<1>8. ASSUME NEW i \in 1 .. UsrTargets PROVE BackAt(i)'
  BY <1>0, <1>1, <1>2 DEF FlowInv, BackAt, ResultIs, UsrSelect
<1>9. ASSUME NEW i \in 1 .. UsrTargets PROVE ThereAt(i)'
  BY <1>0, <1>1, <1>2 DEF FlowInv, ThereAt, ReceiptFlow, UsrSelect, Before, Early
<1>. QED
  BY <1>3, <1>4, <1>5, <1>6, <1>7, <1>8, <1>9 DEF FlowInv

LEMMA FlowPreflight ==
  ASSUME FlowInv, UserspaceAssumption, UsrPreflight
  PROVE  FlowInv'
<1>. USE DEF Planned, Copies, Masking, Kept, Outside, GoTo, UsrFail
<1>0. /\ SavedInv /\ ResultIs /\ UsrNext /\ UNCHANGED usrQueue
  BY DEF FlowInv, UsrNext, UsrStep, UsrPreflight
<1>1. Component' = Component /\ Targets' = Targets /\ Transactional' = Transactional
  BY <1>0 DEF Component, Targets, Transactional
<1>2. Component \in {"audio", "iptsd", "wifi", "camera"} /\ DOMAIN usrFile = 1 .. UsrTargets
  BY <1>0, QueuesFirst DEF SavedInv, UsrShape, Component
<1>3. SavedInv'
  BY <1>0, SavedSteps
<1>4. ResultIs'
  BY <1>0 DEF ResultIs, UsrPreflight
<1>5. MaskFlow'
  BY <1>0, <1>1, <1>2 DEF FlowInv, MaskFlow, ResultIs, UsrPreflight, Before, Early,
     Changing
<1>6. UndoneFlow'
  BY <1>0, <1>1, <1>2 DEF FlowInv, MaskFlow, UndoneFlow, UsrPreflight, Before, Early
<1>7. ReceiptFlow'
  BY <1>0, <1>1, <1>2 DEF FlowInv, ReceiptFlow, UsrPreflight, Before, Early
<1>8. ASSUME NEW i \in 1 .. UsrTargets PROVE BackAt(i)'
  BY <1>0, <1>1, <1>2 DEF FlowInv, BackAt, ResultIs, UsrPreflight
<1>9. ASSUME NEW i \in 1 .. UsrTargets PROVE ThereAt(i)'
  BY <1>0, <1>1, <1>2 DEF FlowInv, ThereAt, ResultIs, UsrPreflight
<1>. QED
  BY <1>3, <1>4, <1>5, <1>6, <1>7, <1>8, <1>9 DEF FlowInv

LEMMA FlowPlan ==
  ASSUME FlowInv, UserspaceAssumption, UsrPlan
  PROVE  FlowInv'
<1>. USE DEF Kept, Outside, GoTo, End, UsrFail
<1>0. /\ SavedInv /\ ResultIs /\ UsrNext /\ UNCHANGED usrQueue
  BY DEF FlowInv, UsrNext, UsrStep, UsrPlan
<1>1. Component' = Component /\ Targets' = Targets /\ Transactional' = Transactional
  BY <1>0 DEF Component, Targets, Transactional
<1>2. Component \in {"audio", "iptsd", "wifi", "camera"} /\ DOMAIN usrFile = 1 .. UsrTargets
  BY <1>0, QueuesFirst DEF SavedInv, UsrShape, Component
<1>3. SavedInv'
  BY <1>0, SavedSteps
<1>4. ResultIs'
  BY <1>0 DEF ResultIs, UsrPlan, Originals, InspectMask
<1>5. MaskFlow'
  BY <1>0, <1>1, <1>2 DEF FlowInv, MaskFlow, UsrPlan, InspectMask, Before, Early,
     Changing
<1>6. UndoneFlow'
  BY <1>0, <1>1, <1>2 DEF FlowInv, MaskFlow, UndoneFlow, ResultIs, UsrPlan, Before,
     Early
<1>7. ReceiptFlow'
  BY <1>0, <1>1, <1>2 DEF FlowInv, ReceiptFlow, UsrPlan, Before, Early
<1>8. ASSUME NEW i \in 1 .. UsrTargets PROVE BackAt(i)'
  BY <1>0, <1>1, <1>2 DEF FlowInv, BackAt, ResultIs, UsrPlan, Originals, InspectMask
<1>9. ASSUME NEW i \in 1 .. UsrTargets PROVE ThereAt(i)'
  BY <1>0, <1>1, <1>2 DEF FlowInv, ThereAt, ReceiptFlow, UsrPlan, Before, Early
<1>. QED
  BY <1>3, <1>4, <1>5, <1>6, <1>7, <1>8, <1>9 DEF FlowInv

LEMMA FlowBackUp ==
  ASSUME FlowInv, UserspaceAssumption, UsrBackUp
  PROVE  FlowInv'
<1>. USE DEF Planned, Masking, Kept, Outside, UsrFail
<1>0. /\ SavedInv /\ ResultIs /\ UsrNext /\ UNCHANGED usrQueue
  BY DEF FlowInv, UsrNext, UsrStep, UsrBackUp
<1>1. Component' = Component /\ Targets' = Targets /\ Transactional' = Transactional
  BY <1>0 DEF Component, Targets, Transactional
<1>2. Component \in {"audio", "iptsd", "wifi", "camera"} /\ DOMAIN usrFile = 1 .. UsrTargets
  BY <1>0, QueuesFirst DEF SavedInv, UsrShape, Component
<1>3. SavedInv'
  BY <1>0, SavedSteps
<1>4. ResultIs'
  BY <1>0 DEF ResultIs, UsrBackUp
<1>5. MaskFlow'
  BY <1>0, <1>1, <1>2 DEF FlowInv, MaskFlow, ResultIs, UsrBackUp, Before, Early,
     Changing
<1>6. UndoneFlow'
  BY <1>0, <1>1, <1>2 DEF FlowInv, MaskFlow, UndoneFlow, UsrBackUp, Early
<1>7. ReceiptFlow'
  BY <1>0, <1>1, <1>2 DEF FlowInv, ReceiptFlow, UsrBackUp, Early
<1>8. ASSUME NEW i \in 1 .. UsrTargets PROVE BackAt(i)'
  BY <1>0, <1>1, <1>2 DEF FlowInv, BackAt, ResultIs, UsrBackUp
<1>9. ASSUME NEW i \in 1 .. UsrTargets PROVE ThereAt(i)'
  BY <1>0, <1>1, <1>2 DEF FlowInv, ThereAt, ResultIs, UsrBackUp
<1>. QED
  BY <1>3, <1>4, <1>5, <1>6, <1>7, <1>8, <1>9 DEF FlowInv

LEMMA FlowBackedUp ==
  ASSUME FlowInv, UserspaceAssumption, UsrBackedUp
  PROVE  FlowInv'
<1>. USE DEF Planned, Copies, Masking, Kept, Outside, GoTo
<1>0. /\ SavedInv /\ ResultIs /\ UsrNext /\ UNCHANGED usrQueue
  BY DEF FlowInv, UsrNext, UsrStep, UsrBackedUp
<1>1. Component' = Component /\ Targets' = Targets /\ Transactional' = Transactional
  BY <1>0 DEF Component, Targets, Transactional
<1>2. Component \in {"audio", "iptsd", "wifi", "camera"} /\ DOMAIN usrFile = 1 .. UsrTargets
  BY <1>0, QueuesFirst DEF SavedInv, UsrShape, Component
<1>3. SavedInv'
  BY <1>0, SavedSteps
<1>4. ResultIs'
  BY <1>0 DEF ResultIs, UsrBackedUp
<1>5. MaskFlow'
  BY <1>0, <1>1, <1>2 DEF FlowInv, MaskFlow, ResultIs, UsrBackedUp, Before, Early,
     Changing
<1>6. UndoneFlow'
  BY <1>0, <1>1, <1>2 DEF FlowInv, UndoneFlow, UsrBackedUp, Early
<1>7. ReceiptFlow'
  BY <1>0, <1>1, <1>2 DEF FlowInv, ReceiptFlow, UsrBackedUp, Early
<1>8. ASSUME NEW i \in 1 .. UsrTargets PROVE BackAt(i)'
  BY <1>0, <1>1, <1>2 DEF FlowInv, BackAt, ResultIs, UsrBackedUp
<1>9. ASSUME NEW i \in 1 .. UsrTargets PROVE ThereAt(i)'
  BY <1>0, <1>1, <1>2 DEF FlowInv, ThereAt, UsrBackedUp, Early, UndoneFlow
<1>. QED
  BY <1>3, <1>4, <1>5, <1>6, <1>7, <1>8, <1>9 DEF FlowInv

LEMMA FlowPrepare ==
  ASSUME FlowInv, UserspaceAssumption, UsrPrepare
  PROVE  FlowInv'
<1>. USE DEF Planned, Copies, Masking, Outside, GoTo, UsrFail, ReceiptWritten, ReceiptFails
<1>0. /\ SavedInv /\ ResultIs /\ UsrNext /\ UNCHANGED usrQueue
  BY DEF FlowInv, UsrNext, UsrStep, UsrPrepare
<1>1. Component' = Component /\ Targets' = Targets /\ Transactional' = Transactional
  BY <1>0 DEF Component, Targets, Transactional
<1>2. Component \in {"audio", "iptsd", "wifi", "camera"} /\ DOMAIN usrFile = 1 .. UsrTargets
  BY <1>0, QueuesFirst DEF SavedInv, UsrShape, Component
<1>3. SavedInv'
  BY <1>0, SavedSteps
<1>4. ResultIs'
  BY <1>0 DEF ResultIs, UsrPrepare
<1>5. MaskFlow'
  BY <1>0, <1>1, <1>2 DEF FlowInv, MaskFlow, ResultIs, UsrPrepare, Before, Early,
     Changing
<1>6. UndoneFlow'
  BY <1>0, <1>1, <1>2 DEF FlowInv, MaskFlow, UndoneFlow, UsrPrepare, Early
<1>7. ReceiptFlow'
  BY <1>0, <1>1, <1>2 DEF ReceiptFlow, UsrPrepare, SavedInv, UsrShape
<1>8. ASSUME NEW i \in 1 .. UsrTargets PROVE BackAt(i)'
  BY <1>0, <1>1, <1>2 DEF FlowInv, BackAt, ResultIs, UsrPrepare
<1>9. ASSUME NEW i \in 1 .. UsrTargets PROVE ThereAt(i)'
  BY <1>0, <1>1, <1>2 DEF ThereAt, UsrPrepare, SavedInv, UsrShape
<1>. QED
  BY <1>3, <1>4, <1>5, <1>6, <1>7, <1>8, <1>9 DEF FlowInv

LEMMA FlowCheck ==
  ASSUME FlowInv, UserspaceAssumption, UsrCheck
  PROVE  FlowInv'
<1>. USE DEF Planned, Copies, Masking, Kept, Outside, GoTo, UsrFail
<1>0. /\ SavedInv /\ ResultIs /\ UsrNext /\ UNCHANGED usrQueue
  BY DEF FlowInv, UsrNext, UsrStep, UsrCheck
<1>1. Component' = Component /\ Targets' = Targets /\ Transactional' = Transactional
  BY <1>0 DEF Component, Targets, Transactional
<1>2. Component \in {"audio", "iptsd", "wifi", "camera"} /\ DOMAIN usrFile = 1 .. UsrTargets
  BY <1>0, QueuesFirst DEF SavedInv, UsrShape, Component
<1>3. SavedInv'
  BY <1>0, SavedSteps
<1>4. ResultIs'
  BY <1>0 DEF ResultIs, UsrCheck
<1>5. MaskFlow'
  BY <1>0, <1>1, <1>2 DEF FlowInv, MaskFlow, ResultIs, UsrCheck, Before, Early, Changing
<1>6. UndoneFlow'
  BY <1>0, <1>1, <1>2 DEF FlowInv, MaskFlow, UndoneFlow, UsrCheck, Before, Early
<1>7. ReceiptFlow'
  BY <1>0, <1>1, <1>2 DEF FlowInv, ReceiptFlow, UsrCheck
<1>8. ASSUME NEW i \in 1 .. UsrTargets PROVE BackAt(i)'
  BY <1>0, <1>1, <1>2 DEF FlowInv, BackAt, ResultIs, UsrCheck
<1>9. ASSUME NEW i \in 1 .. UsrTargets PROVE ThereAt(i)'
  BY <1>0, <1>1, <1>2 DEF FlowInv, ThereAt, ReceiptFlow, UsrCheck
<1>. QED
  BY <1>3, <1>4, <1>5, <1>6, <1>7, <1>8, <1>9 DEF FlowInv

LEMMA FlowCopy ==
  ASSUME FlowInv, UserspaceAssumption, UsrCopy
  PROVE  FlowInv'
<1>. USE DEF Planned, Masking, Kept, Outside, GoTo
<1>0. /\ SavedInv /\ ResultIs /\ UsrNext /\ UNCHANGED usrQueue
  BY DEF FlowInv, UsrNext, UsrStep, UsrCopy
<1>1. Component' = Component /\ Targets' = Targets /\ Transactional' = Transactional
  BY <1>0 DEF Component, Targets, Transactional
<1>2. Component \in {"audio", "iptsd", "wifi", "camera"} /\ DOMAIN usrFile = 1 .. UsrTargets
  BY <1>0, QueuesFirst DEF SavedInv, UsrShape, Component
<1>3. SavedInv'
  BY <1>0, SavedSteps
<1>4. ResultIs'
  BY <1>0 DEF ResultIs, UsrCopy, AfterCopy, MayCopy
<1>5. MaskFlow'
  BY <1>0, <1>1, <1>2 DEF FlowInv, MaskFlow, UsrCopy, AfterCopy, Changing
<1>6. UndoneFlow'
  BY <1>0, <1>1, <1>2, TargetsCount DEF FlowInv, UndoneFlow, UsrCopy, AfterCopy, Before,
     Early
<1>7. ReceiptFlow'
  BY <1>0, <1>1, <1>2 DEF FlowInv, ReceiptFlow, UsrCopy
<1>8. ASSUME NEW i \in 1 .. UsrTargets PROVE BackAt(i)'
  BY <1>0, <1>1, <1>2 DEF FlowInv, BackAt, ResultIs, UsrCopy, AfterCopy, MayCopy
<1>9. ASSUME NEW i \in 1 .. UsrTargets PROVE ThereAt(i)'
  BY <1>0, <1>1, <1>2, TargetsCount DEF FlowInv, ThereAt, UsrCopy, AfterCopy, MayCopy,
     UndoneFlow
<1>. QED
  BY <1>3, <1>4, <1>5, <1>6, <1>7, <1>8, <1>9 DEF FlowInv

LEMMA FlowCopyFails ==
  ASSUME FlowInv, UserspaceAssumption, UsrCopyFails
  PROVE  FlowInv'
<1>. USE DEF Planned, Masking, Kept, Outside, UsrFail
<1>0. /\ SavedInv /\ ResultIs /\ UsrNext /\ UNCHANGED usrQueue
  BY DEF FlowInv, UsrNext, UsrStep, UsrCopyFails
<1>1. Component' = Component /\ Targets' = Targets /\ Transactional' = Transactional
  BY <1>0 DEF Component, Targets, Transactional
<1>2. Component \in {"audio", "iptsd", "wifi", "camera"} /\ DOMAIN usrFile = 1 .. UsrTargets
  BY <1>0, QueuesFirst DEF SavedInv, UsrShape, Component
<1>3. SavedInv'
  BY <1>0, SavedSteps
<1>4. ResultIs'
  BY <1>0 DEF ResultIs, UsrCopyFails, Counts, MayCopy
<1>5. MaskFlow'
  BY <1>0, <1>1, <1>2 DEF FlowInv, MaskFlow, UsrCopyFails, Changing
<1>6. UndoneFlow'
  BY <1>0, <1>1, <1>2 DEF UndoneFlow, UsrCopyFails, Before, Early
<1>7. ReceiptFlow'
  BY <1>0, <1>1, <1>2 DEF FlowInv, ReceiptFlow, UsrCopyFails
<1>8. ASSUME NEW i \in 1 .. UsrTargets PROVE BackAt(i)'
  BY <1>0, <1>1, <1>2 DEF FlowInv, BackAt, ResultIs, UsrCopyFails, Counts, MayCopy
<1>9. ASSUME NEW i \in 1 .. UsrTargets PROVE ThereAt(i)'
  BY <1>0, <1>1, <1>2 DEF FlowInv, ThereAt, ReceiptFlow, UsrCopyFails
<1>. QED
  BY <1>3, <1>4, <1>5, <1>6, <1>7, <1>8, <1>9 DEF FlowInv

LEMMA FlowApt ==
  ASSUME FlowInv, UserspaceAssumption, UsrApt
  PROVE  FlowInv'
<1>. USE DEF Planned, Masking, Kept, Outside, GoTo, UsrFail
<1>0. /\ SavedInv /\ ResultIs /\ UsrNext /\ UNCHANGED usrQueue
  BY DEF FlowInv, UsrNext, UsrStep, UsrApt
<1>1. Component' = Component /\ Targets' = Targets /\ Transactional' = Transactional
  BY <1>0 DEF Component, Targets, Transactional
<1>2. Component \in {"audio", "iptsd", "wifi", "camera"} /\ DOMAIN usrFile = 1 .. UsrTargets
  BY <1>0, QueuesFirst DEF SavedInv, UsrShape, Component
<1>3. SavedInv'
  BY <1>0, SavedSteps
<1>4. ResultIs'
  BY <1>0 DEF ResultIs, UsrApt
<1>5. MaskFlow'
  BY <1>0, <1>1, <1>2 DEF FlowInv, MaskFlow, ResultIs, UsrApt, Before, Early, Changing
<1>6. UndoneFlow'
  BY <1>0, <1>1, <1>2 DEF UndoneFlow, UsrApt, Before, Early, Transactional
<1>7. ReceiptFlow'
  BY <1>0, <1>1, <1>2 DEF FlowInv, ReceiptFlow, UsrApt
<1>8. ASSUME NEW i \in 1 .. UsrTargets PROVE BackAt(i)'
  BY <1>0, <1>1, <1>2 DEF FlowInv, BackAt, ResultIs, UsrApt, Transactional
<1>9. ASSUME NEW i \in 1 .. UsrTargets PROVE ThereAt(i)'
  BY <1>0, <1>1, <1>2 DEF ThereAt, UsrApt
<1>. QED
  BY <1>3, <1>4, <1>5, <1>6, <1>7, <1>8, <1>9 DEF FlowInv

LEMMA FlowMaskGeneric ==
  ASSUME FlowInv, UserspaceAssumption, UsrMaskGeneric
  PROVE  FlowInv'
<1>. USE DEF Planned, Copies, Masking, Kept, Outside, GoTo, UsrFail
<1>0. /\ SavedInv /\ ResultIs /\ UsrNext /\ UNCHANGED usrQueue
  BY DEF FlowInv, UsrNext, UsrStep, UsrMaskGeneric
<1>1. Component' = Component /\ Targets' = Targets /\ Transactional' = Transactional
  BY <1>0 DEF Component, Targets, Transactional
<1>2. Component \in {"audio", "iptsd", "wifi", "camera"} /\ DOMAIN usrFile = 1 .. UsrTargets
  BY <1>0, QueuesFirst DEF SavedInv, UsrShape, Component
<1>3. SavedInv'
  BY <1>0, SavedSteps
<1>4. ResultIs'
  BY <1>0 DEF ResultIs, UsrMaskGeneric
<1>5. MaskFlow'
  BY <1>0, <1>1, <1>2 DEF FlowInv, MaskFlow, ResultIs, UsrMaskGeneric, Before, Early,
     Changing
<1>6. UndoneFlow'
  BY <1>0, <1>1, <1>2 DEF UndoneFlow, UsrMaskGeneric, Before, Early
<1>7. ReceiptFlow'
  BY <1>0, <1>1, <1>2 DEF FlowInv, ReceiptFlow, UsrMaskGeneric
<1>8. ASSUME NEW i \in 1 .. UsrTargets PROVE BackAt(i)'
  BY <1>0, <1>1, <1>2 DEF FlowInv, BackAt, ResultIs, UsrMaskGeneric
<1>9. ASSUME NEW i \in 1 .. UsrTargets PROVE ThereAt(i)'
  BY <1>0, <1>1, <1>2 DEF FlowInv, ThereAt, UsrMaskGeneric
<1>. QED
  BY <1>3, <1>4, <1>5, <1>6, <1>7, <1>8, <1>9 DEF FlowInv

LEMMA FlowRecord ==
  ASSUME FlowInv, UserspaceAssumption, UsrRecord
  PROVE  FlowInv'
<1>. USE DEF Planned, Copies, Masking, Outside, GoTo, End, FailInstalled
<1>0. /\ SavedInv /\ ResultIs /\ UsrNext /\ UNCHANGED usrQueue
  BY DEF FlowInv, UsrNext, UsrStep, UsrRecord
<1>1. Component' = Component /\ Targets' = Targets /\ Transactional' = Transactional
  BY <1>0 DEF Component, Targets, Transactional
<1>2. Component \in {"audio", "iptsd", "wifi", "camera"} /\ DOMAIN usrFile = 1 .. UsrTargets
  BY <1>0, QueuesFirst DEF SavedInv, UsrShape, Component
<1>3. SavedInv'
  BY <1>0, SavedSteps
<1>4. ResultIs'
  BY <1>0 DEF ResultIs, UsrRecord
<1>5. MaskFlow'
  BY <1>0, <1>1, <1>2 DEF FlowInv, MaskFlow, ResultIs, UsrRecord, Before, Early,
     Changing
<1>6. UndoneFlow'
  BY <1>0, <1>1, <1>2 DEF UndoneFlow, ResultIs, UsrRecord, Before, Early
<1>7. ReceiptFlow'
  BY <1>0, <1>1, <1>2 DEF FlowInv, ReceiptFlow, UsrRecord
<1>8. ASSUME NEW i \in 1 .. UsrTargets PROVE BackAt(i)'
  BY <1>0, <1>1, <1>2 DEF FlowInv, BackAt, ResultIs, UsrRecord
<1>9. ASSUME NEW i \in 1 .. UsrTargets PROVE ThereAt(i)'
  BY <1>0, <1>1, <1>2 DEF FlowInv, ThereAt, UsrRecord
<1>. QED
  BY <1>3, <1>4, <1>5, <1>6, <1>7, <1>8, <1>9 DEF FlowInv

LEMMA FlowReceipt ==
  ASSUME FlowInv, UserspaceAssumption, UsrReceipt
  PROVE  FlowInv'
<1>. USE DEF Planned, Copies, Masking, Outside, ReceiptWritten
<1>0. /\ SavedInv /\ ResultIs /\ UsrNext /\ UNCHANGED usrQueue
  BY DEF FlowInv, UsrNext, UsrStep, UsrReceipt
<1>1. Component' = Component /\ Targets' = Targets /\ Transactional' = Transactional
  BY <1>0 DEF Component, Targets, Transactional
<1>2. Component \in {"audio", "iptsd", "wifi", "camera"} /\ DOMAIN usrFile = 1 .. UsrTargets
  BY <1>0, QueuesFirst DEF SavedInv, UsrShape, Component
<1>3. SavedInv'
  BY <1>0, SavedSteps
<1>4. ResultIs'
  BY <1>0 DEF ResultIs, UsrReceipt, FirstReceipt
<1>5. MaskFlow'
  BY <1>0, <1>1, <1>2 DEF FlowInv, MaskFlow, UsrReceipt, Before, Early, Changing
<1>6. UndoneFlow'
  BY <1>0, <1>1, <1>2 DEF UndoneFlow, UsrReceipt, Before, Early
<1>7. ReceiptFlow'
  BY <1>0, <1>1, <1>2 DEF ReceiptFlow, UsrReceipt, FirstReceipt, Before, Early,
     SavedInv, UsrShape
<1>8. ASSUME NEW i \in 1 .. UsrTargets PROVE BackAt(i)'
  BY <1>0, <1>1, <1>2 DEF FlowInv, BackAt, ResultIs, UsrReceipt, FirstReceipt
<1>9. ASSUME NEW i \in 1 .. UsrTargets PROVE ThereAt(i)'
  BY <1>0, <1>1, <1>2 DEF FlowInv, ThereAt, UsrReceipt
<1>. QED
  BY <1>3, <1>4, <1>5, <1>6, <1>7, <1>8, <1>9 DEF FlowInv

LEMMA FlowReceiptFails ==
  ASSUME FlowInv, UserspaceAssumption, UsrReceiptFails
  PROVE  FlowInv'
<1>. USE DEF Planned, Copies, Masking, Outside, UsrFail, ReceiptFails
<1>0. /\ SavedInv /\ ResultIs /\ UsrNext /\ UNCHANGED usrQueue
  BY DEF FlowInv, UsrNext, UsrStep, UsrReceiptFails
<1>1. Component' = Component /\ Targets' = Targets /\ Transactional' = Transactional
  BY <1>0 DEF Component, Targets, Transactional
<1>2. Component \in {"audio", "iptsd", "wifi", "camera"} /\ DOMAIN usrFile = 1 .. UsrTargets
  BY <1>0, QueuesFirst DEF SavedInv, UsrShape, Component
<1>3. SavedInv'
  BY <1>0, SavedSteps
<1>4. ResultIs'
  BY <1>0 DEF ResultIs, UsrReceiptFails, FirstReceipt, AfterReceipt
<1>5. MaskFlow'
  BY <1>0, <1>1, <1>2 DEF FlowInv, MaskFlow, ResultIs, UsrReceiptFails, AfterReceipt,
     Before, Early, Changing
<1>6. UndoneFlow'
  BY <1>0, <1>1, <1>2 DEF UndoneFlow, UsrReceiptFails, AfterReceipt, Before, Early
<1>7. ReceiptFlow'
  BY <1>0, <1>1, <1>2 DEF FlowInv, ReceiptFlow, UsrReceiptFails, FirstReceipt,
     AfterReceipt, Before, Early, SavedInv, UsrShape
<1>8. ASSUME NEW i \in 1 .. UsrTargets PROVE BackAt(i)'
  BY <1>0, <1>1, <1>2 DEF FlowInv, BackAt, ResultIs, UsrReceiptFails, FirstReceipt,
     AfterReceipt
<1>9. ASSUME NEW i \in 1 .. UsrTargets PROVE ThereAt(i)'
  BY <1>0, <1>1, <1>2 DEF FlowInv, ThereAt, UsrReceiptFails
<1>. QED
  BY <1>3, <1>4, <1>5, <1>6, <1>7, <1>8, <1>9 DEF FlowInv

LEMMA FlowTakeBackReceipt ==
  ASSUME FlowInv, UserspaceAssumption, UsrTakeBackReceipt
  PROVE  FlowInv'
<1>. USE DEF Planned, Copies, Masking, Outside
<1>0. /\ SavedInv /\ ResultIs /\ UsrNext /\ UNCHANGED usrQueue
  BY DEF FlowInv, UsrNext, UsrStep, UsrTakeBackReceipt
<1>1. Component' = Component /\ Targets' = Targets /\ Transactional' = Transactional
  BY <1>0 DEF Component, Targets, Transactional
<1>2. Component \in {"audio", "iptsd", "wifi", "camera"} /\ DOMAIN usrFile = 1 .. UsrTargets
  BY <1>0, QueuesFirst DEF SavedInv, UsrShape, Component
<1>3. SavedInv'
  BY <1>0, SavedSteps
<1>4. ResultIs'
  BY <1>0 DEF ResultIs, UsrTakeBackReceipt
<1>5. MaskFlow'
  BY <1>0, <1>1, <1>2 DEF FlowInv, MaskFlow, ResultIs, UsrTakeBackReceipt, Before,
     Early, Changing
<1>6. UndoneFlow'
  BY <1>0, <1>1, <1>2 DEF UndoneFlow, UsrTakeBackReceipt, Before, Early
<1>7. ReceiptFlow'
  BY <1>0, <1>1, <1>2 DEF FlowInv, ReceiptFlow, ResultIs, UsrTakeBackReceipt, Before,
     Early
<1>8. ASSUME NEW i \in 1 .. UsrTargets PROVE BackAt(i)'
  BY <1>0, <1>1, <1>2 DEF FlowInv, BackAt, ResultIs, UsrTakeBackReceipt
<1>9. ASSUME NEW i \in 1 .. UsrTargets PROVE ThereAt(i)'
  BY <1>0, <1>1, <1>2 DEF FlowInv, ThereAt, UsrTakeBackReceipt
<1>. QED
  BY <1>3, <1>4, <1>5, <1>6, <1>7, <1>8, <1>9 DEF FlowInv

LEMMA FlowActivate ==
  ASSUME FlowInv, UserspaceAssumption, UsrActivate
  PROVE  FlowInv'
<1>. USE DEF Planned, Copies, Masking, Outside
<1>0. /\ SavedInv /\ ResultIs /\ UsrNext /\ UNCHANGED usrQueue
  BY DEF FlowInv, UsrNext, UsrStep, UsrActivate
<1>1. Component' = Component /\ Targets' = Targets /\ Transactional' = Transactional
  BY <1>0 DEF Component, Targets, Transactional
<1>2. Component \in {"audio", "iptsd", "wifi", "camera"} /\ DOMAIN usrFile = 1 .. UsrTargets
  BY <1>0, QueuesFirst DEF SavedInv, UsrShape, Component
<1>3. SavedInv'
  BY <1>0, SavedSteps
<1>4. ResultIs'
  BY <1>0 DEF ResultIs, UsrActivate
<1>5. MaskFlow'
  BY <1>0, <1>1, <1>2 DEF FlowInv, MaskFlow, ResultIs, UsrActivate, Before, Early,
     Changing
<1>6. UndoneFlow'
  BY <1>0, <1>1, <1>2 DEF FlowInv, UndoneFlow, ResultIs, UsrActivate, Before, Early
<1>7. ReceiptFlow'
  BY <1>0, <1>1, <1>2 DEF FlowInv, ReceiptFlow, UsrActivate, Before, Early
<1>8. ASSUME NEW i \in 1 .. UsrTargets PROVE BackAt(i)'
  BY <1>0, <1>1, <1>2 DEF FlowInv, BackAt, ResultIs, UsrActivate
<1>9. ASSUME NEW i \in 1 .. UsrTargets PROVE ThereAt(i)'
  BY <1>0, <1>1, <1>2 DEF FlowInv, ThereAt, UsrActivate
<1>. QED
  BY <1>3, <1>4, <1>5, <1>6, <1>7, <1>8, <1>9 DEF FlowInv

LEMMA FlowLastReceipt ==
  ASSUME FlowInv, UserspaceAssumption, UsrLastReceipt
  PROVE  FlowInv'
<1>. USE DEF Planned, Copies, Masking, Outside, GoTo, UsrFail, ReceiptWritten, ReceiptFails
<1>0. /\ SavedInv /\ ResultIs /\ UsrNext /\ UNCHANGED usrQueue
  BY DEF FlowInv, UsrNext, UsrStep, UsrLastReceipt
<1>1. Component' = Component /\ Targets' = Targets /\ Transactional' = Transactional
  BY <1>0 DEF Component, Targets, Transactional
<1>2. Component \in {"audio", "iptsd", "wifi", "camera"} /\ DOMAIN usrFile = 1 .. UsrTargets
  BY <1>0, QueuesFirst DEF SavedInv, UsrShape, Component
<1>3. SavedInv'
  BY <1>0, SavedSteps
<1>4. ResultIs'
  BY <1>0 DEF ResultIs, UsrLastReceipt, LastReceipt
<1>5. MaskFlow'
  BY <1>0, <1>1, <1>2 DEF FlowInv, MaskFlow, ResultIs, UsrLastReceipt, Before, Early,
     Changing
<1>6. UndoneFlow'
  BY <1>0, <1>1, <1>2 DEF FlowInv, UndoneFlow, ResultIs, UsrLastReceipt, Before, Early
<1>7. ReceiptFlow'
  BY <1>0, <1>1, <1>2 DEF FlowInv, UndoneFlow, ReceiptFlow, ResultIs, UsrLastReceipt,
     LastReceipt, Before, Early, SavedInv, UsrShape
<1>8. ASSUME NEW i \in 1 .. UsrTargets PROVE BackAt(i)'
  BY <1>0, <1>1, <1>2 DEF FlowInv, BackAt, ResultIs, UsrLastReceipt, LastReceipt
<1>9. ASSUME NEW i \in 1 .. UsrTargets PROVE ThereAt(i)'
  BY <1>0, <1>1, <1>2 DEF FlowInv, ThereAt, UsrLastReceipt
<1>. QED
  BY <1>3, <1>4, <1>5, <1>6, <1>7, <1>8, <1>9 DEF FlowInv

LEMMA FlowRemoveMask ==
  ASSUME FlowInv, UserspaceAssumption, UsrRemoveMask
  PROVE  FlowInv'
<1>. USE DEF Planned, Copies, Kept, Outside
<1>0. /\ SavedInv /\ ResultIs /\ UsrNext /\ UNCHANGED usrQueue
  BY DEF FlowInv, UsrNext, UsrStep, UsrRemoveMask
<1>1. Component' = Component /\ Targets' = Targets /\ Transactional' = Transactional
  BY <1>0 DEF Component, Targets, Transactional
<1>2. Component \in {"audio", "iptsd", "wifi", "camera"} /\ DOMAIN usrFile = 1 .. UsrTargets
  BY <1>0, QueuesFirst DEF SavedInv, UsrShape, Component
<1>3. SavedInv'
  BY <1>0, SavedSteps
<1>4. ResultIs'
  BY <1>0 DEF ResultIs, UsrRemoveMask, Left
<1>5. MaskFlow'
  BY <1>0, <1>1, <1>2 DEF FlowInv, MaskFlow, ResultIs, UsrRemoveMask, Left
<1>6. UndoneFlow'
  BY <1>0, <1>1, <1>2 DEF FlowInv, UndoneFlow, UsrRemoveMask
<1>7. ReceiptFlow'
  BY <1>0, <1>1, <1>2 DEF FlowInv, ReceiptFlow, ResultIs, UsrRemoveMask, Left
<1>8. ASSUME NEW i \in 1 .. UsrTargets PROVE BackAt(i)'
  BY <1>0, <1>1, <1>2 DEF FlowInv, BackAt, ResultIs, UsrRemoveMask, Left
<1>9. ASSUME NEW i \in 1 .. UsrTargets PROVE ThereAt(i)'
  BY <1>0, <1>1, <1>2 DEF FlowInv, ThereAt, ResultIs, UsrRemoveMask, Left
<1>. QED
  BY <1>3, <1>4, <1>5, <1>6, <1>7, <1>8, <1>9 DEF FlowInv

LEMMA FlowRestore ==
  ASSUME FlowInv, UserspaceAssumption, UsrRestore
  PROVE  FlowInv'
<1>. USE DEF Planned, Masking, Kept, Outside
<1>0. /\ SavedInv /\ ResultIs /\ UsrNext /\ UNCHANGED usrQueue
  BY DEF FlowInv, UsrNext, UsrStep, UsrRestore
<1>1. Component' = Component /\ Targets' = Targets /\ Transactional' = Transactional
  BY <1>0 DEF Component, Targets, Transactional
<1>2. Component \in {"audio", "iptsd", "wifi", "camera"} /\ DOMAIN usrFile = 1 .. UsrTargets
  BY <1>0, QueuesFirst DEF SavedInv, UsrShape, Component
<1>3. SavedInv'
  BY <1>0, SavedSteps
<1>4. ResultIs'
  BY <1>0 DEF ResultIs, UsrRestore, Left, MayRestore
<1>5. MaskFlow'
  BY <1>0, <1>1, <1>2 DEF FlowInv, MaskFlow, ResultIs, UsrRestore, Left
<1>6. UndoneFlow'
  BY <1>0, <1>1, <1>2 DEF FlowInv, UndoneFlow, UsrRestore
<1>7. ReceiptFlow'
  BY <1>0, <1>1, <1>2 DEF FlowInv, ReceiptFlow, ResultIs, UsrRestore, Left
<1>8. ASSUME NEW i \in 1 .. UsrTargets PROVE BackAt(i)'
  BY <1>0, <1>1, <1>2 DEF FlowInv, BackAt, ResultIs, UsrRestore, Left, SavedInv,
     SavedAt, Changing
<1>9. ASSUME NEW i \in 1 .. UsrTargets PROVE ThereAt(i)'
  BY <1>0, <1>1, <1>2 DEF FlowInv, ThereAt, ReceiptFlow, ResultIs, UsrRestore, Left
<1>. QED
  BY <1>3, <1>4, <1>5, <1>6, <1>7, <1>8, <1>9 DEF FlowInv

LEMMA FlowRolledBack ==
  ASSUME FlowInv, UserspaceAssumption, UsrRolledBack
  PROVE  FlowInv'
<1>. USE DEF Planned, Copies, Masking, Kept, Outside, End
<1>0. /\ SavedInv /\ ResultIs /\ UsrNext /\ UNCHANGED usrQueue
  BY DEF FlowInv, UsrNext, UsrStep, UsrRolledBack
<1>1. Component' = Component /\ Targets' = Targets /\ Transactional' = Transactional
  BY <1>0 DEF Component, Targets, Transactional
<1>2. Component \in {"audio", "iptsd", "wifi", "camera"} /\ DOMAIN usrFile = 1 .. UsrTargets
  BY <1>0, QueuesFirst DEF SavedInv, UsrShape, Component
<1>3. SavedInv'
  BY <1>0, SavedSteps
<1>4. ResultIs'
  BY <1>0 DEF ResultIs, UsrRolledBack
<1>5. MaskFlow'
  BY <1>0, <1>1, <1>2 DEF FlowInv, MaskFlow, ResultIs, UsrRolledBack, Before, Early,
     Changing
<1>6. UndoneFlow'
  BY <1>0, <1>1, <1>2 DEF UndoneFlow, UsrRolledBack, Before, Early
<1>7. ReceiptFlow'
  BY <1>0, <1>1, <1>2 DEF FlowInv, ReceiptFlow, UsrRolledBack, Before, Early
<1>8. ASSUME NEW i \in 1 .. UsrTargets PROVE BackAt(i)'
  BY <1>0, <1>1, <1>2 DEF FlowInv, BackAt, ResultIs, UsrRolledBack
<1>9. ASSUME NEW i \in 1 .. UsrTargets PROVE ThereAt(i)'
  BY <1>0, <1>1, <1>2 DEF FlowInv, ThereAt, UsrRolledBack
<1>. QED
  BY <1>3, <1>4, <1>5, <1>6, <1>7, <1>8, <1>9 DEF FlowInv

LEMMA FlowEdit ==
  ASSUME FlowInv, UserspaceAssumption, UsrEdit
  PROVE  FlowInv'
<1>. USE DEF Planned, Kept
<1>0. /\ SavedInv /\ ResultIs /\ UsrNext /\ UNCHANGED usrQueue
  BY DEF FlowInv, UsrNext, UsrStep, UsrEdit
<1>1. Component' = Component /\ Targets' = Targets /\ Transactional' = Transactional
  BY <1>0 DEF Component, Targets, Transactional
<1>2. Component \in {"audio", "iptsd", "wifi", "camera"} /\ DOMAIN usrFile = 1 .. UsrTargets
  BY <1>0, QueuesFirst DEF SavedInv, UsrShape, Component
<1>3. SavedInv'
  BY <1>0, SavedSteps
<1>4. ResultIs'
  BY <1>0 DEF ResultIs, UsrEdit
<1>5. MaskFlow'
  BY <1>0, <1>1, <1>2 DEF FlowInv, MaskFlow, ResultIs, UsrEdit, Before, Early, Changing
<1>6. UndoneFlow'
  BY <1>0, <1>1, <1>2 DEF FlowInv, UndoneFlow, UsrEdit
<1>7. ReceiptFlow'
  BY <1>0, <1>1, <1>2 DEF FlowInv, ReceiptFlow, UsrEdit
<1>8. ASSUME NEW i \in 1 .. UsrTargets PROVE BackAt(i)'
  BY <1>0, <1>1, <1>2 DEF FlowInv, BackAt, ResultIs, UsrEdit
<1>9. ASSUME NEW i \in 1 .. UsrTargets PROVE ThereAt(i)'
  BY <1>0, <1>1, <1>2 DEF FlowInv, ThereAt, UsrEdit
<1>. QED
  BY <1>3, <1>4, <1>5, <1>6, <1>7, <1>8, <1>9 DEF FlowInv

LEMMA FlowKill ==
  ASSUME FlowInv, UserspaceAssumption, UsrKill
  PROVE  FlowInv'
<1>. USE DEF Planned, Copies, Masking, Kept, Outside
<1>0. /\ SavedInv /\ ResultIs /\ UsrNext /\ UNCHANGED usrQueue
  BY DEF FlowInv, UsrNext, UsrStep, UsrKill
<1>1. Component' = Component /\ Targets' = Targets /\ Transactional' = Transactional
  BY <1>0 DEF Component, Targets, Transactional
<1>2. Component \in {"audio", "iptsd", "wifi", "camera"} /\ DOMAIN usrFile = 1 .. UsrTargets
  BY <1>0, QueuesFirst DEF SavedInv, UsrShape, Component
<1>3. SavedInv'
  BY <1>0, SavedSteps
<1>4. ResultIs'
  BY <1>0 DEF ResultIs, UsrKill
<1>5. MaskFlow'
  BY <1>0, <1>1, <1>2 DEF FlowInv, MaskFlow, ResultIs, UsrKill, Before, Early, Changing
<1>6. UndoneFlow'
  BY <1>0, <1>1, <1>2 DEF UndoneFlow, UsrKill, Before, Early
<1>7. ReceiptFlow'
  BY <1>0, <1>1, <1>2 DEF FlowInv, ReceiptFlow, UsrKill, Before, Early
<1>8. ASSUME NEW i \in 1 .. UsrTargets PROVE BackAt(i)'
  BY <1>0, <1>1, <1>2 DEF FlowInv, BackAt, ResultIs, UsrKill
<1>9. ASSUME NEW i \in 1 .. UsrTargets PROVE ThereAt(i)'
  BY <1>0, <1>1, <1>2 DEF FlowInv, ThereAt, UsrKill
<1>. QED
  BY <1>3, <1>4, <1>5, <1>6, <1>7, <1>8, <1>9 DEF FlowInv

LEMMA FlowNext ==
  ASSUME FlowInv, UserspaceAssumption, UsrNextComponent
  PROVE  FlowInv'
<1>0. SavedInv /\ UsrNext
  BY DEF FlowInv, UsrNext, UsrStep
<1>1. SavedInv'
  BY <1>0, SavedSteps
<1>2. usrQueue = <<"audio", "iptsd">> /\ usrQueue' = <<"iptsd">>
  BY <1>0, QueuesFirst DEF SavedInv, UsrShape, UsrNextComponent
<1>3. Component = "audio" /\ Component' = "iptsd"
  BY <1>2 DEF Component
<1>4. ResultIs' /\ usrResult'.left = usrResult.left
  BY DEF FlowInv, ResultIs, UsrNextComponent
<1>5. MaskFlow'
  BY <1>3, <1>4 DEF FlowInv, MaskFlow, UsrNextComponent, Before, Early, Changing
<1>6. UndoneFlow'
  BY <1>3 DEF UndoneFlow, UsrNextComponent, Before, Early, UserspaceAssumption
<1>7. ReceiptFlow'
  BY <1>3 DEF FlowInv, ReceiptFlow, UsrNextComponent, Before, Early
<1>8. ASSUME NEW i \in 1 .. UsrTargets PROVE BackAt(i)' /\ ThereAt(i)'
  BY <1>3 DEF BackAt, ThereAt, FlowInv, ReceiptFlow, UsrNextComponent
<1>. QED
  BY <1>1, <1>4, <1>5, <1>6, <1>7, <1>8 DEF FlowInv

(* What a rollback still has to undo is known at every step, and what it     *)
(* need not undo is as it was (the rollbacks of internal/userspace/install). *)
THEOREM FlowInvariant == UsrSpec => []FlowInv
<1>1. UsrInit => FlowInv
  <2>. SUFFICES ASSUME UsrInit PROVE FlowInv
    OBVIOUS
  <2>1. usrQueue \in Queues
    BY DEF UsrInit, UsrRequests, Queues
  <2>2. SavedInv
    BY <2>1 DEF UsrInit, SavedInv, UsrShape, SavedAt, Changing, Before
  <2>3. ResultIs /\ MaskFlow /\ UndoneFlow
    BY DEF UsrInit, ResultIs, MaskFlow, UndoneFlow, Before, Early, Changing
  <2>4. ReceiptFlow
    BY DEF UsrInit, ReceiptFlow
  <2>5. ASSUME NEW i \in 1 .. UsrTargets PROVE BackAt(i) /\ ThereAt(i)
    BY DEF UsrInit, BackAt, ThereAt
  <2>. QED
    BY <2>2, <2>3, <2>4, <2>5 DEF FlowInv
<1>2. FlowInv /\ [UsrNext]_usrVars => FlowInv'
  <2>. SUFFICES ASSUME FlowInv, [UsrNext]_usrVars PROVE FlowInv'
    OBVIOUS
  <2>1. CASE UsrNext
    BY <2>1, UserspaceAssumption, FlowSelect, FlowPreflight, FlowPlan, FlowBackUp,
       FlowBackedUp, FlowPrepare, FlowCheck, FlowCopy, FlowCopyFails, FlowApt,
       FlowMaskGeneric, FlowRecord, FlowReceipt, FlowReceiptFails,
       FlowTakeBackReceipt, FlowActivate, FlowLastReceipt, FlowRemoveMask,
       FlowRestore, FlowRolledBack, FlowEdit, FlowKill, FlowNext DEF UsrNext,
       UsrStep
  <2>2. CASE UNCHANGED usrVars
    <3>1. Component' = Component /\ Targets' = Targets /\ Transactional' = Transactional
      BY <2>2 DEF usrVars, Component, Targets, Transactional
    <3>2. SavedInv'
      BY <2>2, SavedKept DEF usrVars, SavedInv, UsrShape, FlowInv
    <3>3. ResultIs' /\ MaskFlow' /\ UndoneFlow'
      BY <2>2, <3>1 DEF usrVars, FlowInv, ResultIs, MaskFlow, UndoneFlow
    <3>4. ReceiptFlow'
      BY <2>2, <3>1 DEF usrVars, FlowInv, ReceiptFlow
    <3>5. ASSUME NEW i \in 1 .. UsrTargets PROVE BackAt(i)' /\ ThereAt(i)'
      BY <2>2, <3>1 DEF usrVars, FlowInv, BackAt, ThereAt
    <3>. QED
      BY <3>2, <3>3, <3>4, <3>5 DEF FlowInv
  <2>. QED
    BY <2>1, <2>2
<1>. QED
  BY <1>1, <1>2, PTL DEF UsrSpec

(* An installation that failed without saying that something is installed or *)
(* left has put every target, the mask and the IPTSD receipt back, for any   *)
(* number of targets, faults and edits (the same rollbacks).                 *)
THEOREM FailureAlwaysRestores == UsrSpec => []FailureRestores
<1>1. FlowInv => FailureRestores
  <2>. SUFFICES ASSUME FlowInv, usrPc = "over", Transactional, usrResult.failed,
                       ~usrResult.installed, ~usrResult.left
                PROVE  /\ \A i \in Targets : usrFile[i] \in {usrOriginal[i], "edited"}
                       /\ usrMask = "null" => usrMaskSeen = "null"
                       /\ Component = "iptsd" => usrReceipt = "none"
    BY DEF FailureRestores
  <2>1. \A i \in Targets : i \in 1 .. UsrTargets
    BY UserspaceAssumption DEF UserspaceAssumption, Targets
  <2>2. usrApplied = {} /\ usrMaskMade = FALSE
    BY DEF FlowInv, UndoneFlow
  <2>3. \A i \in Targets : usrFile[i] \in {usrOriginal[i], "edited"}
    BY <2>1, <2>2 DEF FlowInv, BackAt
  <2>4. usrMask = "null" => usrMaskSeen = "null"
    BY <2>2 DEF FlowInv, MaskFlow
  <2>5. Component = "iptsd" => usrReceipt = "none"
    BY DEF FlowInv, ReceiptFlow
  <2>. QED
    BY <2>3, <2>4, <2>5
<1>. QED
  BY <1>1, FlowInvariant, PTL

(* An IPTSD receipt that could be taken back tells of files in place, and of *)
(* an activation that succeeded (internal/userspace/install/iptsd.go).       *)
THEOREM ReceiptAlwaysTells == UsrSpec => []ReceiptTells
<1>1. FlowInv => ReceiptTells
  <2>1. \A i \in Targets : i \in 1 .. UsrTargets
    BY UserspaceAssumption DEF UserspaceAssumption, Targets
  <2>. QED
    BY <2>1 DEF FlowInv, ThereAt, ReceiptFlow, ReceiptTells
<1>. QED
  BY <1>1, FlowInvariant, PTL

-----------------------------------------------------------------------------
(* The sensor build.                                                         *)

USE DEF SenDocker, SenFiles, SenTo, SenNoFault, SenFault, Check, FailsAt, SenFail

(* From the last check of the containers on they have ended well; from the   *)
(* decoding of the archive on, so has what they built.                       *)
Packing == {"recheck", "publish", "admit", "rename", "locate", "sync"}
Packed  == {"copy", "decode"} \cup Packing

SenWhole ==
    /\ senPc \in Packed => \A p \in SenPhases : senBox[p] = "succeeded"
    /\ senBox["build"] = "succeeded" /\ Unedited("snapshot") => senBuilt.pinned
    /\ senPc \in Packing => senBuilt.pinned /\ ArchiveAccepted(senBuilt.flaw)
    /\ senPc \in {"locate", "sync"} => senFinal
    /\ senPc = "sync" => senResult.located
    /\ senFinal => senResult.published

(* A failed build has told of, or stopped, every container but those it has  *)
(* yet to observe.                                                           *)
SenTold ==
    /\ senPc \in {"recover", "stop", "stopped"} => senResult.failed
    /\ senResult.failed => senPc \in {"recover", "stop", "stopped", "over", "killed"}
    /\ senPc \in {"inspect", "start"} => SenPhase \in senAttempted
    /\ \A p \in SenPhases : senBox[p] # "absent" => p \in senAttempted
    /\ senResult.failed /\ senPc \in {"recover", "stop", "stopped", "over"} =>
          \A p \in senAttempted \ senTodo :
              senBox[p] = "running" => p \in senResult.unknown
    /\ senResult.failed /\ senPc = "over" => senTodo = {}

SenInv == SenTypeOK /\ SenWhole /\ SenTold /\ ResultTells

LEMMA SenPhaseKnown == SenPhase \in SenPhases /\ Recovering \in SenPhases
BY DEF SenPhase, Recovering, SenPhases

LEMMA SenFailure ==
  ASSUME SenInv, senPc \notin {"over", "killed"}, SenFail,
         senFaults' \in 0 .. MaxSenFaults,
         senBox' = senBox, senTerminal' \in [SenPhases -> BoxStates \cup {"none"}],
         senAttempted' = senAttempted, senBuilt' = senBuilt,
         senStaging' \in BOOLEAN, senFinal' = senFinal
  PROVE  SenInv'
BY DEF SenInv, SenTypeOK, SenWhole, SenTold, ResultTells, Packing, Packed, Unedited

LEMMA SenChecks ==
  ASSUME SenInv, SensorAssumption,
         SenPlan \/ PrepareDependencies \/ StageRepository \/ CreateVolume
           \/ PhaseInspect \/ BetweenPhases \/ VerifyCompleted \/ CopyOut
           \/ DecodeArchive \/ SenRecheck \/ BeforeRename
  PROVE  SenInv'
<1>. USE DEF SensorAssumption
<1>. DEFINE Failed == \E step \in {"plan", "prepare", "stage", "volume", "inspect",
                 "between", "completed", "copy", "decode", "recheck", "admit"} :
                 senPc = step /\ (SenFault \/ SenNoFault) /\ SenFail
                 /\ UNCHANGED <<SenDocker, SenFiles>>
<1>0. CASE Failed
  <2>1. senFaults' \in 0 .. MaxSenFaults
    BY <1>0 DEF SenInv, SenTypeOK
  <2>. QED
    BY <1>0, <2>1, SenFailure DEF SenInv, SenTypeOK
<1>. USE DEF SenInv, SenTypeOK, SenWhole, SenTold, ResultTells, Packing, Packed,
             SenPhase, Unedited, ArchiveAccepted
<1>1. CASE SenPlan
  BY <1>0, <1>1 DEF SenPlan
<1>2. CASE PrepareDependencies
  BY <1>0, <1>2 DEF PrepareDependencies
<1>3. CASE StageRepository
  BY <1>0, <1>3 DEF StageRepository
<1>4. CASE CreateVolume
  BY <1>0, <1>4 DEF CreateVolume
<1>5. CASE PhaseInspect
  BY <1>0, <1>5 DEF PhaseInspect
<1>6. CASE BetweenPhases
  BY <1>0, <1>6 DEF BetweenPhases
<1>7. CASE VerifyCompleted
  BY <1>0, <1>7 DEF VerifyCompleted, PhasesCompleted, PhaseCompleted, SuccessfulTerminal
<1>8. CASE CopyOut
  BY <1>0, <1>8 DEF CopyOut
<1>9. CASE DecodeArchive
  BY <1>0, <1>9 DEF DecodeArchive, SnapshotVerified, SenPhases
<1>10. CASE SenRecheck
  BY <1>0, <1>10 DEF SenRecheck
<1>11. CASE BeforeRename
  BY <1>0, <1>11 DEF BeforeRename
<1>. QED
  BY <1>1, <1>2, <1>3, <1>4, <1>5, <1>6, <1>7, <1>8, <1>9, <1>10, <1>11

LEMMA SenContainers ==
  ASSUME SenInv, SensorAssumption,
         PhaseCreate \/ PhaseStart \/ PhaseDetach \/ PhaseObserve \/ PhaseFails
           \/ \E p \in SenPhases : BoxEnds(p)
  PROVE  SenInv'
<1>0. SenPhase \in SenPhases
  BY SenPhaseKnown
<1>1. CASE PhaseFails
  <2>1. /\ senFaults' \in 0 .. MaxSenFaults
        /\ senTerminal' \in [SenPhases -> BoxStates \cup {"none"}]
    BY <1>0, <1>1 DEF PhaseFails, SenInv, SenTypeOK, SensorAssumption
  <2>. QED
    BY <1>1, <2>1, SenFailure DEF PhaseFails, SenInv, SenTypeOK
<1>2. CASE PhaseCreate
  <2>1. SenTypeOK'
    <3>1. senBox' \in [SenPhases -> BoxStates]
      BY <1>0, <1>2 DEF PhaseCreate, BoxStates, SenInv, SenTypeOK, SensorAssumption
    <3>2. senFaults' \in 0 .. MaxSenFaults
      BY <1>0, <1>2 DEF PhaseCreate, BoxStates, SenInv, SenTypeOK, SensorAssumption
    <3>3. senBuilt' \in [pinned : BOOLEAN, flaw : ArchiveFlaws \cup {"none"}]
      BY <1>0, <1>2 DEF PhaseCreate, BoxStates, SenInv, SenTypeOK, SensorAssumption,
         SnapshotVerified, Unedited
    <3>. QED
      BY <1>0, <1>2, <3>1, <3>2, <3>3 DEF PhaseCreate, BoxStates, SenInv, SenTypeOK
  <2>2. SenWhole'
    BY <1>0, <1>2 DEF PhaseCreate, SenInv, SenTypeOK, SenWhole, Packing, Packed,
       Unedited, SenPhases
  <2>3. SenTold'
    BY <1>0, <1>2 DEF PhaseCreate, BoxStates, SenInv, SenTypeOK, SenTold, SenPhase
  <2>4. ResultTells'
    BY <1>0, <1>2 DEF PhaseCreate, BoxStates, SenInv, SenTypeOK, ResultTells,
       ArchiveAccepted
  <2>. QED
    BY <2>1, <2>2, <2>3, <2>4 DEF SenInv
<1>3. CASE PhaseStart
  <2>1. SenTypeOK'
    <3>1. senBox' \in [SenPhases -> BoxStates]
      BY <1>0, <1>3 DEF PhaseStart, BoxStates, SenInv, SenTypeOK, SensorAssumption
    <3>2. senFaults' \in 0 .. MaxSenFaults
      BY <1>0, <1>3 DEF PhaseStart, BoxStates, SenInv, SenTypeOK, SensorAssumption
    <3>3. senBuilt' \in [pinned : BOOLEAN, flaw : ArchiveFlaws \cup {"none"}]
      BY <1>0, <1>3 DEF PhaseStart, BoxStates, SenInv, SenTypeOK, SensorAssumption,
         SnapshotVerified, Unedited
    <3>. QED
      BY <1>0, <1>3, <3>1, <3>2, <3>3 DEF PhaseStart, BoxStates, SenInv, SenTypeOK
  <2>2. SenWhole'
    BY <1>0, <1>3 DEF PhaseStart, SenInv, SenTypeOK, SenWhole, Packing, Packed,
       Unedited, SenPhases
  <2>3. SenTold'
    BY <1>0, <1>3 DEF PhaseStart, BoxStates, SenInv, SenTypeOK, SenTold, SenPhase
  <2>4. ResultTells'
    BY <1>0, <1>3 DEF PhaseStart, BoxStates, SenInv, SenTypeOK, ResultTells,
       ArchiveAccepted
  <2>. QED
    BY <2>1, <2>2, <2>3, <2>4 DEF SenInv
<1>4. CASE PhaseDetach
  <2>1. SenTypeOK'
    <3>1. senBox' \in [SenPhases -> BoxStates]
      BY <1>0, <1>4 DEF PhaseDetach, SenInv, SenTypeOK, SensorAssumption
    <3>2. senFaults' \in 0 .. MaxSenFaults
      BY <1>0, <1>4 DEF PhaseDetach, SenInv, SenTypeOK, SensorAssumption
    <3>3. senBuilt' \in [pinned : BOOLEAN, flaw : ArchiveFlaws \cup {"none"}]
      BY <1>0, <1>4 DEF PhaseDetach, SenInv, SenTypeOK, SensorAssumption,
         SnapshotVerified, Unedited
    <3>. QED
      BY <1>0, <1>4, <3>1, <3>2, <3>3 DEF PhaseDetach, SenInv, SenTypeOK
  <2>2. SenWhole'
    BY <1>0, <1>4 DEF PhaseDetach, SenInv, SenWhole, Packing, Packed, Unedited
  <2>3. SenTold'
    BY <1>0, <1>4 DEF PhaseDetach, SenInv, SenTypeOK, SenTold, SenPhase
  <2>4. ResultTells'
    BY <1>0, <1>4 DEF PhaseDetach, SenInv, SenTypeOK, ResultTells, ArchiveAccepted
  <2>. QED
    BY <2>1, <2>2, <2>3, <2>4 DEF SenInv
<1>5. CASE PhaseObserve
  <2>1. SenTypeOK'
    BY <1>0, <1>5 DEF PhaseObserve, SenInv, SenTypeOK, SensorAssumption
  <2>2. SenWhole'
    BY <1>0, <1>5 DEF PhaseObserve, SenInv, SenWhole, Packing, Packed, Unedited
  <2>3. SenTold'
    BY <1>0, <1>5 DEF PhaseObserve, SenInv, SenTypeOK, SenTold, SenPhase
  <2>4. ResultTells'
    BY <1>0, <1>5 DEF PhaseObserve, SenInv, SenTypeOK, ResultTells, ArchiveAccepted
  <2>. QED
    BY <2>1, <2>2, <2>3, <2>4 DEF SenInv
<1>6. ASSUME NEW p \in SenPhases, BoxEnds(p)
      PROVE  SenInv'
  <2>1. SenTypeOK'
    <3>1. senBox' \in [SenPhases -> BoxStates]
      BY <1>6 DEF BoxEnds, SenInv, SenTypeOK, SensorAssumption, BoxStates
    <3>2. senFaults' \in 0 .. MaxSenFaults
      BY <1>6 DEF BoxEnds, SenInv, SenTypeOK, SensorAssumption, BoxStates
    <3>3. senBuilt' \in [pinned : BOOLEAN, flaw : ArchiveFlaws \cup {"none"}]
      <4>1. CASE p = "init"
        BY <1>6, <4>1 DEF BoxEnds, SenInv, SenTypeOK
      <4>2. CASE p = "build"
        <5>1. PICK flaw \in ArchiveFlaws \cup {"none"} :
                 senBuilt' = [pinned |-> SnapshotVerified, flaw |-> flaw]
          BY <1>6, <4>2 DEF BoxEnds
        <5>2. SnapshotVerified \in BOOLEAN
          BY DEF SnapshotVerified, Unedited
        <5>. QED
          BY <5>1, <5>2
      <4>. QED
        BY <4>1, <4>2 DEF SenPhases
    <3>. QED
      BY <1>6, <3>1, <3>2, <3>3 DEF BoxEnds, SenInv, SenTypeOK, BoxStates
  <2>2. SenWhole'
    <3>1. senPc \notin Packed
      BY <1>6 DEF BoxEnds, SenInv, SenWhole
    <3>2. senBox'["build"] = "succeeded" /\ Unedited("snapshot")' => senBuilt'.pinned
      <4>1. CASE p = "init"
        BY <1>6, <4>1 DEF BoxEnds, SenInv, SenTypeOK, SenWhole, Unedited, SenPhases
      <4>2. CASE p = "build"
        <5>1. PICK flaw \in ArchiveFlaws \cup {"none"} :
                 senBuilt' = [pinned |-> SnapshotVerified, flaw |-> flaw]
          BY <1>6, <4>2 DEF BoxEnds
        <5>2. senBuilt'.pinned = SnapshotVerified
          BY <5>1
        <5>. QED
          BY <1>6, <5>2 DEF BoxEnds, SnapshotVerified, Unedited
      <4>. QED
        BY <4>1, <4>2 DEF SenPhases
    <3>. QED
      BY <1>6, <3>1, <3>2 DEF BoxEnds, SenInv, SenWhole, Packing, Packed
  <2>3. SenTold'
    BY <1>6 DEF BoxEnds, SenInv, SenTypeOK, SenTold, SenPhase
  <2>4. ResultTells'
    BY <1>6 DEF BoxEnds, SenInv, SenTypeOK, ResultTells, ArchiveAccepted
  <2>. QED
    BY <2>1, <2>2, <2>3, <2>4 DEF SenInv
<1>. QED
  BY <1>1, <1>2, <1>3, <1>4, <1>5, <1>6

LEMMA SenPublications ==
  ASSUME SenInv, SensorAssumption,
         StagePublication \/ RenamePublication \/ LocatePublication \/ SyncPublication
  PROVE  SenInv'
<1>0. CASE SenFail /\ senPc \in Packing /\ UNCHANGED <<SenDocker, senFinal>>
           /\ senStaging' \in BOOLEAN /\ (SenFault \/ SenNoFault)
  BY <1>0, SenFailure DEF Packing, SenInv, SenTypeOK, SensorAssumption
<1>1. CASE StagePublication
  <2>1. CASE senPc' = "admit" /\ senFaults' = senFaults
    <3>1. SenTypeOK'
      BY <1>1, <2>1 DEF StagePublication, SenInv, SenTypeOK, SensorAssumption
    <3>2. SenWhole'
      BY <1>1, <2>1 DEF StagePublication, SenInv, SenWhole, Packing, Packed
    <3>3. SenTold'
      BY <1>1, <2>1 DEF StagePublication, SenInv, SenTypeOK, SenTold, SenPhase
    <3>4. ResultTells'
      BY <1>1, <2>1 DEF StagePublication, SenInv, SenTypeOK, ResultTells,
         ArchiveAccepted
    <3>. QED
      BY <3>1, <3>2, <3>3, <3>4 DEF SenInv
  <2>. QED
    BY <1>0, <1>1, <2>1 DEF StagePublication, Packing, SenInv, SenTypeOK
<1>2. CASE RenamePublication
  <2>1. CASE senPc' = "locate" /\ senFaults' = senFaults
    <3>1. SenTypeOK'
      BY <1>2, <2>1 DEF RenamePublication, SenInv, SenTypeOK, SensorAssumption
    <3>2. SenWhole'
      BY <1>2, <2>1 DEF RenamePublication, SenInv, SenTypeOK, SenWhole, Packing, Packed
    <3>3. SenTold'
      BY <1>2, <2>1 DEF RenamePublication, SenInv, SenTypeOK, SenTold, SenPhase
    <3>4. ResultTells'
      BY <1>2, <2>1 DEF RenamePublication, SenInv, SenTypeOK, ResultTells,
         ArchiveAccepted
    <3>. QED
      BY <3>1, <3>2, <3>3, <3>4 DEF SenInv
  <2>. QED
    BY <1>0, <1>2, <2>1 DEF RenamePublication, Packing, SenInv, SenTypeOK
<1>3. CASE LocatePublication
  <2>1. CASE senPc' = "sync" /\ senFaults' = senFaults
    <3>1. SenTypeOK'
      BY <1>3, <2>1 DEF LocatePublication, SenInv, SenTypeOK, SensorAssumption
    <3>2. SenWhole'
      BY <1>3, <2>1 DEF LocatePublication, SenInv, SenTypeOK, SenWhole, Packing, Packed
    <3>3. SenTold'
      BY <1>3, <2>1 DEF LocatePublication, SenInv, SenTypeOK, SenTold, SenPhase
    <3>4. ResultTells'
      BY <1>3, <2>1 DEF LocatePublication, SenInv, SenTypeOK, ResultTells,
         ArchiveAccepted
    <3>. QED
      BY <3>1, <3>2, <3>3, <3>4 DEF SenInv
  <2>. QED
    BY <1>0, <1>3, <2>1 DEF LocatePublication, Packing, SenInv, SenTypeOK
<1>4. CASE SyncPublication
  <2>1. CASE senPc' = "over" /\ senFaults' = senFaults
    <3>1. SenTypeOK'
      BY <1>4, <2>1 DEF SyncPublication, SenInv, SenTypeOK, SensorAssumption
    <3>2. SenWhole'
      BY <1>4, <2>1 DEF SyncPublication, SenInv, SenTypeOK, SenWhole, Packing, Packed
    <3>3. SenTold'
      BY <1>4, <2>1 DEF SyncPublication, SenInv, SenTypeOK, SenTold
    <3>4. ResultTells'
      BY <1>4, <2>1 DEF SyncPublication, SenInv, SenTypeOK, ResultTells, SenWhole,
         Packing, Packed
    <3>. QED
      BY <3>1, <3>2, <3>3, <3>4 DEF SenInv
  <2>. QED
    BY <1>0, <1>4, <2>1 DEF SyncPublication, Packing, SenInv, SenTypeOK
<1>. QED
  BY <1>1, <1>2, <1>3, <1>4

LEMMA SenRecoveries ==
  ASSUME SenInv, SensorAssumption,
         RecoverPhase \/ StopPhase \/ ObserveAgain \/ SenKill \/ SenEdit
  PROVE  SenInv'
<1>0. Recovering \in SenPhases
  BY SenPhaseKnown
<1>1. CASE RecoverPhase
  <2>1. SenTypeOK'
    BY <1>0, <1>1 DEF RecoverPhase, KnownStopped, Unverified, Recovered, SenInv,
       SenTypeOK
  <2>2. SenWhole'
    BY <1>0, <1>1 DEF RecoverPhase, KnownStopped, Unverified, Recovered, SenInv,
       SenTypeOK, SenWhole, Packing, Packed, Unedited
  <2>3. SenTold'
    BY <1>0, <1>1 DEF RecoverPhase, KnownStopped, Unverified, Recovered,
       TerminalObserved, SenInv, SenTypeOK, SenTold
  <2>4. ResultTells'
    BY <1>0, <1>1 DEF RecoverPhase, KnownStopped, Unverified, Recovered,
       TerminalObserved, SenInv, SenTypeOK, ResultTells, SenWhole, SenTold
  <2>. QED
    BY <2>1, <2>2, <2>3, <2>4 DEF SenInv
<1>2. CASE StopPhase
  <2>1. SenTypeOK'
    BY <1>0, <1>2 DEF StopPhase, BoxStates, SenInv, SenTypeOK, SensorAssumption
  <2>2. SenWhole'
    BY <1>0, <1>2 DEF StopPhase, SenInv, SenTypeOK, SenWhole, Packing, Packed, Unedited,
       SenPhases
  <2>3. SenTold'
    BY <1>0, <1>2 DEF StopPhase, BoxStates, SenInv, SenTypeOK, SenTold, SenPhase
  <2>4. ResultTells'
    BY <1>0, <1>2 DEF StopPhase, BoxStates, SenInv, SenTypeOK, ResultTells,
       ArchiveAccepted
  <2>. QED
    BY <2>1, <2>2, <2>3, <2>4 DEF SenInv
<1>3. CASE ObserveAgain
  <2>1. SenTypeOK'
    BY <1>0, <1>3 DEF ObserveAgain, KnownStopped, Unverified, Recovered, SenInv,
       SenTypeOK
  <2>2. SenWhole'
    BY <1>0, <1>3 DEF ObserveAgain, KnownStopped, Unverified, Recovered, SenInv,
       SenTypeOK, SenWhole, Packing, Packed, Unedited
  <2>3. SenTold'
    BY <1>0, <1>3 DEF ObserveAgain, StoppedAgain, KnownStopped, Unverified, Recovered,
       TerminalObserved, SenInv, SenTypeOK, SenTold
  <2>4. ResultTells'
    BY <1>0, <1>3 DEF ObserveAgain, StoppedAgain, KnownStopped, Unverified, Recovered,
       TerminalObserved, SenInv, SenTypeOK, ResultTells, SenWhole, SenTold
  <2>. QED
    BY <2>1, <2>2, <2>3, <2>4 DEF SenInv
<1>4. CASE SenKill
  <2>1. SenTypeOK'
    BY <1>0, <1>4 DEF SenKill, SenInv, SenTypeOK, SensorAssumption
  <2>2. SenWhole'
    BY <1>0, <1>4 DEF SenKill, SenInv, SenWhole, Packing, Packed, Unedited
  <2>3. SenTold'
    BY <1>0, <1>4 DEF SenKill, SenInv, SenTypeOK, SenTold, SenPhase
  <2>4. ResultTells'
    BY <1>0, <1>4 DEF SenKill, SenInv, SenTypeOK, ResultTells, ArchiveAccepted
  <2>. QED
    BY <2>1, <2>2, <2>3, <2>4 DEF SenInv
<1>5. CASE SenEdit
  <2>1. SenTypeOK'
    BY <1>0, <1>5 DEF SenEdit, SenInv, SenTypeOK, SensorAssumption
  <2>2. SenWhole'
    BY <1>0, <1>5 DEF SenEdit, SenInv, SenWhole, Unedited
  <2>3. SenTold'
    BY <1>0, <1>5 DEF SenEdit, SenInv, SenTypeOK, SenTold, SenPhase
  <2>4. ResultTells'
    BY <1>0, <1>5 DEF SenEdit, SenInv, SenTypeOK, ResultTells, ArchiveAccepted
  <2>. QED
    BY <2>1, <2>2, <2>3, <2>4 DEF SenInv
<1>. QED
  BY <1>1, <1>2, <1>3, <1>4, <1>5

(* Every container that ran and has not been told of is still to be observed,*)
(* and what is admitted for publication was verified (the recovery and the   *)
(* publication of internal/sensors/build).                                   *)
THEOREM SensorInvariant == SenSpec => []SenInv
<1>1. SenInit => SenInv
  <2>. SUFFICES ASSUME SenInit PROVE SenInv
    OBVIOUS
  <2>1. SenTypeOK
    <3>1. /\ senBox \in [SenPhases -> BoxStates]
          /\ senTerminal \in [SenPhases -> BoxStates \cup {"none"}]
      BY DEF SenInit, BoxStates
    <3>2. senBuilt \in [pinned : BOOLEAN, flaw : ArchiveFlaws \cup {"none"}]
      BY DEF SenInit, NothingBuilt
    <3>3. senFaults \in 0 .. MaxSenFaults
      BY SensorAssumption DEF SenInit, SensorAssumption
    <3>4. senResult \in [failed : BOOLEAN, unknown : SUBSET SenPhases,
                         published : BOOLEAN, located : BOOLEAN, durable : BOOLEAN]
      BY DEF SenInit
    <3>. QED
      BY <3>1, <3>2, <3>3, <3>4 DEF SenInit, SenTypeOK
  <2>2. SenWhole
    BY DEF SenInit, SenWhole, Packing, Packed, SenPhases
  <2>3. SenTold
    BY DEF SenInit, SenTold
  <2>4. ResultTells
    BY DEF SenInit, ResultTells
  <2>. QED
    BY <2>1, <2>2, <2>3, <2>4 DEF SenInv
<1>2. SenInv /\ [SenNext]_senVars => SenInv'
  <2>. SUFFICES ASSUME SenInv, [SenNext]_senVars PROVE SenInv'
    OBVIOUS
  <2>1. CASE SenNext
    BY <2>1, SensorAssumption, SenChecks, SenContainers, SenPublications, SenRecoveries
       DEF SenNext
  <2>2. CASE UNCHANGED senVars
    BY <2>2 DEF senVars, SenInv, SenTypeOK, SenWhole, SenTold, ResultTells, Unedited,
       SenPhase
  <2>. QED
    BY <2>1, <2>2
<1>. QED
  BY <1>1, <1>2, PTL DEF SenSpec

(* For any number of faults and edits, the result of a sensor build is true  *)
(* of what it left: containers, staging and the published directory (Result  *)
(* of internal/sensors/build).                                               *)
THEOREM ResultAlwaysTells == SenSpec => []ResultTells
<1>1. SenInv => ResultTells
  BY DEF SenInv
<1>. QED
  BY <1>1, SensorInvariant, PTL

-----------------------------------------------------------------------------
(* Package releases.  Every variable keeps to its set, every preparation to  *)
(* the steps of its kind, and each private name to its own directory, none,  *)
(* or one that others put there.                                             *)

PkgLast == {"sync", "confirm", "cleanup", "done", "dead"}

PkgPlacesOK ==
    /\ pkgKind \in {"kernel", "audio", "camera"}
    /\ pkgPc \in [Packagers -> PkgPcs]
    /\ \A p \in Packagers : pkgPc[p] \in DOMAIN PkgOrder[pkgKind] \cup PkgLast
    /\ pkgAnswer \in [Packagers -> PkgAnswers]
    /\ pkgStaging \in [Packagers -> Packagers \cup {NoRelease, Stranger}]
    /\ \A p \in Packagers : pkgStaging[p] \in {p, NoRelease, Stranger}
    /\ pkgOutput \in Packagers \cup {NoRelease, Stranger}

PkgHeldOK ==
    /\ pkgSource \in [PkgInputs -> PkgContents] /\ pkgHead \in PkgContents
    /\ pkgRecord \in [Packagers -> [PkgInputs -> PkgContents]]
    /\ pkgFile \in [Packagers -> [PkgInputs -> PkgContents]]
    /\ pkgText \in [Packagers -> [PkgTexts -> PkgWritten]]
    /\ pkgNoted \in [Packagers -> PkgWritten]

PkgMarksOK ==
    /\ pkgLate \subseteq Packagers \X (PkgFiles \cup {"authority"})
    /\ pkgStuck \subseteq Packagers
    /\ pkgAccepted \in [by : Packagers \cup {NoRelease}, files : [PkgInputs -> PkgContents],
                        texts : [PkgTexts -> PkgWritten]]
    /\ pkgEdits \in Nat /\ pkgFaults \in Nat

PkgTyped == PkgPlacesOK /\ PkgHeldOK /\ PkgMarksOK

LEMMA PkgKinds == DOMAIN PkgOrder = {"kernel", "audio", "camera"}
BY DEF PkgOrder

LEMMA PkgKindOrders ==
  /\ PkgOrder["kernel"] = KernelOrder /\ PkgOrder["audio"] = AudioOrder
  /\ PkgOrder["camera"] = CameraOrder
BY DEF PkgOrder

(* The steps of a kind follow one another.                                   *)
LEMMA PkgOrderCloses ==
  ASSUME NEW k \in {"kernel", "audio", "camera"}, NEW x \in DOMAIN PkgOrder[k]
  PROVE  /\ PkgOrder[k][x] \in DOMAIN PkgOrder[k] \cup PkgLast
         /\ PkgOrder[k][x] \in PkgPcs
         /\ PkgOrder[k][x] \notin {"idle", "cleanup", "done", "dead", x}
         /\ PkgOrder[k][x] = "sync" => x = "publish"
         /\ PkgOrder[k][x] = "confirm" => k = "camera" /\ x = "sync"
         /\ x \in {"sync", "confirm", "cleanup", "done", "dead"} =>
               x = "sync" /\ PkgOrder[k][x] = "confirm"
         /\ x = "stage" => PkgOrder[k][x] = "copy"
         /\ x = "publish" => PkgOrder[k][x] = "sync"
         /\ PkgOrder[k][x] \in PkgBefore => x \in PkgBefore \cup {"idle"}
<1>. USE PkgKindOrders DEF PkgLast, PkgPcs, PkgBefore, PkgDuring
<1>1. CASE k = "kernel"
  BY <1>1 DEF KernelOrder
<1>2. CASE k = "audio"
  BY <1>2 DEF AudioOrder
<1>3. CASE k = "camera"
  BY <1>3 DEF CameraOrder
<1>. QED
  BY <1>1, <1>2, <1>3

LEMMA PkgOrderBegins ==
  ASSUME NEW k \in {"kernel", "audio", "camera"}
  PROVE  "idle" \in DOMAIN PkgOrder[k] /\ "stage" \in DOMAIN PkgOrder[k]
         /\ (k = "camera" => "sync" \in DOMAIN PkgOrder[k])
BY PkgKindOrders DEF KernelOrder, AudioOrder, CameraOrder

LEMMA PkgContentsHold ==
  /\ NoContent \in PkgContents /\ Declared \in PkgContents /\ Damaged \in PkgContents
  /\ Coherent \subseteq PkgContents
BY PackageAssumption DEF NoContent, Declared, Damaged, Coherent, PkgContents

LEMMA PkgTypedInit == PkgInit => PkgTyped
<1> SUFFICES ASSUME PkgInit PROVE PkgTyped
  OBVIOUS
<1>1. PkgPlacesOK
  BY PkgKinds, PkgOrderBegins DEF PkgInit, PkgPlacesOK, PkgPcs, PkgAnswers
<1>2. PkgHeldOK
  BY PkgContentsHold DEF PkgInit, PkgHeldOK, AsDeclared, NoInputs, NoTexts, PkgWritten
<1>3. PkgMarksOK
  BY PkgContentsHold DEF PkgInit, PkgMarksOK, NotAccepted, NoInputs, NoTexts, PkgWritten
<1>. QED
  BY <1>1, <1>2, <1>3 DEF PkgTyped

(* What each of the steps of p does to its place, to the directory at its    *)
(* private name, and to the one at the release's.                            *)
PkgOn(p)  == pkgPc' = [pkgPc EXCEPT ![p] = PkgOrder[pkgKind][@]] /\ UNCHANGED pkgAnswer
PkgStill  == UNCHANGED <<pkgStaging, pkgOutput>>
PkgGiven(p) ==
    /\ pkgStaging[p] # NoRelease /\ pkgOutput = NoRelease
    /\ pkgOutput' = pkgStaging[p]
    /\ pkgStaging' = [pkgStaging EXCEPT ![p] = NoRelease]
PkgRemoved(p) ==
    /\ UNCHANGED pkgOutput
    /\ \/ pkgStaging' = [pkgStaging EXCEPT ![p] = IF @ = p THEN NoRelease ELSE @]
       \/ UNCHANGED pkgStaging /\ p \in pkgStuck'

PkgRun(p) ==
    \/ pkgPc[p] \in DOMAIN PkgOrder[pkgKind] \ {"stage", "publish"} /\ PkgOn(p) /\ PkgStill
    \/ /\ pkgPc[p] = "stage" /\ PkgOn(p) /\ UNCHANGED pkgOutput
       /\ pkgStaging' = [pkgStaging EXCEPT ![p] = p]
    \/ pkgPc[p] = "publish" /\ PkgOn(p) /\ PkgGiven(p)
    \/ /\ pkgPc[p] \notin {"cleanup", "done", "dead"} /\ PkgStop(p) /\ PkgStill
       /\ pkgPc[p] = "sync" => pkgKind = "camera"
    \/ pkgPc[p] = "planned" /\ PkgEnd(p, "planned") /\ PkgStill
    \/ /\ pkgPc[p] = "sync" /\ pkgKind # "camera" /\ PkgStill
       /\ PkgEnd(p, "published") \/ PkgEnd(p, "published, not durable")
    \/ /\ pkgPc[p] = "confirm" /\ PkgStill
       /\ PkgEnd(p, IF ManifestDecodes(p) THEN "published" ELSE "failed")
    \/ /\ pkgPc[p] = "cleanup" /\ pkgPc' = [pkgPc EXCEPT ![p] = "done"]
       /\ UNCHANGED pkgAnswer /\ PkgRemoved(p)
    \/ /\ pkgPc[p] \in PkgPcs \ {"idle", "done", "dead"} /\ PkgStill
       /\ pkgPc' = [pkgPc EXCEPT ![p] = "dead"] /\ UNCHANGED pkgAnswer

PkgWorks(p) == PkgStep(p) \/ PkgCleanUpFails(p) \/ PkgFault(p) \/ PkgKill(p)

LEMMA PkgRuns ==
  ASSUME PkgPlacesOK, NEW p \in Packagers, PkgWorks(p), ~PkgValidate(p) PROVE PkgRun(p)
<1>0. pkgKind \in {"kernel", "audio", "camera"}
      /\ pkgPc[p] \in DOMAIN PkgOrder[pkgKind] \cup PkgLast
      /\ pkgStaging \in [Packagers -> Packagers \cup {NoRelease, Stranger}]
  BY DEF PkgPlacesOK
<1>. USE DEF PkgRun, PkgOn, PkgUnless, PkgAdvance, PkgLast, PkgStill, pkgPlaces
<1>1. CASE PkgBegin(p) \/ PkgLookForOutput(p) \/ PkgAuthorise(p) \/ PkgFinishPlan(p)
  BY <1>0, <1>1 DEF PkgBegin, PkgLookForOutput, PkgAuthorise, PkgFinishPlan
<1>2. CASE PkgInspectInput(p) \/ PkgRevalidatePlan(p)
  BY <1>0, <1>2 DEF PkgInspectInput, PkgRevalidatePlan, PkgInputs
<1>3. CASE PkgCopyPayload(p) \/ PkgCopyExtra(p) \/ PkgValidateBundle(p) \/ PkgInspectStaged(p)
  BY <1>0, <1>3 DEF PkgCopyPayload, PkgCopyExtra, PkgCopy, PkgValidateBundle, PkgInspectStaged
<1>4. CASE PkgWriteText(p)
  BY <1>0, <1>4 DEF PkgWriteText, PkgTexts
<1>5. CASE PkgCheck(p) \/ PkgProveIdentity(p) \/ PkgConfirmCompatibility(p)
  BY <1>0, <1>5 DEF PkgCheck, PkgProveIdentity, PkgConfirmCompatibility
<1>6. CASE PkgStage(p)
  BY <1>0, <1>6 DEF PkgStage
<1>7. CASE PkgPublish(p)
  BY <1>0, <1>7 DEF PkgPublish, PkgReachable, PkgGiven
<1>8. CASE PkgSync(p)
  BY <1>0, <1>8, PkgOrderBegins DEF PkgSync
<1>9. CASE PkgConfirm(p)
  BY <1>9 DEF PkgConfirm
<1>10. CASE PkgCleanUp(p) \/ PkgCleanUpFails(p)
  BY <1>10 DEF PkgCleanUp, PkgCleanUpFails, PkgRemoved
<1>11. CASE PkgFault(p)
  BY <1>11 DEF PkgFault, PkgBefore, PkgDuring
<1>12. CASE PkgKill(p)
  BY <1>12 DEF PkgKill
<1>. QED
  BY <1>1, <1>2, <1>3, <1>4, <1>5, <1>6, <1>7, <1>8, <1>9, <1>10, <1>11, <1>12
     DEF PkgWorks, PkgStep

(* What the steps of p do to what is in its directory.                       *)
PkgFills(p) ==
    /\ UNCHANGED <<pkgKind, pkgSource, pkgHead, pkgLate, pkgAccepted>>
    /\ pkgStuck \subseteq pkgStuck' /\ pkgStuck' \subseteq pkgStuck \cup {p}
    /\ \/ UNCHANGED pkgFile
       \/ /\ pkgPc[p] \in {"copy", "copyextra"}
          /\ \E i \in PkgInputs : pkgFile' = [pkgFile EXCEPT ![p][i] = pkgSource[i]]
    /\ \/ UNCHANGED pkgText
       \/ \E t \in PkgTexts : pkgText' = [pkgText EXCEPT ![p][t] = "written"]
    /\ \/ UNCHANGED pkgRecord
       \/ /\ pkgPc[p] \in PkgInputs
          /\ \E i \in PkgInputs : pkgRecord' = [pkgRecord EXCEPT ![p][i] = pkgSource[i]]
       \/ pkgPc[p] = "inspect" /\ pkgRecord' = [pkgRecord EXCEPT ![p] = pkgFile[p]]
    /\ \/ UNCHANGED pkgNoted
       \/ \E t \in PkgTexts : pkgNoted' = [pkgNoted EXCEPT ![p] = pkgText[p][t]]

LEMMA PkgFillsUp ==
  ASSUME PkgHeldOK, NEW p \in Packagers, PkgWorks(p), ~PkgValidate(p) PROVE PkgFills(p)
<1>0. /\ pkgText \in [Packagers -> [PkgTexts -> PkgWritten]]
      /\ pkgNoted \in [Packagers -> PkgWritten]
      /\ "payload" \in PkgInputs /\ "extra" \in PkgInputs
      /\ "declaration" \in PkgTexts /\ "notes" \in PkgTexts
  BY DEF PkgHeldOK, PkgInputs, PkgTexts
<1>. USE DEF PkgFills, pkgWorld, pkgStaged, pkgPlaces, pkgAfter
<1>1. CASE PkgBegin(p) \/ PkgLookForOutput(p) \/ PkgAuthorise(p) \/ PkgFinishPlan(p)
           \/ PkgRevalidatePlan(p) \/ PkgStage(p) \/ PkgValidateBundle(p) \/ PkgCheck(p)
           \/ PkgProveIdentity(p) \/ PkgConfirmCompatibility(p)
  BY <1>1 DEF PkgBegin, PkgLookForOutput, PkgAuthorise, PkgFinishPlan, PkgRevalidatePlan,
       PkgStage, PkgValidateBundle, PkgCheck, PkgProveIdentity, PkgConfirmCompatibility
<1>2. CASE PkgPublish(p) \/ PkgSync(p) \/ PkgConfirm(p) \/ PkgCleanUp(p)
           \/ PkgCleanUpFails(p) \/ PkgFault(p) \/ PkgKill(p)
  BY <1>2 DEF PkgPublish, PkgSync, PkgConfirm, PkgCleanUp, PkgCleanUpFails, PkgFault, PkgKill
<1>3. CASE PkgInspectInput(p)
  BY <1>3 DEF PkgInspectInput
<1>4. CASE PkgInspectStaged(p)
  BY <1>4 DEF PkgInspectStaged
<1>5. ASSUME NEW i \in PkgInputs, PkgCopy(p, i), pkgPc[p] \in {"copy", "copyextra"}
      PROVE  PkgFills(p)
  <2>1. UNCHANGED pkgText
        \/ pkgText' = [pkgText EXCEPT ![p]["declaration"] = "written"]
    <3>1. CASE pkgKind = "camera"
      BY <1>5, <3>1 DEF PkgCopy
    <3>2. CASE pkgKind # "camera"
      BY <1>0, <1>5, <3>2 DEF PkgCopy
    <3>. QED
      BY <3>1, <3>2
  <2>. QED
    BY <1>0, <1>5, <2>1 DEF PkgCopy
<1>6. CASE PkgCopyPayload(p) \/ PkgCopyExtra(p)
  BY <1>0, <1>5, <1>6 DEF PkgCopyPayload, PkgCopyExtra
<1>7. CASE PkgWriteText(p)
  <2>1. PICK t \in PkgTexts :
           /\ pkgText' = [pkgText EXCEPT ![p][t] = "written"]
           /\ pkgNoted' = [pkgNoted EXCEPT ![p] =
                             IF t = "manifest" THEN pkgText[p]["notes"] ELSE @]
           /\ UNCHANGED <<pkgWorld, pkgRecord, pkgFile, pkgPlaces, pkgAfter, pkgBounds>>
    BY <1>7 DEF PkgWriteText
  <2>2. UNCHANGED pkgNoted \/ pkgNoted' = [pkgNoted EXCEPT ![p] = pkgText[p]["notes"]]
    BY <1>0, <2>1
  <2>. QED
    BY <1>0, <2>1, <2>2
<1>. QED
  BY <1>1, <1>2, <1>3, <1>4, <1>6, <1>7 DEF PkgWorks, PkgStep

LEMMA PkgTextsWritten ==
  "written" \in PkgWritten /\ "edited" \in PkgWritten /\ "absent" \in PkgWritten
BY DEF PkgWritten

LEMMA PkgPhases ==
  /\ PkgBefore \subseteq PkgPcs /\ PkgDuring \subseteq PkgPcs /\ PkgLast \subseteq PkgPcs
  /\ PkgLast \cap PkgBefore = {} /\ PkgLast \cap PkgDuring = {} /\ PkgBefore \cap PkgDuring = {}
  /\ "idle" \notin PkgBefore \cup PkgDuring \cup PkgLast
BY DEF PkgBefore, PkgDuring, PkgLast, PkgPcs

(* The sets are kept to.                                                     *)
LEMMA PkgPlacesStep ==
  ASSUME PkgPlacesOK, NEW p \in Packagers, PkgRun(p), UNCHANGED pkgKind PROVE PkgPlacesOK'
<1>0. /\ pkgKind \in {"kernel", "audio", "camera"}
      /\ pkgPc \in [Packagers -> PkgPcs]
      /\ \A q \in Packagers : pkgPc[q] \in DOMAIN PkgOrder[pkgKind] \cup PkgLast
      /\ pkgAnswer \in [Packagers -> PkgAnswers]
      /\ pkgStaging \in [Packagers -> Packagers \cup {NoRelease, Stranger}]
      /\ \A q \in Packagers : pkgStaging[q] \in {q, NoRelease, Stranger}
      /\ pkgOutput \in Packagers \cup {NoRelease, Stranger}
  BY DEF PkgPlacesOK
<1>1. PICK x \in PkgPcs : /\ pkgPc' = [pkgPc EXCEPT ![p] = x]
                          /\ x \in DOMAIN PkgOrder[pkgKind] \cup PkgLast
  <2>1. CASE PkgOn(p) /\ pkgPc[p] \in DOMAIN PkgOrder[pkgKind]
    BY <1>0, <2>1, PkgOrderCloses DEF PkgOn
  <2>2. CASE \E x \in {"cleanup", "done", "dead"} : pkgPc' = [pkgPc EXCEPT ![p] = x]
    BY <2>2, PkgPhases DEF PkgLast
  <2>. QED
    BY <1>0, <2>1, <2>2 DEF PkgRun, PkgStop, PkgEnd, PkgLast
<1>2. /\ pkgPc' \in [Packagers -> PkgPcs]
      /\ \A q \in Packagers : pkgPc'[q] \in DOMAIN PkgOrder[pkgKind] \cup PkgLast
  BY <1>0, <1>1
<1>3. pkgAnswer' \in [Packagers -> PkgAnswers]
  <2>1. UNCHANGED pkgAnswer \/ \E a \in PkgAnswers : pkgAnswer' = [pkgAnswer EXCEPT ![p] = a]
    BY DEF PkgRun, PkgOn, PkgStop, PkgEnd, PkgAnswers
  <2>. QED
    BY <1>0, <2>1
<1>4. /\ pkgStaging' \in [Packagers -> Packagers \cup {NoRelease, Stranger}]
      /\ \A q \in Packagers : pkgStaging'[q] \in {q, NoRelease, Stranger}
  <2>1. \/ UNCHANGED pkgStaging
        \/ \E d \in {p, NoRelease, Stranger} : pkgStaging' = [pkgStaging EXCEPT ![p] = d]
    BY <1>0 DEF PkgRun, PkgStill, PkgGiven, PkgRemoved
  <2>. QED
    BY <1>0, <2>1
<1>5. pkgOutput' \in Packagers \cup {NoRelease, Stranger}
  BY <1>0 DEF PkgRun, PkgStill, PkgGiven, PkgRemoved
<1>. QED
  BY <1>0, <1>2, <1>3, <1>4, <1>5 DEF PkgPlacesOK

LEMMA PkgHeldStep ==
  ASSUME PkgHeldOK, NEW p \in Packagers, PkgFills(p) PROVE PkgHeldOK'
<1>0. /\ pkgSource \in [PkgInputs -> PkgContents] /\ pkgHead \in PkgContents
      /\ pkgRecord \in [Packagers -> [PkgInputs -> PkgContents]]
      /\ pkgFile \in [Packagers -> [PkgInputs -> PkgContents]]
      /\ pkgText \in [Packagers -> [PkgTexts -> PkgWritten]]
      /\ pkgNoted \in [Packagers -> PkgWritten]
      /\ UNCHANGED <<pkgSource, pkgHead>>
  BY DEF PkgHeldOK, PkgFills
<1>1. pkgFile' \in [Packagers -> [PkgInputs -> PkgContents]]
  <2>1. CASE UNCHANGED pkgFile
    BY <1>0, <2>1
  <2>2. CASE \E i \in PkgInputs : pkgFile' = [pkgFile EXCEPT ![p][i] = pkgSource[i]]
    BY <1>0, <2>2
  <2>. QED
    BY <2>1, <2>2 DEF PkgFills
<1>2. pkgText' \in [Packagers -> [PkgTexts -> PkgWritten]]
  <2>1. CASE UNCHANGED pkgText
    BY <1>0, <2>1
  <2>2. CASE \E t \in PkgTexts : pkgText' = [pkgText EXCEPT ![p][t] = "written"]
    BY <1>0, <2>2, PkgTextsWritten
  <2>. QED
    BY <2>1, <2>2 DEF PkgFills
<1>3. pkgRecord' \in [Packagers -> [PkgInputs -> PkgContents]]
  <2>1. CASE UNCHANGED pkgRecord
    BY <1>0, <2>1
  <2>2. CASE \E i \in PkgInputs : pkgRecord' = [pkgRecord EXCEPT ![p][i] = pkgSource[i]]
    BY <1>0, <2>2
  <2>3. CASE pkgRecord' = [pkgRecord EXCEPT ![p] = pkgFile[p]]
    BY <1>0, <2>3
  <2>. QED
    BY <2>1, <2>2, <2>3 DEF PkgFills
<1>4. pkgNoted' \in [Packagers -> PkgWritten]
  <2>1. CASE UNCHANGED pkgNoted
    BY <1>0, <2>1
  <2>2. CASE \E t \in PkgTexts : pkgNoted' = [pkgNoted EXCEPT ![p] = pkgText[p][t]]
    BY <1>0, <2>2
  <2>. QED
    BY <2>1, <2>2 DEF PkgFills
<1>. QED
  BY <1>0, <1>1, <1>2, <1>3, <1>4 DEF PkgHeldOK

LEMMA PkgMarksStep ==
  ASSUME PkgMarksOK, NEW p \in Packagers, PkgWorks(p), PkgFills(p) PROVE PkgMarksOK'
<1>1. pkgStuck' \subseteq Packagers /\ UNCHANGED <<pkgLate, pkgAccepted>>
  BY DEF PkgFills, PkgMarksOK
<1>2. pkgEdits' \in Nat /\ pkgFaults' \in Nat
  <2>1. pkgEdits' = pkgEdits /\ (pkgFaults' = pkgFaults \/ pkgFaults' = pkgFaults + 1)
    <3>. USE DEF pkgBounds
    <3>1. CASE PkgBegin(p) \/ PkgLookForOutput(p) \/ PkgAuthorise(p) \/ PkgFinishPlan(p)
               \/ PkgRevalidatePlan(p) \/ PkgStage(p) \/ PkgValidateBundle(p) \/ PkgCheck(p)
               \/ PkgProveIdentity(p) \/ PkgConfirmCompatibility(p)
      BY <3>1 DEF PkgBegin, PkgLookForOutput, PkgAuthorise, PkgFinishPlan, PkgRevalidatePlan,
           PkgStage, PkgValidateBundle, PkgCheck, PkgProveIdentity, PkgConfirmCompatibility
    <3>2. CASE PkgPublish(p) \/ PkgSync(p) \/ PkgConfirm(p) \/ PkgCleanUp(p)
               \/ PkgCleanUpFails(p) \/ PkgFault(p) \/ PkgKill(p)
      BY <3>2 DEF PkgPublish, PkgSync, PkgConfirm, PkgCleanUp, PkgCleanUpFails, PkgFault,
                  PkgKill, PkgFaulty
    <3>3. CASE PkgInspectInput(p) \/ PkgInspectStaged(p) \/ PkgCopyPayload(p)
               \/ PkgCopyExtra(p) \/ PkgWriteText(p) \/ PkgValidate(p)
      BY <3>3 DEF PkgInspectInput, PkgInspectStaged, PkgCopyPayload, PkgCopyExtra, PkgCopy,
                  PkgWriteText, PkgValidate
    <3>. QED
      BY <3>1, <3>2, <3>3 DEF PkgWorks, PkgStep
  <2>. QED
    BY <2>1 DEF PkgMarksOK
<1>. QED
  BY <1>1, <1>2 DEF PkgMarksOK

(* A validation changes what was accepted, others change what they can reach.*)
LEMMA PkgValidateTyped ==
  ASSUME PkgTyped, NEW p \in Packagers, PkgValidate(p) PROVE PkgTyped'
<1>1. UNCHANGED <<pkgWorld, pkgRecord, pkgStaged, pkgPc, pkgAnswer, pkgPlaces, pkgLate, pkgBounds>>
      /\ pkgAccepted' = [by |-> p, files |-> pkgFile[p], texts |-> pkgText[p]]
  BY DEF PkgValidate
<1>2. PkgPlacesOK' /\ PkgHeldOK'
  BY <1>1 DEF PkgTyped, PkgPlacesOK, PkgHeldOK, pkgWorld, pkgStaged, pkgPlaces
<1>3. PkgMarksOK'
  BY <1>1 DEF PkgTyped, PkgHeldOK, PkgMarksOK, pkgBounds, pkgPlaces
<1>. QED
  BY <1>2, <1>3 DEF PkgTyped

PkgOthers ==
    \/ PkgEditSource \/ PkgEditHead
    \/ \E p \in Packagers : PkgEditFile(p) \/ PkgSwap(p)

LEMMA PkgOthersTyped == ASSUME PkgTyped, PkgOthers PROVE PkgTyped'
<1>0. pkgEdits' \in Nat /\ UNCHANGED <<pkgStuck, pkgAccepted, pkgFaults>>
  <2>1. pkgEdits' = pkgEdits + 1
    BY DEF PkgOthers, PkgEditSource, PkgEditHead, PkgEditFile, PkgSwap, PkgEdit
  <2>. QED
    BY <2>1 DEF PkgTyped, PkgMarksOK, PkgOthers, PkgEditSource, PkgEditHead, PkgEditFile,
                PkgSwap, pkgAfter, pkgPlaces
<1>. USE DEF PkgTyped
<1>1. CASE PkgEditSource
  <2>1. PkgPlacesOK'
    BY <1>1 DEF PkgPlacesOK, PkgEditSource, pkgPlaces
  <2>2. PkgHeldOK'
    BY <1>1, PkgContentsHold DEF PkgHeldOK, PkgEditSource, pkgStaged
  <2>3. PkgMarksOK'
    BY <1>0, <1>1 DEF PkgMarksOK, PkgEditSource, pkgAfter
  <2>. QED
    BY <2>1, <2>2, <2>3
<1>2. CASE PkgEditHead
  <2>1. PkgPlacesOK'
    BY <1>2 DEF PkgPlacesOK, PkgEditHead, pkgPlaces
  <2>2. PkgHeldOK'
    BY <1>2, PkgContentsHold DEF PkgHeldOK, PkgEditHead, pkgStaged
  <2>3. pkgLate' \subseteq Packagers \X (PkgFiles \cup {"authority"})
    BY <1>2 DEF PkgEditHead, PkgMarksOK
  <2>4. PkgMarksOK'
    BY <1>0, <2>3 DEF PkgMarksOK
  <2>. QED
    BY <2>1, <2>2, <2>4
<1>3. ASSUME NEW p \in Packagers, PkgEditFile(p) PROVE PkgTyped'
  <2>1. PkgPlacesOK'
    BY <1>3 DEF PkgPlacesOK, PkgEditFile, pkgPlaces, pkgWorld
  <2>2. PkgHeldOK'
    <3>1. PICK f \in PkgFiles :
             \/ /\ f \in PkgInputs /\ UNCHANGED pkgText
                /\ pkgFile' = [pkgFile EXCEPT ![p][f] = Damaged]
             \/ /\ f \in PkgTexts /\ UNCHANGED pkgFile
                /\ pkgText' = [pkgText EXCEPT ![p][f] = "edited"]
      BY <1>3 DEF PkgEditFile
    <3>0. /\ pkgFile \in [Packagers -> [PkgInputs -> PkgContents]]
          /\ pkgText \in [Packagers -> [PkgTexts -> PkgWritten]]
      BY DEF PkgHeldOK
    <3>2. pkgFile' \in [Packagers -> [PkgInputs -> PkgContents]]
      <4>1. CASE UNCHANGED pkgFile
        BY <3>0, <4>1
      <4>2. CASE f \in PkgInputs /\ pkgFile' = [pkgFile EXCEPT ![p][f] = Damaged]
        BY <3>0, <4>2, PkgContentsHold
      <4>. QED
        BY <3>1, <4>1, <4>2
    <3>3. pkgText' \in [Packagers -> [PkgTexts -> PkgWritten]]
      <4>1. CASE UNCHANGED pkgText
        BY <3>0, <4>1
      <4>2. CASE f \in PkgTexts /\ pkgText' = [pkgText EXCEPT ![p][f] = "edited"]
        BY <3>0, <4>2, PkgTextsWritten
      <4>. QED
        BY <3>1, <4>1, <4>2
    <3>4. UNCHANGED <<pkgSource, pkgHead, pkgRecord, pkgNoted>>
      BY <1>3 DEF PkgEditFile, pkgWorld
    <3>. QED
      BY <3>2, <3>3, <3>4 DEF PkgHeldOK
  <2>3. pkgLate' \subseteq Packagers \X (PkgFiles \cup {"authority"})
    BY <1>3 DEF PkgEditFile, PkgMarksOK
  <2>4. PkgMarksOK'
    BY <1>0, <2>3 DEF PkgMarksOK
  <2>. QED
    BY <2>1, <2>2, <2>4
<1>4. ASSUME NEW p \in Packagers, PkgSwap(p) PROVE PkgTyped'
  <2>1. PICK d \in {NoRelease, Stranger} : pkgStaging' = [pkgStaging EXCEPT ![p] = d]
    BY <1>4 DEF PkgSwap
  <2>2. PkgPlacesOK'
    BY <1>4, <2>1 DEF PkgPlacesOK, PkgSwap, pkgWorld
  <2>3. PkgHeldOK'
    <3>1. NoInputs \in [PkgInputs -> PkgContents] /\ NoTexts \in [PkgTexts -> PkgWritten]
      BY PkgContentsHold, PkgTextsWritten DEF NoInputs, NoTexts
    <3>. QED
      BY <1>4, <3>1 DEF PkgHeldOK, PkgSwap, pkgWorld
  <2>4. PkgMarksOK'
    BY <1>0, <1>4 DEF PkgMarksOK, PkgSwap, pkgAfter
  <2>. QED
    BY <2>2, <2>3, <2>4
<1>. QED
  BY <1>1, <1>2, <1>3, <1>4 DEF PkgOthers

LEMMA PkgSplit ==
  PkgNext <=> PkgOthers \/ \E p \in Packagers : PkgWorks(p)
BY DEF PkgNext, PkgOthers, PkgWorks

LEMMA PkgTypedNext == PkgTyped /\ [PkgNext]_pkgVars => PkgTyped'
<1> SUFFICES ASSUME PkgTyped, [PkgNext]_pkgVars PROVE PkgTyped'
  OBVIOUS
<1>1. CASE UNCHANGED pkgVars
  BY <1>1 DEF pkgVars, pkgWorld, pkgStaged, pkgPlaces, pkgAfter, pkgBounds, PkgTyped,
              PkgPlacesOK, PkgHeldOK, PkgMarksOK
<1>2. ASSUME NEW p \in Packagers, PkgWorks(p), ~PkgValidate(p) PROVE PkgTyped'
  <2>1. PkgFills(p) /\ PkgRun(p)
    BY <1>2, PkgFillsUp, PkgRuns DEF PkgTyped
  <2>2. UNCHANGED pkgKind
    BY <2>1 DEF PkgFills
  <2>. QED
    BY <1>2, <2>1, <2>2, PkgPlacesStep, PkgHeldStep, PkgMarksStep DEF PkgTyped
<1>. QED
  BY <1>1, <1>2, PkgSplit, PkgOthersTyped, PkgValidateTyped

(* Every state of the packaging has its type.                                *)
LEMMA PkgTypedAlways == PkgSpec => []PkgTyped
BY PkgTypedInit, PkgTypedNext, PTL DEF PkgSpec

(* The variables of the packaging keep to their sets.                        *)
THEOREM PkgTypeCorrect == PkgSpec => []PkgTypeOK
<1>1. PkgTyped => PkgTypeOK
  BY PkgKinds DEF PkgTyped, PkgPlacesOK, PkgHeldOK, PkgMarksOK, PkgTypeOK
<1>. QED
  BY <1>1, PkgTypedAlways, PTL

-----------------------------------------------------------------------------
(* Where the directory of a preparation can be, and what it says of it.      *)
PkgFinal == {"sync", "confirm", "done", "dead"}

PkgPlaced(p) ==
    /\ pkgOutput = p => pkgPc[p] \in PkgFinal /\ pkgStaging[p] # p
    /\ pkgPc[p] \in {"sync", "confirm"} =>
          pkgOutput \in {p, Stranger} /\ pkgStaging[p] # p
    /\ pkgPc[p] \in PkgBefore \cup {"idle"} => pkgStaging[p] # p
    /\ pkgPc[p] = "confirm" => pkgKind = "camera"
    /\ pkgAnswer[p] \in {"published", "published, not durable"} =>
          pkgOutput \in {p, Stranger}
    /\ pkgPc[p] = "done" /\ pkgAnswer[p] = "failed" =>
          /\ pkgOutput = p => pkgKind = "camera"
          /\ pkgStaging[p] = p => p \in pkgStuck
    /\ pkgAnswer[p] = "published" => pkgPc[p] = "done"

PkgPlacement == \A p \in Packagers : PkgPlaced(p)

LEMMA PkgPlacementInit == PkgInit => PkgPlacement
<1> SUFFICES ASSUME PkgInit, NEW p \in Packagers PROVE PkgPlaced(p)
  BY DEF PkgPlacement
<1>1. pkgPc[p] = "idle" /\ pkgAnswer[p] = "none" /\ pkgStaging[p] = NoRelease
      /\ pkgOutput = NoRelease /\ p # NoRelease
  BY PackageAssumption DEF PkgInit
<1>. QED
  BY <1>1 DEF PkgPlaced

(* The place of another preparation is not touched.                          *)
LEMMA PkgPlacedElsewhere ==
  ASSUME PkgPlacesOK, NEW p \in Packagers, NEW q \in Packagers, p # q,
         PkgRun(p), PkgFills(p), PkgPlaced(q)
  PROVE  PkgPlaced(q)'
<1>1. UNCHANGED pkgKind /\ pkgStuck \subseteq pkgStuck'
  BY DEF PkgFills
<1>2. pkgPc'[q] = pkgPc[q] /\ pkgAnswer'[q] = pkgAnswer[q] /\ pkgStaging'[q] = pkgStaging[q]
  BY DEF PkgRun, PkgPlacesOK, PkgOn, PkgStop, PkgEnd, PkgStill, PkgGiven, PkgRemoved
<1>3. pkgOutput' = pkgOutput \/ (pkgOutput = NoRelease /\ pkgOutput' \in {p, Stranger})
  BY DEF PkgRun, PkgPlacesOK, PkgStill, PkgGiven, PkgRemoved
<1>. QED
  BY <1>1, <1>2, <1>3, PackageAssumption DEF PkgPlaced

LEMMA PkgPlacedHere ==
  ASSUME PkgPlacesOK, NEW p \in Packagers, PkgRun(p), PkgFills(p), PkgPlaced(p)
  PROVE  PkgPlaced(p)'
<1>1. UNCHANGED pkgKind /\ pkgStuck \subseteq pkgStuck'
  BY DEF PkgFills
<1>0. /\ pkgKind \in {"kernel", "audio", "camera"}
      /\ pkgPc \in [Packagers -> PkgPcs]
      /\ pkgPc[p] \in DOMAIN PkgOrder[pkgKind] \cup PkgLast
      /\ pkgAnswer \in [Packagers -> PkgAnswers]
      /\ pkgStaging \in [Packagers -> Packagers \cup {NoRelease, Stranger}]
      /\ pkgStaging[p] \in {p, NoRelease, Stranger}
      /\ p \notin {NoRelease, Stranger} /\ NoRelease # Stranger
  BY PackageAssumption DEF PkgPlacesOK
<1>2. CASE /\ pkgPc[p] \in DOMAIN PkgOrder[pkgKind] \ {"stage", "publish"}
           /\ PkgOn(p) /\ PkgStill
  <2>. DEFINE y == PkgOrder[pkgKind][pkgPc[p]]
  <2>1. /\ y \notin {"idle", "cleanup", "done", "dead", "sync"}
        /\ y = "confirm" => pkgKind = "camera" /\ pkgPc[p] = "sync"
        /\ pkgPc[p] \in PkgFinal => pkgPc[p] = "sync" /\ y = "confirm"
        /\ y \in PkgBefore => pkgPc[p] \in PkgBefore \cup {"idle"}
    BY <1>0, <1>2, PkgOrderCloses DEF PkgFinal
  <2>2. pkgPc'[p] = y /\ UNCHANGED <<pkgAnswer, pkgStaging, pkgOutput>>
    BY <1>0, <1>2 DEF PkgOn, PkgStill
  <2>. HIDE DEF y
  <2>. QED
    BY <1>1, <2>1, <2>2 DEF PkgPlaced, PkgFinal
<1>3. CASE /\ pkgPc[p] = "stage" /\ PkgOn(p) /\ UNCHANGED pkgOutput
           /\ pkgStaging' = [pkgStaging EXCEPT ![p] = p]
  <2>1. pkgPc'[p] = "copy" /\ pkgStaging'[p] = p /\ UNCHANGED <<pkgAnswer, pkgOutput>>
    BY <1>0, <1>3, PkgOrderCloses DEF PkgOn, PkgLast
  <2>. QED
    BY <1>1, <1>3, <2>1 DEF PkgPlaced, PkgFinal, PkgBefore
<1>4. CASE pkgPc[p] = "publish" /\ PkgOn(p) /\ PkgGiven(p)
  <2>1. /\ pkgPc'[p] = "sync" /\ pkgStaging'[p] = NoRelease /\ UNCHANGED pkgAnswer
        /\ pkgOutput = NoRelease /\ pkgOutput' \in {p, Stranger}
    BY <1>0, <1>4, PkgOrderCloses DEF PkgOn, PkgGiven, PkgLast
  <2>. QED
    BY <1>0, <1>1, <1>4, <2>1 DEF PkgPlaced, PkgFinal, PkgBefore
<1>5. CASE /\ pkgPc[p] \notin {"cleanup", "done", "dead"} /\ PkgStop(p) /\ PkgStill
           /\ pkgPc[p] = "sync" => pkgKind = "camera"
  <2>1. /\ pkgPc'[p] = IF pkgPc[p] \in PkgDuring THEN "cleanup" ELSE "done"
        /\ pkgAnswer'[p] = "failed" /\ UNCHANGED <<pkgStaging, pkgOutput>>
    BY <1>0, <1>5 DEF PkgStop, PkgStill
  <2>2. CASE pkgPc[p] \in PkgDuring
    <3>1. pkgPc[p] \notin PkgFinal
      BY <2>2, PkgPhases DEF PkgFinal, PkgLast
    <3>. QED
      BY <1>1, <2>1, <2>2, <3>1 DEF PkgPlaced, PkgBefore
  <2>3. CASE pkgPc[p] \in PkgBefore \cup {"idle"}
    <3>1. pkgPc[p] \notin PkgDuring /\ pkgPc[p] \notin PkgFinal
      BY <2>3, PkgPhases DEF PkgFinal, PkgLast
    <3>. QED
      BY <1>1, <2>1, <2>3, <3>1 DEF PkgPlaced, PkgBefore
  <2>4. CASE pkgPc[p] \in {"sync", "confirm"}
    BY <1>1, <1>5, <2>1, <2>4 DEF PkgPlaced, PkgBefore, PkgDuring, PkgFinal
  <2>. QED
    BY <1>0, <1>5, <2>2, <2>3, <2>4 DEF PkgPcs
<1>6. CASE pkgPc[p] = "planned" /\ PkgEnd(p, "planned") /\ PkgStill
  BY <1>0, <1>1, <1>6 DEF PkgEnd, PkgStill, PkgPlaced, PkgFinal, PkgBefore
<1>7. CASE /\ pkgPc[p] = "sync" /\ pkgKind # "camera" /\ PkgStill
           /\ PkgEnd(p, "published") \/ PkgEnd(p, "published, not durable")
  BY <1>0, <1>1, <1>7 DEF PkgEnd, PkgStill, PkgPlaced, PkgFinal, PkgBefore
<1>8. CASE /\ pkgPc[p] = "confirm" /\ PkgStill
           /\ PkgEnd(p, IF ManifestDecodes(p) THEN "published" ELSE "failed")
  BY <1>0, <1>1, <1>8 DEF PkgEnd, PkgStill, PkgPlaced, PkgFinal, PkgBefore
<1>9. CASE /\ pkgPc[p] = "cleanup" /\ pkgPc' = [pkgPc EXCEPT ![p] = "done"]
           /\ UNCHANGED pkgAnswer /\ PkgRemoved(p)
  <2>1. /\ pkgPc'[p] = "done" /\ UNCHANGED pkgOutput /\ pkgOutput # p
        /\ pkgStaging'[p] # p \/ p \in pkgStuck'
    BY <1>0, <1>9 DEF PkgRemoved, PkgPlaced, PkgFinal
  <2>. QED
    BY <1>1, <1>9, <2>1 DEF PkgPlaced, PkgFinal, PkgBefore
<1>10. CASE /\ pkgPc[p] \in PkgPcs \ {"idle", "done", "dead"} /\ PkgStill
            /\ pkgPc' = [pkgPc EXCEPT ![p] = "dead"] /\ UNCHANGED pkgAnswer
  BY <1>0, <1>1, <1>10 DEF PkgStill, PkgPlaced, PkgFinal, PkgBefore
<1>. QED
  BY <1>2, <1>3, <1>4, <1>5, <1>6, <1>7, <1>8, <1>9, <1>10 DEF PkgRun

LEMMA PkgPlacementNext ==
  PkgTyped /\ PkgPlacement /\ [PkgNext]_pkgVars => PkgPlacement'
<1> SUFFICES ASSUME PkgTyped, PkgPlacement, [PkgNext]_pkgVars, NEW q \in Packagers
             PROVE  PkgPlaced(q)'
  BY DEF PkgPlacement
<1>0. PkgPlaced(q) /\ PkgPlacesOK
  BY DEF PkgPlacement, PkgTyped
<1>1. CASE UNCHANGED pkgVars
  BY <1>0, <1>1 DEF pkgVars, pkgWorld, pkgPlaces, PkgPlaced
<1>2. ASSUME NEW p \in Packagers, PkgWorks(p), ~PkgValidate(p) PROVE PkgPlaced(q)'
  BY <1>0, <1>2, PkgFillsUp, PkgRuns, PkgPlacedElsewhere, PkgPlacedHere DEF PkgTyped
<1>3. ASSUME NEW p \in Packagers, PkgValidate(p) PROVE PkgPlaced(q)'
  BY <1>0, <1>3 DEF PkgValidate, pkgWorld, pkgPlaces, PkgPlaced
<1>4. CASE PkgEditSource \/ PkgEditHead
  BY <1>0, <1>4 DEF PkgEditSource, PkgEditHead, pkgPlaces, PkgPlaced
<1>5. ASSUME NEW p \in Packagers, PkgEditFile(p) PROVE PkgPlaced(q)'
  BY <1>0, <1>5 DEF PkgEditFile, pkgWorld, pkgPlaces, PkgPlaced
<1>6. ASSUME NEW p \in Packagers, PkgSwap(p) PROVE PkgPlaced(q)'
  <2>1. pkgStaging'[q] = pkgStaging[q] \/ pkgStaging'[q] # q
    BY <1>0, <1>6, PackageAssumption DEF PkgSwap, PkgPlacesOK
  <2>2. UNCHANGED <<pkgKind, pkgPc, pkgAnswer, pkgOutput, pkgStuck>>
    BY <1>6 DEF PkgSwap, pkgWorld
  <2>. QED
    BY <1>0, <2>1, <2>2 DEF PkgPlaced
<1>. QED
  BY <1>1, <1>2, <1>3, <1>4, <1>5, <1>6, PkgSplit DEF PkgOthers

LEMMA PkgPlacementAlways == PkgSpec => []PkgPlacement
BY PkgTypedAlways, PkgPlacementInit, PkgPlacementNext, PTL DEF PkgSpec

(* Whatever happens, "published" means the directory, or one put in its      *)
(* place, has the name, and "failed" leaves neither behind.                  *)
THEOREM PackageAnswerAlwaysTells == PkgSpec => []PackageAnswerTells
<1>1. PkgPlacement => PackageAnswerTells
  BY DEF PkgPlacement, PkgPlaced, PackageAnswerTells
<1>. QED
  BY <1>1, PkgPlacementAlways, PTL

-----------------------------------------------------------------------------
(* At which steps a file of the staging directory is already what it must    *)
(* be, as long as nobody touches it.                                         *)
PkgSettled(k, f) ==
    CASE k = "kernel" -> {"last", "publish"}
      [] k = "audio" /\ f = "manifest" ->
            {"check", "identity", "reauthorise", "recheck", "publish"}
      [] k = "audio" /\ f = "authority" -> {"recheck", "publish"}
      [] k = "audio" /\ f \notin {"manifest", "authority"} -> {"publish"}
      [] k = "camera" /\ f = "manifest" -> {}
      [] k = "camera" /\ f = "notes" -> {"manifest", "check", "reauthorise", "compat", "publish"}
      [] k = "camera" /\ f = "declaration" -> {"publish"}
      [] k = "camera" /\ f = "authority" -> {"compat", "publish"}
      [] k = "camera" /\ f = "sums" -> {"reauthorise", "compat", "publish"}
      [] k = "camera" /\ f \in PkgInputs ->
            {"inspect", "sums", "notes", "manifest", "check", "reauthorise", "compat", "publish"}

(* Where it becomes so.                                                      *)
PkgSettles(k, f, x) ==
    \/ k = "kernel" /\ x = "check"
    \/ k = "audio" /\ f = "manifest" /\ x = "manifest"
    \/ k = "audio" /\ f = "authority" /\ x = "reauthorise"
    \/ k = "audio" /\ f \notin {"manifest", "authority"} /\ x = "recheck"
    \/ k = "camera" /\ f = "notes" /\ x = "notes"
    \/ k = "camera" /\ f = "declaration" /\ x = "compat"
    \/ k = "camera" /\ f = "authority" /\ x = "reauthorise"
    \/ k = "camera" /\ f = "sums" /\ x = "check"
    \/ k = "camera" /\ f \in PkgInputs /\ x = "validate"

PkgLooked == PkgFiles \cup {"authority"}

LEMMA PkgSettlesFrom ==
  ASSUME NEW k \in {"kernel", "audio", "camera"}, NEW f \in PkgLooked,
         NEW x \in DOMAIN PkgOrder[k], PkgOrder[k][x] \in PkgSettled(k, f)
  PROVE  x \in PkgSettled(k, f) \/ PkgSettles(k, f, x)
<1>. USE PkgKindOrders DEF PkgSettled, PkgSettles, PkgLooked, PkgFiles, PkgInputs, PkgTexts
<1>1. CASE k = "kernel"
  BY <1>1 DEF KernelOrder
<1>2. CASE k = "audio"
  BY <1>2 DEF AudioOrder
<1>3. CASE k = "camera"
  BY <1>3 DEF CameraOrder
<1>. QED
  BY <1>1, <1>2, <1>3

LEMMA PkgSettledLate ==
  ASSUME NEW k \in {"kernel", "audio", "camera"}, NEW f \in PkgLooked
  PROVE  /\ PkgSettled(k, f) \subseteq PkgDuring \ {"copy", "copyextra"}
         /\ k = "kernel" => PkgSettled(k, f) = {"last", "publish"}
         /\ "publish" \in PkgSettled(k, f) \/ (k = "camera" /\ f = "manifest")
         /\ k = "kernel" => PkgSettled(k, f) \subseteq UnwatchedKernel(f)
         /\ k = "audio" => PkgSettled(k, f) \subseteq UnwatchedAudio(f)
         /\ k = "camera" => PkgSettled(k, f) \subseteq UnwatchedCamera(f)
BY DEF PkgSettled, PkgLooked, PkgFiles, PkgInputs, PkgTexts, UnwatchedKernel, UnwatchedAudio,
       UnwatchedCamera, PkgDuring, PkgPcs, PkgBefore, PkgOut, PkgGone

LEMMA PkgUnwatchedEnd ==
  ASSUME NEW f \in PkgLooked
  PROVE  /\ PkgFinal \subseteq UnwatchedKernel(f) /\ PkgFinal \subseteq UnwatchedAudio(f)
         /\ f # "manifest" => PkgFinal \subseteq UnwatchedCamera(f)
         /\ {"done", "dead"} \subseteq UnwatchedCamera(f)
BY DEF PkgLooked, PkgFiles, PkgInputs, PkgTexts, UnwatchedKernel, UnwatchedAudio,
       UnwatchedCamera, PkgDuring, PkgPcs, PkgBefore, PkgOut, PkgGone, PkgFinal

(* What a file must be.                                                      *)
PkgRight(p, f) ==
    /\ f \in PkgInputs => pkgFile[p][f] = PkgAuthorised(p)[f]
    /\ f \in PkgTexts => pkgText[p][f] = "written"
    /\ f = "authority" => pkgKind = "kernel" \/ pkgHead = Declared

PkgBound(p, f) ==
    \/ pkgStaging[p] = p /\ pkgPc[p] \in PkgSettled(pkgKind, f)
    \/ /\ pkgOutput = p
       /\ pkgKind = "camera" /\ f = "manifest" => pkgAnswer[p] = "published"

PkgKept(p, f) == PkgBound(p, f) => PkgRight(p, f) \/ <<p, f>> \in pkgLate

PkgAllKept == \A p \in Packagers : \A f \in PkgLooked : PkgKept(p, f)

LEMMA PkgKeptInit == PkgInit => PkgAllKept
<1> SUFFICES ASSUME PkgInit, NEW p \in Packagers, NEW f \in PkgLooked PROVE ~PkgBound(p, f)
  BY DEF PkgAllKept, PkgKept
<1>1. pkgStaging[p] = NoRelease /\ pkgOutput = NoRelease /\ p # NoRelease
  BY PackageAssumption DEF PkgInit
<1>. QED
  BY <1>1 DEF PkgBound

(* A step establishes what it looks at.                                      *)
LEMMA PkgLookedAt ==
  ASSUME PkgTyped, NEW p \in Packagers, NEW f \in PkgLooked, PkgWorks(p), ~PkgValidate(p),
         PkgSettles(pkgKind, f, pkgPc[p]), pkgPc[p] \in DOMAIN PkgOrder[pkgKind],
         pkgPc'[p] = PkgOrder[pkgKind][pkgPc[p]]
  PROVE  PkgRight(p, f)'
<1>0. /\ pkgKind \in {"kernel", "audio", "camera"} /\ pkgPc \in [Packagers -> PkgPcs]
      /\ pkgText \in [Packagers -> [PkgTexts -> PkgWritten]]
      /\ pkgFile \in [Packagers -> [PkgInputs -> PkgContents]]
  BY DEF PkgTyped, PkgPlacesOK, PkgHeldOK
<1>1. pkgPc'[p] \notin {"done", "cleanup", "dead"}
  BY <1>0, PkgOrderCloses
<1>2. /\ ~PkgStop(p) /\ ~PkgFault(p) /\ ~PkgKill(p)
      /\ ~PkgCleanUp(p) /\ ~PkgCleanUpFails(p)
  BY <1>0, <1>1 DEF PkgStop, PkgEnd, PkgFault, PkgKill, PkgCleanUp, PkgCleanUpFails
<1>3. pkgPc[p] \in {"check", "recheck", "manifest", "notes", "reauthorise", "compat", "validate"}
  BY DEF PkgSettles
<1>4. \/ PkgCheck(p) \/ PkgWriteText(p) \/ PkgAuthorise(p) \/ PkgConfirmCompatibility(p)
      \/ PkgValidateBundle(p)
  BY <1>2, <1>3 DEF PkgWorks, PkgStep, PkgBegin, PkgLookForOutput, PkgInspectInput, PkgInputs,
       PkgFinishPlan, PkgRevalidatePlan, PkgStage, PkgCopyPayload, PkgCopyExtra,
       PkgInspectStaged, PkgProveIdentity, PkgPublish, PkgSync, PkgConfirm
<1>. USE DEF PkgUnless
<1>5. CASE PkgCheck(p)
  <2>1. PkgReleaseHolds(p) /\ UNCHANGED <<pkgKind, pkgHead, pkgFile, pkgText, pkgRecord>>
        /\ pkgPc[p] \in {"check", "recheck"}
    BY <1>2, <1>5 DEF PkgCheck, pkgWorld, pkgStaged
  <2>2. CASE pkgKind = "kernel"
    <3>1. KernelReleaseHolds(p)
      BY <2>1, <2>2 DEF PkgReleaseHolds
    <3>. QED
      BY <2>1, <2>2, <3>1 DEF KernelReleaseHolds, ManifestDecodes, ChecksumsAgree,
           NotesFollow, BundleFollows, PkgRight, PkgAuthorised, PkgTexts, PkgInputs
  <2>3. CASE pkgKind = "audio"
    <3>1. AudioReleaseHolds(p) /\ f \notin {"manifest", "authority"}
      BY <2>1, <2>3 DEF PkgReleaseHolds, PkgSettles
    <3>. QED
      BY <2>1, <2>3, <3>1 DEF AudioReleaseHolds, CompatibilityHolds, ChecksumsAgree,
           NotesFollow, PkgRight, PkgAuthorised, PkgTexts, PkgInputs
  <2>4. CASE pkgKind = "camera"
    <3>1. CameraReleaseHolds(p) /\ f = "sums"
      BY <2>1, <2>4 DEF PkgReleaseHolds, PkgSettles
    <3>. QED
      BY <2>1, <3>1 DEF CameraReleaseHolds, ChecksumsAgree, PkgRight, PkgTexts, PkgInputs
  <2>. QED
    BY <1>0, <2>2, <2>3, <2>4
<1>6. CASE PkgWriteText(p)
  <2>1. /\ pkgPc[p] \in PkgTexts
        /\ pkgText' = [pkgText EXCEPT ![p][pkgPc[p]] = "written"]
    BY <1>6 DEF PkgWriteText
  <2>2. f = pkgPc[p]
    BY <2>1 DEF PkgSettles, PkgTexts
  <2>. QED
    BY <1>0, <2>1, <2>2 DEF PkgRight, PkgTexts, PkgInputs
<1>7. CASE PkgAuthorise(p)
  <2>1. pkgHead = Declared /\ UNCHANGED pkgHead /\ pkgPc[p] \in {"authorise", "reauthorise"}
    BY <1>2, <1>7 DEF PkgAuthorise, Authenticates, pkgWorld
  <2>2. f = "authority"
    BY <2>1 DEF PkgSettles
  <2>. QED
    BY <2>1, <2>2 DEF PkgRight, PkgTexts, PkgInputs
<1>8. CASE PkgConfirmCompatibility(p)
  <2>1. pkgText[p]["declaration"] = "written" /\ UNCHANGED pkgText /\ pkgPc[p] = "compat"
    BY <1>2, <1>8 DEF PkgConfirmCompatibility, CompatibilityHolds, pkgStaged
  <2>2. f = "declaration"
    BY <2>1 DEF PkgSettles
  <2>. QED
    BY <2>1, <2>2 DEF PkgRight, PkgTexts, PkgInputs
<1>9. CASE PkgValidateBundle(p)
  <2>1. /\ pkgFile[p] = AsDeclared /\ UNCHANGED <<pkgFile, pkgKind>> /\ pkgPc[p] = "validate"
    BY <1>2, <1>9 DEF PkgValidateBundle, BundleIsExpected, pkgStaged, pkgWorld
  <2>2. f \in PkgInputs /\ pkgKind = "camera"
    BY <2>1 DEF PkgSettles
  <2>. QED
    BY <2>1, <2>2 DEF PkgRight, PkgTexts, PkgInputs, PkgAuthorised
<1>. QED
  BY <1>4, <1>5, <1>6, <1>7, <1>8, <1>9

(* A file that is right stays so while the program runs: only what is not    *)
(* yet settled is copied or recorded anew.                                   *)
LEMMA PkgStaysRight ==
  ASSUME PkgTyped, NEW p \in Packagers, NEW q \in Packagers, NEW f \in PkgLooked, PkgFills(p),
         PkgRight(q, f),
         q = p => /\ pkgPc[p] \notin {"copy", "copyextra"} \cup PkgInputs
                  /\ pkgKind = "kernel" => pkgPc[p] # "inspect"
  PROVE  PkgRight(q, f)'
<1>0. /\ pkgRecord \in [Packagers -> [PkgInputs -> PkgContents]]
      /\ pkgFile \in [Packagers -> [PkgInputs -> PkgContents]]
      /\ pkgText \in [Packagers -> [PkgTexts -> PkgWritten]]
  BY DEF PkgTyped, PkgHeldOK
<1>1. UNCHANGED <<pkgKind, pkgHead>>
  BY DEF PkgFills
<1>2. pkgFile'[q] = pkgFile[q]
  BY <1>0 DEF PkgFills
<1>3. pkgKind = "kernel" => pkgRecord'[q] = pkgRecord[q]
  BY <1>0 DEF PkgFills
<1>4. \A t \in PkgTexts : pkgText'[q][t] \in {pkgText[q][t], "written"}
  BY <1>0 DEF PkgFills
<1>. QED
  BY <1>1, <1>2, <1>3, <1>4 DEF PkgRight, PkgAuthorised

LEMMA PkgKeptElsewhere ==
  ASSUME PkgTyped, NEW p \in Packagers, NEW q \in Packagers, p # q, NEW f \in PkgLooked,
         PkgRun(p), PkgFills(p), PkgKept(q, f)
  PROVE  PkgKept(q, f)'
<1>1. UNCHANGED <<pkgKind, pkgLate>>
  BY DEF PkgFills
<1>2. pkgPc'[q] = pkgPc[q] /\ pkgAnswer'[q] = pkgAnswer[q] /\ pkgStaging'[q] = pkgStaging[q]
  BY DEF PkgTyped, PkgRun, PkgPlacesOK, PkgOn, PkgStop, PkgEnd, PkgStill, PkgGiven, PkgRemoved
<1>3. pkgOutput' = q => pkgOutput = q
  BY PackageAssumption DEF PkgTyped, PkgRun, PkgPlacesOK, PkgStill, PkgGiven, PkgRemoved
<1>4. PkgRight(q, f) => PkgRight(q, f)'
  BY PkgStaysRight
<1>. QED
  BY <1>1, <1>2, <1>3, <1>4 DEF PkgKept, PkgBound

LEMMA PkgKeptHere ==
  ASSUME PkgTyped, NEW p \in Packagers, NEW f \in PkgLooked, PkgWorks(p), ~PkgValidate(p),
         PkgRun(p), PkgFills(p), PkgPlaced(p), PkgPlaced(p)', PkgKept(p, f)
  PROVE  PkgKept(p, f)'
<1> SUFFICES ASSUME PkgBound(p, f)', <<p, f>> \notin pkgLate PROVE PkgRight(p, f)'
  BY DEF PkgKept, PkgFills
<1>0. /\ UNCHANGED pkgKind /\ pkgKind \in {"kernel", "audio", "camera"}
      /\ pkgPc \in [Packagers -> PkgPcs] /\ pkgAnswer \in [Packagers -> PkgAnswers]
      /\ pkgPc[p] \in DOMAIN PkgOrder[pkgKind] \cup PkgLast
      /\ pkgStaging \in [Packagers -> Packagers \cup {NoRelease, Stranger}]
      /\ pkgStaging[p] \in {p, NoRelease, Stranger}
      /\ p \notin {NoRelease, Stranger} /\ NoRelease # Stranger
  BY PackageAssumption DEF PkgTyped, PkgPlacesOK, PkgFills
<1>1. PkgBound(p, f) /\ pkgPc[p] \in (PkgDuring \ {"copy", "copyextra"}) \cup PkgFinal
         /\ (pkgPc[p] = "inspect" => pkgKind # "kernel") => PkgRight(p, f)'
  <2>1. PkgInputs \cap ((PkgDuring \ {"copy", "copyextra"}) \cup PkgFinal) = {}
    BY DEF PkgInputs, PkgDuring, PkgFinal
  <2>. SUFFICES ASSUME PkgBound(p, f),
                       pkgPc[p] \in (PkgDuring \ {"copy", "copyextra"}) \cup PkgFinal,
                       pkgPc[p] = "inspect" => pkgKind # "kernel"
                PROVE  PkgRight(p, f)'
    OBVIOUS
  <2>2. PkgRight(p, f)
    BY DEF PkgKept
  <2>. QED
    BY <2>1, <2>2, PkgStaysRight DEF PkgFinal
<1>2. CASE pkgStaging'[p] = p /\ pkgPc'[p] \in PkgSettled(pkgKind, f)
  <2>1. pkgPc'[p] \in PkgDuring \ {"copy", "copyextra"}
    BY <1>0, <1>2, PkgSettledLate
  <2>2. pkgPc'[p] \notin {"cleanup", "done", "dead", "copy", "sync"}
    BY <2>1 DEF PkgDuring
  <2>3. /\ pkgPc[p] \in DOMAIN PkgOrder[pkgKind]
        /\ pkgPc'[p] = PkgOrder[pkgKind][pkgPc[p]] /\ pkgStaging[p] = p
    <3>1. ~PkgStop(p) /\ pkgPc' # [pkgPc EXCEPT ![p] = "done"]
          /\ pkgPc' # [pkgPc EXCEPT ![p] = "dead"]
      BY <1>0, <2>2 DEF PkgStop
    <3>2. /\ pkgPc[p] \in DOMAIN PkgOrder[pkgKind] /\ PkgOn(p)
          /\ PkgStill \/ pkgPc[p] = "stage" \/ PkgGiven(p)
      BY <1>0, <3>1 DEF PkgRun, PkgEnd, PkgLast
    <3>3. pkgPc'[p] = PkgOrder[pkgKind][pkgPc[p]]
      BY <1>0, <3>2 DEF PkgOn
    <3>4. pkgPc[p] # "stage"
      BY <1>0, <2>2, <3>2, <3>3, PkgOrderCloses
    <3>5. ~PkgGiven(p)
      BY <1>0, <1>2 DEF PkgGiven
    <3>. QED
      BY <1>2, <3>2, <3>3, <3>4, <3>5 DEF PkgStill
  <2>4. CASE PkgSettles(pkgKind, f, pkgPc[p])
    BY <1>0, <2>3, <2>4, PkgLookedAt
  <2>5. CASE pkgPc[p] \in PkgSettled(pkgKind, f)
    <3>1. PkgBound(p, f)
      BY <2>3, <2>5 DEF PkgBound
    <3>2. /\ pkgPc[p] \in PkgDuring \ {"copy", "copyextra"}
          /\ pkgKind = "kernel" => pkgPc[p] # "inspect"
      BY <1>0, <2>5, PkgSettledLate
    <3>. QED
      BY <1>1, <3>1, <3>2
  <2>. QED
    BY <1>0, <1>2, <2>3, <2>4, <2>5, PkgSettlesFrom
<1>3. CASE /\ pkgOutput' = p
           /\ pkgKind = "camera" /\ f = "manifest" => pkgAnswer'[p] = "published"
  <2>1. CASE pkgOutput = p
    <3>1. pkgPc[p] \in PkgFinal
      BY <2>1 DEF PkgPlaced
    <3>2. CASE pkgKind = "camera" /\ f = "manifest" /\ pkgAnswer[p] # "published"
      <4>1. pkgPc[p] = "confirm" /\ PkgEnd(p, IF ManifestDecodes(p) THEN "published" ELSE "failed")
        BY <1>0, <1>3, <3>1, <3>2 DEF PkgRun, PkgOn, PkgStop, PkgEnd, PkgFinal
      <4>2. ManifestDecodes(p)
        BY <1>0, <1>3, <3>2, <4>1 DEF PkgEnd
      <4>3. PkgRight(p, f)
        BY <3>2, <4>2 DEF ManifestDecodes, PkgRight, PkgInputs, PkgTexts
      <4>. QED
        BY <4>1, <4>3, PkgStaysRight DEF PkgInputs
    <3>3. CASE pkgKind = "camera" /\ f = "manifest" => pkgAnswer[p] = "published"
      BY <1>1, <2>1, <3>1, <3>3 DEF PkgBound, PkgFinal
    <3>. QED
      BY <3>2, <3>3
  <2>2. CASE pkgOutput # p
    <3>1. pkgPc[p] = "publish" /\ PkgOn(p) /\ PkgGiven(p)
      BY <1>0, <1>3, <2>2 DEF PkgRun, PkgStill, PkgRemoved
    <3>2. pkgStaging[p] = p /\ pkgPc'[p] = "sync"
      BY <1>0, <1>3, <3>1, PkgOrderCloses DEF PkgOn, PkgGiven, PkgLast
    <3>3. ~(pkgKind = "camera" /\ f = "manifest")
      BY <1>3, <3>2 DEF PkgPlaced
    <3>4. PkgBound(p, f)
      BY <1>0, <3>1, <3>2, <3>3, PkgSettledLate DEF PkgBound
    <3>. QED
      BY <1>1, <3>1, <3>4 DEF PkgDuring
  <2>. QED
    BY <2>1, <2>2
<1>. QED
  BY <1>0, <1>2, <1>3 DEF PkgBound

(* Others can undo it only where the program does not look again.            *)
LEMMA PkgKeptEdited ==
  ASSUME PkgTyped, NEW p \in Packagers, NEW f \in PkgLooked, PkgPlaced(p), PkgBound(p, f)
  PROVE  PkgUnwatched(p, f)
<1>0. pkgKind \in {"kernel", "audio", "camera"}
  BY DEF PkgTyped, PkgPlacesOK
<1>1. CASE pkgPc[p] \in PkgSettled(pkgKind, f)
  BY <1>0, <1>1, PkgSettledLate DEF PkgUnwatched
<1>2. CASE /\ pkgOutput = p
           /\ pkgKind = "camera" /\ f = "manifest" => pkgAnswer[p] = "published"
  <2>1. pkgPc[p] \in PkgFinal
    BY <1>2 DEF PkgPlaced
  <2>2. pkgKind = "camera" /\ f = "manifest" => pkgPc[p] = "done"
    BY <1>2 DEF PkgPlaced
  <2>. QED
    BY <1>0, <2>1, <2>2, PkgUnwatchedEnd DEF PkgUnwatched
<1>. QED
  BY <1>1, <1>2 DEF PkgBound

LEMMA PkgKeptOthers ==
  ASSUME PkgTyped, PkgPlacement, PkgAllKept, PkgOthers PROVE PkgAllKept'
<1> SUFFICES ASSUME NEW q \in Packagers, NEW f \in PkgLooked PROVE PkgKept(q, f)'
  BY DEF PkgAllKept
<1>0. /\ PkgKept(q, f) /\ PkgPlaced(q)
      /\ pkgStaging \in [Packagers -> Packagers \cup {NoRelease, Stranger}]
      /\ pkgFile \in [Packagers -> [PkgInputs -> PkgContents]]
      /\ pkgText \in [Packagers -> [PkgTexts -> PkgWritten]]
      /\ \A p \in Packagers : p \notin {NoRelease, Stranger}
      /\ pkgLate \subseteq Packagers \X PkgLooked
  BY PackageAssumption
     DEF PkgAllKept, PkgPlacement, PkgTyped, PkgPlacesOK, PkgHeldOK, PkgMarksOK, PkgLooked
<1>1. CASE PkgEditSource
  BY <1>0, <1>1 DEF PkgEditSource, PkgKept, PkgBound, PkgRight, PkgAuthorised, pkgStaged,
                    pkgPlaces, pkgAfter
<1>2. CASE PkgEditHead
  <2>1. UNCHANGED <<pkgKind, pkgRecord, pkgFile, pkgText, pkgPc, pkgAnswer, pkgStaging, pkgOutput>>
        /\ pkgLate' = pkgLate \cup {e \in Packagers \X {"authority"} : PkgUnwatched(e[1], e[2])}
    BY <1>2 DEF PkgEditHead, pkgStaged, pkgPlaces
  <2>2. CASE f = "authority"
    <3>1. PkgBound(q, f)' => <<q, f>> \in pkgLate'
      <4>1. PkgBound(q, f)' => PkgUnwatched(q, f)
        BY <1>0, <2>1, PkgKeptEdited DEF PkgBound
      <4>2. <<q, f>>[1] = q /\ <<q, f>>[2] = f /\ <<q, f>> \in Packagers \X {"authority"}
        BY <2>2
      <4>. QED
        BY <2>1, <4>1, <4>2
    <3>. QED
      BY <3>1 DEF PkgKept
  <2>3. CASE f # "authority"
    BY <1>0, <2>1, <2>3 DEF PkgKept, PkgBound, PkgRight, PkgAuthorised
  <2>. QED
    BY <2>2, <2>3
<1>3. ASSUME NEW p \in Packagers, PkgEditFile(p) PROVE PkgKept(q, f)'
  <2>1. PICK g \in PkgFiles :
           /\ \/ /\ g \in PkgInputs /\ UNCHANGED pkgText
                 /\ pkgFile' = [pkgFile EXCEPT ![p][g] = Damaged]
              \/ /\ g \in PkgTexts /\ UNCHANGED pkgFile
                 /\ pkgText' = [pkgText EXCEPT ![p][g] = "edited"]
           /\ pkgLate' = IF PkgUnwatched(p, g) THEN pkgLate \cup {<<p, g>>} ELSE pkgLate
    BY <1>3 DEF PkgEditFile
  <2>2. UNCHANGED <<pkgKind, pkgHead, pkgRecord, pkgPc, pkgAnswer, pkgStaging, pkgOutput>>
    BY <1>3 DEF PkgEditFile, pkgWorld, pkgPlaces
  <2>3. PkgBound(q, f)' => PkgBound(q, f)
    BY <2>2 DEF PkgBound
  <2>4. CASE q = p /\ f = g
    <3>1. PkgBound(q, f)' => <<q, f>> \in pkgLate'
      BY <1>0, <2>1, <2>3, <2>4, PkgKeptEdited
    <3>. QED
      BY <3>1 DEF PkgKept
  <2>5. CASE ~(q = p /\ f = g)
    <3>1. f \in PkgInputs => pkgFile'[q][f] = pkgFile[q][f]
      <4>1. CASE g \in PkgInputs /\ pkgFile' = [pkgFile EXCEPT ![p][g] = Damaged]
        BY <1>0, <2>5, <4>1
      <4>. QED
        BY <2>1, <4>1
    <3>2. f \in PkgTexts => pkgText'[q][f] = pkgText[q][f]
      <4>1. CASE g \in PkgTexts /\ pkgText' = [pkgText EXCEPT ![p][g] = "edited"]
        BY <1>0, <2>5, <4>1
      <4>. QED
        BY <2>1, <4>1
    <3>3. PkgRight(q, f) => PkgRight(q, f)'
      BY <2>2, <3>1, <3>2 DEF PkgRight, PkgAuthorised
    <3>4. <<q, f>> \in pkgLate => <<q, f>> \in pkgLate'
      BY <2>1
    <3>. QED
      BY <1>0, <2>3, <3>3, <3>4 DEF PkgKept
  <2>. QED
    BY <2>4, <2>5
<1>4. ASSUME NEW p \in Packagers, PkgSwap(p) PROVE PkgKept(q, f)'
  <2>1. PICK d \in {NoRelease, Stranger} : pkgStaging' = [pkgStaging EXCEPT ![p] = d]
    BY <1>4 DEF PkgSwap
  <2>2. /\ UNCHANGED <<pkgKind, pkgHead, pkgRecord, pkgPc, pkgAnswer, pkgOutput, pkgLate>>
        /\ pkgStaging[p] = p
        /\ pkgFile' = [pkgFile EXCEPT ![p] = NoInputs]
        /\ pkgText' = [pkgText EXCEPT ![p] = NoTexts]
    BY <1>4 DEF PkgSwap, pkgWorld, pkgAfter
  <2>3. CASE q = p
    <3>1. pkgStaging'[q] # q /\ pkgOutput # q
      BY <1>0, <2>1, <2>2, <2>3 DEF PkgPlaced
    <3>. QED
      BY <2>2, <3>1 DEF PkgKept, PkgBound
  <2>4. CASE q # p
    <3>1. pkgStaging'[q] = pkgStaging[q] /\ pkgFile'[q] = pkgFile[q] /\ pkgText'[q] = pkgText[q]
      BY <1>0, <2>1, <2>2, <2>4
    <3>. QED
      BY <1>0, <2>2, <3>1 DEF PkgKept, PkgBound, PkgRight, PkgAuthorised
  <2>. QED
    BY <2>3, <2>4
<1>. QED
  BY <1>1, <1>2, <1>3, <1>4 DEF PkgOthers

LEMMA PkgKeptNext ==
  PkgTyped /\ PkgPlacement /\ PkgPlacement' /\ PkgAllKept /\ [PkgNext]_pkgVars => PkgAllKept'
<1> SUFFICES ASSUME PkgTyped, PkgPlacement, PkgPlacement', PkgAllKept, [PkgNext]_pkgVars
             PROVE  PkgAllKept'
  OBVIOUS
<1>1. CASE UNCHANGED pkgVars
  BY <1>1 DEF pkgVars, pkgWorld, pkgStaged, pkgPlaces, pkgAfter, PkgAllKept, PkgKept, PkgBound,
              PkgRight, PkgAuthorised
<1>2. ASSUME NEW p \in Packagers, PkgWorks(p), ~PkgValidate(p) PROVE PkgAllKept'
  <2>1. PkgFills(p) /\ PkgRun(p)
    BY <1>2, PkgFillsUp, PkgRuns DEF PkgTyped
  <2>2. ASSUME NEW q \in Packagers, NEW f \in PkgLooked PROVE PkgKept(q, f)'
    <3>1. PkgKept(q, f) /\ PkgPlaced(q) /\ PkgPlaced(q)'
      BY DEF PkgAllKept, PkgPlacement
    <3>2. CASE q = p
      BY <1>2, <2>1, <3>1, <3>2, PkgKeptHere
    <3>3. CASE q # p
      BY <2>1, <3>1, <3>3, PkgKeptElsewhere
    <3>. QED
      BY <3>2, <3>3
  <2>. QED
    BY <2>2 DEF PkgAllKept
<1>3. ASSUME NEW p \in Packagers, PkgValidate(p) PROVE PkgAllKept'
  BY <1>3 DEF PkgValidate, pkgWorld, pkgStaged, pkgPlaces, PkgAllKept, PkgKept, PkgBound,
              PkgRight, PkgAuthorised
<1>. QED
  BY <1>1, <1>2, <1>3, PkgKeptOthers, PkgSplit

LEMMA PkgAlwaysKept == PkgSpec => []PkgAllKept
BY PkgTypedAlways, PkgPlacementAlways, PkgKeptInit, PkgKeptNext, PTL DEF PkgSpec

(* Under the name of a release is what authorises it, but for what was       *)
(* changed after the program last looked.                                    *)
THEOREM PackageAlwaysAuthorised == PkgSpec => []PackageIsAuthorised
<1>1. ASSUME PkgAllKept, NEW p \in Packagers, pkgOutput = p
      PROVE  /\ \A i \in PkgInputs :
                  pkgFile[p][i] = PkgAuthorised(p)[i] \/ <<p, i>> \in pkgLate
             /\ \A t \in PkgTexts :
                  \/ pkgText[p][t] = "written" \/ <<p, t>> \in pkgLate
                  \/ pkgKind = "camera" /\ t = "manifest" /\ pkgAnswer[p] # "published"
             /\ \/ pkgKind = "kernel" \/ pkgHead = Declared
                \/ <<p, "authority">> \in pkgLate
  <2>1. \A f \in PkgLooked : PkgKept(p, f)
    BY <1>1 DEF PkgAllKept
  <2>2. ASSUME NEW i \in PkgInputs
        PROVE  pkgFile[p][i] = PkgAuthorised(p)[i] \/ <<p, i>> \in pkgLate
    <3>1. i \in PkgLooked /\ i # "manifest"
      BY DEF PkgLooked, PkgFiles, PkgInputs
    <3>. QED
      BY <1>1, <2>1, <3>1 DEF PkgKept, PkgBound, PkgRight
  <2>3. ASSUME NEW t \in PkgTexts
        PROVE  \/ pkgText[p][t] = "written" \/ <<p, t>> \in pkgLate
               \/ pkgKind = "camera" /\ t = "manifest" /\ pkgAnswer[p] # "published"
    <3>1. t \in PkgLooked
      BY DEF PkgLooked, PkgFiles
    <3>. QED
      BY <1>1, <2>1, <3>1 DEF PkgKept, PkgBound, PkgRight
  <2>4. pkgKind = "kernel" \/ pkgHead = Declared \/ <<p, "authority">> \in pkgLate
    <3>1. "authority" \in PkgLooked
      BY DEF PkgLooked
    <3>. QED
      BY <1>1, <2>1, <3>1 DEF PkgKept, PkgBound, PkgRight
  <2>. QED
    BY <2>2, <2>3, <2>4
<1>2. PkgAllKept => PackageIsAuthorised
  BY <1>1 DEF PackageIsAuthorised
<1>. QED
  BY <1>2, PkgAlwaysKept, PTL

-----------------------------------------------------------------------------
(* What was accepted stays authorised: a kernel's records are not changed    *)
(* once its release is in place.                                             *)
PkgAgreed ==
    /\ AcceptedIsAuthorised
    /\ pkgAccepted.by \in Packagers => pkgPc[pkgAccepted.by] \in PkgFinal

LEMMA PkgAgreedInit == PkgInit => PkgAgreed
BY PackageAssumption DEF PkgInit, PkgAgreed, AcceptedIsAuthorised, NotAccepted

LEMMA PkgAgreedNext ==
  PkgTyped /\ PkgPlacement /\ PkgAgreed /\ [PkgNext]_pkgVars => PkgAgreed'
<1> SUFFICES ASSUME PkgTyped, PkgPlacement, PkgAgreed, [PkgNext]_pkgVars PROVE PkgAgreed'
  OBVIOUS
<1>0. /\ pkgRecord \in [Packagers -> [PkgInputs -> PkgContents]]
      /\ pkgText \in [Packagers -> [PkgTexts -> PkgWritten]]
      /\ pkgPc \in [Packagers -> PkgPcs]
      /\ pkgKind \in {"kernel", "audio", "camera"}
      /\ pkgAccepted.by \in Packagers \cup {NoRelease}
      /\ \A p \in Packagers : p \notin {NoRelease, Stranger}
  BY PackageAssumption DEF PkgTyped, PkgPlacesOK, PkgHeldOK, PkgMarksOK
<1>. USE DEF PkgAgreed
<1>1. ASSUME UNCHANGED <<pkgKind, pkgRecord, pkgPc, pkgAccepted>> PROVE PkgAgreed'
  BY <1>1 DEF AcceptedIsAuthorised, PkgAuthorised
<1>2. ASSUME NEW p \in Packagers, PkgWorks(p), ~PkgValidate(p) PROVE PkgAgreed'
  <2>1. PkgFills(p) /\ PkgRun(p) /\ UNCHANGED <<pkgKind, pkgAccepted>>
    BY <1>2, PkgFillsUp, PkgRuns DEF PkgTyped, PkgFills
  <2>2. CASE pkgAccepted.by = NoRelease
    BY <1>0, <2>1, <2>2 DEF AcceptedIsAuthorised
  <2>3. CASE pkgAccepted.by \in Packagers
    <3>1. pkgPc'[pkgAccepted.by] \in PkgFinal
      <4>1. CASE pkgAccepted.by # p
        BY <1>0, <2>1, <2>3, <4>1 DEF PkgRun, PkgOn, PkgStop, PkgEnd
      <4>2. CASE pkgAccepted.by = p
        <5>1. pkgPc[p] \in {"sync", "confirm", "done", "dead"}
          BY <2>3, <4>2 DEF PkgFinal
        <5>2. pkgPc[p] \in DOMAIN PkgOrder[pkgKind] =>
                 pkgPc[p] = "sync" /\ PkgOrder[pkgKind][pkgPc[p]] = "confirm"
          <6>1. ASSUME NEW k \in {"kernel", "audio", "camera"}, NEW x \in DOMAIN PkgOrder[k],
                       x \in {"sync", "confirm", "done", "dead"}
                PROVE  x = "sync" /\ PkgOrder[k][x] = "confirm"
            BY <6>1, PkgOrderCloses
          <6>. QED
            BY <1>0, <5>1, <6>1
        <5>. QED
          BY <1>0, <2>1, <4>2, <5>1, <5>2 DEF PkgRun, PkgOn, PkgStop, PkgEnd, PkgDuring, PkgFinal
      <4>. QED
        BY <4>1, <4>2
    <3>2. pkgRecord'[pkgAccepted.by] = pkgRecord[pkgAccepted.by]
      BY <1>0, <2>1, <2>3 DEF PkgFills, PkgFinal, PkgInputs
    <3>. QED
      BY <2>1, <3>1, <3>2 DEF AcceptedIsAuthorised, PkgAuthorised
  <2>. QED
    BY <1>0, <2>2, <2>3
<1>3. ASSUME NEW p \in Packagers, PkgValidate(p) PROVE PkgAgreed'
  <2>1. /\ pkgOutput = p /\ PkgAccepts(p)
        /\ pkgAccepted' = [by |-> p, files |-> pkgFile[p], texts |-> pkgText[p]]
        /\ UNCHANGED <<pkgKind, pkgRecord, pkgPc>>
    BY <1>3 DEF PkgValidate, pkgWorld
  <2>2. pkgPc[p] \in PkgFinal
    BY <2>1 DEF PkgPlacement, PkgPlaced
  <2>3. /\ pkgFile[p] = PkgAuthorised(p)
        /\ \A t \in PkgTexts : pkgText[p][t] = "written" \/ (pkgKind = "camera" /\ t = "notes")
    BY <2>1 DEF PkgAccepts, KernelReleaseHolds, AudioReleaseHolds, CameraContractHolds,
         CameraReleaseHolds, BundleIsExpected, CompatibilityHolds, ManifestDecodes,
         ChecksumsAgree, NotesFollow, BundleFollows, PkgAuthorised, PkgTexts
  <2>. QED
    BY <2>1, <2>2, <2>3 DEF AcceptedIsAuthorised, PkgAuthorised
<1>4. PkgOthers => UNCHANGED <<pkgKind, pkgRecord, pkgPc, pkgAccepted>>
  BY DEF PkgOthers, PkgEditSource, PkgEditHead, PkgEditFile, PkgSwap, pkgWorld, pkgAfter
<1>5. UNCHANGED pkgVars => UNCHANGED <<pkgKind, pkgRecord, pkgPc, pkgAccepted>>
  BY DEF pkgVars, pkgWorld, pkgAfter
<1>. QED
  BY <1>1, <1>2, <1>3, <1>4, <1>5, PkgSplit

(* Validation accepts no release but one that is what authorises it.         *)
THEOREM AcceptedAlwaysAuthorised == PkgSpec => []AcceptedIsAuthorised
<1>1. PkgAgreed => AcceptedIsAuthorised
  BY DEF PkgAgreed
<1>. QED
  BY <1>1, PkgTypedAlways, PkgPlacementAlways, PkgAgreedInit, PkgAgreedNext, PTL DEF PkgSpec
=============================================================================
