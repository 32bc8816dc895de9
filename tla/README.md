# Formal models of lexr.sh

TLA+ models of the parts of Lexr that change a machine, or decide what a machine
is given, and have to survive being stopped half-way: building kernels and sensor
bridges, downloading, creating images and preparing their release and that of packages, writing USB
media, installing kernels and userspace components, cleaning up legacy
workarounds, storing and applying Windows hand-offs, giving the radio its address, capturing from
the camera, and updating the program itself. Each is modelled action by
action from the Go code, model-checked with TLC on a small instance, and its
main properties are proved with TLAPS for every value of the constants.

`PROJECT.json` maps every definition to the lines it stands for, lists the runs,
the hazards each property is aimed at, the findings, and the theorems. For every
property it also names a mutant: a plausible slip in one definition that makes TLC
find the property violated.

    tlc -workers 2 -config KernelInstall.cfg MCKernelInstall
    tlc -workers 2 -config Delivery.cfg MCDelivery
    tlapm KernelInstall_proofs.tla

## 1. Inventory

Paths are under `internal/`, line counts without tests.

### What changes a machine

| Part | Lines | State it keeps | Operations | Hard behaviour | What makes it correct |
|---|---|---|---|---|---|
| kernel/install | 5600 | dpkg records, /boot, grub.cfg, device trees, boot hooks; a receipt in memory | plan, Install, failAndRollback | scripts fail part-way, the caller cancels, rollback has its own deadline, a crash between commands | success boots, a clean rollback restores, the fallback kernel always boots |
| cleanup | 2700 | originals, quarantines, backups, prepared and completed receipts | Scan, Apply, Restore | a power loss between renames, edits between check and rename | nothing lost, nothing foreign deleted, restoration possible |
| handoff/application | 2400 | targets, staged objects, backups, one receipt per plan | Plan, Apply, PlanRestore, Restore | stops between a rename and its receipt, overlapping plans | originals kept, rollback tells the truth, restoration completes |
| handoff (store) | 2500 | content-addressed entries, staging and quarantine directories | Import, List, PlanPurge, Purge | converging imports, purge against import, part-way removal | an entry is whole or absent |
| media | 2600 | the device behind a path, a receipt | Plan, Execute (unmount, write, flush, read back, eject) | devices exchanged behind a path, caches, short writes | only the confirmed device is written to, "verified" means durable |
| image/publication | 790 | an ISO with manifest and journal | Publish | a kill between renames, two publishers | no ISO without its evidence |
| image/releaseprep | 2100 | staging and release directories | prepare, validate, publish | two preparations, exchanged sources, a kill before the rename | a release is of one image, complete or absent |
| kernel/releaseprep, audio/release, camera/release, userspace/producer | 4500 | the same | plan, prepare, validate, publish | inputs, staged files and the repository exchanged between the steps that look at them | a release consists of what authorises it |
| userspace/install, manager | 3900 | installed files, backups, a mask, receipts | plan, install, activate, roll back | a copy that fails after its rename, edits after verification, a kill | originals are saved, a failure restores, receipts tell the truth |
| sensors/build, builderimage, source | 6600 | two containers, a volume, an output directory | build, observe, stop, publish | a deadline while the daemon answers, a container of unknown state | a build names what it left running or published |
| kernel/build | 3800 | a lock, a work volume with source tree and packages, a container, an output directory | build, publish | leftovers of earlier builds, moved branches, containers that outlive the lock | what is published was built as asked |
| artifact, kernel/release, userspace/release, manager/image.go | 2250 | a cache with entries, .part files and markers | resolve, download, refresh | "latest" moves between two requests, killed downloads | a bundle is of one release, an entry whole |
| camera/build, capture, rawpreview | 5100 | the settings of a route, six output files | build, capture, analyse | other clients and captures between the checks and the stream | what is kept was captured as configured; others' files are untouched |
| update, cli/upgrade.go, install.sh | 1300 | the installed binary | check, download, verify, replace | a stop between two renames, another updater | an executable is always in place, and is the release's |
| image/ubuntu, debianlive, fedora, archlinux, elementary, sp11, companion | 19000 | a workspace, a Docker volume, a journal | extract, edit, rebuild, validate, clean up | a command that reports success without effect, edited inputs, a volume nobody names | what is published keeps its promises |
| bluetoothmgmt | 500 | the controller's address | set | a late reply, radios enumerated anew | only the built-in radio gets the address |

### What only reads or decides

`catalog`, `userspace/catalog`, `userspace/compatibility`, `kernel/bundle.go`,
`kernel/bootsupport` (validation), `doctor`, `bootdoctor`, `hardwaredoctor`, `userspace/status`
(probes), `bootidentity` (which mount is which), `bootmenu` (menu parsing),
`platform` (processes and files), `cli`, `tui`, `config`, `manager` (wiring).

### How they interact

`cli` asks `manager`, which hands a request to one component; components call
`platform` for processes and files. They share the machine, not memory:
kernel/install calls `cleanup.Apply` and `Restore` to retire and return competing
boot hooks, `bootidentity.Resolve` before every command, and dpkg and update-grub
through a command runner. handoff/application reads an entry of the handoff store.
Image creation acquires its source through the cache,
builds its companion, ends in `image/publication`, and leaves a journal that release
preparation reads. Only kernel/build locks (its work directory); elsewhere nothing does: what protects two
commands from one another is a rename that never replaces, a re-read before each
step, and a digest that binds a plan to what it saw. That is where the models look.

## 2. Modules

| Module | Models | Its environment |
|---|---|---|
| `KernelInstall` | kernel/install, with `bootidentity` as a guard and cleanup's Apply and Restore as two steps | scripts, the caller's context, mounts, other installers, crashes |
| `LegacyCleanup` | cleanup | power loss, the administrator, failing calls |
| `HandoffApplication` | handoff/application | crashes, the administrator, failing calls |
| `HandoffStore` | import and purge of handoff | kills, power loss, other imports and purges, changes by others |
| `MediaWrite` | media | exchanged, unplugged and mounted devices, other writers |
| `ImagePublication` | image/publication | kills, power loss, other publishers, meddling |
| `AtomicPublication` | what a publication promises | - |
| `KernelBuild` | kernel/build: the command, its container's recipe, its publication | other builds in the volume, pushes, interruptions, kills |
| `SensorBuild` | sensors/build | the deadline, failing docker commands, edits |
| `ArtifactCache` | artifact, kernel/release, userspace/release, the acquisition of source images in manager/image.go | a release that moves on, wrong bytes, kills, other commands |
| `ImageSteps` | the vocabulary of the adapters: what a function makes, checks, burns and records | - |
| `UbuntuImage`, `FedoraImage`, `DebianImage`, `ElementaryImage`, `ArchImage`, `CompanionBundle` | the steps and checks of image/ubuntu, fedora, debianlive with debian, elementary, archlinux and companion, as programs in that vocabulary | - |
| `ImageAdapters` | the five programs and what each promises, side by side | - |
| `ImageCreate` | the machine that runs an adapter's program, and its deferred clean-up | commands without effect, failing steps, edited inputs, kills |
| `ImageEvidence` | why an adapter's checks suffice: an account, along its program, of what each thing found on the medium proves to have been done, and the run in which every command does what it reports | - |
| `ReleasePreparation` | image/releaseprep | other preparations, edits, failing calls, kills |
| `PackageRelease` | kernel/releaseprep, audio/release, camera/release, userspace/producer | other preparations, edits of inputs, files and the repository, exchanged directories, failing calls, kills |
| `BluetoothAddress` | bluetoothmgmt | radios enumerated anew, a kernel that answers late, deadlines, cancellation |
| `CameraCapture` | camera/capture | other captures and clients, the kernel's log, failing calls, kills |
| `SelfUpdate` | update, cli/upgrade.go | other updaters, new and exchanged releases, failing calls, kills |
| `ImageJournal` | the journals release preparation accepts | - |
| `UserspaceInstall` | userspace/install, userspace/manager | failing calls, the administrator, kills |
| `IPTSDRelease`, `Compatibility` | archive and contract of userspace/iptsd; userspace/compatibility and assessment, as operators | - |

`MCxxx` modules give a model its small constants; `xxx_proofs` modules hold the
theorems. `MCDelivery` has eight models side by side, `MCLocal` four (section 3). A model is parameterised by sets (roles, rules, paths, devices,
publishers) and by bounds. Definitions named `Mutant...` are slips a
programmer could make; no specification uses them.

A variable that survives a crash is apart from one that does not. Where the page
cache matters there are two: `fs` and `disk` in `LegacyCleanup`, `cache` and
`durable` in `MediaWrite`, `final` and `disk` in `ImagePublication`. A crash leaves
the second, plus any part of what was not yet synchronised. The modules of the
delivery know processes that are killed, not power losses.

### KernelInstall

`pkg`, `files`, `initrd`, `menu`, `bytes`, `sharedTree`, `exactTree`, `hook` and
`saved` are the machine: dpkg records by role, the target's boot files and
initramfs, what the generated menu says of target and fallback, the fallback's own
bytes, whose tree the shared `/boot/dtb` holds, whether the fallback has its own
`/boot/dtb-<ABI>`, and the competing hook with its backup. `pc`, `plan`, `cmd`,
`executed`, `recovery` and the rest are the process. `Begin` to `Unwind`
follow `Install` in manager.go statement by statement; `RollbackPackages`,
`RestoreGRUB` and `CheckRollback` follow `failAndRollback` in transaction.go. A
maintainer script ends in one of `ScriptEffects` and a failed command may have done
any part of it. GRUB configuration is reduced to what decides whether a kernel
boots: how target and fallback are delivered, which entry has the fallback, which
tree it loads.

### LegacyCleanup

`fs` holds originals, quarantines, backups and the two receipts of each
transaction as processes see them, `disk` what a power loss would leave. One
action per call of Apply (quarantine, verify, copy, persist, prepared
receipt, rename, remove, completed receipt) and of Restore (inspect, publish by
hard link or rename, remove the workspace copy), each with its error path. A
rename is taken to be atomic on disk, also when it crosses directories.

### HandoffApplication

`target`, `stage`, `backup` and `receipt` are on disk; `journal` is the receipt in
memory. Apply stages, moves the original away, publishes and notes every step;
its deferred rollback and Restore go backwards. Observing a path and the
call it guards are one step: docs/adr/adr-013 excludes concurrent privileged
changes, and the code can only narrow that window. Every write is synchronised
before the next starts, so a crash falls between steps. Digests bind a plan to
what it saw, so a plan is that. Parent directories a transaction
creates are not modelled. `held`, `touched`, `slipped`, `reopened` and `faulted`
are history and guard nothing.

### HandoffStore

All bundles are identical, so the store has one address; `place` and `files` say where
the directory of each import is (a staging name, the address, the name a purge gave it)
and how many of its files it has, `diskPlace` and `diskFiles` what a power loss may
go back to. `BeginImport` to `RemoveStaging` follow `importWithHooks`, with the
deferred removal of the staging directory in `End`; `PlanPurge` to `ConfirmGone`
follow purge.go. `early`, `late`, `undone` and `upset` are history and name what the
properties exempt:

- an import that found a store directory whose creator had not yet synchronised its
  parent (`early`) can promise nothing, since it does not synchronise it either;
- the rename that isolates an entry is not synchronised before the removal starts, so
  a power loss may give the address back to a half-removed directory (`undone`). It
  fails every later validation, and has to be removed by hand;
- what was changed after the purge's own check (`late`) is removed by name;
- a killed command (`upset`) leaves a staging or purge directory, and listing the
  store then refuses (store.go:339-341).

`List` and the reads of an entry's material change nothing. An answer "existing" promises
that the entry validated, not that it is durable, and the properties ask no more.

### MediaWrite

The device behind the path changes hands at any time (`Plug`, `Unplug`); an open
handle belongs to the device it was opened on and dies with it. Written chunks wait
in the cache until a flush, which may lose some and then fails; the last close drops
the cache, so a read-back sees the medium. The node path is one path, because it is
part of the fingerprint. Unmounting and ejecting take a path and may hit another
device, which docs/adr/adr-012 accepts.

### ImagePublication and AtomicPublication

`final` and `disk` say whose file each of the three names is, now and after a
power loss; `slot` and `bytes` are the staged files. Every publisher runs
`publishImageOutputs` step by step, alone or at the same time as others. Staging names are
random, hence unique, and are not followed across a power loss. Synchronising the
directory flushes the names of every publisher in it. Any call may fail, the
closing ones included. Others may put, take away, exchange and edit files and move
the directory; they do not put back what they took away.

`AtomicPublication` has no files: a place is taken by one publisher's complete
output in one step, becomes durable, or is lost with the power before that; an
answer "published" needs an output that durably stood. `AtomicImage` says
that `ImagePublication` implements it, with `Place` as the refinement mapping: the
place is a publisher's when all three names hold its good bytes, and `meddles > 0`
is the abstract `disturbed`, after which only the answers still mean something.

### KernelBuild

The commands of one work directory: `bldLock` is its lock, `bldTree` and `bldDebs` are the source
tree and the packages in the Docker volume, which nothing empties between commands. `AcquireLock` to
`BldReturn` follow manager.go; `BoxSource`, `BoxMake`, `BoxCollect` and `BoxInspect` are the phases of recipe.go, a shell script, branch by
branch: reset, fetch, the refusal of a dirty or foreign tree, the clean-up that `--skip-clean` leaves out,
and the choice of device trees. A container is a process of its own. It outlives a
command that is killed, and one that is interrupted and fails to remove it, which releases the lock all the same
(manager.go:185). `bldStray` says that this has happened; an operator removes a stale lock only when its container is gone.
One consequence is acknowledged by the changelog (CHANGELOG.md:698-700) and modelled: without
`--reset-source` a build from a remote branch that moved is refused, since depth-one fetches make the old tip look like a local commit.

### SensorBuild

One build: `senBox` is each phase's container as the daemon has it, `senTerminal` what the
command has read of it, `senAttempted` and `senTodo` the phases a failed build observes. A docker command may fail
before or after the daemon acted; the daemon is taken to have dealt with a request it received before it answers the
next. The deadline is a failure of the step that meets it. Identifiers are random for each build, so nothing is shared with others.

### ArtifactCache

Every cached file is an entry, a `.part` file with a fixed name, and for kernel bundles a downloaded manifest and
its temporary. A process carries the release it selected, what each file it read told, and whether a
fault was its own. `CachePublisher` moves "latest" on at any moment. A file's content is the number of the release it belongs to.

### ImageSteps, the adapters and ImageCreate

An adapter is a sequence of instructions, one sequence per function of the Go package: stage a
file (a copy or a hard link), make a thing from others, expect a thing to show what went into another, burn it on the
medium, record a journal step. A thing's content is the set of things whose making went
into it, so a command that reports success without effect leaves it without its contents, and an edit of a hard-linked input
shows. `Promises` say, per adapter, what starting the live system, and the system installed from it, takes: they
are stated apart from the steps and from the checks. `CompanionBundle` is run by every adapter.

### ReleasePreparation and ImageJournal

`relSource` are the files of a creation, `relStaging`, `relText` and `relParts` each preparation's
staging directory, `relOutput` whose directory has the release's name. Splitting is done block by
block. The staging directory is removed by name, so the model follows whose it is. `relLate` exempts what is
changed after validation, by anybody. `ImageJournal` has the lists of steps that
validateImageJournal compares with.

### PackageRelease

Kernel, audio and camera releases are prepared by three programs of one shape, and `PkgOrder` has the steps of each in its
order. An input is a number: the authorised one, another coherent build, or damaged. What authorises it differs:
a kernel's inputs are those of the plan, audio's are pinned in the program, a camera bundle's follow from the digest the caller expects. So does what is
looked at again, and `pkgLate` marks what was changed after that:

- audio never reads the manifest it staged back (validateDirectory takes the one in memory), so until the rename nothing in the
  program depends on that file; validation of the release decodes it;
- camera compares the payload only before inspectBuildBundle records the staged files, and the notes never: what it
  records in the manifest is what is there;
- kernel and camera do not prove before the rename that the staging directory is still theirs, as audio does, so they may publish what was put in its place;
- a camera preparation that fails after the rename leaves the release in place, under a receipt that does not say published.

### BluetoothAddress

`btAt` says where the kernel enumerates each radio, `btRequests` what it was asked and has not carried out; it does so
for whichever radio has the index by then. Each attempt searches, sends over a socket of its own and reads until
the reply or its deadline. `btGiven` records every time a radio was given the address, and whether
radios had moved since the attempt began to look for one: the code cannot know of that. One consequence of the code is modelled
and not judged: a read that times out after the deadline of its attempt ends the call with that error, and no further attempt is made.

### CameraCapture

`capGraph` is the route that is linked, `capExact` which of its settings are as they must be, `capUser` who
streams; several captures and other clients share them. `capFile` says, for each of the six names under a prefix,
who made the file and who wrote to it last. The capture sets the route and does not reset it. `capDisturbed` has the captures whose settings were changed
after they were checked, `capExchanged` the names whose file was exchanged. The kernel log is asked for from a whole second, so an error before the stream may count.

### SelfUpdate

`updTarget` and `updOld` are the program at the executable's path and the one moved aside, `updTemp` each updater's
temporary file. On Unix the verified file is renamed over the target; on Windows the target is moved aside first, and
put back if the second rename fails. Killed between the two, it leaves the program under its old name only: `ExecutableRemains` says so, and that nothing else leaves the path
empty. That Windows neither removes nor replaces the file of a running program is taken as given (`Locked`). A release may be uploaded anew, program first and manifest
later, so a verified program is one a manifest covered when it was read (`updVerified`).

### UserspaceInstall, IPTSDRelease, Compatibility

The four installers share the shape plan, back up, prepare, check, copy, mask, record, write
a receipt, activate, and differ in which of these they have and in which order; the actions say so by component.
`usrApplied` is the set a rollback restores. A copy renames the new file into place and may still report an
error. What `prepare` unpacks is judged by the operators of `IPTSDRelease`; compatibility by those of `Compatibility`,
which `MCDelivery` compares with what a manifest means (`VersionsAreOrdered`, `EvidenceDecides`). Camera packages are installed by apt, which has no
rollback here, and are outside the properties named for transactions.

## 3. Runs

| Run | Instance and bounds | States | Shows |
|---|---|---|---|
| kernel_install | 4 machines, 5 requests, 8 script effects; 1 transaction, 2 environment steps | 997450 | success boots, clean rollback restores, hooks come back, the fallback's tree is bound, the transaction ends |
| kernel_purge | as above | violated | finding 1 |
| legacy_cleanup | a file and a link; 2 transactions, 2 restorations, 2 faults, 1 edit | 421525 | nothing lost, restorations tell the truth, foreign content kept, runs end |
| cleanup_refusal | the same without edits | violated | finding 2 |
| handoff_application | a file and a path to be absent, 2 selections; 2 applications, 2 restorations, 2 faults, 1 edit | 1000308 | originals kept, rollbacks and restorations do what they answer, crash windows are told apart |
| handoff_rollback | 1 application, 1 fault | violated | finding 3 |
| handoff_reopen | 2 applications, 2 restorations, 1 fault | violated | finding 4 |
| handoff_store | 2 imports and 2 purges of which 3 start, entries of 2 files; 1 power loss, 1 edit | 670723 | an entry is whole or absent, imports converge, nothing unchecked is removed |
| one_machine | four stages, see below | 3251819 | what a medium, the radio, the camera and the program itself are left with |
| image_publication | 2 publishers, 1 power loss, 2 changes by others | 1579987 | an ISO never without its evidence, `AtomicImage` |
| delivery | eight stages, see below | 1461468 | what each stage leaves to the next is what it says |
| image_release | five adapters, no fault | violated | finding 5 |

A behaviour of `delivery` or `one_machine` follows one of its stages; the variables of the others stand still. They do not
interact in memory, so nothing is lost by it, and two runs replace twelve.

| Stage | Bounds | Properties |
|---|---|---|
| build | 2 builds out of 5 requests, 2 commits, 1 failure, kill or flaw | `BuiltIsAsked` |
| sensors | 2 failures, 1 edit | `ResultTells` |
| acquire | 2 releases, the first pinned; 3 commands, one at a time, 2 faults | `BundleOfOneRelease`, `EntriesAreWhole` |
| create | 5 adapters; 1 command without effect or edit, 2 errors | `PromisesKept`, `NothingOfItsOwnRefused` |
| release | 2 preparations, 2 creations, 2 or 3 blocks in parts of 2; 1 edit, 1 fault | `ReleaseIsOfOneImage`, `AnswerIsTrue` |
| package | 3 kinds, 2 preparations, 2 builds; 1 edit, 1 fault; kills and validation at any time | `PackageIsAuthorised`, `AcceptedIsAuthorised` |
| install | 1 machine, 2 requests, 2 script effects; 2 transactions, 2 environment steps | `CrashLeftoverNeedsOverwrite` |
| userspace | 2 files to a component; 2 faults, 1 edit | `OriginalsSaved`, `FailureRestores`, `ReceiptTells` |
| *one_machine:* media | 2 sticks, 2 chunks; 2 executions, 3 plugs, 1 edit | `OnlyPlannedWritten`, `NothingUntold`, `VerifiedIsDurable` |
| radio | 1 built-in radio and 1 other, 2 indexes, 2 attempts; 2 moves, 1 fault | `AddressStaysPrivate` |
| capture | 2 captures under one prefix, 2 routes of 2 settings; 1 edit by others, 1 fault; kills | `OthersFilesKept`, `CaptureTells` |
| update | 2 updaters, Unix and Windows, 2 releases; 1 new or exchanged release, 1 fault; kills | `ExecutableRemains`, `UpdateIsVerified` |

Why the bounds suffice. Two of each is the least at which things interact: two
rules (so that one is done when the other fails), two transactions (an old receipt
and a new one), two publishers, two builds in one volume, two captures, two updaters, two sticks, two chunks (a first write and a later one), two parts of which the last is full or not.
Three commands are two that race
and one that meets what they left. Two faults are a failure and a crash during its handling; where the bound is one, a
fault ends the command, and what meets its leftovers is the second command. One edit is enough because the
properties exempt what was edited and ask about the rest. Three plugs exchange a
stick and bring it back; two moves exchange two radios, or put one away and another in its place. The theorems do not depend on any bound. Builds and preparers, captures and updaters are two interchangeable model values,
so that TLC may treat them as symmetric; each stage uses them for itself.

The cache is run with one command at a time. With two, one may remove the other's `.part` file, which the
code accepts: `EntriesAreWhole` would have to exempt every such meeting. `BundleOfOneRelease` is proved for any number of
commands at once; `EntriesAreWhole` and the theorem-only `LeftoversNeverBlock` for any number of commands one after the other.

Deadlock is not looked for where every bound can be used up and the machine rests, which is so in every run; that
transactions and clean-ups do not stop before they are over is `TransactionEnds` and `RunsEnd`.

Fairness. `KernelInstall` and `LegacyCleanup` assume weak fairness of the running
process's own step: the program is sequential and each call returns, or its context ends it. Nothing
is assumed of the environment. `TransactionEnds` and `RunsEnd` rest on it.
The other modules have no liveness property and assume no fairness.

## 4. What the checks found

1. **Rollback of what was never changed** (kernel_purge). A command refused before
   it starts, because the context was cancelled or the mount changed, goes to
   `failAndRollback` (manager.go:317). With `--overwrite` this purges the target
   that was found, although no package command had run. The operator's manual
   speaks of mutation or final verification failing.
2. **A restoration that cannot be repeated** (cleanup_refusal). Stopped between
   the hard link and the removal of the workspace's name for it, it leaves the exact
   file with two links, which every later restoration refuses as changed.
3. **A rollback that skips a renamed object** (handoff_rollback). If synchronising
   the directory fails after a rename, the journal has no note of it; the rollback
   takes the action for untouched and still records the receipt as rolled back.
4. **A rolled-back receipt restored again** (handoff_reopen). Only Apply looks for
   overlapping receipts, so an old receipt can take away what a later committed
   transaction put at the same path.
5. **No created image can be prepared for release** (image_release). The adapters enter their steps in the
   order they run them: debianlive/remaster.go checks off prepare-tools and extract-live-root before
   stage-companion. Release preparation compares the journal with a list of its own (releaseprep/manager.go:397-409), which has
   stage-companion third, and refuses. The tests of release preparation write their journals from that list.

Met while modelling, and outside these properties: a staged file cut short by
a kill makes every later restoration of that receipt fail (restore.go:145-150 against
transaction.go:621-638), which `RestoreCompletes` exempts by name; and
docs/adr/adr-005 describes backups copied from the quarantine, where the code copies before the receipt.

## 5. What is proved

| Proof module | Theorems | Inductive invariant |
|---|---|---|
| `KernelInstall_proofs` | TypeCorrect, TransactionInvariant, SuccessAlwaysBootable, ErrorsAlwaysRollBack, FallbackAlwaysBound, SupportAlwaysSurvives, CleanRollbackAlwaysRestores, LeftoverAlwaysReviewed, FailedInstallAlwaysReturnsHooks | `TransactionInv`, `RollbackInv`, `LeftoverInv`, `HooksInv` |
| `LegacyCleanup_proofs` | TypeCorrect, ReceiptInvariant, NothingEverLost, ReceiptsAlwaysNameCopies, QuarantineInvariant, ForeignContentAlwaysKept, RestoreInvariant, RestoredAlwaysInPlace, CopiesAlwaysFound | `ReceiptInv`, `QuarantineInv`, `RestoreInv` |
| `HandoffApplication_proofs` | TypeCorrect, ContentAlwaysKept, OneActive, UndoInvariant, RolledBackAlwaysRestored, WindowsAlwaysReconcile, RestoreAlwaysCompletes | `Recorded`, `Room`, `Alone`, `UndoInv` |
| `HandoffStore_proofs` | TypeCorrect, AlwaysWholeOrAbsent, AnswersAlwaysLast, UncheckedAlwaysKept, AlwaysConverges | `OwnInv`, `SoundInv`, `PublishedInv`, `RemovedInv`, `QuietInv` |
| `Local_proofs` | TypeCorrect, OnlyPlannedAlwaysWritten, NothingEverUntold, WrittenAlwaysFlushed, VerifiedAlwaysDurable; BtTypeCorrect, AddressAlwaysPrivate, AddressAnswerAlwaysTells; CapTypeCorrect, OthersFilesAlwaysKept, CaptureAlwaysTells; UpdTypeCorrect, ExecutableAlwaysRemains, UpdateAlwaysVerified | `PlannedInv`, `ToldInv`, `FlushedInv`, `ReadInv`; `BtPrivate`, `BtTells`; `CapKept`, `CapListens`, `CapChecked`, `CapHeld`; `UpdRemains`, `UpdAllVerified` |
| `ImagePublication_proofs` | TypeCorrect, EvidenceAlwaysWithISO, RefinesAtomicPublication, AlwaysRefusedForCause | `EvidenceInv`, `StoodInv`, `QuietInv`, `CauseInv` |
| `ImageRelease_proofs` | BundleAlwaysOfOneRelease, LoneInvariant, LeftoversNeverInTheWay, EntriesAlwaysWhole, ReportedAlwaysComplete, VolumeAlwaysAccounted, CreationTyped, PromisesAlwaysKept, NothingOfItsOwnEverRefused, AnswerInvariant, AnswerAlwaysTrue, ReleaseAlwaysOfOneImage | `BundleInv`, `LoneInv`, `VolumeInv`, `Tracks`, `Follows`, `AnswerInv`, `OneInv` |
| `Build_proofs` | BuildInvariant, BuiltAlwaysAsked, ResetNeverRefused, OriginalsAlwaysSaved, FlowInvariant, FailureAlwaysRestores, ReceiptAlwaysTells, SensorInvariant, ResultAlwaysTells, PkgTypeCorrect, PackageAlwaysAuthorised, AcceptedAlwaysAuthorised, PackageAnswerAlwaysTells | `BuiltInv`, `SavedInv`, `FlowInv`, `SenInv`, `PkgPlacement`, `PkgAllKept`, `PkgAgreed` |

They hold for every value of the constants; those that follow from `LoneInv` where `MaxConcurrent` is at most 1, and those that
follow from `UndoInv` where `MaxEdits` is 0. The only assumptions are
those named at the constants: bounds are natural numbers, sets are finite where the code
counts them, special values are distinct; and `ProgramsAssumption`, which has no constant in it and is decided by evaluation. None of the safety theorems uses fairness.

Why each property needs strengthening:

- *Kernel.* "Success is bootable" is about the end of a transaction. `TransactionInv`
  says what is settled when: no command before preparation is over, the fallback's
  own tree from then on, packages recorded once all commands have run, the target
  verified before the last checks. `RollbackInv` follows what a receipt may say at each
  step of a rollback, `LeftoverInv` that what a crash left is seen by the recheck.
  `HooksInv` says that a planned hook is in place until it is retired, and that the process knows from then on that it must put it back.
- *Clean-up.* Between the rename of an original and the removal of its copy an
  entry is nowhere but in a quarantine. `ReceiptInv` carries one of the two receipts, readable
  both in the cache and on disk (`Durable`), across every step, so that a crash never
  leaves neither. `QuarantineInv` confines foreign content in a quarantine to the
  moment after the rename that caught it. `RestoreInv` says that what a restoration has passed is in place.
- *Hand-off.* An original may be put aside only where no backup is yet (`Room`), and
  every backup is named by a receipt (`Recorded`). `Alone` carries the overlap
  check from Apply to every later state. `UndoInv` says that each path of a transaction is in one of its windows
  (as planned, moved aside, replaced: `Window`, `Sound`), that the journal tells which (`Told`), but for a call that failed
  after its effect, and what has been undone already (`Undoing`). What others left (`Reconcilable`) stays so because their paths are disjoint.
- *Store.* `OwnInv` says who may touch a directory: an import alone until it publishes, a purge
  alone once it has isolated. `SoundInv` adds that what a purge may put back has every file durable,
  `PublishedInv` and `RemovedInv` follow the two synchronisations behind an answer, and `QuietInv` accounts
  for every directory out of place by a command that still has to deal with it.
- *Media.* A live handle belongs to a planned device (`PlannedInv`); what has been
  counted is in the cache, and after the flush on the device (`FlushedInv`); a reopened device's
  cache agrees with it (`ReadInv`).
- *Publication.* `EvidenceInv` has the order: a name becomes durable before the
  next one is tried, and the ISO is last. `QuietInv` says that without meddling a name held
  by a publisher holds its good bytes. `StoodInv` follows the last three comparisons, which justify
  the answer. `CauseInv` says that past the manifest a publisher meets only its
  own claims. The refinement takes each step to a step of `AtomicPublication` or to a stutter:
  the third rename is `Commit`, the synchronisation after it `Settle`.
- *Downloads.* A bundle is used several requests after "latest" was asked for. `BundleInv` says, at each
  file a process acquires, which of manifest, checksum list and package it has already compared with the release it selected.
  `LoneInv` follows one command through the temporary name: nobody else has it open, what was filled is what was hashed and renamed, and what no
  fault has touched is what the publisher gives. It rests on the pinned release being out before the program that pins it.
- *Image creation.* `VolumeInv`: a volume that exists is known to its command, or has been named. The
  proof goes through any program of instructions, and so holds for every adapter. What is published keeps its promises
  because of what was *checked*, whatever was *done*: `ImageEvidence` keeps, for each thing in the workspace and on the medium,
  an account of which events (a command took effect, let in what it should leave out, a file was edited) are needed for an
  element to be in it, could have put it there, or suffice for it. A check that finds an element shows its needs; one
  that does not find it rules out what was the only thing missing. `Tracks` says that the state is one the account describes,
  for some set of events that agrees with all that was shown and ruled out, and holds of any orderly program
  (`StepTracks`). What remains is about the five programs and no longer about their behaviours: that at publication the evidence bears out each
  promise. That is a closed formula, the assumption `ProgramsAssumption`, which TLC evaluates for every adapter and request (in the run
  image_publication) and which is false of the mutants of `PromisesKept`. Likewise `Follows`: while nothing went wrong, the state is that of the
  one faithful run at this instruction, and no check refuses there.
- *Release.* `AnswerInv` says when a directory is still a preparation's own, and that the name is held only by
  one past its rename. `OneInv` follows the contents: what is staged is of the image the report is about, or
  spoilt; what may be renamed has passed the validation that tells these apart.
- *Kernel build.* A recipe meets whatever earlier ones left. `BuiltInv` says, phase by phase, what it may
  rely on: the commit of the tree once it has been checked out, that packages in the collection directory
  are of that commit, what the inspection accepted, and that the lock keeps others out for as long. All of it is conditional on
  no container having outlived the lock.
- *Userspace.* `SavedInv` ties each backup to the plan's observation before the first replacement; `FlowInv` follows
  which targets are replaced and counted, so that a rollback restores each, and what a receipt may say at each step.
- *Sensors.* `SenInv` says that a failed build has told of, or stopped, every container but those it has yet to
  observe, and what the later steps rely on: containers that ended well, and an accepted archive of the pinned source.

- *Packages.* `PkgPlacement` says who can be at the private name and at the release's, so that a failed preparation has removed what
  it could. `PkgAllKept` says, kind by kind and step by step, which files the program has already looked at and will look at again: until
  then, or unless `pkgLate` has it, a file is as authorised once the last look has passed. `PkgAgreed` has what was
  handed over of a camera release, which its validation starts from.
- *Radio.* An index that is listed as built in was the built-in radio's at some moment of this attempt (`BtLooked`), so it still is, or radios
  have moved since; `BtAsked` carries that to the request, which outlives its attempt. A reply on the socket belongs to the last request (`BtReplyIsOurs`).
- *Capture.* A reserved name holds the capture's own file, unless exchanged (`CapOwned`); one streams at a time and has heard of every
  error since (`CapListens`); `CapChecked` follows the settings from the step that makes each to the stream, `CapHeld` the six files.
- *Update.* On Windows the path is empty only while one updater is between its renames, because the file moved aside belongs to a program that runs
  and is locked (`UpdRunning`); every temporary file past verification holds what a manifest was seen to cover (`UpdChose`).

Invariants were checked by TLC before they were proved. Some properties are theorems only,
because a run would show little more: `ErrorsAfterMutationRollBack`, `SupportSurvives`, `ReceiptsNameCopies`, `CopiesAreFound`, `OneActivePerPath`,
`AnswersLast`, `RefusedForCause`, `WrittenIsFlushed`, `ReportedFileIsComplete`, `LeftoversNeverBlock`, `VolumeAccounted`, `ResetAlwaysBuilds`,
`AddressAnswerTells`, `PackageAnswerTells`. Every safety property of a passing run is a theorem too. Only
model-checked: liveness (`TransactionEnds`, `RunsEnd`), which the provers cannot
treat; `RolledBackMeansRestored`, `CrashWindowsReconcile` and `RestoreCompletes` where somebody edits a path while Lexr
runs: they exempt by history variables what one edit explains, and with several edits of one path across the windows of two
transactions the exemption (`touched`, which Prepare clears) would have to be finer, so they are checked for one edit and proved
for none, with any number of crashes, failed calls and failed synchronisations. No theorem is about a recursive definition, `ENABLED`, or induction over data, which
are beyond the provers too. The violated properties have runs and no theorems.

## 6. Plan

In the order of what matters to somebody who trusts Lexr with a machine:

1. Done: kernel transaction, clean-up, hand-off application and store, media, image publication; kernel and
   sensor builds, the cache, image creation, release preparation of images and packages, userspace installation; capture, address and
   self update; their theorems.
2. HandoffApplication: a history of edits per path and transaction, fine enough to lift `MaxEdits = 0` from the theorems
   that follow from `UndoInv`.
3. `PackageRelease` as an implementation of `AtomicPublication`.
4. Pure functions against a reference definition: GRUB variable tracking in kernel/install/ownership.go, the
   backing-disk walk of media/linux.go.

## 7. Not modelled

Argument parsing, rendering, logging and messages; HTTP and JSON; the bytes of
images, packages and GRUB scripts beyond what a property tells apart; modes, owners and
digests beyond whether they match; what compilers and image tools do inside a command, other than having an
effect or not. Of whole parts: the camera build and preview, the
package builds of userspace/build, the builder image of the sensors, GRUB parsing; diagnostics and
userspace/status, which change nothing; the command line and terminal; shell and PowerShell
collectors; and Windows and Darwin variants of file operations. An edit of what a sensor build reads that is undone before the next check goes unseen
in the code and in the model. `PROJECT.json` lists every such part with its reason.
