----------------------------- MODULE UbuntuImage ----------------------------
(* How internal/image/ubuntu remasters a Casper image, and what its          *)
(* validator asks of the result.  The two ways of delivering device trees to *)
(* the installed system are one here.  The request gives the digest of its   *)
(* source.                                                                   *)
EXTENDS CompanionBundle

UbuntuPlan ==
    <<"verify-source", "verify-kernel", "stage-companion", "prepare-tools",
      "extract-live-root", "prepare-wifi", "install-kernel",
      "assemble-initramfs-root", "build-initramfs", "bind-live-media",
      "pair-device-trees", "repack-live-root", "replay-hybrid-boot",
      "validate-output", "publish-output">>

UbuntuStage(file) == <<StageLink(file)>>

UbuntuVerifySource ==
    UbuntuStage("source")
    \o <<ExpectWithout("source", {"source"}, {"edited"}), Done("verify-source")>>

(* The packages were hashed before they are staged, and are not again.       *)
UbuntuStageBundle == UbuntuStage("packages")

UbuntuStageSupport == <<Make("defaults", {})>>

UbuntuVerifyKernel ==
    UbuntuStageBundle \o UbuntuStageSupport \o <<Done("verify-kernel")>>

UbuntuPrepareTools == <<NewVolume, Done("prepare-tools")>>

(* `layers' are the two upper file systems, `base' the lowest.               *)
UbuntuSourceLayout == <<Expect("layers", {"source"})>>

UbuntuExtractBase == <<Make("base", {"source"})>>

UbuntuExtract ==
    <<MakeWithout("layers", {"source"}, {"override"})>> \o UbuntuSourceLayout \o UbuntuExtractBase
    \o <<Done("extract-live-root")>>

UbuntuCompanion ==
    CompanionBuild \o <<Done("stage-companion")>>

UbuntuRejectOverrides == <<ExpectWithout("layers", {}, {"override"})>>

UbuntuWiFi ==
    UbuntuRejectOverrides \o PrepareWiFiBoard("board", "base")
    \o <<Done("prepare-wifi")>>

(* The GRUB policy, the exact-ABI device trees, and the initramfs of the     *)
(* installed system, examined under a temporary name before it takes its own.*)
UbuntuInstalledSupport ==
    <<Make("policy", {"defaults"}), Make("trees", {"kernel"}),
      Expect("index", {"index"}),
      MakeWithout("newInitrd", {"index", "board"}, {"casper"}),
      ExpectWithout("newInitrd", {"index", "board"}, {"casper"}),
      Make("installedInitrd", {"newInitrd"})>>

UbuntuGuide == <<IfCompanion(Make("guide", {}))>>

UbuntuInstallKernel ==
    InstallKernelPackages \o <<Make("index", {"kernel"})>>
    \o UbuntuInstalledSupport \o UbuntuGuide \o <<Done("install-kernel")>>

UbuntuRoot ==
    {"base", "board", "kernel", "index", "policy", "trees", "installedInitrd",
     "guide"}

UbuntuApplyLayer(layer) == <<Make("liveRoot", {"liveRoot", layer})>>

UbuntuAssembleRoot ==
    <<Make("liveRoot", UbuntuRoot)>> \o UbuntuApplyLayer("layers")
    \o <<Expect("liveRoot", {"base", "index", "layers"})>>

(* The live root's board must be that of the root that is deployed.          *)
UbuntuAssemble ==
    UbuntuAssembleRoot \o PrepareWiFiBoard("liveBoard", "liveRoot")
    \o <<Expect("liveBoard", {"board"}), Done("assemble-initramfs-root")>>

UbuntuFirmwareHook == <<Make("hook", {})>>

UbuntuCopyBoot ==
    <<Make("bootKernel", {"kernel"}), Make("bootInitrd", {"liveInitrd"}),
      Make("bootTrees", {"kernel"})>>

UbuntuInitramfs ==
    UbuntuFirmwareHook \o <<Make("liveInitrd", {"liveRoot", "liveBoard", "hook"})>>
    \o UbuntuCopyBoot \o <<Done("build-initramfs")>>

(* The UUID the generated initramfs will look for goes on the medium.        *)
UbuntuMediaIdentity ==
    <<Expect("bootInitrd", {"liveInitrd"}), Make("identity", {"bootInitrd"})>>

UbuntuPackageList == <<Make("packageList", {})>>

UbuntuRepack ==
    <<Make("repacked", UbuntuRoot), Make("packed", {"repacked"})>>
    \o UbuntuPackageList \o <<Done("repack-live-root")>>

(* Slip: the manifest is written without the medium's identity.              *)
MutantUbuntuManifest ==
    <<Make("manifest", {"source", "bootKernel", "bootInitrd", "bootTrees",
                        "companion"})>>

UbuntuManifest ==
    <<Make("manifest", {"source", "bootKernel", "bootInitrd", "bootTrees",
                        "identity", "companion"})>>

UbuntuSupportFiles == <<Make("payload", {"packages"}), Make("menu", {})>>

UbuntuChecksums ==
    <<Make("checksums", {"packed", "packageList", "bootKernel", "bootInitrd",
                         "bootTrees", "identity", "menu", "manifest", "payload",
                         "companion"})>>

(* Direct GRUB replaces the boot loader in the appended EFI partition, once  *)
(* the redundant copy has made room for it.                                  *)
UbuntuReplaceLoader ==
    <<MakeWithout("partition", {"bootArea"}, {"redundant"}),
      Make("partition", {"partition", "loader"}), Burn({"partition"})>>

(* The source's boot layout is replayed around the changed members.          *)
UbuntuReplay ==
    <<Make("bootArea", {"source"}), Make("loader", {"layers"}),
      Burn({"bootArea", "packed", "packageList", "bootKernel", "bootInitrd",
            "bootTrees", "identity", "menu", "loader", "payload", "manifest",
            "companion", "checksums"})>>
    \o UbuntuReplaceLoader \o <<Done("replay-hybrid-boot")>>

-----------------------------------------------------------------------------
UbuntuCheckSystemArea == <<Shows("bootArea", {"bootArea"})>>

UbuntuCheckMembers ==
    <<Shows("bootKernel", {"bootKernel"}), Shows("bootInitrd", {"bootInitrd"}),
      Shows("bootTrees", {"bootTrees"}), Shows("identity", {"identity"}),
      Shows("packed", {"packed"}), Shows("menu", {"menu"})>>

UbuntuCheckManifest == <<Shows("manifest", {"manifest"})>>

UbuntuCheckCompanion ==
    <<IfCompanion(Shows("companion", {"companion"})),
      IfCompanion(AgreesWith({"companion"}, "manifest"))>>

UbuntuCheckDigests ==
    <<AgreesWith({"bootKernel", "bootInitrd", "bootTrees"}, "manifest")>>

UbuntuCheckInitramfs == <<Shows("bootInitrd", {"index", "layers"})>>

(* The UUID on the medium is the initramfs's own, and the manifest's.        *)
UbuntuCheckIdentity ==
    <<AgreesWith({"identity"}, "manifest")>>
    \o ValidateLiveGPUFirmware("bootInitrd", "hook")
    \o <<Shows("identity", {"liveInitrd"})>>

UbuntuCheckModules == <<Shows("packed", {"index"})>>

UbuntuCheckBoard ==
    <<Shows("packed", {"board"}), Shows("bootInitrd", {"liveBoard"})>>

UbuntuCheckMenu == <<Shows("menu", {"menu"})>>

UbuntuCheckLoader ==
    <<Shows("loader", {"loader"}),
      ShowsWithout("partition", {"loader"}, {"redundant"})>>

(* Nothing of an initramfs under construction remains in the root.           *)
UbuntuCheckInstalledMembers ==
    <<Shows("packed", {"base", "kernel", "installedInitrd", "policy"})>>

UbuntuCheckInstalledInitramfs ==
    <<ShowsWithout("packed", {"index", "board"}, {"casper"})>>

UbuntuCheckInstalledTrees == <<Shows("packed", {"trees"})>>

UbuntuCheckGenerator == <<Shows("packed", {"base"})>>

UbuntuCheckInstalledPolicy ==
    UbuntuCheckGenerator \o <<Shows("packed", {"policy"})>>

UbuntuValidate ==
    UbuntuCheckSystemArea \o UbuntuCheckMembers \o UbuntuCheckManifest
    \o UbuntuCheckCompanion \o UbuntuCheckDigests \o UbuntuCheckInitramfs
    \o UbuntuCheckIdentity \o UbuntuCheckModules \o UbuntuCheckBoard
    \o UbuntuCheckInstalledMembers \o UbuntuCheckInstalledInitramfs
    \o UbuntuCheckInstalledTrees \o UbuntuCheckInstalledPolicy
    \o UbuntuCheckMenu \o UbuntuCheckLoader

-----------------------------------------------------------------------------
(* The volume goes after publication: what fails then is reported as the     *)
(* failure of a creation that has published.                                 *)
UbuntuProgram ==
    UbuntuVerifySource \o UbuntuVerifyKernel \o UbuntuPrepareTools
    \o UbuntuExtract \o UbuntuCompanion \o UbuntuWiFi \o UbuntuInstallKernel
    \o UbuntuAssemble \o UbuntuInitramfs \o UbuntuMediaIdentity
    \o <<Done("bind-live-media"), Done("pair-device-trees")>> \o UbuntuRepack
    \o UbuntuManifest \o UbuntuSupportFiles \o UbuntuChecksums \o UbuntuReplay
    \o UbuntuValidate \o <<Done("validate-output"), PublishOutputs, RemoveVolume>>

(* What starting the live system, and the system installed from it, takes.   *)
(* That the kernel is of the verified packages is no promise here: a staged  *)
(* hard link shows what happens to the owner's file later.                   *)
UbuntuPromises ==
    {Promise("bootArea", {"bootArea"}),
     Promise("bootKernel", {"kernel"}),
     Promise("bootTrees", {"kernel"}),
     PromiseWithout("bootInitrd", {"kernel", "index", "layers", "liveBoard",
                                   "hook"}, {"override"}),
     Promise("identity", {"bootInitrd"}),
     PromiseWithout("packed", {"base", "kernel", "index", "board", "trees",
                               "policy", "installedInitrd"}, {"casper"}),
     Promise("menu", {"menu"}),
     PromiseWithout("partition", {"loader"}, {"redundant"})}
=============================================================================
