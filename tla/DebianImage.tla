----------------------------- MODULE DebianImage ----------------------------
(* How internal/image/debianlive remasters a live-boot image, and what its   *)
(* validator asks of the result.  The source image is one whose digest and   *)
(* configuration are pinned.                                                 *)
EXTENDS CompanionBundle

DebianPlan ==
    <<"verify-source", "verify-kernel", "stage-companion", "prepare-tools",
      "extract-live-root", "prepare-wifi", "prepare-installed-grub",
      "install-kernel", "build-initramfs", "bind-live-media",
      "pair-device-trees", "repack-live-root", "create-hybrid-boot",
      "validate-output", "publish-output">>

DebianVerifySource ==
    <<StageCopy("source"), ExpectWithout("source", {"source"}, {"edited"}),
      Done("verify-source")>>

(* The packages are hashed again once they are copied.                       *)
DebianStageBundle ==
    <<StageCopy("packages"), ExpectWithout("packages", {"packages"}, {"edited"})>>

DebianVerifyKernel == DebianStageBundle \o <<Done("verify-kernel")>>

DebianPrepareTools == <<NewVolume, Done("prepare-tools")>>

DebianSourceLayout == <<Expect("sourceMenu", {"source"})>>

DebianInstallerInputs == <<Expect("base", {"base"})>>

(* `live' are live-boot's hooks, `loader' the source's signed boot loader.   *)
DebianExtract ==
    <<Make("sourceMenu", {"source"}), Make("loader", {"source"})>>
    \o DebianSourceLayout
    \o <<Make("base", {"source"}), Make("live", {"source"}),
         Expect("base", {"base"}), Expect("live", {"live"})>>
    \o DebianInstallerInputs \o <<Done("extract-live-root")>>

DebianCompanion ==
    CompanionBuild \o <<Done("stage-companion")>>

DebianFirmware ==
    PrepareGPUFirmware \o PrepareWiFiBoard("board", "base")
    \o <<Done("prepare-wifi")>>

DebianGRUBDependencies ==
    <<Make("dependencies", {"source"}), Expect("dependencies", {"source"})>>

DebianSupportPackage == <<Make("support", {})>>

(* GRUB, which the live root is without, for the system installed from it,   *)
(* and the package that gives its generator this machine's device trees.     *)
DebianInstalledGRUB ==
    DebianGRUBDependencies \o DebianSupportPackage
    \o <<Expect("base", {"base"}),
         Make("installedGrub", {"base", "dependencies", "support"}),
         Done("prepare-installed-grub")>>

DebianInstalledSupport == <<Make("policy", {})>>

DebianGuide == <<IfCompanion(Make("guide", {}))>>

DebianInstallKernel ==
    InstallKernelPackages \o <<Make("index", {"kernel"})>>
    \o DebianInstalledSupport \o DebianGuide \o <<Done("install-kernel")>>

(* The hooks of live-boot are hidden from the installed system's initramfs;  *)
(* the RAM check goes into the live one, and out of the root again.          *)
DebianInitramfs ==
    <<Make("hooks", {"gpu"}),
      MakeWithout("installedInitrd", {"index", "board", "hooks"}, {"liveHooks"}),
      Make("ramCheck", {}),
      Make("liveInitrd", {"index", "board", "hooks", "live", "ramCheck"}),
      MakeWithout("scripts", {"hooks"}, {"ramHook"}),
      Make("bootKernel", {"kernel"}), Make("bootInitrd", {"liveInitrd"}),
      Done("build-initramfs")>>

(* The medium takes the UUID that the generated initramfs will look for.     *)
DebianBindMedia ==
    <<Make("liveUUID", {"bootInitrd"}), Expect("liveUUID", {"liveUUID"}),
      Done("bind-live-media")>>

DebianPairTrees == <<Make("trees", {"kernel"}), Done("pair-device-trees")>>

(* The signed loader takes its place in the EFI file system, and is compared.*)
DebianEFI == <<Make("esp", {"loader"}), Expect("esp", {"loader"})>>

DebianMenu == <<Make("menu", {})>>

DebianManifest ==
    <<Expect("trees", {"kernel"}),
      Make("manifest", {"source", "packages", "bootKernel", "bootInitrd",
                        "trees", "liveUUID", "loader", "esp", "support",
                        "companion"})>>

(* The installed system keeps the medium's kernel packages and companion.    *)
DebianRetained ==
    <<Make("retained", {"packages", "trees", "manifest", "companion"})>>

DebianRoot ==
    {"base", "live", "rootFirmware", "board", "installedGrub", "kernel",
     "index", "policy", "guide", "installedInitrd", "scripts", "retained"}

DebianRepack ==
    <<Make("packageList", {"kernel"}), Make("packed", DebianRoot),
      Done("repack-live-root")>>

DebianChecksums ==
    <<Make("checksums", {"packed", "packageList", "bootKernel", "bootInitrd",
                         "liveUUID", "menu", "esp", "loader", "trees",
                         "packages", "manifest", "companion"})>>

(* A partition table and an EFI partition are made anew.                     *)
DebianHybridBoot ==
    DebianChecksums
    \o <<Burn({"packed", "packageList", "bootKernel", "bootInitrd", "liveUUID",
               "menu", "esp", "loader", "trees", "packages", "manifest",
               "companion", "checksums"}),
         Done("create-hybrid-boot")>>

-----------------------------------------------------------------------------
(* The medium's identity, its initramfs's and the boot arguments agree in    *)
(* the manifest.                                                             *)
DebianCheckDiscovery == <<Shows("manifest", {"liveUUID", "bootInitrd"})>>

DebianCheckManifest ==
    <<Shows("manifest", {"manifest", "source"})>> \o DebianCheckDiscovery

DebianCheckRecords ==
    <<AgreesWith({"bootKernel", "bootInitrd", "trees", "liveUUID", "loader", "esp",
               "packages"}, "manifest")>>

DebianCheckMenu == <<Shows("menu", {"menu"})>>

(* The optical and the USB path start from one EFI file system, which holds  *)
(* the pinned loader, its forwarding configuration and nothing else.         *)
DebianCheckLayout == <<Shows("esp", {"esp"})>>
DebianCheckInventory == <<Shows("esp", {"loader"})>>
DebianCheckEFI == DebianCheckLayout \o DebianCheckInventory

DebianCheckCompanion ==
    <<IfCompanion(Shows("companion", {"companion"})),
      IfCompanion(AgreesWith({"companion"}, "manifest"))>>

DebianCheckChecksums ==
    <<AgreesWith({"packed", "packageList", "bootKernel", "bootInitrd", "liveUUID",
               "menu", "esp", "loader"}, "checksums")>>

(* What the root retains is what the medium carries.                         *)
DebianCheckRetained ==
    <<Shows("packed", {"retained", "packages", "trees", "manifest", "rootFirmware"}),
      IfCompanion(Shows("packed", {"companion"}))>>

DebianCheckPackages ==
    <<Shows("packed", {"kernel", "packages"}), Shows("packageList", {"kernel"})>>

DebianCheckTrees == <<Shows("trees", {"kernel"})>>

DebianCheckModules == <<Shows("packed", {"index", "hooks"})>>

DebianCheckPolicy == <<Shows("packed", {"policy"})>>

(* The support package is built again, and compared.                         *)
DebianCheckInstalledGRUB ==
    <<Shows("packed", {"installedGrub", "dependencies", "support"})>>

DebianCheckInitrds ==
    <<Shows("bootInitrd", {"live"}),
      ShowsWithout("packed", {"installedInitrd"}, {"liveHooks"})>>

(* Slip: the root is not searched for a leftover of the RAM hook.            *)
MutantDebianCheckRAM == <<Shows("bootInitrd", {"ramCheck"})>>

(* The RAM check is in the live initramfs, in its order, and not in the root.*)
DebianCheckRAM ==
    <<Shows("bootInitrd", {"ramCheck"}), ShowsWithout("packed", {}, {"ramHook"})>>

DebianCheckIdentity == <<Shows("liveUUID", {"bootInitrd"})>>

DebianCheckGuide == <<IfCompanion(Shows("packed", {"guide"}))>>

DebianCheckBoard == <<Shows("packed", {"board"}), Shows("bootInitrd", {"board"})>>

DebianCheckRoot ==
    <<Shows("bootKernel", {"kernel"}), Shows("packed", {"base"})>>
    \o DebianCheckIdentity \o DebianCheckRAM \o DebianCheckPackages
    \o DebianCheckTrees \o DebianCheckModules \o DebianCheckPolicy
    \o DebianCheckInstalledGRUB \o DebianCheckGuide \o DebianCheckInitrds
    \o DebianCheckBoard \o ValidateLiveGPUFirmware("bootInitrd", "gpu")

DebianValidate ==
    DebianCheckManifest \o DebianCheckRecords \o DebianCheckMenu
    \o DebianCheckEFI \o DebianCheckCompanion \o DebianCheckChecksums
    \o DebianCheckRoot \o DebianCheckRetained

-----------------------------------------------------------------------------
DebianProgram ==
    DebianVerifySource \o DebianVerifyKernel \o DebianPrepareTools
    \o DebianExtract \o DebianCompanion \o DebianFirmware \o DebianInstalledGRUB
    \o DebianInstallKernel \o DebianInitramfs \o DebianBindMedia
    \o DebianPairTrees \o DebianEFI \o DebianMenu \o DebianManifest
    \o DebianRetained \o DebianRepack \o DebianHybridBoot \o DebianValidate
    \o <<Done("validate-output"), PublishOutputs>>

(* What starting the live system, from the medium or from its copy in RAM,   *)
(* and the system installed from it, takes.                                  *)
DebianPromises ==
    {PromiseWithout("packages", {"packages"}, {"edited"}),
     Promise("bootKernel", {"kernel"}),
     Promise("bootInitrd", {"kernel", "index", "board", "gpu", "live", "ramCheck"}),
     Promise("liveUUID", {"liveInitrd"}),
     Promise("trees", {"kernel"}),
     Promise("esp", {"loader"}),
     Promise("menu", {"menu"}),
     Promise("checksums", {"packed", "bootInitrd", "menu"}),
     PromiseWithout("packed", {"base", "kernel", "index", "board", "gpu", "policy",
                               "installedGrub", "installedInitrd", "retained"},
                    {"ramHook", "liveHooks"}),
     IfCompanion(Promise("packed", {"companion", "guide"}))}
=============================================================================
