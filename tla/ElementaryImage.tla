--------------------------- MODULE ElementaryImage --------------------------
(* How internal/image/elementary remasters a Casper image whose one file     *)
(* system is the installer's payload too, and what its validator asks of the *)
(* result.                                                                   *)
EXTENDS CompanionBundle

ElementaryPlan ==
    <<"verify-source", "verify-kernel", "stage-companion", "prepare-tools",
      "extract-live-root", "prepare-wifi", "install-kernel", "build-initramfs",
      "bind-live-media", "pair-device-trees", "repack-live-root",
      "create-hybrid-boot", "validate-output", "publish-output">>

ElementaryVerifySource ==
    <<StageCopy("source"), ExpectWithout("source", {"source"}, {"edited"}),
      Done("verify-source")>>

ElementaryStageBundle ==
    <<StageCopy("packages"), ExpectWithout("packages", {"packages"}, {"edited"})>>

ElementaryVerifyKernel == ElementaryStageBundle \o <<Done("verify-kernel")>>

ElementaryPrepareTools == <<NewVolume, Done("prepare-tools")>>

ElementarySourceLayout == <<Expect("sourceMenu", {"source"})>>

(* `casper' are Casper's hooks; `loader' is the source's GRUB, whose digest, *)
(* as that of the forwarding menu and of the root's generators, is pinned.   *)
ElementaryExtract ==
    <<Make("sourceMenu", {"source"}), Make("loader", {"source"})>>
    \o ElementarySourceLayout
    \o <<Expect("loader", {"loader"}), Make("base", {"source"}),
         Make("casper", {"source"}), Expect("base", {"base"}),
         Expect("casper", {"casper"}), Done("extract-live-root")>>

ElementaryCompanion ==
    CompanionBuild \o <<Done("stage-companion")>>

ElementaryFirmware ==
    PrepareGPUFirmware \o PrepareWiFiBoard("board", "base")
    \o <<Done("prepare-wifi")>>

(* The installed system's arguments, device tree, links and refresh record.  *)
ElementaryInstalledSupport == <<Make("policy", {"kernel"})>>

ElementaryGuide == <<IfCompanion(Make("guide", {}))>>

ElementaryInstallKernel ==
    InstallKernelPackages \o <<Make("index", {"kernel"})>>
    \o ElementaryInstalledSupport \o ElementaryGuide
    \o <<Done("install-kernel")>>

(* Casper's hooks are hidden from the installed system's initramfs, and put  *)
(* back for the live one.                                                    *)
ElementaryInitramfs ==
    <<Make("hooks", {"gpu"}),
      MakeWithout("installedInitrd", {"index", "board", "hooks"}, {"casperHooks"}),
      Make("liveInitrd", {"index", "board", "hooks", "casper"}),
      Make("bootKernel", {"kernel"}), Make("bootInitrd", {"liveInitrd"}),
      Done("build-initramfs")>>

ElementaryBindMedia ==
    <<Make("identity", {"bootInitrd"}), Expect("identity", {"identity"}),
      Done("bind-live-media")>>

ElementaryPairTrees ==
    <<Make("trees", {"kernel"}), Done("pair-device-trees")>>

ElementaryEFI == <<Make("esp", {"loader"}), Expect("esp", {"loader"})>>

ElementaryMenu == <<Make("menu", {})>>

ElementaryManifest ==
    <<Expect("trees", {"kernel"}),
      Make("manifest", {"source", "packages", "bootKernel", "bootInitrd",
                        "trees", "identity", "loader", "esp", "companion"})>>

ElementaryRetained ==
    <<Make("retained", {"packages", "trees", "manifest", "companion"})>>

ElementaryRoot ==
    {"base", "casper", "rootFirmware", "board", "kernel", "index", "policy",
     "guide", "hooks", "installedInitrd", "retained"}

ElementaryRepack ==
    <<Make("packageList", {"kernel"}), Make("packed", ElementaryRoot),
      Done("repack-live-root")>>

ElementaryMembers ==
    {"packed", "packageList", "bootKernel", "bootInitrd", "identity", "menu",
     "esp", "loader", "trees", "packages", "manifest", "companion"}

ElementaryChecksums == <<Make("checksums", ElementaryMembers)>>

ElementaryHybridBoot ==
    ElementaryChecksums
    \o <<Burn(ElementaryMembers \cup {"checksums"}), Done("create-hybrid-boot")>>

-----------------------------------------------------------------------------
ElementaryCheckManifest ==
    <<Shows("manifest", {"manifest", "source", "identity"})>>

(* The second copies of kernel, boot loader and EFI file system are compared *)
(* with the first.                                                           *)
ElementaryCheckRecords ==
    <<AgreesWith({"bootKernel", "bootInitrd", "trees", "identity", "loader", "esp",
               "packages"}, "manifest")>>

ElementaryCheckMenu == <<Shows("menu", {"menu"})>>

ElementaryCheckLayout == <<Shows("esp", {"esp"})>>
ElementaryCheckInventory == <<Shows("esp", {"loader"})>>
ElementaryCheckEFI == ElementaryCheckLayout \o ElementaryCheckInventory

ElementaryCheckCompanion ==
    <<IfCompanion(Shows("companion", {"companion"})),
      IfCompanion(AgreesWith({"companion"}, "manifest"))>>

(* Every replaced member, and every file beside the retained bundle.         *)
ElementaryCheckChecksums ==
    <<AgreesWith(ElementaryMembers \ {"companion"}, "checksums")>>

ElementaryCheckRetained ==
    <<Shows("packed", {"retained", "packages", "trees", "manifest", "rootFirmware"}),
      IfCompanion(Shows("packed", {"companion"}))>>

ElementaryCheckInitrds ==
    <<Shows("bootInitrd", {"casper", "index"}),
      ShowsWithout("packed", {"installedInitrd"}, {"casperHooks"})>>

(* Package files are compared with the root's, and early modules with those  *)
(* in the initramfs; the UUID with the live initramfs's.                     *)
ElementaryCheckRoot ==
    <<Shows("bootKernel", {"kernel"}), Shows("packed", {"base"}),
      Shows("packageList", {"kernel"}), Shows("identity", {"bootInitrd"}),
      Shows("packed", {"kernel", "packages"}), Shows("trees", {"kernel"}),
      Shows("packed", {"index", "hooks", "policy"}),
      IfCompanion(Shows("packed", {"guide"}))>>
    \o ElementaryCheckInitrds
    \o <<Shows("packed", {"board"}), Shows("bootInitrd", {"board"})>>
    \o ValidateLiveGPUFirmware("bootInitrd", "gpu")

ElementaryValidate ==
    ElementaryCheckManifest \o ElementaryCheckRecords \o ElementaryCheckMenu
    \o ElementaryCheckEFI \o ElementaryCheckCompanion
    \o ElementaryCheckChecksums \o ElementaryCheckRoot \o ElementaryCheckRetained

-----------------------------------------------------------------------------
ElementaryProgram ==
    ElementaryVerifySource \o ElementaryVerifyKernel \o ElementaryPrepareTools
    \o ElementaryExtract \o ElementaryCompanion \o ElementaryFirmware
    \o ElementaryInstallKernel \o ElementaryInitramfs \o ElementaryBindMedia
    \o ElementaryPairTrees \o ElementaryEFI \o ElementaryMenu
    \o ElementaryManifest \o ElementaryRetained \o ElementaryRepack
    \o ElementaryHybridBoot \o ElementaryValidate
    \o <<Done("validate-output"), PublishOutputs>>

ElementaryPromises ==
    {PromiseWithout("packages", {"packages"}, {"edited"}),
     Promise("bootKernel", {"kernel"}),
     Promise("bootInitrd", {"kernel", "index", "board", "gpu", "casper"}),
     Promise("identity", {"liveInitrd"}),
     Promise("trees", {"kernel"}),
     Promise("esp", {"loader"}),
     Promise("menu", {"menu"}),
     Promise("checksums", {"packed", "bootInitrd", "menu"}),
     PromiseWithout("packed", {"base", "kernel", "index", "board", "gpu", "policy",
                               "installedInitrd", "retained"}, {"casperHooks"}),
     IfCompanion(Promise("packed", {"companion", "guide"}))}
=============================================================================
