----------------------------- MODULE FedoraImage ----------------------------
(* How internal/image/fedora remasters a Fedora Live image, and what its     *)
(* validator asks of the result.  The two ways of delivering device trees    *)
(* are one here, and a companion carries the IPTSD release.  Files are       *)
(* staged as private copies.                                                 *)
EXTENDS CompanionBundle

FedoraStage(file) == <<StageCopy(file)>>

FedoraVerifySource ==
    FedoraStage("source")
    \o <<ExpectWithout("source", {"source"}, {"edited"}), Done("verify-source")>>

(* The packages were hashed before they are copied; the copy is not.         *)
FedoraStageBundle == FedoraStage("packages")

FedoraStageSupport == <<Make("support", {})>>

FedoraVerifyKernel ==
    FedoraStageBundle \o FedoraStageSupport \o <<Done("verify-kernel")>>

FedoraPrepareTools == <<NewVolume, Done("prepare-tools")>>

FedoraSourceLayout == <<Expect("live", {"source"}), Expect("bootArea", {"source"})>>

FedoraSourceRoot == <<Expect("base", {"live"})>>

(* Anaconda is made to carry the boot arguments into what it installs.       *)
FedoraAnaconda == <<Make("anaconda", {})>>

FedoraExtract ==
    <<Make("live", {"source"}), Make("stock", {"source"}), Make("bootArea", {"source"})>>
    \o FedoraSourceLayout \o <<Make("base", {"live"})>> \o FedoraSourceRoot
    \o FedoraAnaconda \o <<Done("extract-live-root")>>

FedoraCompanion ==
    CompanionBuild \o <<Done("stage-companion")>>

(* The packages are repackaged as one RPM, which is installed; of the        *)
(* kernels in /boot only its own is left, for Anaconda to find.              *)
FedoraInstallKernelRPM ==
    <<Expect("packages", {"packages"}),
      Make("rpm", {"packages", "support"}), Expect("rpm", {"packages"}),
      MakeWithout("kernel", {"rpm", "base"}, {"stockKernels"}),
      Make("policy", {"support"}), Make("index", {"kernel"}),
      ExpectWithout("kernel", {"rpm"}, {"stockKernels"})>>

FedoraInstallKernel == FedoraInstallKernelRPM \o <<Done("install-kernel")>>

(* The IPTSD sources come out of the companion's archive, whose digest is    *)
(* taken before and after.                                                   *)
FedoraExtractIPTSD ==
    ForCompanion(<<Make("iptsdSource", {"companion"}),
                   Expect("iptsdSource", {"companion"})>>)

FedoraPrepareIPTSD ==
    ForCompanion(<<Expect("companion", {"companion"})>>) \o FedoraExtractIPTSD
    \o ForCompanion(<<Expect("companion", {"companion"})>>)

FedoraStageIPTSDSpec ==
    ForCompanion(<<Make("iptsdSpec", {"iptsdSource"}), Expect("iptsdSpec", {"iptsdSource"})>>)

FedoraBuildIPTSD ==
    FedoraStageIPTSDSpec
    \o ForCompanion(<<Make("iptsdRPM", {"iptsdSource", "iptsdSpec"}),
                      Expect("iptsdRPM", {"iptsdSource", "iptsdSpec"}),
                      Expect("iptsdSource", {"companion"}),
                      Expect("iptsdSpec", {"iptsdSource"})>>)

FedoraInstallIPTSD ==
    FedoraBuildIPTSD
    \o ForCompanion(<<Make("iptsd", {"iptsdRPM"}), Expect("iptsd", {"iptsdRPM"})>>)

FedoraUserspace ==
    FedoraPrepareIPTSD \o FedoraInstallIPTSD \o <<Done("install-userspace")>>

FedoraAssemble ==
    PrepareWiFiBoard("board", "base") \o <<Done("assemble-initramfs-root")>>

(* The modules and the firmware in the initramfs are compared with the root. *)
FedoraInitramfsSupport == <<Expect("initrd", {"kernel", "index", "board"})>>

FedoraBuildInitramfs ==
    <<Make("initrd", {"kernel", "index", "board"}), Expect("initrd", {"kernel"})>>
    \o FedoraInitramfsSupport

FedoraCopyBoot ==
    <<Make("bootKernel", {"kernel"}), Make("bootInitrd", {"initrd"}),
      Make("bootTrees", {"kernel"})>>

FedoraInitramfs ==
    FedoraBuildInitramfs \o FedoraCopyBoot \o <<Done("build-initramfs")>>

FedoraCustomKernel == <<Expect("bootKernel", {"kernel"}), Expect("bootTrees", {"kernel"})>>

FedoraManifest ==
    <<Make("manifest", {"source", "bootKernel", "bootInitrd", "bootTrees",
                        "stock", "rpm", "companion", "iptsdRPM"})>>

FedoraSupportFiles ==
    <<Make("payload", {"packages"}), Make("policyFile", {"support"}),
      Make("guide", {}), Make("menu", {})>>

FedoraCheckRetained ==
    <<Expect("retained", {"manifest"}), IfCompanion(Expect("retained", {"companion"}))>>

FedoraUserSupport ==
    ForCompanion(<<Expect("companion", {"companion"})>>)
    \o <<Make("retained", {"manifest", "companion"})>>
    \o ForCompanion(<<Expect("companion", {"companion"})>>)
    \o FedoraCheckRetained

FedoraRoot ==
    {"base", "anaconda", "kernel", "policy", "index", "iptsd", "board",
     "initrd", "retained", "labels"}

(* Everything in the root is given its SELinux label before it is packed.    *)
FedoraRepackEROFS ==
    <<Make("labels", {}), Make("packed", FedoraRoot), Expect("packed", {"packed"})>>

FedoraRepack == FedoraRepackEROFS \o <<Done("repack-live-root")>>

FedoraReplay ==
    <<Burn({"bootArea", "packed", "bootKernel", "bootInitrd", "bootTrees",
            "stock", "menu", "payload", "rpm", "policyFile", "guide",
            "manifest", "companion", "iptsdRPM"}),
      Done("replay-hybrid-boot")>>

-----------------------------------------------------------------------------
FedoraCheckSystemArea == <<Shows("bootArea", {"bootArea"})>>

FedoraCheckGuide == <<Shows("guide", {"guide"})>>

FedoraCheckManifest == <<Shows("manifest", {"manifest"})>>

FedoraCheckMarker == <<Shows("bootArea", {"source"})>>

FedoraCheckDigests ==
    <<AgreesWith({"bootKernel", "bootInitrd", "stock", "bootTrees"}, "manifest")>>

FedoraCheckRPM == <<AgreesWith({"rpm"}, "manifest"), Shows("rpm", {"packages"})>>

(* The kernel that is started is that of the packages on the medium, which   *)
(* have the digests the bundle was verified with.                            *)
FedoraCheckPackages ==
    <<ShowsWithout("payload", {"packages"}, {"edited"}),
      Shows("bootKernel", {"packages"})>>

FedoraCheckCompanion ==
    ForCompanion(<<Shows("companion", {"companion"}), AgreesWith({"companion"}, "manifest")>>)

FedoraCheckIPTSDRPM ==
    ForCompanion(<<AgreesWith({"iptsdRPM"}, "manifest"),
                   Shows("iptsdRPM", {"iptsdSource", "iptsdSpec"})>>)

FedoraCheckKernel == <<Shows("bootKernel", {"kernel"})>>

FedoraCheckStock == <<Shows("stock", {"stock"})>>

FedoraCheckMenu == <<Shows("menu", {"menu"})>>

FedoraCheckPolicyFile == <<Shows("policyFile", {"policyFile"})>>

(* The appended EFI partition has what the image's own tree has.             *)
FedoraCheckPartition == <<Shows("bootArea", {"bootArea"})>>

FedoraCheckRootImage == <<Shows("packed", {"packed"})>>

FedoraCheckUserSupport ==
    <<Shows("packed", {"retained", "manifest"}), IfCompanion(Shows("packed", {"companion"}))>>

FedoraCheckContexts == <<Shows("packed", {"labels"})>>

FedoraCheckSupportFiles == <<Shows("packed", {"support"})>>

FedoraCheckOwnership == <<Shows("packed", {"rpm"})>>

(* The kernel and initramfs in the root are those that are started; a stock  *)
(* one is only among the modules.                                            *)
FedoraCheckHandoff ==
    <<ShowsWithout("packed", {"base", "kernel", "index", "initrd"}, {"stockKernels"}),
      Shows("bootInitrd", {"initrd"})>>

FedoraCheckDracut == <<Shows("bootInitrd", {"kernel", "index", "board"})>>

FedoraCheckBoard == <<Shows("packed", {"board"})>>

FedoraCheckStockInitramfs == <<Shows("stock", {"source"})>>

FedoraCheckPolicy == <<Shows("packed", {"policy"})>>

FedoraCheckAnaconda == <<Shows("packed", {"anaconda"})>>

FedoraCheckIPTSDRoot == ForCompanion(<<Shows("packed", {"iptsd"})>>)

FedoraCheckLiveRoot ==
    FedoraCheckSupportFiles \o FedoraCheckOwnership \o FedoraCheckHandoff
    \o FedoraCheckDracut \o FedoraCheckBoard \o FedoraCheckStockInitramfs
    \o FedoraCheckPolicy \o FedoraCheckAnaconda \o FedoraCheckIPTSDRoot

FedoraValidate ==
    FedoraCheckSystemArea \o FedoraCheckGuide \o FedoraCheckManifest
    \o FedoraCheckMarker \o FedoraCheckDigests \o FedoraCheckRPM
    \o FedoraCheckPackages \o FedoraCheckCompanion \o FedoraCheckIPTSDRPM
    \o FedoraCheckKernel \o FedoraCheckStock \o FedoraCheckMenu
    \o FedoraCheckPolicyFile \o FedoraCheckPartition \o FedoraCheckRootImage
    \o FedoraCheckUserSupport \o FedoraCheckContexts \o FedoraCheckLiveRoot

-----------------------------------------------------------------------------
(* The volume goes before publication.                                       *)
FedoraProgram ==
    FedoraVerifySource \o FedoraVerifyKernel \o FedoraPrepareTools
    \o FedoraExtract \o FedoraCompanion \o FedoraInstallKernel
    \o FedoraUserspace \o FedoraAssemble \o FedoraInitramfs
    \o <<Done("bind-live-media")>> \o FedoraCustomKernel
    \o <<Done("pair-device-trees")>> \o FedoraManifest \o FedoraSupportFiles
    \o FedoraUserSupport \o FedoraRepack \o FedoraReplay \o FedoraValidate
    \o <<Done("validate-output"), RemoveVolume, PublishOutputs>>

(* What starting the live system, and the system installed from it, takes.   *)
FedoraPromises ==
    {Promise("bootArea", {"bootArea", "source"}),
     PromiseWithout("bootKernel", {"packages", "kernel"}, {"edited"}),
     PromiseWithout("bootInitrd", {"kernel", "index", "board"}, {"edited"}),
     Promise("bootTrees", {"kernel"}),
     Promise("stock", {"source"}),
     PromiseWithout("packed", {"base", "anaconda", "rpm", "kernel", "policy",
                               "index", "board", "initrd", "labels"},
                    {"stockKernels", "edited"}),
     Promise("menu", {"menu"}), Promise("guide", {"guide"}),
     IfCompanion(Promise("packed", {"iptsd"}))}
=============================================================================
