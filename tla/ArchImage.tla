------------------------------ MODULE ArchImage -----------------------------
(* How internal/image/archlinux makes a terminal image from the signed Arch  *)
(* Linux ARM root file system and a locked set of packages, and what its     *)
(* validator asks of the result.                                             *)
EXTENDS CompanionBundle

ArchPlan ==
    <<"verify-source", "verify-kernel", "stage-companion", "prepare-tools",
      "acquire-packages", "prepare-root", "install-kernel",
      "prepare-live-session", "build-boot-assets", "pack-filesystem",
      "create-hybrid-boot", "validate-output", "publish-output">>

ArchVerifySource ==
    <<StageCopy("source"), ExpectWithout("source", {"source"}, {"edited"}),
      Done("verify-source")>>

ArchStageBundle ==
    <<StageCopy("packages"), ExpectWithout("packages", {"packages"}, {"edited"})>>

ArchVerifyKernel == ArchStageBundle \o <<Done("verify-kernel")>>

ArchPrepareTools == <<NewVolume, Done("prepare-tools")>>

(* `archives' are the packages of the lock, hashed once they are copied.     *)
ArchStagePackages ==
    <<Make("archives", {}), Expect("archives", {"archives"}),
      Done("acquire-packages")>>

(* pacman is asked for the packages it should have installed.                *)
ArchPrepareRoot ==
    <<MakeWithout("base", {"source", "archives"}, {"genericKernel"}),
      Make("payload", {"packages"}),
      Expect("base", {"source", "archives"}), Done("prepare-root")>>

ArchCompanion ==
    CompanionBuild \o <<Done("stage-companion")>>

(* One random identity names the medium in its marker, its label, its menu   *)
(* and the configuration embedded in the boot loader.                        *)
ArchMarker == <<Make("marker", {})>>
ArchMenu == <<Make("menu", {"marker"})>>
ArchBootstrap == <<Make("bootstrap", {"marker"})>>

ArchInitramfsConfig == <<Make("hooks", {}), Make("liveHooks", {})>>

(* The kernel's files become a package of the distribution's own, which the  *)
(* offline pacman installs.                                                  *)
ArchKernelPackage ==
    <<Make("native", {"payload"}), Make("kernel", {"native"})>>

ArchInstallKernel == ArchKernelPackage \o <<Done("install-kernel")>>

(* What the installer on the medium carries for the system it installs.      *)
ArchStageInstaller == <<Make("scripts", {"hooks"})>>
ArchExportInstaller == <<Make("exported", {"kernel", "board"})>>
ArchInstallerManifest ==
    <<Make("installer", {"scripts", "exported", "native"}),
      Expect("installer", {"scripts", "exported", "native"})>>

(* The live session must make its own identity and keys.                     *)
ArchLiveSession ==
    <<MakeWithout("session", {"hooks", "liveHooks"}, {"secrets"}),
      Make("retained", {"installer", "packages", "companion"}),
      Done("prepare-live-session")>>

ArchBootAssets ==
    <<Make("index", {"kernel"}),
      MakeWithout("installedInitrd", {"index", "hooks", "board"}, {"archiso"}),
      Make("liveInitrd", {"index", "liveHooks", "board"}),
      Make("bootKernel", {"kernel"}), Make("bootInitrd", {"liveInitrd"}),
      Make("trees", {"kernel"}), Make("loader", {"bootstrap"}),
      Make("packageList", {"kernel"}), Done("build-boot-assets")>>

ArchRoot ==
    {"base", "board", "kernel", "index", "session", "retained", "installedInitrd"}

ArchPack ==
    <<Make("packed", ArchRoot), Make("liveSum", {"packed"}),
      Done("pack-filesystem")>>

ArchESP == <<Make("esp", {"loader", "bootstrap"})>>

ArchManifest ==
    <<Expect("trees", {"kernel"}),
      Make("manifest", {"source", "packages", "bootKernel", "bootInitrd",
                        "trees", "packed", "liveSum", "loader", "esp", "menu",
                        "packageList", "native", "installer", "marker",
                        "companion"})>>

ArchISO ==
    <<Burn({"bootKernel", "bootInitrd", "trees", "packed", "liveSum", "loader",
            "esp", "menu", "packageList", "native", "installer", "marker",
            "packages", "manifest", "companion"}),
      Done("create-hybrid-boot")>>

-----------------------------------------------------------------------------
ArchCheckManifest == <<Shows("manifest", {"manifest", "source", "marker"})>>

ArchCheckRecords ==
    <<AgreesWith({"bootKernel", "bootInitrd", "trees", "packed", "liveSum", "loader",
               "esp", "menu", "packageList", "native", "installer", "packages"},
              "manifest")>>

(* The checksum the live system verifies its root with.                      *)
ArchCheckLiveSum == <<AgreesWith({"packed"}, "liveSum")>>

ArchCheckMenu == <<Shows("menu", {"menu"}), Shows("marker", {"marker"})>>

(* The boot loader embeds this medium's configuration and no other.          *)
ArchCheckLoader == <<Shows("loader", {"bootstrap"})>>
ArchCheckLayout == <<Shows("esp", {"esp"})>>
ArchCheckInventory == <<Shows("esp", {"loader", "bootstrap"})>>
ArchCheckEFI == ArchCheckLayout \o ArchCheckLoader \o ArchCheckInventory

ArchCheckCompanion ==
    <<IfCompanion(Shows("companion", {"companion"})),
      IfCompanion(AgreesWith({"companion"}, "manifest"))>>

ArchCheckSession ==
    <<ShowsWithout("packed", {"base", "session"}, {"secrets", "genericKernel"}),
      Shows("packageList", {"kernel"})>>

ArchCheckInitrds ==
    <<Shows("bootInitrd", {"liveHooks", "board"}),
      ShowsWithout("packed", {"installedInitrd", "hooks"}, {"archiso"})>>

ArchCheckKernelPackage == <<Shows("packed", {"kernel", "native"})>>

ArchCheckPackages == <<Shows("packed", {"payload", "packages"})>>

ArchCheckModules ==
    <<Shows("bootInitrd", {"index"}), Shows("packed", {"index"})>>

ArchCheckInstaller ==
    <<Shows("installer", {"scripts", "exported"}),
      Shows("packed", {"retained", "installer"})>>

ArchCheckRetained == <<IfCompanion(Shows("packed", {"companion"}))>>

ArchCheckBoard == <<Shows("packed", {"board"})>>

ArchCheckRoot ==
    <<Shows("bootKernel", {"kernel"}), Shows("trees", {"kernel"})>>
    \o ArchCheckSession \o ArchCheckInitrds \o ArchCheckKernelPackage
    \o ArchCheckPackages \o ArchCheckModules \o ArchCheckInstaller
    \o ArchCheckRetained \o ArchCheckBoard

ArchValidate ==
    ArchCheckManifest \o ArchCheckRecords \o ArchCheckLiveSum \o ArchCheckMenu
    \o ArchCheckEFI \o ArchCheckCompanion \o ArchCheckRoot

-----------------------------------------------------------------------------
ArchProgram ==
    ArchVerifySource \o ArchVerifyKernel \o ArchPrepareTools \o ArchStagePackages
    \o ArchPrepareRoot \o ArchCompanion \o PrepareWiFiBoard("board", "base")
    \o ArchMarker \o ArchMenu \o ArchBootstrap \o ArchInitramfsConfig
    \o ArchInstallKernel \o ArchStageInstaller \o ArchExportInstaller
    \o ArchInstallerManifest \o ArchLiveSession \o ArchBootAssets \o ArchPack
    \o ArchESP \o ArchManifest \o ArchISO \o ArchValidate
    \o <<Done("validate-output"), PublishOutputs>>

ArchPromises ==
    {PromiseWithout("packages", {"packages"}, {"edited"}),
     Promise("bootKernel", {"kernel"}),
     Promise("bootInitrd", {"kernel", "index", "board", "liveHooks"}),
     Promise("trees", {"kernel"}),
     Promise("menu", {"marker"}), Promise("marker", {"marker"}),
     Promise("loader", {"bootstrap"}),
     Promise("esp", {"loader"}),
     Promise("liveSum", {"packed"}),
     PromiseWithout("packed", {"base", "kernel", "packages", "index", "board",
                               "hooks", "installedInitrd", "installer"},
                    {"genericKernel", "secrets", "archiso"}),
     IfCompanion(Promise("packed", {"companion"}))}
=============================================================================
