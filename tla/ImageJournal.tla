---------------------------- MODULE ImageJournal ----------------------------
(* What release preparation demands of the journal an image creation wrote   *)
(* (internal/image/releaseprep): the adapter's steps, in one fixed order.    *)
EXTENDS UbuntuImage, FedoraImage, DebianImage, ElementaryImage, ArchImage

(* expectedImageSteps: the workflow as it was before Wi-Fi preparation.      *)
ExpectedImageSteps ==
    <<"verify-source", "verify-kernel", "stage-companion", "prepare-tools",
      "extract-live-root", "install-kernel", "assemble-initramfs-root",
      "build-initramfs", "bind-live-media", "pair-device-trees",
      "repack-live-root", "replay-hybrid-boot", "validate-output",
      "publish-output">>

InsertedAfter(steps, n, step) ==
    SubSeq(steps, 1, n) \o <<step>> \o SubSeq(steps, n + 1, Len(steps))

(* The workflows accepted for an adapter, told apart by their length.        *)
ImageStepsForAdapter(adapter) ==
    CASE adapter = "debian"     -> {DebianPlan}
      [] adapter = "arch"       -> {ArchPlan}
      [] adapter = "elementary" -> {ElementaryPlan}
      [] adapter = "fedora"     -> {InsertedAfter(ExpectedImageSteps, 6, "install-userspace")}
      [] adapter = "ubuntu"     -> {ExpectedImageSteps,
                                    InsertedAfter(ExpectedImageSteps, 5, "prepare-wifi")}

(* The journal is accepted when its steps are one of those workflows.        *)
ValidateImageJournal(adapter, journal) ==
    journal \in ImageStepsForAdapter(adapter)
=============================================================================
