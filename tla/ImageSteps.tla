----------------------------- MODULE ImageSteps -----------------------------
(* The vocabulary in which the image adapters are described: what each of    *)
(* their functions makes from what, what it looks at, and what it records.   *)
(* ImageCreate runs these descriptions.                                      *)
(*                                                                           *)
(* The contents of a thing are the set of things whose making went into it.  *)
(* A command that reports success without effect leaves its result as it     *)
(* was, without the contents it should have.                                 *)
EXTENDS Naturals, Sequences

LOCAL Instruction(op, of, from, without) ==
    [op |-> op, of |-> of, from |-> from, without |-> without,
     ifCompanion |-> FALSE]

(* A file of the host is staged: a private copy, or a hard link, through     *)
(* which a later edit of the host's file shows.                              *)
StageCopy(of) == Instruction("copy", {of}, {}, {})
StageLink(of) == Instruction("link", {of}, {}, {})

(* A command makes `of' from the things in `from'.  It should leave those in *)
(* `without' out, and may fail to.                                           *)
MakeWithout(of, from, without) == Instruction("make", {of}, from, without)
Make(of, from) == MakeWithout(of, from, {})

(* The function refuses unless `of' shows what is in `from' and nothing that *)
(* is in `without'.                                                          *)
ExpectWithout(of, from, without) == Instruction("expect", {of}, from, without)
Expect(of, from) == ExpectWithout(of, from, {})

(* The Docker volume the image is worked on in.                              *)
NewVolume    == Instruction("volume", {}, {}, {})
RemoveVolume == Instruction("remove", {}, {}, {})

(* The things in `of' are put on the medium.                                 *)
Burn(of) == Instruction("burn", of, {}, {})

(* A check of the finished medium: `of', read back, shows the things in      *)
(* `from' and none of `without' ...                                          *)
ShowsWithout(of, from, without) == Instruction("shows", {of}, from, without)
Shows(of, from) == ShowsWithout(of, from, {})

(* ... or the things in `of' have the digests which `list', read back,       *)
(* records for them.                                                         *)
AgreesWith(of, list) == Instruction("matches", of, {list}, {})

(* The step is entered in the journal.                                       *)
Done(step) == Instruction("done", {step}, {}, {})

(* The medium is published with its manifest and journal.                    *)
PublishOutputs == Instruction("publish", {}, {}, {})

(* Only when a companion was asked for.                                      *)
IfCompanion(instruction) == [instruction EXCEPT !.ifCompanion = TRUE]
ForCompanion(instructions) ==
    [i \in DOMAIN instructions |-> IfCompanion(instructions[i])]

(* A promise about a published medium: `of' has the things in `from' in it   *)
(* and none of those in `without'.                                           *)
PromiseWithout(of, from, without) ==
    [of |-> of, from |-> from, without |-> without, ifCompanion |-> FALSE]
Promise(of, from) == PromiseWithout(of, from, {})

-----------------------------------------------------------------------------
(* What several adapters share.                                              *)

(* The Wi-Fi board data is cut from the source's own firmware database and   *)
(* compared with what was installed.                                         *)
PrepareWiFiBoard(board, root) ==
    <<Make(board, {root}), Expect(board, {board})>>

(* The GPU firmware is downloaded with pinned digests, and put in the root   *)
(* only where the distribution has none.                                     *)
PrepareGPUFirmware ==
    <<Make("gpu", {}), Expect("gpu", {"gpu"}), Make("rootFirmware", {"gpu"})>>

(* The archives must declare the package, version and architecture they are  *)
(* staged for; dpkg is asked whether they are installed.                     *)
InstallKernelPackages ==
    <<Expect("packages", {"packages"}),
      Make("kernel", {"packages", "base"}),
      Expect("kernel", {"kernel"})>>

(* The unpacked initramfs holds the GPU firmware.                            *)
ValidateLiveGPUFirmware(initrd, firmware) == <<Shows(initrd, {firmware})>>

=============================================================================
