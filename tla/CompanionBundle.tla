--------------------------- MODULE CompanionBundle --------------------------
(* How internal/image/companion builds the companion an image may carry: the *)
(* lexr executable of the image's system, the sources it is built from, and  *)
(* the userspace release for installation offline.  The commit asked for is  *)
(* a revision; for the development commit the tree is not compared with one. *)
EXTENDS ImageSteps

(* HEAD must be the commit, and the tree clean, before and after the         *)
(* snapshot of it is taken.                                                  *)
CompanionRevision == <<ExpectWithout("toolSource", {"toolSource"}, {"edited"})>>

(* Each file must have the digest it had when the files were collected.      *)
CompanionSnapshot == <<StageCopy("toolSource")>> \o CompanionRevision

CompanionSnapshotCatalogues == <<Expect("toolSource", {"toolSource"})>>

(* Built from the snapshot, for the image's machine.                         *)
CompanionExecutable ==
    <<Make("tool", {"toolSource"}), Expect("tool", {"tool"})>>

CompanionWriteArchive == <<Make("sourceArchive", {"toolSource"})>>

CompanionSourceArchive ==
    CompanionWriteArchive \o <<Expect("sourceArchive", {"toolSource"})>>

CompanionCatalogues == <<Make("catalogues", {"toolSource"})>>

CompanionLicences == <<Make("licences", {"toolSource"})>>

(* The release's files must be the verified ones, its receipt the one the    *)
(* compiled contract determines, and its directory hold nothing else.        *)
CompanionReceipt == <<ExpectWithout("offline", {"offline"}, {"edited"})>>

CompanionPrepareUserspace ==
    <<ExpectWithout("offline", {"offline"}, {"edited"})>> \o CompanionReceipt

(* What was verified is copied and compared, the receipt byte by byte.       *)
CompanionUserspace == <<StageCopy("offline")>> \o CompanionPrepareUserspace

(* The members of the directory are exactly the recorded ones.               *)
CompanionMembers ==
    <<"tool", "sourceArchive", "catalogues", "licences", "offline">>

(* The record names the files of the compiled contract with its digests.     *)
CompanionPolicy == <<ExpectWithout("offline", {"offline"}, {"edited"})>>

CompanionCheckUserspace == <<Expect("offline", {"offline"})>> \o CompanionPolicy

CompanionCheckFiles ==
    <<Expect("catalogues", {"catalogues"}), Expect("licences", {"licences"})>>

CompanionCheckRecord == CompanionCheckFiles \o CompanionCheckUserspace

CompanionCheckDirectory ==
    [i \in DOMAIN CompanionMembers |->
        Expect(CompanionMembers[i], {CompanionMembers[i]})]

CompanionStage ==
    CompanionExecutable \o CompanionSourceArchive \o CompanionCatalogues
    \o CompanionLicences \o CompanionUserspace

(* The system of the image, as extracted, is what the release's manifest is  *)
(* assessed for.                                                             *)
CompanionTarget == <<Make("target", {"base"}), Expect("target", {"target"})>>

CompanionBuild ==
    ForCompanion(
        CompanionTarget \o CompanionSnapshot \o CompanionSnapshotCatalogues
        \o CompanionStage \o CompanionCheckRecord \o CompanionCheckDirectory
        \o <<Make("companion", {"tool", "sourceArchive", "catalogues",
                                "licences", "offline"})>>)

(* The executable and the sources an image carries are of one revision, and  *)
(* the release it carries is the verified one.                               *)
CompanionPromises ==
    {IfCompanion(PromiseWithout("companion",
        {"tool", "sourceArchive", "catalogues", "licences", "offline",
         "toolSource"}, {"edited"}))}
=============================================================================
