--------------------------- MODULE MCImageRelease ---------------------------
(* Image creations followed by the release preparation of their journal.     *)
EXTENDS ImageCreate, ImageJournal

(* "CreationStepIDs returns a copy of the adapter's successful journal order"*)
(* (debianlive/model.go:78; likewise elementary, archlinux and, for Ubuntu   *)
(* and Fedora, releaseprep/manager.go:26): the journal of a creation that    *)
(* succeeded is one release preparation accepts.                             *)
CreatedJournalIsAccepted ==
    imgPublished => ValidateImageJournal(imgRequest.adapter, imgJournal)
=============================================================================
