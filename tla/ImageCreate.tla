----------------------------- MODULE ImageCreate ----------------------------
(* lexr image create, as internal/image/<adapter>/remaster.go runs it: the   *)
(* steps of one adapter in order, in a private workspace and a Docker volume,*)
(* each of which may fail; a command inside them may also report success     *)
(* without effect.  What the validator lets through is published, and the    *)
(* deferred clean-up accounts for the volume.                                *)
EXTENDS ImageAdapters, FiniteSets

CONSTANTS ImgAdapters,   \* the adapters asked for
          MaxSilent,     \* bound: commands without effect, edits of the host
          MaxErrors      \* bound: steps that report an error

ASSUME CreateAssumption ==
    /\ ImgAdapters \subseteq {"ubuntu", "fedora", "debian", "elementary", "arch"}
    /\ MaxSilent \in Nat /\ MaxErrors \in Nat

VARIABLES imgRequest,    \* the adapter, --keep-workspace, a companion wanted
          imgPc,         \* the next instruction
          imgHeld,       \* what each thing in the workspace has in it
          imgMedia,      \* what each thing on the medium has in it
          imgEdited,     \* the host's files edited since they were verified
          imgLinked,     \* the things that are hard links to the host's files
          imgJournal,    \* the steps entered in the journal
          imgVolume,     \* the Docker volume exists
          imgOwned,      \* the command knows it as its work volume
          imgNamed,      \* the error or the result names it
          imgPhase,      \* "running", "cleaning", "over" or "killed"
          imgFailed,     \* an error is being returned
          imgPublished,  \* the outputs are published
          imgSilent, imgErrors

imgVars == <<imgRequest, imgPc, imgHeld, imgMedia, imgEdited, imgLinked,
             imgJournal, imgVolume, imgOwned, imgNamed, imgPhase, imgFailed,
             imgPublished, imgSilent, imgErrors>>

Program == Programs[imgRequest.adapter]

ImgRequests == [adapter : ImgAdapters, keep : BOOLEAN, companion : BOOLEAN]

ImgInit ==
    /\ imgRequest \in ImgRequests
    /\ imgPc = 1
    /\ imgHeld = [x \in Things(Program) |-> {}]
    /\ imgMedia = [x \in Things(Program) |-> {}]
    /\ imgEdited = {} /\ imgLinked = {}
    /\ imgJournal = <<>>
    /\ imgVolume = FALSE /\ imgOwned = FALSE /\ imgNamed = FALSE
    /\ imgPhase = "running" /\ imgFailed = FALSE /\ imgPublished = FALSE
    /\ imgSilent = 0 /\ imgErrors = 0

-----------------------------------------------------------------------------
Current == Program[imgPc]

At(ops) ==
    /\ imgPhase = "running"
    /\ imgPc \in DOMAIN Program
    /\ Current.op \in ops
    /\ Current.ifCompanion => imgRequest.companion

Subject == CHOOSE x \in Current.of : TRUE

ImgAdvance ==
    /\ imgPc' = imgPc + 1
    /\ UNCHANGED <<imgRequest, imgPhase, imgFailed, imgErrors>>

Return(failed) ==
    /\ imgPhase' = "cleaning"
    /\ imgFailed' = failed
    /\ UNCHANGED <<imgRequest, imgPc>>

Goods   == <<imgHeld, imgMedia, imgEdited, imgLinked>>
Volume  == <<imgVolume, imgOwned, imgNamed>>
Records == <<imgJournal, imgPublished>>

Silently == imgSilent < MaxSilent /\ imgSilent' = imgSilent + 1
Err      == imgErrors < MaxErrors /\ imgErrors' = imgErrors + 1

(* What is only for a companion is passed over without one.                  *)
ImgSkip ==
    /\ imgPhase = "running" /\ imgPc \in DOMAIN Program
    /\ Current.ifCompanion /\ ~imgRequest.companion
    /\ ImgAdvance
    /\ UNCHANGED <<Goods, Volume, Records, imgSilent>>

(* A host file is staged as it is now.                                       *)
Staged(x) == {x} \cup IF x \in imgEdited THEN {"edited"} ELSE {}

ImgStage ==
    /\ At({"copy", "link"})
    /\ imgHeld' = [imgHeld EXCEPT ![Subject] = Staged(Subject)]
    /\ imgLinked' = IF Current.op = "link" THEN imgLinked \cup {Subject} ELSE imgLinked
    /\ ImgAdvance
    /\ UNCHANGED <<imgMedia, imgEdited, Volume, Records, imgSilent>>

(* The owner edits a file in place: of the image, of the kernel's packages,  *)
(* or of what the companion is built from.                                   *)
ImgHostFiles ==
    {"source", "packages"}
        \cup IF imgRequest.companion THEN {"toolSource", "offline"} ELSE {}

ImgHostEdit ==
    /\ imgPhase = "running"
    /\ \E x \in ImgHostFiles \ imgEdited :
         /\ imgEdited' = imgEdited \cup {x}
         /\ imgHeld' = IF x \in imgLinked
                       THEN [imgHeld EXCEPT ![x] = @ \cup {"edited"}] ELSE imgHeld
    /\ Silently
    /\ UNCHANGED <<imgRequest, imgPc, imgMedia, imgLinked, Volume, Records,
                   imgPhase, imgFailed, imgErrors>>

MadeOf(from) == {Subject} \cup UNION {imgHeld[d] : d \in from}

ImgMake ==
    /\ At({"make"})
    /\ \/ /\ imgHeld' = [imgHeld EXCEPT ![Subject] = MadeOf(Current.from)]
          /\ UNCHANGED imgSilent
       \/ Silently /\ UNCHANGED imgHeld
       \/ /\ Current.without # {} /\ Silently
          /\ imgHeld' = [imgHeld EXCEPT ![Subject] = MadeOf(Current.from) \cup Current.without]
    /\ ImgAdvance
    /\ UNCHANGED <<imgMedia, imgEdited, imgLinked, Volume, Records>>

(* One of the things may silently be left as the source's medium has it.     *)
ImgBurn ==
    /\ At({"burn"})
    /\ \E missed \in SUBSET Current.of :
         /\ \/ missed = {} /\ UNCHANGED imgSilent
            \/ Cardinality(missed) = 1 /\ Silently
         /\ imgMedia' = [x \in DOMAIN imgMedia |->
                           IF x \in Current.of \ missed THEN imgHeld[x] ELSE imgMedia[x]]
    /\ ImgAdvance
    /\ UNCHANGED <<imgHeld, imgEdited, imgLinked, Volume, Records>>

Fits(contents) ==
    Current.from \subseteq contents /\ Current.without \cap contents = {}

(* The digest of a thing on the medium is the recorded one.                  *)
Agrees(x, list) == x \in imgMedia[x] /\ imgMedia[x] \subseteq imgMedia[list]

ImgHolds ==
    CASE Current.op = "expect"  -> Fits(imgHeld[Subject])
      [] Current.op = "shows"   -> Fits(imgMedia[Subject])
      [] Current.op = "matches" -> \A x \in Current.of, list \in Current.from :
                                     Agrees(x, list)

ImgPass ==
    /\ At({"expect", "shows", "matches"}) /\ ImgHolds
    /\ ImgAdvance
    /\ UNCHANGED <<Goods, Volume, Records, imgSilent>>

ImgRefuse ==
    /\ At({"expect", "shows", "matches"}) /\ ~ImgHolds
    /\ Return(TRUE)
    /\ UNCHANGED <<Goods, Volume, Records, imgSilent, imgErrors>>

(* A step fails: its command does, or its checkpoint cannot be saved, or the *)
(* context is cancelled.                                                     *)
ImgError ==
    /\ At({"copy", "link", "make", "burn", "expect", "shows", "matches",
           "done", "publish"})
    /\ Err /\ Return(TRUE)
    /\ UNCHANGED <<Goods, Volume, Records, imgSilent>>

ImgDone ==
    /\ At({"done"})
    /\ imgJournal' = Append(imgJournal, Subject)
    /\ ImgAdvance
    /\ UNCHANGED <<Goods, Volume, imgPublished, imgSilent>>

(* The journal that is published records its own publication.                *)
ImgPublish ==
    /\ At({"publish"})
    /\ imgJournal' = Append(imgJournal, "publish-output")
    /\ imgPublished' = TRUE
    /\ ImgAdvance
    /\ UNCHANGED <<Goods, Volume, imgSilent>>

-----------------------------------------------------------------------------
CreateWorkVolume ==
    /\ At({"volume"})
    /\ imgVolume' = TRUE /\ imgOwned' = TRUE
    /\ ImgAdvance
    /\ UNCHANGED <<Goods, imgNamed, Records, imgSilent>>

(* Whether a creation that failed left a volume is unknown: the error names  *)
(* it, and nobody owns it.                                                   *)
CreateWorkVolumeFails ==
    /\ At({"volume"})
    /\ imgVolume' \in BOOLEAN /\ imgNamed' = TRUE
    /\ Err /\ Return(TRUE)
    /\ UNCHANGED <<Goods, imgOwned, Records, imgSilent>>

(* The volume's identity is inspected before it is removed: one that is not  *)
(* there, or does not answer, is refused.                                    *)
RemoveWorkVolume == imgVolume /\ imgVolume' = FALSE

RemoveWorkVolumeFails ==
    \/ ~imgVolume /\ UNCHANGED <<imgVolume, imgErrors>>
    \/ imgVolume /\ imgVolume' \in BOOLEAN /\ Err

ImgRemoveVolume ==
    /\ At({"remove"})
    /\ \/ imgRequest.keep /\ UNCHANGED Volume
       \/ ~imgRequest.keep /\ RemoveWorkVolume /\ imgOwned' = FALSE /\ UNCHANGED imgNamed
    /\ ImgAdvance
    /\ UNCHANGED <<Goods, Records, imgSilent>>

ImgRemoveVolumeFails ==
    /\ At({"remove"}) /\ ~imgRequest.keep
    /\ RemoveWorkVolumeFails
    /\ Return(TRUE)
    /\ UNCHANGED <<Goods, imgOwned, imgNamed, Records, imgSilent>>

ImgReturn ==
    /\ imgPhase = "running" /\ imgPc \notin DOMAIN Program
    /\ Return(FALSE)
    /\ UNCHANGED <<Goods, Volume, Records, imgSilent, imgErrors>>

(* The deferred clean-up: a volume that is kept is named, one that is not is *)
(* removed, and named if it cannot be.                                       *)
Deferred ==
    /\ imgPhase = "cleaning"
    /\ imgPhase' = "over"
    /\ UNCHANGED <<imgRequest, imgPc, Goods, Records, imgSilent>>

ImgNothingToRemove ==
    /\ Deferred /\ ~imgOwned
    /\ UNCHANGED <<Volume, imgFailed, imgErrors>>

ImgKeepVolume ==
    /\ Deferred /\ imgOwned /\ imgRequest.keep
    /\ imgNamed' = TRUE
    /\ UNCHANGED <<imgVolume, imgOwned, imgFailed, imgErrors>>

ImgCleanVolume ==
    /\ Deferred /\ imgOwned /\ ~imgRequest.keep
    /\ RemoveWorkVolume /\ imgOwned' = FALSE
    /\ UNCHANGED <<imgNamed, imgFailed, imgErrors>>

ImgCleanVolumeFails ==
    /\ Deferred /\ imgOwned /\ ~imgRequest.keep
    /\ RemoveWorkVolumeFails
    /\ imgNamed' = TRUE /\ imgFailed' = TRUE
    /\ UNCHANGED imgOwned

ImgKill ==
    /\ imgPhase \in {"running", "cleaning"}
    /\ imgPhase' = "killed"
    /\ UNCHANGED <<imgRequest, imgPc, Goods, Volume, Records, imgFailed,
                   imgSilent, imgErrors>>

-----------------------------------------------------------------------------
ImgStep ==
    \/ ImgSkip \/ ImgStage \/ ImgMake \/ ImgBurn \/ ImgPass \/ ImgRefuse
    \/ ImgError \/ ImgDone \/ ImgPublish
    \/ CreateWorkVolume \/ CreateWorkVolumeFails
    \/ ImgRemoveVolume \/ ImgRemoveVolumeFails \/ ImgReturn
    \/ ImgNothingToRemove \/ ImgKeepVolume \/ ImgCleanVolume
    \/ ImgCleanVolumeFails

ImgNext == ImgStep \/ ImgHostEdit \/ ImgKill

ImgSpec == ImgInit /\ [][ImgNext]_imgVars

-----------------------------------------------------------------------------
Promised == PromisesTo(imgRequest)

(* What is published keeps its promises, whichever command did not do what   *)
(* it reported: a check of the validator, or of a step, stood in the way.    *)
PromisesKept ==
    imgPublished =>
        \A p \in Promised : /\ p.from \subseteq imgMedia[p.of]
                            /\ p.without \cap imgMedia[p.of] = {}

(* What the steps make is what the checks ask for: a creation in which every *)
(* command did what it reported, and nobody edited its inputs, publishes.    *)
NothingOfItsOwnRefused ==
    imgPhase = "over" /\ imgSilent = 0 /\ imgErrors = 0 => imgPublished

(* A command that came to its end leaves no volume that it does not name.    *)
VolumeAccounted == imgPhase = "over" /\ imgVolume => imgNamed

ImgTypeOK ==
    /\ imgRequest \in ImgRequests
    /\ imgPhase \in {"running", "cleaning", "over", "killed"}
    /\ {imgVolume, imgOwned, imgNamed, imgFailed, imgPublished} \subseteq BOOLEAN
    /\ imgSilent \in 0 .. MaxSilent /\ imgErrors \in 0 .. MaxErrors
=============================================================================
