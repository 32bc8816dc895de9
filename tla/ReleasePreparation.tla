------------------------- MODULE ReleasePreparation -------------------------
(* lexr image release prepare and validate (internal/image/releaseprep).     *)
(* A created ISO, its manifest and its journal become a release directory:   *)
(* the compressed image in parts of bounded size, the manifest, notes and    *)
(* checksums, assembled in a private staging directory and put at its name   *)
(* by one rename that replaces nothing.                                      *)
(*                                                                           *)
(* Preparers of one release may run at once, fail anywhere, or be killed;    *)
(* others may exchange or edit the sources, a staged file or the staging     *)
(* directory.  The content of a file is the number of the creation it comes  *)
(* from, Missing, or Spoilt; a digest is the content it is the digest of.    *)
EXTENDS Naturals, Sequences, SequencesExt

CONSTANTS Preparers, Vacant, Outsider,  \* owners of a directory
          LastImage,                    \* creations made under the image's name
          ImageBlocks,                  \* the length of the compressed image
          PartLimit,                    \* the size of a part
          MaxRelEdits, MaxRelFaults     \* bounds

ASSUME ReleaseAssumption ==
    /\ Vacant \notin Preparers /\ Outsider \notin Preparers /\ Vacant # Outsider
    /\ LastImage \in Nat \ {0} /\ ImageBlocks \subseteq Nat \ {0}
    /\ PartLimit \in Nat \ {0}
    /\ MaxRelEdits \in Nat /\ MaxRelFaults \in Nat

Missing   == 0
Creations == 1 .. LastImage
Spoilt    == LastImage + 1
Contents  == 0 .. LastImage + 1
Sources   == {"image", "manifest", "journal"}
Texts     == {"sidecar", "record", "contract", "notes", "sums"}

VARIABLES relSource,     \* what each source file holds
          relOrderly,    \* the journal's steps are in the accepted order
          relBlocks,     \* blocks of the compressed image
          relPlan,       \* the identities each preparer planned with
          relReport,     \* the image its validation report is about
          relStaging,    \* whose directory is at its staging name
          relText,       \* what the texts in its staging directory hold
          relParts,      \* the parts in it: what each of their blocks holds
          relRead,       \* what compression has read
          relPc, relAnswer,
          relOutput,     \* whose directory is at the release's name
          relLate,       \* preparers whose staging others changed once validated
          relSwapped,    \* preparers whose staging directory others took away
          relStuck,      \* preparers whose staging could not be removed
          relEdits, relFaults

relInputs   == <<relSource, relOrderly, relBlocks>>
relStaged   == <<relStaging, relText, relParts, relRead>>
relEvidence == <<relPlan, relReport>>
relOthers   == <<relLate, relSwapped>>
relBounds   == <<relEdits, relFaults>>
relVars == <<relInputs, relStaged, relEvidence, relPc, relAnswer, relOutput,
             relOthers, relStuck, relBounds>>

RelWork == {"image", "manifest", "journal", "read", "validate", "stage",
            "sidecar", "open", "compress", "compressed", "records", "sums",
            "check", "publish", "sync"}
RelPcs  == {"idle", "cleanup", "done", "dead"} \cup RelWork

Unplanned == [s \in Sources |-> Missing]
Empty  == [t \in Texts |-> Missing]

RelInit ==
    /\ relSource = [s \in Sources |-> 1]
    /\ relOrderly \in BOOLEAN /\ relBlocks \in ImageBlocks
    /\ relPlan = [p \in Preparers |-> Unplanned]
    /\ relReport = [p \in Preparers |-> Missing]
    /\ relStaging = [p \in Preparers |-> Vacant]
    /\ relText = [p \in Preparers |-> Empty]
    /\ relParts = [p \in Preparers |-> <<>>]
    /\ relRead = [p \in Preparers |-> {}]
    /\ relPc = [p \in Preparers |-> "idle"]
    /\ relAnswer = [p \in Preparers |-> "none"]
    /\ relOutput = Vacant
    /\ relLate = {} /\ relSwapped = {} /\ relStuck = {}
    /\ relEdits = 0 /\ relFaults = 0

-----------------------------------------------------------------------------
RelGo(p, next) == relPc' = [relPc EXCEPT ![p] = next] /\ UNCHANGED relAnswer

(* Slip: the deferred clean-up is forgotten.                                 *)
MutantRelStop(p) ==
    /\ relPc' = [relPc EXCEPT ![p] = "done"]
    /\ relAnswer' = [relAnswer EXCEPT ![p] = "failed"]

(* An error returns; from the moment there is a staging directory, through   *)
(* the deferred clean-up.                                                    *)
RelStop(p) ==
    /\ relPc' = [relPc EXCEPT ![p] =
          IF @ \in {"image", "manifest", "journal", "read", "validate", "stage"}
          THEN "done" ELSE "cleanup"]
    /\ relAnswer' = [relAnswer EXCEPT ![p] = "failed"]

RelUnless(refused, p, next) == IF refused THEN RelStop(p) ELSE RelGo(p, next)

RelBegin(p) ==
    /\ relPc[p] = "idle" /\ RelGo(p, "image")
    /\ UNCHANGED <<relInputs, relEvidence, relStaged, relOutput, relOthers,
                   relStuck, relBounds>>

(* plan.  The three files are hashed, one after the other; the manifest and  *)
(* the journal are then read, and must be what was hashed ...                *)
InspectSource(p, source, next) ==
    /\ relPc[p] = source
    /\ relPlan' = [relPlan EXCEPT ![p][source] = relSource[source]]
    /\ RelGo(p, next)
    /\ UNCHANGED <<relInputs, relReport, relStaged, relOutput, relOthers,
                   relStuck, relBounds>>

InspectImage(p)    == InspectSource(p, "image", "manifest")
InspectManifest(p) == InspectSource(p, "manifest", "journal")
InspectJournal(p)  == InspectSource(p, "journal", "read")

(* ... decode, be in order and about this image, with no release in place.   *)
(* A dry run ends here.                                                      *)
Decodes(content)    == content \in Creations
AsInspected(p, s)   == relSource[s] = relPlan[p][s]
RelPlanRefused(p) ==
    \/ \E s \in {"manifest", "journal"} : ~AsInspected(p, s) \/ ~Decodes(relSource[s])
    \/ relPlan[p]["journal"] # relPlan[p]["image"]
    \/ ~relOrderly
    \/ relOutput # Vacant

RelFinishPlan(p) ==
    /\ relPc[p] = "read"
    /\ \/ RelUnless(RelPlanRefused(p), p, "validate")
       \/ /\ ~RelPlanRefused(p)
          /\ relPc' = [relPc EXCEPT ![p] = "done"]
          /\ relAnswer' = [relAnswer EXCEPT ![p] = "planned"]
    /\ UNCHANGED <<relInputs, relEvidence, relStaged, relOutput, relOthers,
                   relStuck, relBounds>>

(* Slip: the embedded manifest is not compared with the planned one.         *)
MutantRelValidateImage(p) ==
    /\ relPc[p] = "validate"
    /\ relReport' = [relReport EXCEPT ![p] = relSource["image"]]
    /\ RelUnless(\/ relSource["image"] \notin Creations
                 \/ relSource["image"] # relPlan[p]["image"], p, "stage")
    /\ UNCHANGED <<relInputs, relPlan, relStaged, relOutput, relOthers,
                   relStuck, relBounds>>

(* The image now at its path is validated; its report must name the planned  *)
(* image, and the planned manifest as the one embedded in it.                *)
ReportAgrees(p) ==
    /\ AsInspected(p, "image") /\ relSource["image"] = relPlan[p]["manifest"]

RelValidateImage(p) ==
    /\ relPc[p] = "validate"
    /\ relReport' = [relReport EXCEPT ![p] = relSource["image"]]
    /\ RelUnless(relSource["image"] \notin Creations \/ ~ReportAgrees(p), p, "stage")
    /\ UNCHANGED <<relInputs, relPlan, relStaged, relOutput, relOthers,
                   relStuck, relBounds>>

(* A staging directory of a fresh name.                                      *)
RelStage(p) ==
    /\ relPc[p] = "stage" /\ RelGo(p, "sidecar")
    /\ relStaging' = [relStaging EXCEPT ![p] = p]
    /\ UNCHANGED <<relInputs, relEvidence, relText, relParts, relRead,
                   relOutput, relOthers, relStuck, relBounds>>

(* What is written by name goes to the directory that has the staging name.  *)
Reachable(p) == relStaging[p] # Vacant

(* The manifest is copied if it still is the planned one.                    *)
RelCopySidecar(p) ==
    /\ relPc[p] = "sidecar"
    /\ RelUnless(~AsInspected(p, "manifest") \/ ~Reachable(p), p, "open")
    /\ relText' = [relText EXCEPT ![p]["sidecar"] = relSource["manifest"]]
    /\ UNCHANGED <<relInputs, relEvidence, relStaging, relParts, relRead,
                   relOutput, relOthers, relStuck, relBounds>>

(* compressImage.  The image must still be the planned one; it is then read  *)
(* block by block ...                                                        *)
RelOpenImage(p) ==
    /\ relPc[p] = "open"
    /\ RelUnless(~AsInspected(p, "image"), p, "compress")
    /\ UNCHANGED <<relInputs, relEvidence, relStaged, relOutput, relOthers,
                   relStuck, relBounds>>

Total(parts)    == FoldSeq(LAMBDA part, n : Len(part) + n, 0, parts)
PartOpen(parts) == parts # <<>> /\ Len(Last(parts)) < PartLimit

(* ... into the last part, or a new one once that is full.  A part that lost *)
(* its name meanwhile cannot be closed.                                      *)
WithBlock(parts, b) ==
    IF PartOpen(parts)
    THEN [parts EXCEPT ![Len(parts)] = Append(@, b)]
    ELSE Append(parts, <<b>>)

RelCompress(p) ==
    /\ relPc[p] = "compress"
    /\ LET parts == WithBlock(relParts[p], relSource["image"]) IN
       IF Reachable(p) /\ Missing \notin {relSource["image"]} \cup
             (IF PartOpen(relParts[p]) THEN ToSet(Last(relParts[p])) ELSE {})
       THEN /\ relParts' = [relParts EXCEPT ![p] = parts]
            /\ relRead' = [relRead EXCEPT ![p] = @ \cup {relSource["image"]}]
            /\ RelGo(p, IF Total(parts) = relBlocks THEN "compressed" ELSE "compress")
       ELSE RelStop(p) /\ UNCHANGED <<relParts, relRead>>
    /\ UNCHANGED <<relInputs, relEvidence, relStaging, relText, relOutput,
                   relOthers, relStuck, relBounds>>

(* What was read must have the planned digest.                               *)
RelFinishCompression(p) ==
    /\ relPc[p] = "compressed"
    /\ RelUnless(relRead[p] # {relPlan[p]["image"]}, p, "records")
    /\ UNCHANGED <<relInputs, relEvidence, relStaged, relOutput, relOthers,
                   relStuck, relBounds>>

(* The release manifest, which embeds the image's, and the notes are written *)
(* from the plan; the sums are those of the parts and texts written.         *)
RelWriteRecords(p) ==
    /\ relPc[p] = "records"
    /\ RelUnless(~Reachable(p), p, "sums")
    /\ relText' = [relText EXCEPT ![p]["record"] = relPlan[p]["image"],
                                  ![p]["contract"] = relPlan[p]["manifest"],
                                  ![p]["notes"] = relPlan[p]["image"]]
    /\ UNCHANGED <<relInputs, relEvidence, relStaging, relParts, relRead,
                   relOutput, relOthers, relStuck, relBounds>>

RelWriteSums(p) ==
    /\ relPc[p] = "sums"
    /\ RelUnless(~Reachable(p), p, "check")
    /\ relText' = [relText EXCEPT ![p]["sums"] = relPlan[p]["image"]]
    /\ UNCHANGED <<relInputs, relEvidence, relStaging, relParts, relRead,
                   relOutput, relOthers, relStuck, relBounds>>

(* validateDirectory: exactly the expected files, with the sums; the notes   *)
(* are the recorded image's, the manifest is the one the record embeds, and  *)
(* the parts, all full but the last, join up to the recorded image.          *)
PartsAreRegular(parts) ==
    /\ parts # <<>>
    /\ \A i \in DOMAIN parts :
          /\ Len(parts[i]) \in 1 .. PartLimit
          /\ i < Len(parts) => Len(parts[i]) = PartLimit

JoinsUpTo(parts, content) ==
    /\ PartsAreRegular(parts) /\ Total(parts) = relBlocks
    /\ \A part \in ToSet(parts) : ToSet(part) = {content}

SumsCover(text)    == text["sums"] = text["record"]
RecordsAgree(text) == Decodes(text["record"]) /\ Decodes(text["contract"])

ValidateDirectory(p) ==
    LET text == relText[p] IN
    /\ RecordsAgree(text) /\ SumsCover(text)
    /\ text["notes"] = text["record"] /\ text["sidecar"] = text["contract"]
    /\ JoinsUpTo(relParts[p], text["record"])

RelCheck(p) ==
    /\ relPc[p] = "check"
    /\ RelUnless(~Reachable(p) \/ ~ValidateDirectory(p), p, "publish")
    /\ UNCHANGED <<relInputs, relEvidence, relStaged, relOutput, relOthers,
                   relStuck, relBounds>>

(* publishDirectoryNoReplace, of whatever has the staging name.              *)
RelPublish(p) ==
    /\ relPc[p] = "publish"
    /\ IF Reachable(p) /\ relOutput = Vacant
       THEN /\ relOutput' = relStaging[p]
            /\ relStaging' = [relStaging EXCEPT ![p] = Vacant]
            /\ RelGo(p, "sync")
       ELSE RelStop(p) /\ UNCHANGED <<relOutput, relStaging>>
    /\ UNCHANGED <<relInputs, relEvidence, relText, relParts, relRead,
                   relOthers, relStuck, relBounds>>

RelFinish(p) ==
    /\ relPc[p] = "sync"
    /\ relPc' = [relPc EXCEPT ![p] = "done"]
    /\ relAnswer' = [relAnswer EXCEPT ![p] = "published"]
    /\ UNCHANGED <<relInputs, relEvidence, relStaged, relOutput, relOthers,
                   relStuck, relBounds>>

(* The published directory could not be synchronised: an error is returned   *)
(* with a receipt that says it is published.                                 *)
RelSyncFails(p) ==
    /\ relPc[p] = "sync"
    /\ relFaults < MaxRelFaults /\ relFaults' = relFaults + 1
    /\ relPc' = [relPc EXCEPT ![p] = "done"]
    /\ relAnswer' = [relAnswer EXCEPT ![p] = "published, not synchronised"]
    /\ UNCHANGED <<relInputs, relEvidence, relStaged, relOutput, relOthers,
                   relStuck, relEdits>>

(* The deferred clean-up removes the staging directory only if it is its own.*)
RelCleanUp(p) ==
    /\ relPc[p] = "cleanup"
    /\ relPc' = [relPc EXCEPT ![p] = "done"]
    /\ relStaging' = [relStaging EXCEPT ![p] = IF @ = p THEN Vacant ELSE @]
    /\ UNCHANGED <<relInputs, relEvidence, relText, relParts, relRead, relAnswer,
                   relOutput, relOthers, relStuck, relBounds>>

RelCleanUpFails(p) ==
    /\ relPc[p] = "cleanup" /\ relStaging[p] = p
    /\ relFaults < MaxRelFaults /\ relFaults' = relFaults + 1
    /\ relPc' = [relPc EXCEPT ![p] = "done"]
    /\ relStuck' = relStuck \cup {p}
    /\ UNCHANGED <<relInputs, relEvidence, relStaged, relAnswer, relOutput,
                   relOthers, relEdits>>

(* Any call of a preparation may fail, the rename among them.                *)
RelFault(p) ==
    /\ relPc[p] \in RelWork \ {"sync"}
    /\ relFaults < MaxRelFaults /\ relFaults' = relFaults + 1
    /\ RelStop(p)
    /\ UNCHANGED <<relInputs, relEvidence, relStaged, relOutput, relOthers,
                   relStuck, relEdits>>

RelKill(p) ==
    /\ relPc[p] \in RelWork \cup {"cleanup"}
    /\ relPc' = [relPc EXCEPT ![p] = "dead"]
    /\ UNCHANGED <<relInputs, relEvidence, relStaged, relAnswer, relOutput,
                   relOthers, relStuck, relBounds>>

-----------------------------------------------------------------------------
RelEdit == relEdits < MaxRelEdits /\ relEdits' = relEdits + 1

(* A source is exchanged for another creation's, or edited.                  *)
RelEditSource ==
    /\ RelEdit
    /\ \E s \in Sources, c \in Creations \cup {Spoilt} :
          c # relSource[s] /\ relSource' = [relSource EXCEPT ![s] = c]
    /\ UNCHANGED <<relOrderly, relBlocks, relEvidence, relStaged, relPc, relAnswer,
                   relOutput, relOthers, relStuck, relFaults>>

Validated(p) == relPc[p] \in {"publish", "sync"} \/ relOutput = p

Late(p) == relLate' = IF Validated(p) THEN relLate \cup {p} ELSE relLate

(* A staged file is edited.                                                  *)
RelEditStaged(p) ==
    /\ RelEdit /\ relStaging[p] = p
    /\ \/ /\ \E t \in Texts \ {"contract"} :
                /\ relText[p][t] \in Creations
                /\ relText' = [relText EXCEPT ![p][t] = Spoilt]
          /\ UNCHANGED relParts
       \/ /\ \E i \in DOMAIN relParts[p] : relParts' = [relParts EXCEPT ![p][i][1] = Spoilt]
          /\ UNCHANGED relText
    /\ Late(p)
    /\ UNCHANGED <<relInputs, relEvidence, relStaging, relRead, relPc, relAnswer,
                   relOutput, relSwapped, relStuck, relFaults>>

(* The staging directory is moved away, or another is put in its place.      *)
RelSwap(p) ==
    /\ RelEdit /\ relStaging[p] = p
    /\ \E d \in {Vacant, Outsider} : relStaging' = [relStaging EXCEPT ![p] = d]
    /\ relText' = [relText EXCEPT ![p] = Empty]
    /\ relParts' = [relParts EXCEPT ![p] =
          [i \in DOMAIN @ |-> [j \in DOMAIN @[i] |-> Missing]]]
    /\ relSwapped' = relSwapped \cup {p}
    /\ UNCHANGED <<relInputs, relEvidence, relRead, relPc, relAnswer, relOutput,
                   relLate, relStuck, relFaults>>

-----------------------------------------------------------------------------
RelStep(p) ==
    \/ RelBegin(p) \/ InspectImage(p) \/ InspectManifest(p) \/ InspectJournal(p)
    \/ RelFinishPlan(p) \/ RelValidateImage(p) \/ RelStage(p) \/ RelCopySidecar(p)
    \/ RelOpenImage(p) \/ RelCompress(p) \/ RelFinishCompression(p)
    \/ RelWriteRecords(p) \/ RelWriteSums(p) \/ RelCheck(p) \/ RelPublish(p)
    \/ RelFinish(p) \/ RelCleanUp(p)

RelNext ==
    \/ RelEditSource
    \/ \E p \in Preparers :
          \/ RelStep(p) \/ RelSyncFails(p) \/ RelCleanUpFails(p) \/ RelFault(p)
          \/ RelKill(p) \/ RelEditStaged(p) \/ RelSwap(p)

RelSpec == RelInit /\ [][RelNext]_relVars

-----------------------------------------------------------------------------
RelTypeOK ==
    /\ relSource \in [Sources -> Contents] /\ relOrderly \in BOOLEAN
    /\ relBlocks \in ImageBlocks
    /\ relPlan \in [Preparers -> [Sources -> Contents]]
    /\ relReport \in [Preparers -> Contents]
    /\ relStaging \in [Preparers -> Preparers \cup {Vacant, Outsider}]
    /\ relText \in [Preparers -> [Texts -> Contents]]
    /\ relParts \in [Preparers -> Seq(Seq(Contents))]
    /\ relRead \in [Preparers -> SUBSET Contents]
    /\ relPc \in [Preparers -> RelPcs]
    /\ relAnswer \in [Preparers -> {"none", "planned", "failed", "published",
                                   "published, not synchronised"}]
    /\ relOutput \in Preparers \cup {Vacant, Outsider}
    /\ relLate \in SUBSET Preparers /\ relSwapped \in SUBSET Preparers
    /\ relStuck \in SUBSET Preparers
    /\ relEdits \in Nat /\ relFaults \in Nat

(* The directory at the release's name is complete and about one image: its  *)
(* parts join up to the image that was validated, and that image's manifest  *)
(* lies beside them, wherever the sources were exchanged, a staged file was  *)
(* edited or another preparation ran, unless its files were changed after    *)
(* they had been validated.                                                  *)
ReleaseIsOfOneImage ==
    \A p \in Preparers \ relLate :
        relOutput = p => /\ relText[p] = [t \in Texts |-> relReport[p]]
                         /\ JoinsUpTo(relParts[p], relReport[p])

(* A preparation says "published" only when its directory has the name, and  *)
(* one that fails leaves neither a release nor its staging directory, nor    *)
(* does it touch a directory that is not its own.                            *)
AnswerIsTrue ==
    \A p \in Preparers :
        /\ relAnswer[p] = "published" => relOutput \in {p, Outsider}
        /\ relPc[p] = "done" /\ relAnswer[p] = "failed"
              => relOutput # p /\ (relStaging[p] = p => p \in relStuck)
=============================================================================
