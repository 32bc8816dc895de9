-------------------------- MODULE ImagePublication --------------------------
(* Publishing an image with its manifest and execution journal               *)
(* (internal/image/publication).  Each publisher stages three files beside   *)
(* their final names, flushes them, and renames them one by one without      *)
(* replacing anything; the ISO comes last.  Nothing is ever rolled back.     *)
(*                                                                           *)
(* Publishers may run at once, be killed, or lose power with the machine;    *)
(* others may put, remove, exchange or edit files of the directory, or move  *)
(* it, but do not put back what they took away.                              *)
EXTENDS Naturals

CONSTANTS Publishers, Nothing, Foreign,
          MaxMeddles, MaxLosses

ASSUME NothingAssumption == Nothing \notin Publishers /\ Nothing # Foreign
ASSUME ForeignAssumption == Foreign \notin Publishers
ASSUME BoundsAssumption == MaxMeddles \in Nat /\ MaxLosses \in Nat

Evidence == {"manifest", "journal"}
Outputs  == Evidence \cup {"iso"}
Files    == Publishers \X Outputs

Inspected == <<"iso", "manifest", "journal">>     \* the order of checks and of staging
Order     == <<"manifest", "journal", "iso">>     \* the order of publication
Count     == 3

VARIABLES final, disk,      \* whose file each final name is: now, and after a power loss
          moved,            \* the directory is no longer at its path
          slot,             \* what each staging name is: "nothing", "own" or "foreign"
          bytes, flushed,   \* what each staged file holds; those synchronised
          pc, at, answer,   \* of each publisher
          faulted,          \* publishers one of whose calls failed
          mark,             \* files reverified at their names, and touched after that
          stood,            \* publishers whose complete set has durably been in place
          meddles, losses

directory == <<final, disk, moved>>
staging   == <<slot, bytes, flushed>>
command   == <<pc, at, answer>>
history   == <<faulted, mark>>
bounds    == <<meddles, losses>>
vars      == <<directory, staging, command, history, stood, bounds>>

Stopped == {"idle", "done", "dead"}
Steps   == {"inspect", "create", "fill", "stage", "settle", "recheck", "rename",
            "verify", "sync", "reverify", "whole", "parent", "close"}

Init ==
    /\ final = [o \in Outputs |-> Nothing] /\ disk = final /\ moved = FALSE
    /\ slot = [x \in Files |-> "nothing"] /\ bytes = [x \in Files |-> "none"] /\ flushed = {}
    /\ pc = [p \in Publishers |-> "idle"] /\ at = [p \in Publishers |-> 1]
    /\ answer = [p \in Publishers |-> "none"]
    /\ faulted = {} /\ mark = [x \in Files |-> "none"] /\ stood = {}
    /\ meddles = 0 /\ losses = 0

-----------------------------------------------------------------------------

(* The next step of a publisher, and the file of its list it is about.       *)
Go(p, next, k) ==
    /\ pc' = [pc EXCEPT ![p] = next] /\ at' = [at EXCEPT ![p] = k]
    /\ UNCHANGED answer

(* Do the same for the next file; after the last one go on to what is next.  *)
Advance(p, again, next) ==
    IF at[p] < Count THEN Go(p, again, at[p] + 1) ELSE Go(p, next, 1)

(* Any error ends the publication; nothing is undone.                        *)
Stop(p, result) ==
    /\ pc' = [pc EXCEPT ![p] = "done"] /\ answer' = [answer EXCEPT ![p] = result]
    /\ UNCHANGED at

(* verifyPublicationEntry at the final name: the object this publisher has   *)
(* staged, with the exact bytes.                                             *)
Holds(p, o) == final[o] = p /\ bytes[<<p, o>>] = "good"

Open(p) ==
    /\ pc[p] = "idle" /\ ~moved /\ Go(p, "inspect", 1)
    /\ UNCHANGED <<directory, staging, history, bounds>>

(* requireAbsentPublicationEntry for one of the three names                  *)
RequireAbsent(p, again, next) ==
    /\ IF final[Inspected[at[p]]] = Nothing THEN Advance(p, again, next) ELSE Stop(p, "failed")
    /\ UNCHANGED <<directory, staging, history, bounds>>

Inspect(p) == pc[p] = "inspect" /\ RequireAbsent(p, "inspect", "create")

Create(p) ==
    LET x == <<p, Inspected[at[p]]>> IN
    /\ pc[p] = "create" /\ Go(p, "fill", at[p])
    /\ slot' = [slot EXCEPT ![x] = "own"] /\ bytes' = [bytes EXCEPT ![x] = "partial"]
    /\ UNCHANGED <<directory, flushed, history, bounds>>

(* Copy, set the mode, synchronise, and compare the identity of what was     *)
(* copied: a source of other bytes ends the publication.  A file edited      *)
(* meanwhile stays edited.                                                   *)
Fill(p) ==
    LET x == <<p, Inspected[at[p]]>> IN
    /\ pc[p] = "fill" /\ flushed' = flushed \cup {x}
    /\ \/ /\ bytes' = [bytes EXCEPT ![x] = IF @ = "partial" THEN "good" ELSE @]
          /\ Go(p, "stage", at[p]) /\ UNCHANGED faulted
       \/ /\ bytes' = [bytes EXCEPT ![x] = "bad"]
          /\ Stop(p, "failed") /\ faulted' = faulted \cup {p}
    /\ UNCHANGED <<directory, slot, mark, bounds>>

VerifyStaged(p) ==
    LET x == <<p, Inspected[at[p]]>> IN
    /\ pc[p] = "stage"
    /\ IF slot[x] = "own" /\ bytes[x] = "good"
         THEN Advance(p, "create", "settle") ELSE Stop(p, "failed")
    /\ UNCHANGED <<directory, staging, history, bounds>>

(* syncPublicationDirectory makes every name of the directory durable, those *)
(* of another publisher too.                                                 *)
SyncStaged(p) ==
    /\ pc[p] = "settle" /\ disk' = final /\ Go(p, "recheck", 1)
    /\ UNCHANGED <<final, moved, staging, history, bounds>>

Recheck(p) == pc[p] = "recheck" /\ RequireAbsent(p, "recheck", "rename")

(* renameat2 with RENAME_NOREPLACE, of whatever now has the staging name     *)
Rename(p) ==
    LET o == Order[at[p]] IN
    /\ pc[p] = "rename"
    /\ IF final[o] = Nothing /\ slot[<<p, o>>] # "nothing"
         THEN /\ final' = [final EXCEPT ![o] = IF slot[<<p, o>>] = "own" THEN p ELSE Foreign]
              /\ slot' = [slot EXCEPT ![<<p, o>>] = "nothing"]
              /\ Go(p, "verify", at[p])
         ELSE Stop(p, "failed") /\ UNCHANGED <<final, slot>>
    /\ UNCHANGED <<disk, moved, bytes, flushed, history, bounds>>

VerifyPublished(p) ==
    LET o == Order[at[p]] IN
    /\ pc[p] = "verify"
    /\ IF Holds(p, o) /\ slot[<<p, o>>] = "nothing" THEN Go(p, "sync", at[p]) ELSE Stop(p, "failed")
    /\ UNCHANGED <<directory, staging, history, bounds>>

MutantSyncPublished(p) ==
    /\ pc[p] = "sync" /\ Go(p, "reverify", at[p])
    /\ UNCHANGED <<directory, staging, history, bounds>>

SyncPublished(p) ==
    /\ pc[p] = "sync" /\ disk' = final /\ Go(p, "reverify", at[p])
    /\ UNCHANGED <<final, moved, staging, history, bounds>>

Reverify(p) ==
    LET o == Order[at[p]] IN
    /\ pc[p] = "reverify"
    /\ IF Holds(p, o)
         THEN Advance(p, "rename", "whole") /\ mark' = [mark EXCEPT ![<<p, o>>] = "proved"]
         ELSE Stop(p, "failed") /\ UNCHANGED mark
    /\ UNCHANGED <<directory, staging, faulted, bounds>>

MutantVerifyWhole(p) ==
    /\ pc[p] = "whole" /\ Advance(p, "whole", "parent")
    /\ UNCHANGED <<directory, staging, history, bounds>>

(* The three files once more, one after the other                            *)
VerifyWhole(p) ==
    /\ pc[p] = "whole"
    /\ IF Holds(p, Order[at[p]]) THEN Advance(p, "whole", "parent") ELSE Stop(p, "failed")
    /\ UNCHANGED <<directory, staging, history, bounds>>

VerifyParent(p) ==
    /\ pc[p] = "parent"
    /\ IF moved THEN Stop(p, "failed") ELSE Go(p, "close", 1)
    /\ UNCHANGED <<directory, staging, history, bounds>>

Close(p) ==
    /\ pc[p] = "close" /\ Stop(p, "published")
    /\ UNCHANGED <<directory, staging, history, bounds>>

(* Any call of a publication may report an error, the closing ones too.      *)
Fault(p) ==
    /\ pc[p] \in Steps /\ Stop(p, "failed") /\ faulted' = faulted \cup {p}
    /\ UNCHANGED <<directory, staging, mark, bounds>>

-----------------------------------------------------------------------------

Kill(p) ==
    /\ pc[p] \in Steps /\ pc' = [pc EXCEPT ![p] = "dead"]
    /\ UNCHANGED <<directory, staging, at, answer, history, bounds>>

(* Names changed since the last synchronisation of the directory may each be *)
(* back to what they were, and files never synchronised may be torn.         *)
PowerLoss ==
    /\ losses < MaxLosses /\ losses' = losses + 1
    /\ pc' = [p \in Publishers |-> IF pc[p] \in Steps THEN "dead" ELSE pc[p]]
    /\ \E back \in SUBSET {o \in Outputs : disk[o] # final[o]} :
         final' = [o \in Outputs |-> IF o \in back THEN disk[o] ELSE final[o]]
    /\ disk' = final'
    /\ \E torn \in SUBSET {x \in Files \ flushed : bytes[x] # "none"} :
         bytes' = [x \in Files |-> IF x \in torn THEN "bad" ELSE bytes[x]]
    /\ UNCHANGED <<moved, slot, flushed, at, answer, history, meddles>>

(* Somebody else changes the file a publisher has in place.                  *)
Touch(p, o) ==
    mark' = IF mark[<<p, o>>] = "proved" THEN [mark EXCEPT ![<<p, o>>] = "touched"] ELSE mark

Meddles == meddles < MaxMeddles /\ meddles' = meddles + 1 /\ UNCHANGED <<command, faulted, losses>>

(* Put another file at a final name, or take the one away that is there.     *)
MeddleName(o) ==
    /\ Meddles /\ \E f \in {Nothing, Foreign} \ {final[o]} : final' = [final EXCEPT ![o] = f]
    /\ IF final[o] \in Publishers THEN Touch(final[o], o) ELSE UNCHANGED mark
    /\ UNCHANGED <<disk, moved, staging>>

MeddleStaging(p, o) ==
    /\ Meddles /\ slot[<<p, o>>] = "own"
    /\ \E f \in {"nothing", "foreign"} : slot' = [slot EXCEPT ![<<p, o>>] = f]
    /\ UNCHANGED <<directory, bytes, flushed, mark>>

Edit(p, o) ==
    /\ Meddles /\ bytes[<<p, o>>] \in {"partial", "good"}
    /\ bytes' = [bytes EXCEPT ![<<p, o>>] = "bad"] /\ Touch(p, o)
    /\ UNCHANGED <<directory, slot, flushed>>

Move ==
    /\ Meddles /\ ~moved /\ moved' = TRUE
    /\ UNCHANGED <<final, disk, staging, mark>>

-----------------------------------------------------------------------------

Publish(p) ==
    \/ Open(p) \/ Inspect(p) \/ Create(p) \/ Fill(p) \/ VerifyStaged(p) \/ SyncStaged(p)
    \/ Recheck(p) \/ Rename(p) \/ VerifyPublished(p) \/ SyncPublished(p) \/ Reverify(p)
    \/ VerifyWhole(p) \/ VerifyParent(p) \/ Close(p) \/ Fault(p) \/ Kill(p)

Interfere ==
    \/ PowerLoss \/ Move
    \/ \E o \in Outputs : MeddleName(o) \/ \E p \in Publishers : MeddleStaging(p, o) \/ Edit(p, o)

(* The complete set of a publisher is durably where it was asked for.        *)
Standing(p) == ~moved /\ \A o \in Outputs : Holds(p, o) /\ disk[o] = p

Next ==
    /\ Interfere \/ \E p \in Publishers : Publish(p)
    /\ stood' = stood \cup {p \in Publishers : Standing(p)'}

Spec == Init /\ [][Next]_vars

-----------------------------------------------------------------------------

TypeOK ==
    /\ final \in [Outputs -> Publishers \cup {Nothing, Foreign}]
    /\ disk \in [Outputs -> Publishers \cup {Nothing, Foreign}] /\ moved \in BOOLEAN
    /\ slot \in [Files -> {"nothing", "own", "foreign"}]
    /\ bytes \in [Files -> {"none", "partial", "good", "bad"}] /\ flushed \in SUBSET Files
    /\ pc \in [Publishers -> Stopped \cup Steps] /\ at \in [Publishers -> 1..Count]
    /\ answer \in [Publishers -> {"none", "published", "failed"}]
    /\ faulted \in SUBSET Publishers /\ mark \in [Files -> {"none", "proved", "touched"}]
    /\ stood \in SUBSET Publishers /\ meddles \in Nat /\ losses \in Nat

(* "An interrupted publication never exposes a usable ISO without its        *)
(* evidence" (publication.go): whatever was killed, lost with the power or   *)
(* raced for the names, where an ISO is or can come back, its own manifest   *)
(* and journal are whole and durable, unless others changed them after they  *)
(* had been reverified.                                                      *)
EvidenceWithISO ==
    \A p \in Publishers : (final["iso"] = p \/ disk["iso"] = p) =>
        \A e \in Evidence :
            /\ mark[<<p, e>>] # "none"
            /\ mark[<<p, e>>] = "proved" => Holds(p, e) /\ disk[e] = p

(* A publication that met no error, no interference and no power loss fails  *)
(* only because another publisher has claimed the manifest name: it never    *)
(* refuses its own files, and two publishers cannot stop each other.         *)
RefusedForCause ==
    \A p \in Publishers :
        answer[p] = "failed" /\ p \notin faulted /\ meddles = 0 /\ losses = 0
            => final["manifest"] \in Publishers \ {p}

(* The three renames are one atomic publication.                             *)
Place ==
    IF final["iso"] = Nothing THEN Nothing
    ELSE IF final["iso"] \in Publishers /\ \A o \in Outputs : Holds(final["iso"], o)
           THEN final["iso"] ELSE Foreign

Atomic == INSTANCE AtomicPublication
            WITH Nobody <- Nothing, Spoilt <- Foreign, place <- Place, disturbed <- meddles > 0

(* With others kept away, the place goes from nothing to the whole set of    *)
(* one publisher and back only if power was lost before it was durable; and  *)
(* whatever others do, "published" is answered only by a publisher whose     *)
(* whole set has durably stood at its path.                                  *)
AtomicImage == Atomic!Spec
=============================================================================
