----------------------- MODULE ImagePublication_proofs -----------------------
(* What holds of every publication of images, for all publishers and bounds. *)
EXTENDS ImagePublication, TLAPS

USE DEF directory, staging, command, history, bounds, Go, Advance, Stop

-----------------------------------------------------------------------------
(* Every variable keeps to its set.                                          *)

LEMMA Lists == /\ Inspected \in [1..Count -> Outputs]
               /\ Order \in [1..Count -> Outputs]
BY DEF Inspected, Order, Count, Outputs, Evidence

TypeRest ==
    /\ final \in [Outputs -> Publishers \cup {Nothing, Foreign}]
    /\ disk \in [Outputs -> Publishers \cup {Nothing, Foreign}] /\ moved \in BOOLEAN
    /\ slot \in [Files -> {"nothing", "own", "foreign"}]
    /\ bytes \in [Files -> {"none", "partial", "good", "bad"}] /\ flushed \in SUBSET Files
    /\ pc \in [Publishers -> Stopped \cup Steps] /\ at \in [Publishers -> 1..Count]
    /\ answer \in [Publishers -> {"none", "published", "failed"}]
    /\ faulted \in SUBSET Publishers /\ mark \in [Files -> {"none", "proved", "touched"}]
    /\ meddles \in Nat /\ losses \in Nat

LEMMA TypePublish ==
  ASSUME TypeRest, NEW p \in Publishers, Publish(p)
  PROVE  TypeRest'
<1>. USE Lists DEF TypeRest, Files, Stopped, Steps, Count
<1>1. CASE Open(p)
  BY <1>1 DEF Open
<1>2. CASE Inspect(p)
  BY <1>2 DEF Inspect, RequireAbsent
<1>3. CASE Create(p)
  BY <1>3 DEF Create
<1>4. CASE Fill(p)
  BY <1>4 DEF Fill
<1>5. CASE VerifyStaged(p)
  <2>. USE <1>5 DEF VerifyStaged
  <2>1. CASE Advance(p, "create", "settle")
    BY <2>1
  <2>2. CASE Stop(p, "failed")
    BY <2>2
  <2>. QED
    BY <2>1, <2>2 DEF VerifyStaged
<1>6. CASE SyncStaged(p)
  BY <1>6 DEF SyncStaged
<1>7. CASE Recheck(p)
  BY <1>7 DEF Recheck, RequireAbsent
<1>8. CASE Rename(p)
  BY <1>8 DEF Rename
<1>9. CASE VerifyPublished(p)
  BY <1>9 DEF VerifyPublished
<1>10. CASE SyncPublished(p)
  BY <1>10 DEF SyncPublished
<1>11. CASE Reverify(p)
  <2>. USE <1>11 DEF Reverify
  <2>1. CASE Advance(p, "rename", "whole") /\ mark' = [mark EXCEPT ![<<p, Order[at[p]]>>] = "proved"]
    BY <2>1
  <2>2. CASE Stop(p, "failed") /\ UNCHANGED mark
    BY <2>2
  <2>. QED
    BY <2>1, <2>2
<1>12. CASE VerifyWhole(p)
  BY <1>12 DEF VerifyWhole
<1>13. CASE VerifyParent(p)
  BY <1>13 DEF VerifyParent
<1>14. CASE Close(p)
  BY <1>14 DEF Close
<1>15. CASE Fault(p)
  BY <1>15 DEF Fault
<1>16. CASE Kill(p)
  BY <1>16 DEF Kill
<1>. QED
  BY <1>1, <1>2, <1>3, <1>4, <1>5, <1>6, <1>7, <1>8, <1>9, <1>10, <1>11, <1>12, <1>13, <1>14, <1>15, <1>16 DEF Publish

LEMMA TypeInterfere ==
  ASSUME TypeRest, Interfere
  PROVE  TypeRest'
<1>. USE BoundsAssumption DEF TypeRest, Files, Stopped, Steps, Count
<1>1. CASE PowerLoss
  BY <1>1 DEF PowerLoss
<1>2. CASE Move
  BY <1>2 DEF Move, Meddles
<1>3. ASSUME NEW o \in Outputs, MeddleName(o) PROVE TypeRest'
  <2>1. PICK f \in {Nothing, Foreign} : final' = [final EXCEPT ![o] = f]
    BY <1>3 DEF MeddleName
  <2>2. mark' \in [Files -> {"none", "proved", "touched"}]
    BY <1>3 DEF MeddleName, Touch
  <2>3. UNCHANGED <<disk, moved, slot, bytes, flushed, pc, at, answer, faulted, losses>> /\ meddles' \in Nat
    BY <1>3 DEF MeddleName, Meddles
  <2>. QED
    BY <2>1, <2>2, <2>3
<1>4. ASSUME NEW o \in Outputs, NEW p \in Publishers, MeddleStaging(p, o) PROVE TypeRest'
  BY <1>4 DEF MeddleStaging, Meddles
<1>5. ASSUME NEW o \in Outputs, NEW p \in Publishers, Edit(p, o) PROVE TypeRest'
  BY <1>5 DEF Edit, Meddles, Touch
<1>. QED
  BY <1>1, <1>2, <1>3, <1>4, <1>5 DEF Interfere

LEMMA TypeInit == Init => TypeOK
<1> SUFFICES ASSUME Init PROVE TypeOK
  OBVIOUS
<1>1. moved \in BOOLEAN /\ flushed \in SUBSET Files /\ stood \in SUBSET Publishers /\ faulted \in SUBSET Publishers
  BY DEF Init
<1>2. final \in [Outputs -> Publishers \cup {Nothing, Foreign}] /\ disk = final
  BY DEF Init
<1>3. slot \in [Files -> {"nothing", "own", "foreign"}] /\ mark \in [Files -> {"none", "proved", "touched"}]
  BY DEF Init
<1>4. bytes \in [Files -> {"none", "partial", "good", "bad"}]
  BY DEF Init
<1>5. pc \in [Publishers -> Stopped \cup Steps] /\ answer \in [Publishers -> {"none", "published", "failed"}]
  BY DEF Init, Stopped
<1>6. at \in [Publishers -> 1..Count] /\ meddles \in Nat /\ losses \in Nat
  BY DEF Init, Count
<1>. QED
  BY <1>1, <1>2, <1>3, <1>4, <1>5, <1>6 DEF TypeOK

LEMMA TypeNext == TypeOK /\ [Next]_vars => TypeOK'
<1> SUFFICES ASSUME TypeOK, [Next]_vars PROVE TypeOK'
  OBVIOUS
<1>1. CASE Next
  <2>1. TypeRest'
    BY <1>1, TypePublish, TypeInterfere DEF TypeOK, TypeRest, Next
  <2>2. stood' \in SUBSET Publishers
    BY <1>1 DEF Next, TypeOK
  <2>. QED
    BY <2>1, <2>2 DEF TypeOK, TypeRest
<1>2. CASE UNCHANGED vars
  BY <1>2 DEF TypeOK, vars
<1>. QED
  BY <1>1, <1>2

(* Every variable keeps to its set, and no list of files is overrun.         *)
THEOREM TypeCorrect == Spec => []TypeOK
BY TypeInit, TypeNext, PTL DEF Spec

-----------------------------------------------------------------------------

(* What a step of one publisher leaves alone.                                *)

CommandOK ==
    /\ pc \in [Publishers -> Stopped \cup Steps] /\ at \in [Publishers -> 1..Count]
    /\ answer \in [Publishers -> {"none", "published", "failed"}]

NamesOK ==
    /\ final \in [Outputs -> Publishers \cup {Nothing, Foreign}]
    /\ disk \in [Outputs -> Publishers \cup {Nothing, Foreign}]

FilesOK ==
    /\ slot \in [Files -> {"nothing", "own", "foreign"}]
    /\ bytes \in [Files -> {"none", "partial", "good", "bad"}]
    /\ mark \in [Files -> {"none", "proved", "touched"}]

LEMMA Parts == TypeOK => CommandOK /\ NamesOK /\ FilesOK
BY DEF TypeOK, CommandOK, NamesOK, FilesOK

LEMMA OthersKeep ==
  ASSUME CommandOK, NEW p \in Publishers, Publish(p), NEW q \in Publishers, q # p
  PROVE  pc'[q] = pc[q] /\ at'[q] = at[q] /\ answer'[q] = answer[q]
<1>. USE DEF CommandOK
<1>1. CASE Open(p)
  BY <1>1 DEF Open
<1>2. CASE Inspect(p)
  BY <1>2 DEF Inspect, RequireAbsent
<1>3. CASE Create(p)
  BY <1>3 DEF Create
<1>4. CASE Fill(p)
  BY <1>4 DEF Fill
<1>5. CASE VerifyStaged(p)
  BY <1>5 DEF VerifyStaged
<1>6. CASE SyncStaged(p)
  BY <1>6 DEF SyncStaged
<1>7. CASE Recheck(p)
  BY <1>7 DEF Recheck, RequireAbsent
<1>8. CASE Rename(p)
  BY <1>8 DEF Rename
<1>9. CASE VerifyPublished(p)
  BY <1>9 DEF VerifyPublished
<1>10. CASE SyncPublished(p)
  BY <1>10 DEF SyncPublished
<1>11. CASE Reverify(p)
  BY <1>11 DEF Reverify
<1>12. CASE VerifyWhole(p)
  BY <1>12 DEF VerifyWhole
<1>13. CASE VerifyParent(p)
  BY <1>13 DEF VerifyParent
<1>14. CASE Close(p)
  BY <1>14 DEF Close
<1>15. CASE Fault(p)
  BY <1>15 DEF Fault
<1>16. CASE Kill(p)
  BY <1>16 DEF Kill
<1>. QED
  BY <1>1, <1>2, <1>3, <1>4, <1>5, <1>6, <1>7, <1>8, <1>9, <1>10, <1>11, <1>12, <1>13, <1>14, <1>15, <1>16
  DEF Publish

LEMMA OthersFiles ==
  ASSUME FilesOK, NEW p \in Publishers, Publish(p), NEW q \in Publishers, q # p, NEW o \in Outputs
  PROVE  /\ slot'[<<q, o>>] = slot[<<q, o>>] /\ bytes'[<<q, o>>] = bytes[<<q, o>>]
         /\ mark'[<<q, o>>] = mark[<<q, o>>]
<1>. USE DEF FilesOK, Files
<1>1. CASE Open(p)
  BY <1>1 DEF Open
<1>2. CASE Inspect(p)
  BY <1>2 DEF Inspect, RequireAbsent
<1>3. CASE Create(p)
  BY <1>3 DEF Create
<1>4. CASE Fill(p)
  BY <1>4 DEF Fill
<1>5. CASE VerifyStaged(p)
  BY <1>5 DEF VerifyStaged
<1>6. CASE SyncStaged(p)
  BY <1>6 DEF SyncStaged
<1>7. CASE Recheck(p)
  BY <1>7 DEF Recheck, RequireAbsent
<1>8. CASE Rename(p)
  BY <1>8 DEF Rename
<1>9. CASE VerifyPublished(p)
  BY <1>9 DEF VerifyPublished
<1>10. CASE SyncPublished(p)
  BY <1>10 DEF SyncPublished
<1>11. CASE Reverify(p)
  BY <1>11 DEF Reverify
<1>12. CASE VerifyWhole(p)
  BY <1>12 DEF VerifyWhole
<1>13. CASE VerifyParent(p)
  BY <1>13 DEF VerifyParent
<1>14. CASE Close(p)
  BY <1>14 DEF Close
<1>15. CASE Fault(p)
  BY <1>15 DEF Fault
<1>16. CASE Kill(p)
  BY <1>16 DEF Kill
<1>. QED
  BY <1>1, <1>2, <1>3, <1>4, <1>5, <1>6, <1>7, <1>8, <1>9, <1>10, <1>11, <1>12, <1>13, <1>14, <1>15, <1>16
  DEF Publish

LEMMA Kept ==
  ASSUME NEW p \in Publishers, Publish(p)
  PROVE  /\ pc[p] # "rename" => final' = final /\ (slot' = slot \/ pc[p] = "create")
         /\ disk' = disk \/ (disk' = final /\ final' = final /\ pc[p] \in {"settle", "sync"})
         /\ pc[p] \notin {"create", "fill"} => bytes' = bytes /\ flushed' = flushed
         /\ flushed \subseteq flushed' /\ (pc[p] # "reverify" => mark' = mark)
<1>. USE DEF Steps
<1>1. CASE Open(p)
  BY <1>1 DEF Open
<1>2. CASE Inspect(p)
  BY <1>2 DEF Inspect, RequireAbsent
<1>3. CASE Create(p)
  BY <1>3 DEF Create
<1>4. CASE Fill(p)
  BY <1>4 DEF Fill
<1>5. CASE VerifyStaged(p)
  BY <1>5 DEF VerifyStaged
<1>6. CASE SyncStaged(p)
  BY <1>6 DEF SyncStaged
<1>7. CASE Recheck(p)
  BY <1>7 DEF Recheck, RequireAbsent
<1>8. CASE Rename(p)
  BY <1>8 DEF Rename
<1>9. CASE VerifyPublished(p)
  BY <1>9 DEF VerifyPublished
<1>10. CASE SyncPublished(p)
  BY <1>10 DEF SyncPublished
<1>11. CASE Reverify(p)
  BY <1>11 DEF Reverify
<1>12. CASE VerifyWhole(p)
  BY <1>12 DEF VerifyWhole
<1>13. CASE VerifyParent(p)
  BY <1>13 DEF VerifyParent
<1>14. CASE Close(p)
  BY <1>14 DEF Close
<1>15. CASE Fault(p)
  BY <1>15 DEF Fault
<1>16. CASE Kill(p)
  BY <1>16 DEF Kill
<1>. QED
  BY <1>1, <1>2, <1>3, <1>4, <1>5, <1>6, <1>7, <1>8, <1>9, <1>10, <1>11, <1>12, <1>13, <1>14, <1>15, <1>16
  DEF Publish

LEMMA KeptBounds ==
  ASSUME NEW p \in Publishers, Publish(p)
  PROVE  meddles' = meddles /\ losses' = losses /\ moved' = moved
<1>1. CASE Open(p)
  BY <1>1 DEF Open
<1>2. CASE Inspect(p)
  BY <1>2 DEF Inspect, RequireAbsent
<1>3. CASE Create(p)
  BY <1>3 DEF Create
<1>4. CASE Fill(p)
  BY <1>4 DEF Fill
<1>5. CASE VerifyStaged(p)
  BY <1>5 DEF VerifyStaged
<1>6. CASE SyncStaged(p)
  BY <1>6 DEF SyncStaged
<1>7. CASE Recheck(p)
  BY <1>7 DEF Recheck, RequireAbsent
<1>8. CASE Rename(p)
  BY <1>8 DEF Rename
<1>9. CASE VerifyPublished(p)
  BY <1>9 DEF VerifyPublished
<1>10. CASE SyncPublished(p)
  BY <1>10 DEF SyncPublished
<1>11. CASE Reverify(p)
  BY <1>11 DEF Reverify
<1>12. CASE VerifyWhole(p)
  BY <1>12 DEF VerifyWhole
<1>13. CASE VerifyParent(p)
  BY <1>13 DEF VerifyParent
<1>14. CASE Close(p)
  BY <1>14 DEF Close
<1>15. CASE Fault(p)
  BY <1>15 DEF Fault
<1>16. CASE Kill(p)
  BY <1>16 DEF Kill
<1>. QED
  BY <1>1, <1>2, <1>3, <1>4, <1>5, <1>6, <1>7, <1>8, <1>9, <1>10, <1>11, <1>12, <1>13, <1>14, <1>15, <1>16
  DEF Publish

-----------------------------------------------------------------------------
(* The evidence is there before the ISO is.                                  *)

(* A reverified file nobody has touched is whole and durable at its name.    *)
ProvedOK(p, o) ==
    mark[<<p, o>>] = "proved" => Holds(p, o) /\ disk[o] = p /\ <<p, o>> \in flushed

FlushedOK(p, o) == bytes[<<p, o>>] = "good" => <<p, o>> \in flushed

(* A name still its publisher's after the synchronisation was durable then.  *)
SyncedOK(p) ==
    pc[p] = "reverify" /\ final[Order[at[p]]] = p => disk[Order[at[p]]] = p

(* The publisher is past the reverification of the file.                     *)
Past(p, o) ==
    \/ /\ pc[p] \in {"rename", "verify", "sync", "reverify"}
       /\ (o = "manifest" /\ at[p] > 1) \/ (o = "journal" /\ at[p] > 2)
    \/ pc[p] \in {"whole", "parent", "close"}

PastOK(p, o) == Past(p, o) => mark[<<p, o>>] # "none"

Running(p) == pc[p] \in {"idle"} \cup Steps

EarlyOK(p, o) == Running(p) /\ ~Past(p, o) => mark[<<p, o>>] = "none"

IsoOK(p) == final["iso"] = p \/ disk["iso"] = p => \A e \in Evidence : mark[<<p, e>>] # "none"

(* Only a publisher gives its files their final names.                       *)
Early == {"idle", "inspect", "create", "fill", "stage", "settle", "recheck"}

OwnOK(p) == pc[p] \in Early => \A o \in Outputs : final[o] # p /\ disk[o] # p

EvidenceInv ==
    /\ \A p \in Publishers, o \in Outputs :
         ProvedOK(p, o) /\ FlushedOK(p, o) /\ PastOK(p, o) /\ EarlyOK(p, o)
    /\ \A p \in Publishers : SyncedOK(p) /\ IsoOK(p) /\ OwnOK(p)

LEMMA Moves ==
  ASSUME CommandOK, NEW p \in Publishers, Publish(p), NEW o \in Outputs
  PROVE  /\ Past(p, o)' => \/ Past(p, o)
                           \/ pc[p] = "reverify" /\ o = Order[at[p]] /\ mark' = [mark EXCEPT ![<<p, o>>] = "proved"]
         /\ pc'[p] = "reverify" => pc[p] = "sync" /\ at'[p] = at[p] /\ disk' = final /\ final' = final
         /\ Running(p)' => Running(p) /\ (Past(p, o) => Past(p, o)')
         /\ pc'[p] \in Early => pc[p] \in Early
<1>. USE DEF CommandOK, Past, Running, Early, Outputs, Evidence, Order, Count, Steps, Stopped
<1>1. CASE Open(p)
  BY <1>1 DEF Open
<1>2. CASE Inspect(p)
  BY <1>2 DEF Inspect, RequireAbsent
<1>3. CASE Create(p)
  BY <1>3 DEF Create
<1>4. CASE Fill(p)
  BY <1>4 DEF Fill
<1>5. CASE VerifyStaged(p)
  BY <1>5 DEF VerifyStaged
<1>6. CASE SyncStaged(p)
  BY <1>6 DEF SyncStaged
<1>7. CASE Recheck(p)
  BY <1>7 DEF Recheck, RequireAbsent
<1>8. CASE Rename(p)
  BY <1>8 DEF Rename
<1>9. CASE VerifyPublished(p)
  BY <1>9 DEF VerifyPublished
<1>10. CASE SyncPublished(p)
  BY <1>10 DEF SyncPublished
<1>11. CASE Reverify(p)
  BY <1>11 DEF Reverify
<1>12. CASE VerifyWhole(p)
  BY <1>12 DEF VerifyWhole
<1>13. CASE VerifyParent(p)
  BY <1>13 DEF VerifyParent
<1>14. CASE Close(p)
  BY <1>14 DEF Close
<1>15. CASE Fault(p)
  BY <1>15 DEF Fault
<1>16. CASE Kill(p)
  BY <1>16 DEF Kill
<1>. QED
  BY <1>1, <1>2, <1>3, <1>4, <1>5, <1>6, <1>7, <1>8, <1>9, <1>10, <1>11, <1>12, <1>13, <1>14, <1>15, <1>16
  DEF Publish

LEMMA NameSteps ==
  ASSUME CommandOK, NamesOK, FilesOK, NEW p \in Publishers, Publish(p), NEW o \in Outputs
  PROVE  \/ final'[o] = final[o]
         \/ /\ final[o] = Nothing /\ pc[p] = "rename" /\ o = Order[at[p]] /\ pc'[p] = "verify"
            /\ final'[o] = p \/ (final'[o] = Foreign /\ slot[<<p, o>>] = "foreign")
            /\ disk' = disk /\ answer' = answer
<1>. USE Lists DEF CommandOK, NamesOK, FilesOK, Files, Stopped, Steps, Count
<1>1. CASE Open(p)
  BY <1>1 DEF Open
<1>2. CASE Inspect(p)
  BY <1>2 DEF Inspect, RequireAbsent
<1>3. CASE Create(p)
  BY <1>3 DEF Create
<1>4. CASE Fill(p)
  BY <1>4 DEF Fill
<1>5. CASE VerifyStaged(p)
  BY <1>5 DEF VerifyStaged
<1>6. CASE SyncStaged(p)
  BY <1>6 DEF SyncStaged
<1>7. CASE Recheck(p)
  BY <1>7 DEF Recheck, RequireAbsent
<1>8. CASE Rename(p)
  BY <1>8 DEF Rename
<1>9. CASE VerifyPublished(p)
  BY <1>9 DEF VerifyPublished
<1>10. CASE SyncPublished(p)
  BY <1>10 DEF SyncPublished
<1>11. CASE Reverify(p)
  BY <1>11 DEF Reverify
<1>12. CASE VerifyWhole(p)
  BY <1>12 DEF VerifyWhole
<1>13. CASE VerifyParent(p)
  BY <1>13 DEF VerifyParent
<1>14. CASE Close(p)
  BY <1>14 DEF Close
<1>15. CASE Fault(p)
  BY <1>15 DEF Fault
<1>16. CASE Kill(p)
  BY <1>16 DEF Kill
<1>. QED
  BY <1>1, <1>2, <1>3, <1>4, <1>5, <1>6, <1>7, <1>8, <1>9, <1>10, <1>11, <1>12, <1>13, <1>14, <1>15, <1>16
  DEF Publish

LEMMA MarkSteps ==
  ASSUME FilesOK, CommandOK, NEW p \in Publishers, Publish(p), NEW o \in Outputs
  PROVE  \/ mark'[<<p, o>>] = mark[<<p, o>>]
         \/ /\ pc[p] = "reverify" /\ o = Order[at[p]] /\ Holds(p, o)
            /\ mark'[<<p, o>>] = "proved" /\ Past(p, o)'
<1>. USE Lists DEF FilesOK, Files, CommandOK, Past, Outputs, Evidence, Order, Count
<1>1. CASE Open(p)
  BY <1>1 DEF Open
<1>2. CASE Inspect(p)
  BY <1>2 DEF Inspect, RequireAbsent
<1>3. CASE Create(p)
  BY <1>3 DEF Create
<1>4. CASE Fill(p)
  BY <1>4 DEF Fill
<1>5. CASE VerifyStaged(p)
  BY <1>5 DEF VerifyStaged
<1>6. CASE SyncStaged(p)
  BY <1>6 DEF SyncStaged
<1>7. CASE Recheck(p)
  BY <1>7 DEF Recheck, RequireAbsent
<1>8. CASE Rename(p)
  BY <1>8 DEF Rename
<1>9. CASE VerifyPublished(p)
  BY <1>9 DEF VerifyPublished
<1>10. CASE SyncPublished(p)
  BY <1>10 DEF SyncPublished
<1>11. CASE Reverify(p)
  BY <1>11 DEF Reverify
<1>12. CASE VerifyWhole(p)
  BY <1>12 DEF VerifyWhole
<1>13. CASE VerifyParent(p)
  BY <1>13 DEF VerifyParent
<1>14. CASE Close(p)
  BY <1>14 DEF Close
<1>15. CASE Fault(p)
  BY <1>15 DEF Fault
<1>16. CASE Kill(p)
  BY <1>16 DEF Kill
<1>. QED
  BY <1>1, <1>2, <1>3, <1>4, <1>5, <1>6, <1>7, <1>8, <1>9, <1>10, <1>11, <1>12, <1>13, <1>14, <1>15, <1>16
  DEF Publish

LEMMA ByteSteps ==
  ASSUME FilesOK, NEW p \in Publishers, Publish(p), NEW o \in Outputs
  PROVE  bytes'[<<p, o>>] = "good" => bytes[<<p, o>>] = "good" \/ <<p, o>> \in flushed'
<1>. USE Lists DEF FilesOK, Files
<1>1. CASE Open(p)
  BY <1>1 DEF Open
<1>2. CASE Inspect(p)
  BY <1>2 DEF Inspect, RequireAbsent
<1>3. CASE Create(p)
  BY <1>3 DEF Create
<1>4. CASE Fill(p)
  BY <1>4 DEF Fill
<1>5. CASE VerifyStaged(p)
  BY <1>5 DEF VerifyStaged
<1>6. CASE SyncStaged(p)
  BY <1>6 DEF SyncStaged
<1>7. CASE Recheck(p)
  BY <1>7 DEF Recheck, RequireAbsent
<1>8. CASE Rename(p)
  BY <1>8 DEF Rename
<1>9. CASE VerifyPublished(p)
  BY <1>9 DEF VerifyPublished
<1>10. CASE SyncPublished(p)
  BY <1>10 DEF SyncPublished
<1>11. CASE Reverify(p)
  BY <1>11 DEF Reverify
<1>12. CASE VerifyWhole(p)
  BY <1>12 DEF VerifyWhole
<1>13. CASE VerifyParent(p)
  BY <1>13 DEF VerifyParent
<1>14. CASE Close(p)
  BY <1>14 DEF Close
<1>15. CASE Fault(p)
  BY <1>15 DEF Fault
<1>16. CASE Kill(p)
  BY <1>16 DEF Kill
<1>. QED
  BY <1>1, <1>2, <1>3, <1>4, <1>5, <1>6, <1>7, <1>8, <1>9, <1>10, <1>11, <1>12, <1>13, <1>14, <1>15, <1>16
  DEF Publish

LEMMA EvidencePublish ==
  ASSUME TypeOK, EvidenceInv, NEW p \in Publishers, Publish(p)
  PROVE  EvidenceInv'
<1>. USE NothingAssumption, ForeignAssumption
<1>0. CommandOK /\ NamesOK /\ FilesOK
  BY Parts
<1>1. ASSUME NEW q \in Publishers, NEW o \in Outputs, q # p
      PROVE  (ProvedOK(q, o) /\ FlushedOK(q, o) /\ PastOK(q, o) /\ EarlyOK(q, o))'
  <2>1. pc'[q] = pc[q] /\ at'[q] = at[q] /\ bytes'[<<q, o>>] = bytes[<<q, o>>]
        /\ mark'[<<q, o>>] = mark[<<q, o>>] /\ flushed \subseteq flushed'
    BY <1>0, <1>1, OthersKeep, OthersFiles, Kept
  <2>2. final[o] = q => final'[o] = q /\ (disk[o] = q => disk'[o] = q)
    <3>1. final[o] = q => final'[o] = q
      BY <1>0, NameSteps
    <3>. QED
      BY <3>1, Kept
  <2>3. ProvedOK(q, o)' /\ FlushedOK(q, o)'
    BY <2>1, <2>2 DEF EvidenceInv, ProvedOK, FlushedOK, Holds
  <2>4. PastOK(q, o)' /\ EarlyOK(q, o)'
    BY <2>1 DEF EvidenceInv, PastOK, Past, EarlyOK, Running
  <2>. QED
    BY <2>3, <2>4
<1>2. ASSUME NEW o \in Outputs
      PROVE  (ProvedOK(p, o) /\ FlushedOK(p, o) /\ PastOK(p, o) /\ EarlyOK(p, o))'
  <2>1. EarlyOK(p, o)'
    BY <1>0, Moves, MarkSteps DEF EvidenceInv, EarlyOK
  <2>2. PastOK(p, o)'
    BY <1>0, Moves, MarkSteps, <<p, o>> \in Files DEF EvidenceInv, PastOK, FilesOK, Files
  <2>3. FlushedOK(p, o)'
    BY <1>0, ByteSteps, Kept DEF EvidenceInv, FlushedOK
  <2>4. CASE mark'[<<p, o>>] = mark[<<p, o>>]
    <3>1. mark[<<p, o>>] = "proved" => bytes'[<<p, o>>] = bytes[<<p, o>>]
      BY Kept DEF EvidenceInv, EarlyOK, Running, Past, Steps
    <3>2. final[o] = p => final'[o] = p /\ (disk[o] = p => disk'[o] = p)
      <4>1. final[o] = p => final'[o] = p
        BY <1>0, NameSteps
      <4>. QED
        BY <4>1, Kept
    <3>3. ProvedOK(p, o)'
      BY <2>4, <3>1, <3>2, Kept DEF EvidenceInv, ProvedOK, Holds
    <3>. QED
      BY <2>1, <2>2, <2>3, <3>3
  <2>5. CASE pc[p] = "reverify" /\ o = Order[at[p]] /\ Holds(p, o)
    <3>1. final' = final /\ disk' = disk /\ bytes' = bytes /\ flushed \subseteq flushed'
      BY <2>5, Kept
    <3>2. disk[o] = p /\ <<p, o>> \in flushed
      BY <2>5 DEF EvidenceInv, SyncedOK, FlushedOK, Holds
    <3>3. ProvedOK(p, o)'
      BY <2>5, <3>1, <3>2 DEF ProvedOK, Holds
    <3>. QED
      BY <2>1, <2>2, <2>3, <3>3
  <2>. QED
    BY <1>0, <2>4, <2>5, MarkSteps
<1>3. ASSUME NEW q \in Publishers PROVE SyncedOK(q)'
  <2>1. CASE q = p
    BY <2>1, <1>0, Moves DEF SyncedOK, Outputs, Evidence
  <2>2. CASE q # p
    <3>1. pc'[q] = pc[q] /\ at'[q] = at[q] /\ Order[at[q]] \in Outputs
      BY <1>0, <2>2, OthersKeep, Lists DEF CommandOK
    <3>2. \A o \in Outputs : final'[o] = q => final[o] = q
      BY <1>0, <2>2, NameSteps
    <3>3. \A o \in Outputs : final[o] = q /\ disk[o] = q => disk'[o] = q
      BY Kept
    <3>. QED
      BY <3>1, <3>2, <3>3 DEF EvidenceInv, SyncedOK
  <2>. QED
    BY <2>1, <2>2
<1>4. ASSUME NEW q \in Publishers PROVE IsoOK(q)'
  <2>1. \A e \in Evidence : mark[<<q, e>>] # "none" => mark'[<<q, e>>] # "none"
    BY <1>0, MarkSteps, OthersFiles DEF Outputs
  <2>2. CASE final["iso"] = q \/ disk["iso"] = q
    BY <2>1, <2>2 DEF EvidenceInv, IsoOK
  <2>3. CASE final["iso"] # q /\ disk["iso"] # q
    <3>1. "iso" \in Outputs
      BY DEF Outputs
    <3>2. SUFFICES ASSUME final'["iso"] = q \/ disk'["iso"] = q
                   PROVE  \A e \in Evidence : mark[<<q, e>>] # "none"
      BY <2>1 DEF IsoOK
    <3>3. q = p /\ pc[p] = "rename" /\ Order[at[p]] = "iso"
      <4>1. final'["iso"] = q
        BY <2>3, <3>2, Kept
      <4>2. final'["iso"] # final["iso"]
        BY <2>3, <4>1
      <4>. QED
        BY <1>0, <3>1, <4>1, <4>2, NameSteps
    <3>4. at[p] = 3
      BY <1>0, <3>3 DEF CommandOK, Order, Count
    <3>5. Past(p, "manifest") /\ Past(p, "journal")
      BY <3>3, <3>4 DEF Past
    <3>6. PastOK(p, "manifest") /\ PastOK(p, "journal")
      BY DEF EvidenceInv, Evidence, Outputs
    <3>. QED
      BY <3>3, <3>5, <3>6 DEF PastOK, Evidence
  <2>. QED
    BY <2>2, <2>3
<1>5. ASSUME NEW q \in Publishers PROVE OwnOK(q)'
  <2>1. SUFFICES ASSUME pc'[q] \in Early, NEW o \in Outputs PROVE final'[o] # q /\ disk'[o] # q
    BY DEF OwnOK
  <2>2. pc[q] \in Early
    <3>1. CASE q = p
      BY <3>1, <1>0, <2>1, Moves
    <3>2. CASE q # p
      BY <3>2, <1>0, <2>1, OthersKeep
    <3>. QED
      BY <3>1, <3>2
  <2>3. final[o] # q /\ disk[o] # q
    BY <2>2 DEF EvidenceInv, OwnOK
  <2>4. final'[o] # q
    BY <1>0, <2>1, <2>3, NameSteps DEF Early
  <2>. QED
    BY <2>3, <2>4, Kept
<1>. QED
  BY <1>1, <1>2, <1>3, <1>4, <1>5 DEF EvidenceInv

LEMMA EvidenceInterfere ==
  ASSUME TypeOK, EvidenceInv, Interfere
  PROVE  EvidenceInv'
<1>. USE NothingAssumption, ForeignAssumption
     DEF EvidenceInv, ProvedOK, FlushedOK, PastOK, EarlyOK, SyncedOK, IsoOK
<1>0. CommandOK /\ NamesOK /\ FilesOK
  BY Parts
<1>1. CASE PowerLoss
  <2>1. \A o \in Outputs : final'[o] \in {final[o], disk[o]} /\ disk'[o] = final'[o]
    BY <1>1 DEF PowerLoss
  <2>2. \A q \in Publishers : pc'[q] \in {"idle", "dead", "done"}
        /\ (pc'[q] = "idle" => pc[q] = "idle")
    BY <1>1, <1>0 DEF PowerLoss, CommandOK, Stopped
  <2>3. \A x \in Files : x \in flushed => bytes'[x] = bytes[x]
    BY <1>1 DEF PowerLoss
  <2>4. \A x \in Files : bytes'[x] = "good" => bytes[x] = "good"
    BY <1>1 DEF PowerLoss
  <2>5. flushed' = flushed /\ mark' = mark
    BY <1>1 DEF PowerLoss
  <2>6. \A q \in Publishers, o \in Outputs : <<q, o>> \in Files
    BY DEF Files
  <2>7. ASSUME NEW q \in Publishers, NEW o \in Outputs PROVE ProvedOK(q, o)' /\ FlushedOK(q, o)'
    <3>1. <<q, o>> \in Files /\ mark'[<<q, o>>] = mark[<<q, o>>] /\ ProvedOK(q, o) /\ FlushedOK(q, o)
      BY <2>5, <2>6
    <3>2. FlushedOK(q, o)'
      BY <3>1, <2>4, <2>5
    <3>3. ProvedOK(q, o)'
      BY <3>1, <2>1, <2>3, <2>5 DEF Holds
    <3>. QED
      BY <3>2, <3>3
  <2>8. \A q \in Publishers, o \in Outputs : PastOK(q, o)' /\ EarlyOK(q, o)'
    BY <2>2, <2>5 DEF Past, Running, Steps
  <2>9. \A q \in Publishers : SyncedOK(q)'
    BY <2>2
  <2>10. \A q \in Publishers : IsoOK(q)'
    BY <2>1, <2>5 DEF Outputs
  <2>11. \A q \in Publishers : OwnOK(q)'
    BY <2>1, <2>2 DEF OwnOK, Early
  <2>. QED
    BY <2>7, <2>8, <2>9, <2>10, <2>11
<1>2. CASE Move
  BY <1>2 DEF Move, Meddles, Holds, Past, Running, OwnOK
<1>3. ASSUME NEW n \in Outputs, MeddleName(n) PROVE EvidenceInv'
  <2>1. disk' = disk /\ bytes' = bytes /\ flushed' = flushed /\ pc' = pc /\ at' = at
    BY <1>3 DEF MeddleName, Meddles
  <2>2. \A o \in Outputs : o # n => final'[o] = final[o]
    BY <1>0, <1>3 DEF MeddleName, NamesOK
  <2>3. final'[n] \notin Publishers
    BY <1>0, <1>3 DEF MeddleName, NamesOK
  <2>4. \A q \in Publishers, o \in Outputs :
          \/ mark'[<<q, o>>] = mark[<<q, o>>]
          \/ mark[<<q, o>>] = "proved" /\ mark'[<<q, o>>] = "touched"
    <3>1. CASE final[n] \in Publishers
      <4>1. mark' = mark \/ (/\ mark[<<final[n], n>>] = "proved"
                             /\ mark' = [mark EXCEPT ![<<final[n], n>>] = "touched"])
        BY <3>1, <1>3 DEF MeddleName, Touch
      <4>2. \A x \in Files : mark'[x] = mark[x] \/ (mark[x] = "proved" /\ mark'[x] = "touched")
        BY <4>1, <1>0 DEF FilesOK
      <4>. QED
        BY <4>2 DEF Files
    <3>2. CASE final[n] \notin Publishers
      BY <3>2, <1>3 DEF MeddleName
    <3>. QED
      BY <3>1, <3>2
  <2>5. \A q \in Publishers : final[n] = q => mark'[<<q, n>>] # "proved"
    BY <1>0, <1>3 DEF MeddleName, Touch, FilesOK, Files
  <2>6. ASSUME NEW q \in Publishers, NEW o \in Outputs PROVE ProvedOK(q, o)' /\ FlushedOK(q, o)'
    <3>1. ProvedOK(q, o) /\ FlushedOK(q, o)
      OBVIOUS
    <3>2. mark'[<<q, o>>] = "proved" => mark[<<q, o>>] = "proved" /\ (o = n => final[n] # q)
      BY <2>4, <2>5
    <3>. QED
      BY <3>1, <3>2, <2>1, <2>2 DEF Holds
  <2>7. ASSUME NEW q \in Publishers, NEW o \in Outputs PROVE PastOK(q, o)' /\ EarlyOK(q, o)'
    <3>1. PastOK(q, o) /\ EarlyOK(q, o)
      OBVIOUS
    <3>2. (mark'[<<q, o>>] = "none") = (mark[<<q, o>>] = "none")
      BY <2>4
    <3>. QED
      BY <3>1, <3>2, <2>1 DEF Past, Running
  <2>8. \A q \in Publishers : SyncedOK(q)'
    <3>1. ASSUME NEW q \in Publishers PROVE SyncedOK(q)'
      <4>1. Order[at[q]] \in Outputs
        BY <1>0, Lists DEF CommandOK
      <4>. QED
        BY <4>1, <2>1, <2>2, <2>3
    <3>. QED
      BY <3>1
  <2>9. \A q \in Publishers : IsoOK(q)'
    BY <2>1, <2>2, <2>3, <2>4 DEF Outputs
  <2>10. \A q \in Publishers : OwnOK(q)'
    BY <2>1, <2>2, <2>3 DEF OwnOK
  <2>. QED
    BY <2>6, <2>7, <2>8, <2>9, <2>10
<1>4. ASSUME NEW n \in Outputs, NEW p \in Publishers, MeddleStaging(p, n) PROVE EvidenceInv'
  BY <1>4 DEF MeddleStaging, Meddles, Holds, Past, Running, OwnOK
<1>5. ASSUME NEW n \in Outputs, NEW p \in Publishers, Edit(p, n) PROVE EvidenceInv'
  <2>1. final' = final /\ disk' = disk /\ flushed' = flushed /\ pc' = pc /\ at' = at
    BY <1>5 DEF Edit, Meddles
  <2>2. \A q \in Publishers, o \in Outputs :
          \/ bytes'[<<q, o>>] = bytes[<<q, o>>] /\ mark'[<<q, o>>] = mark[<<q, o>>]
          \/ /\ bytes'[<<q, o>>] = "bad" /\ mark'[<<q, o>>] # "proved"
             /\ mark'[<<q, o>>] = mark[<<q, o>>] \/ (mark[<<q, o>>] = "proved" /\ mark'[<<q, o>>] = "touched")
    BY <1>0, <1>5 DEF Edit, Touch, FilesOK, Files
  <2>3. ASSUME NEW q \in Publishers, NEW o \in Outputs PROVE ProvedOK(q, o)' /\ FlushedOK(q, o)'
    <3>1. ProvedOK(q, o) /\ FlushedOK(q, o)
      OBVIOUS
    <3>2. \/ bytes'[<<q, o>>] = bytes[<<q, o>>] /\ mark'[<<q, o>>] = mark[<<q, o>>]
          \/ bytes'[<<q, o>>] = "bad" /\ mark'[<<q, o>>] # "proved"
      BY <2>2
    <3>. QED
      BY <3>1, <3>2, <2>1 DEF Holds
  <2>4. ASSUME NEW q \in Publishers, NEW o \in Outputs PROVE PastOK(q, o)' /\ EarlyOK(q, o)'
    <3>1. PastOK(q, o) /\ EarlyOK(q, o)
      OBVIOUS
    <3>2. (mark'[<<q, o>>] = "none") = (mark[<<q, o>>] = "none")
      BY <2>2
    <3>. QED
      BY <3>1, <3>2, <2>1 DEF Past, Running
  <2>5. \A q \in Publishers : SyncedOK(q)' /\ IsoOK(q)' /\ OwnOK(q)'
    BY <2>1, <2>2 DEF Outputs, OwnOK
  <2>. QED
    BY <2>3, <2>4, <2>5
<1>. QED
  BY <1>1, <1>2, <1>3, <1>4, <1>5 DEF Interfere

LEMMA EvidenceInit == Init => EvidenceInv
BY NothingAssumption DEF Init, EvidenceInv, ProvedOK, FlushedOK, PastOK, Past, EarlyOK, SyncedOK,
   IsoOK, OwnOK, Running, Files, Outputs

LEMMA EvidenceNext == TypeOK /\ EvidenceInv /\ [Next]_vars => EvidenceInv'
<1> SUFFICES ASSUME TypeOK, EvidenceInv, [Next]_vars PROVE EvidenceInv'
  OBVIOUS
<1>1. CASE Next
  BY <1>1, EvidencePublish, EvidenceInterfere DEF Next
<1>2. CASE UNCHANGED vars
  BY <1>2 DEF vars, EvidenceInv, ProvedOK, FlushedOK, PastOK, Past, EarlyOK, Running, SyncedOK, IsoOK,
     OwnOK, Holds
<1>. QED
  BY <1>1, <1>2

(* No crash, power loss or rival publisher leaves an ISO, now or after the   *)
(* next power loss, whose manifest or journal is missing, partial or another *)
(* publisher's: the ISO is renamed last, over evidence proved durable.       *)
THEOREM EvidenceAlwaysWithISO == Spec => []EvidenceWithISO
<1>1. TypeOK /\ EvidenceInv => EvidenceWithISO
  BY DEF EvidenceInv, EvidenceWithISO, IsoOK, ProvedOK, Outputs
<1>. QED
  BY <1>1, TypeInit, TypeNext, EvidenceInit, EvidenceNext, PTL DEF Spec

-----------------------------------------------------------------------------
(* What is answered has stood in place.                                      *)

(* What a running publisher has lost it does not get back.                   *)
TouchedOK(p, o) == mark[<<p, o>>] = "touched" /\ pc[p] \in Steps => ~Holds(p, o)

StandingOK(p) == Standing(p) => p \in stood

Lost(p, o) == mark[<<p, o>>] = "touched"

(* The second pass over the files finds the set as it stood, or finds out.   *)
WholeOK(p) ==
    /\ pc[p] = "whole" /\ at[p] = 2 => p \in stood \/ moved \/ Lost(p, "journal") \/ Lost(p, "iso")
    /\ pc[p] = "whole" /\ at[p] = 3 => p \in stood \/ moved \/ Lost(p, "iso")
    /\ pc[p] = "parent" => p \in stood \/ moved
    /\ pc[p] = "close" => p \in stood

AnsweredOK(p) == answer[p] # "none" <=> pc[p] = "done"

StoodInv ==
    /\ \A p \in Publishers, o \in Outputs : TouchedOK(p, o)
    /\ \A p \in Publishers : StandingOK(p) /\ WholeOK(p) /\ AnsweredOK(p)

LEMMA Ends ==
  ASSUME CommandOK, NEW p \in Publishers, Publish(p)
  PROVE  /\ pc'[p] = "whole" /\ at'[p] = 2 => pc[p] = "whole" /\ at[p] = 1 /\ Holds(p, "manifest")
         /\ pc'[p] = "whole" /\ at'[p] = 3 => pc[p] = "whole" /\ at[p] = 2 /\ Holds(p, "journal")
         /\ pc'[p] = "parent" => pc[p] = "whole" /\ at[p] = 3 /\ Holds(p, "iso")
         /\ pc'[p] = "close" => pc[p] = "parent" /\ ~moved
<1>. USE DEF CommandOK, Order, Count, Steps, Stopped
<1>1. CASE Open(p)
  BY <1>1 DEF Open
<1>2. CASE Inspect(p)
  BY <1>2 DEF Inspect, RequireAbsent
<1>3. CASE Create(p)
  BY <1>3 DEF Create
<1>4. CASE Fill(p)
  BY <1>4 DEF Fill
<1>5. CASE VerifyStaged(p)
  BY <1>5 DEF VerifyStaged
<1>6. CASE SyncStaged(p)
  BY <1>6 DEF SyncStaged
<1>7. CASE Recheck(p)
  BY <1>7 DEF Recheck, RequireAbsent
<1>8. CASE Rename(p)
  BY <1>8 DEF Rename
<1>9. CASE VerifyPublished(p)
  BY <1>9 DEF VerifyPublished
<1>10. CASE SyncPublished(p)
  BY <1>10 DEF SyncPublished
<1>11. CASE Reverify(p)
  BY <1>11 DEF Reverify
<1>12. CASE VerifyWhole(p)
  BY <1>12 DEF VerifyWhole
<1>13. CASE VerifyParent(p)
  BY <1>13 DEF VerifyParent
<1>14. CASE Close(p)
  BY <1>14 DEF Close
<1>15. CASE Fault(p)
  BY <1>15 DEF Fault
<1>16. CASE Kill(p)
  BY <1>16 DEF Kill
<1>. QED
  BY <1>1, <1>2, <1>3, <1>4, <1>5, <1>6, <1>7, <1>8, <1>9, <1>10, <1>11, <1>12, <1>13, <1>14, <1>15, <1>16
  DEF Publish

LEMMA AnswerSteps ==
  ASSUME CommandOK, NEW p \in Publishers, Publish(p)
  PROVE  /\ pc[p] # "done" /\ (answer'[p] # "none" <=> answer[p] # "none" \/ pc'[p] = "done")
         /\ answer'[p] = "published" => answer[p] = "published" \/ pc[p] = "close"
<1>. USE DEF CommandOK, Steps, Stopped
<1>1. CASE Open(p)
  BY <1>1 DEF Open
<1>2. CASE Inspect(p)
  BY <1>2 DEF Inspect, RequireAbsent
<1>3. CASE Create(p)
  BY <1>3 DEF Create
<1>4. CASE Fill(p)
  BY <1>4 DEF Fill
<1>5. CASE VerifyStaged(p)
  BY <1>5 DEF VerifyStaged
<1>6. CASE SyncStaged(p)
  BY <1>6 DEF SyncStaged
<1>7. CASE Recheck(p)
  BY <1>7 DEF Recheck, RequireAbsent
<1>8. CASE Rename(p)
  BY <1>8 DEF Rename
<1>9. CASE VerifyPublished(p)
  BY <1>9 DEF VerifyPublished
<1>10. CASE SyncPublished(p)
  BY <1>10 DEF SyncPublished
<1>11. CASE Reverify(p)
  BY <1>11 DEF Reverify
<1>12. CASE VerifyWhole(p)
  BY <1>12 DEF VerifyWhole
<1>13. CASE VerifyParent(p)
  BY <1>13 DEF VerifyParent
<1>14. CASE Close(p)
  BY <1>14 DEF Close
<1>15. CASE Fault(p)
  BY <1>15 DEF Fault
<1>16. CASE Kill(p)
  BY <1>16 DEF Kill
<1>. QED
  BY <1>1, <1>2, <1>3, <1>4, <1>5, <1>6, <1>7, <1>8, <1>9, <1>10, <1>11, <1>12, <1>13, <1>14, <1>15, <1>16
  DEF Publish

(* The history of what has stood in place, whatever the rest of the step is  *)
LEMMA Stands ==
  ASSUME Next, NEW q \in Publishers
  PROVE  stood \subseteq stood' /\ StandingOK(q)' /\ (q \in stood' => q \in stood \/ Standing(q)')
BY DEF Next, StandingOK

(* After a whole pass nothing but a change by others can be missing.         *)
LEMMA AllProved ==
  ASSUME EvidenceInv, StoodInv, NEW p \in Publishers, pc[p] = "whole", ~moved,
         ~Lost(p, "manifest"), ~Lost(p, "journal"), ~Lost(p, "iso"), FilesOK
  PROVE  p \in stood
<1>1. ASSUME NEW o \in Outputs PROVE Holds(p, o) /\ disk[o] = p
  <2>1. <<p, o>> \in Files /\ mark[<<p, o>>] # "none" /\ mark[<<p, o>>] # "touched"
    BY DEF Files, EvidenceInv, PastOK, Past, Lost, Outputs, Evidence
  <2>. QED
    BY <2>1 DEF FilesOK, EvidenceInv, ProvedOK
<1>. QED
  BY <1>1 DEF Standing, StoodInv, StandingOK

LEMMA StoodPublish ==
  ASSUME TypeOK, EvidenceInv, StoodInv, Next, NEW p \in Publishers, Publish(p)
  PROVE  StoodInv'
<1>. USE NothingAssumption, ForeignAssumption
<1>0. CommandOK /\ NamesOK /\ FilesOK
  BY Parts
<1>1. ASSUME NEW q \in Publishers PROVE StandingOK(q)'
  BY <1>1, Stands
<1>2. ASSUME NEW q \in Publishers PROVE AnsweredOK(q)'
  <2>1. CASE q = p
    BY <2>1, <1>0, AnswerSteps DEF StoodInv, AnsweredOK
  <2>2. CASE q # p
    BY <2>2, <1>0, OthersKeep DEF StoodInv, AnsweredOK
  <2>. QED
    BY <2>1, <2>2
<1>3. ASSUME NEW q \in Publishers, NEW o \in Outputs, q # p PROVE TouchedOK(q, o)'
  <2>1. pc'[q] = pc[q] /\ bytes'[<<q, o>>] = bytes[<<q, o>>] /\ mark'[<<q, o>>] = mark[<<q, o>>]
    BY <1>0, <1>3, OthersKeep, OthersFiles
  <2>2. final'[o] = q => final[o] = q
    BY <1>0, <1>3, NameSteps
  <2>. QED
    BY <2>1, <2>2 DEF StoodInv, TouchedOK, Holds
<1>4. ASSUME NEW o \in Outputs PROVE TouchedOK(p, o)'
  <2>1. SUFFICES ASSUME mark'[<<p, o>>] = "touched", pc'[p] \in Steps PROVE ~Holds(p, o)'
    BY DEF TouchedOK
  <2>2. mark[<<p, o>>] = "touched" /\ Running(p) /\ Past(p, o)
    BY <1>0, <2>1, MarkSteps, Moves DEF Running, EvidenceInv, EarlyOK
  <2>3. pc[p] \in Steps /\ bytes' = bytes
    BY <2>2, Kept DEF Past, Running, Steps
  <2>4. final'[o] = final[o] \/ (pc[p] = "rename" /\ o = Order[at[p]])
    BY <1>0, NameSteps
  <2>5. ~(pc[p] = "rename" /\ o = Order[at[p]])
    BY <1>0, <2>2 DEF Past, CommandOK, Order, Count
  <2>. QED
    BY <2>2, <2>3, <2>4, <2>5 DEF StoodInv, TouchedOK, Holds
<1>5. ASSUME NEW q \in Publishers, q # p PROVE WholeOK(q)'
  <2>1. pc'[q] = pc[q] /\ at'[q] = at[q] /\ moved' = moved /\ stood \subseteq stood'
    BY <1>0, <1>5, OthersKeep, KeptBounds, Stands
  <2>2. \A o \in Outputs : mark'[<<q, o>>] = mark[<<q, o>>]
    BY <1>0, <1>5, OthersFiles
  <2>. QED
    BY <2>1, <2>2 DEF StoodInv, WholeOK, Lost, Outputs, Evidence
<1>6. WholeOK(p)'
  <2>1. moved' = moved /\ stood \subseteq stood'
    BY KeptBounds, Stands
  <2>2. pc[p] = "whole" => mark' = mark
    BY Kept
  <2>3. \A o \in Outputs : pc[p] = "whole" /\ Holds(p, o) => ~Lost(p, o)
    BY DEF StoodInv, TouchedOK, Lost, Steps
  <2>4. pc[p] = "whole" /\ Holds(p, "manifest") => p \in stood \/ moved \/ Lost(p, "journal") \/ Lost(p, "iso")
    BY <1>0, <2>3, AllProved DEF Outputs, Evidence
  <2>5. pc'[p] = "whole" /\ at'[p] = 2 => (p \in stood \/ moved \/ Lost(p, "journal") \/ Lost(p, "iso"))'
    BY <1>0, <2>1, <2>2, <2>4, Ends DEF Lost
  <2>6. pc'[p] = "whole" /\ at'[p] = 3 => (p \in stood \/ moved \/ Lost(p, "iso"))'
    BY <1>0, <2>1, <2>2, <2>3, Ends DEF Lost, StoodInv, WholeOK, Outputs, Evidence
  <2>7. pc'[p] = "parent" => (p \in stood \/ moved)'
    BY <1>0, <2>1, <2>3, Ends DEF Lost, StoodInv, WholeOK, Outputs
  <2>8. pc'[p] = "close" => (p \in stood)'
    BY <1>0, <2>1, Ends DEF StoodInv, WholeOK
  <2>. QED
    BY <2>5, <2>6, <2>7, <2>8 DEF WholeOK
<1>. QED
  BY <1>1, <1>2, <1>3, <1>4, <1>5, <1>6 DEF StoodInv

LEMMA StoodInterfere ==
  ASSUME TypeOK, EvidenceInv, StoodInv, Next, Interfere
  PROVE  StoodInv'
<1>. USE NothingAssumption, ForeignAssumption
<1>0. CommandOK /\ NamesOK /\ FilesOK
  BY Parts
<1>1. ASSUME NEW q \in Publishers PROVE StandingOK(q)' /\ stood \subseteq stood'
  BY <1>1, Stands
<1>2. CASE PowerLoss
  <2>1. \A q \in Publishers : pc'[q] \notin Steps /\ (pc'[q] = "done" <=> pc[q] = "done")
    BY <1>2, <1>0 DEF PowerLoss, CommandOK, Stopped, Steps
  <2>2. answer' = answer
    BY <1>2 DEF PowerLoss
  <2>3. \A q \in Publishers : AnsweredOK(q)' /\ WholeOK(q)'
    BY <2>1, <2>2 DEF StoodInv, AnsweredOK, WholeOK, Steps
  <2>4. \A q \in Publishers, o \in Outputs : TouchedOK(q, o)'
    BY <2>1 DEF TouchedOK
  <2>. QED
    BY <1>1, <2>3, <2>4 DEF StoodInv
<1>3. CASE ~PowerLoss
  <2>0. moved' = moved \/ moved' = TRUE
    BY <1>3 DEF Interfere, Move, MeddleName, MeddleStaging, Edit
  <2>1. pc' = pc /\ at' = at /\ answer' = answer /\ (moved => moved')
    <3>1. pc' = pc /\ at' = at /\ answer' = answer
      BY <1>3 DEF Interfere, Move, MeddleName, MeddleStaging, Edit, Meddles
    <3>. QED
      BY <2>0, <3>1
  <2>2. ASSUME NEW q \in Publishers PROVE AnsweredOK(q)'
    BY <2>1 DEF StoodInv, AnsweredOK
  <2>3. ASSUME NEW q \in Publishers, NEW o \in Outputs
        PROVE  /\ mark[<<q, o>>] = "touched" => mark'[<<q, o>>] = "touched"
               /\ final'[o] = q => final[o] = q
               /\ bytes'[<<q, o>>] = "good" => bytes[<<q, o>>] = "good"
               /\ mark'[<<q, o>>] = "touched" => mark[<<q, o>>] = "touched" \/ ~Holds(q, o)'
    <3>. USE DEF Files
    <3>1. CASE Move
      BY <3>1 DEF Move
    <3>2. ASSUME NEW n \in Outputs, MeddleName(n)
          PROVE  /\ mark[<<q, o>>] = "touched" => mark'[<<q, o>>] = "touched"
                 /\ final'[o] = q => final[o] = q
                 /\ bytes'[<<q, o>>] = "good" => bytes[<<q, o>>] = "good"
                 /\ mark'[<<q, o>>] = "touched" => mark[<<q, o>>] = "touched" \/ ~Holds(q, o)'
      <4>1. bytes' = bytes /\ final'[o] \in {final[o], Nothing, Foreign} /\ final'[n] \notin Publishers
        BY <1>0, <3>2 DEF MeddleName, NamesOK
      <4>2. mark' = mark \/ (/\ final[n] \in Publishers /\ mark[<<final[n], n>>] = "proved"
                             /\ mark' = [mark EXCEPT ![<<final[n], n>>] = "touched"])
        BY <3>2 DEF MeddleName, Touch
      <4>3. \A x \in Files : mark'[x] = mark[x] \/ (mark[x] = "proved" /\ mark'[x] = "touched" /\ x = <<final[n], n>>)
        BY <1>0, <4>2 DEF FilesOK
      <4>4. mark'[<<q, o>>] = mark[<<q, o>>] \/ (mark[<<q, o>>] = "proved" /\ mark'[<<q, o>>] = "touched" /\ o = n)
        BY <4>3
      <4>. QED
        BY <4>1, <4>4 DEF Holds
    <3>3. ASSUME NEW n \in Outputs, NEW p \in Publishers, MeddleStaging(p, n)
          PROVE  final' = final /\ bytes' = bytes /\ mark' = mark
      BY <3>3 DEF MeddleStaging
    <3>4. ASSUME NEW n \in Outputs, NEW p \in Publishers, Edit(p, n)
          PROVE  /\ mark[<<q, o>>] = "touched" => mark'[<<q, o>>] = "touched"
                 /\ final'[o] = q => final[o] = q
                 /\ bytes'[<<q, o>>] = "good" => bytes[<<q, o>>] = "good"
                 /\ mark'[<<q, o>>] = "touched" => mark[<<q, o>>] = "touched" \/ ~Holds(q, o)'
      BY <1>0, <3>4 DEF Edit, Touch, FilesOK, Holds
    <3>. QED
      BY <1>3, <3>1, <3>2, <3>3, <3>4 DEF Interfere
  <2>4. ASSUME NEW q \in Publishers, NEW o \in Outputs PROVE TouchedOK(q, o)'
    <3>1. TouchedOK(q, o)
      BY DEF StoodInv
    <3>. QED
      BY <3>1, <2>1, <2>3 DEF TouchedOK, Holds
  <2>5. ASSUME NEW q \in Publishers PROVE WholeOK(q)'
    <3>1. (Lost(q, "journal") => Lost(q, "journal")') /\ (Lost(q, "iso") => Lost(q, "iso")')
      BY <2>3 DEF Lost, Outputs, Evidence
    <3>. QED
      BY <1>1, <2>1, <3>1 DEF StoodInv, WholeOK
  <2>. QED
    BY <1>1, <2>2, <2>4, <2>5 DEF StoodInv
<1>. QED
  BY <1>2, <1>3

LEMMA StoodInit == Init => StoodInv
BY NothingAssumption DEF Init, StoodInv, TouchedOK, StandingOK, Standing, WholeOK, AnsweredOK,
   Holds, Outputs, Evidence, Files

LEMMA StoodNext == TypeOK /\ EvidenceInv /\ StoodInv /\ [Next]_vars => StoodInv'
<1> SUFFICES ASSUME TypeOK, EvidenceInv, StoodInv, [Next]_vars PROVE StoodInv'
  OBVIOUS
<1>1. CASE Next
  BY <1>1, StoodPublish, StoodInterfere DEF Next
<1>2. CASE UNCHANGED vars
  BY <1>2 DEF vars, StoodInv, TouchedOK, StandingOK, Standing, WholeOK, AnsweredOK, Holds, Lost
<1>. QED
  BY <1>1, <1>2

-----------------------------------------------------------------------------
(* The three renames are one atomic publication.                             *)

(* While others keep away: what a publisher has staged stays as it was.      *)
StagedOK(p, o) ==
    /\ /\ pc[p] \in {"create", "fill", "stage"}
       /\ (o = "iso" /\ at[p] > 1) \/ (o = "manifest" /\ at[p] > 2)
       => bytes[<<p, o>>] = "good"
    /\ pc[p] = "fill" /\ o = Inspected[at[p]] => bytes[<<p, o>>] = "partial"
    /\ pc[p] = "stage" /\ o = Inspected[at[p]] => bytes[<<p, o>>] = "good"
    /\ pc[p] \in {"settle", "recheck", "rename", "verify", "sync", "reverify", "whole",
                 "parent", "close"} => bytes[<<p, o>>] = "good"

NamedOK(o) ==
    /\ disk[o] \in {Nothing, final[o]} /\ final[o] # Foreign
    /\ \A p \in Publishers : final[o] = p => bytes[<<p, o>>] = "good"

CleanOK(p, o) == mark[<<p, o>>] # "touched" /\ slot[<<p, o>>] # "foreign"

QuietInv ==
    meddles = 0 =>
        /\ \A o \in Outputs : NamedOK(o)
        /\ \A p \in Publishers, o \in Outputs : StagedOK(p, o) /\ CleanOK(p, o)
        /\ ~moved /\ \A p \in stood : Standing(p)

LEMMA Positions ==
  ASSUME NEW k \in 1..Count
  PROVE  /\ Inspected[k] \in Outputs /\ (Inspected[k] = "iso" <=> k = 1)
         /\ (Inspected[k] = "manifest" <=> k = 2) /\ (Inspected[k] = "journal" <=> k = 3)
BY DEF Inspected, Count, Outputs, Evidence

LEMMA StagedSteps ==
  ASSUME CommandOK, FilesOK, NEW p \in Publishers, Publish(p), NEW o \in Outputs,
         \A n \in Outputs : StagedOK(p, n)
  PROVE  StagedOK(p, o)'
<1>. USE DEF CommandOK, FilesOK, Files, StagedOK, Steps, Stopped, Count, Inspected, Outputs,
             Evidence
<1>1. CASE Open(p)
  BY <1>1 DEF Open
<1>2. CASE Inspect(p)
  BY <1>2 DEF Inspect, RequireAbsent
<1>3. CASE Create(p)
  <2>1. pc'[p] = "fill" /\ at'[p] = at[p] /\ at[p] \in 1..Count
    BY <1>3 DEF Create
  <2>2. bytes'[<<p, o>>] = IF o = Inspected[at[p]] THEN "partial" ELSE bytes[<<p, o>>]
    BY <1>3 DEF Create
  <2>. QED
    BY <1>3, <2>1, <2>2, Positions DEF Create
<1>4. CASE Fill(p)
  <2>1. CASE pc'[p] = "stage"
    <3>1. at'[p] = at[p] /\ at[p] \in 1..Count /\ pc[p] = "fill" /\ Inspected[at[p]] \in Outputs
      BY <1>4, <2>1, Positions DEF Fill
    <3>2. bytes'[<<p, o>>] = IF o = Inspected[at[p]] THEN "good" ELSE bytes[<<p, o>>]
      <4>1. bytes[<<p, Inspected[at[p]]>>] = "partial"
        BY <3>1
      <4>2. \/ bytes' = [bytes EXCEPT ![<<p, Inspected[at[p]]>>] = "good"]
            \/ bytes' = [bytes EXCEPT ![<<p, Inspected[at[p]]>>] = "bad"] /\ pc'[p] = "done"
        BY <1>4, <4>1 DEF Fill
      <4>. QED
        BY <2>1, <4>2
    <3>. QED
      BY <2>1, <3>1, <3>2, Positions
  <2>2. CASE pc'[p] = "done"
    BY <2>2
  <2>. QED
    BY <1>4, <2>1, <2>2 DEF Fill
<1>5. CASE VerifyStaged(p)
  <2>0. bytes' = bytes /\ at[p] \in 1..Count
    BY <1>5 DEF VerifyStaged
  <2>1. CASE pc'[p] = "create" /\ at[p] < Count /\ at'[p] = at[p] + 1
    BY <1>5, <2>0, <2>1, Positions DEF VerifyStaged
  <2>2. CASE pc'[p] = "settle" /\ at[p] = Count /\ bytes[<<p, Inspected[at[p]]>>] = "good"
    BY <1>5, <2>0, <2>2, Positions DEF VerifyStaged
  <2>3. CASE pc'[p] = "done"
    BY <2>3
  <2>. QED
    BY <1>5, <2>1, <2>2, <2>3 DEF VerifyStaged
<1>6. CASE SyncStaged(p)
  BY <1>6 DEF SyncStaged
<1>7. CASE Recheck(p)
  BY <1>7 DEF Recheck, RequireAbsent
<1>8. CASE Rename(p)
  BY <1>8 DEF Rename
<1>9. CASE VerifyPublished(p)
  BY <1>9 DEF VerifyPublished
<1>10. CASE SyncPublished(p)
  BY <1>10 DEF SyncPublished
<1>11. CASE Reverify(p)
  BY <1>11 DEF Reverify
<1>12. CASE VerifyWhole(p)
  BY <1>12 DEF VerifyWhole
<1>13. CASE VerifyParent(p)
  BY <1>13 DEF VerifyParent
<1>14. CASE Close(p)
  BY <1>14 DEF Close
<1>15. CASE Fault(p)
  BY <1>15 DEF Fault
<1>16. CASE Kill(p)
  BY <1>16 DEF Kill
<1>. QED
  BY <1>1, <1>2, <1>3, <1>4, <1>5, <1>6, <1>7, <1>8, <1>9, <1>10, <1>11, <1>12, <1>13, <1>14, <1>15, <1>16
  DEF Publish

LEMMA SlotSteps ==
  ASSUME FilesOK, NEW p \in Publishers, Publish(p), NEW o \in Outputs
  PROVE  slot'[<<p, o>>] \in {slot[<<p, o>>], "own", "nothing"}
<1>. USE DEF FilesOK, Files
<1>1. CASE Open(p)
  BY <1>1 DEF Open
<1>2. CASE Inspect(p)
  BY <1>2 DEF Inspect, RequireAbsent
<1>3. CASE Create(p)
  BY <1>3 DEF Create
<1>4. CASE Fill(p)
  BY <1>4 DEF Fill
<1>5. CASE VerifyStaged(p)
  BY <1>5 DEF VerifyStaged
<1>6. CASE SyncStaged(p)
  BY <1>6 DEF SyncStaged
<1>7. CASE Recheck(p)
  BY <1>7 DEF Recheck, RequireAbsent
<1>8. CASE Rename(p)
  BY <1>8 DEF Rename
<1>9. CASE VerifyPublished(p)
  BY <1>9 DEF VerifyPublished
<1>10. CASE SyncPublished(p)
  BY <1>10 DEF SyncPublished
<1>11. CASE Reverify(p)
  BY <1>11 DEF Reverify
<1>12. CASE VerifyWhole(p)
  BY <1>12 DEF VerifyWhole
<1>13. CASE VerifyParent(p)
  BY <1>13 DEF VerifyParent
<1>14. CASE Close(p)
  BY <1>14 DEF Close
<1>15. CASE Fault(p)
  BY <1>15 DEF Fault
<1>16. CASE Kill(p)
  BY <1>16 DEF Kill
<1>. QED
  BY <1>1, <1>2, <1>3, <1>4, <1>5, <1>6, <1>7, <1>8, <1>9, <1>10, <1>11, <1>12, <1>13, <1>14, <1>15, <1>16
  DEF Publish

LEMMA QuietPublish ==
  ASSUME TypeOK, EvidenceInv, StoodInv, QuietInv, Next, NEW p \in Publishers, Publish(p)
  PROVE  QuietInv'
<1>. USE NothingAssumption, ForeignAssumption
<1>0. CommandOK /\ NamesOK /\ FilesOK
  BY Parts
<1>1. SUFFICES ASSUME meddles = 0
               PROVE  /\ \A o \in Outputs : NamedOK(o)'
                      /\ \A q \in Publishers, o \in Outputs : StagedOK(q, o)' /\ CleanOK(q, o)'
                      /\ ~moved' /\ \A q \in stood' : Standing(q)'
  BY KeptBounds DEF QuietInv
<1>2. ~moved'
  BY <1>1, KeptBounds DEF QuietInv
<1>3. ASSUME NEW q \in Publishers, NEW o \in Outputs PROVE StagedOK(q, o)'
  <2>1. CASE q = p
    BY <1>0, <1>1, <2>1, StagedSteps DEF QuietInv
  <2>2. CASE q # p
    <3>1. pc'[q] = pc[q] /\ at'[q] = at[q] /\ bytes'[<<q, o>>] = bytes[<<q, o>>]
      BY <1>0, <2>2, OthersKeep, OthersFiles
    <3>. QED
      BY <1>1, <3>1 DEF QuietInv, StagedOK
  <2>. QED
    BY <2>1, <2>2
<1>4. ASSUME NEW q \in Publishers, NEW o \in Outputs PROVE CleanOK(q, o)'
  <2>1. CASE q = p
    BY <1>0, <1>1, <2>1, SlotSteps, MarkSteps DEF QuietInv, CleanOK
  <2>2. CASE q # p
    BY <1>0, <1>1, <2>2, OthersFiles DEF QuietInv, CleanOK
  <2>. QED
    BY <2>1, <2>2
<1>5. ASSUME NEW q \in Publishers, NEW o \in Outputs, final[o] = q
      PROVE  final'[o] = q /\ bytes'[<<q, o>>] = "good"
  <2>1. final'[o] = q
    BY <1>0, <1>5, NameSteps
  <2>2. bytes[<<q, o>>] = "good"
    BY <1>1, <1>5 DEF QuietInv, NamedOK
  <2>3. bytes'[<<q, o>>] = bytes[<<q, o>>]
    <3>1. CASE q = p
      BY <3>1, <1>5, Kept DEF EvidenceInv, OwnOK, Early
    <3>2. CASE q # p
      BY <3>2, <1>0, OthersFiles
    <3>. QED
      BY <3>1, <3>2
  <2>. QED
    BY <2>1, <2>2, <2>3
<1>6. ASSUME NEW o \in Outputs PROVE NamedOK(o)'
  <2>0. NamedOK(o) /\ CleanOK(p, o) /\ StagedOK(p, o)
    BY <1>1 DEF QuietInv
  <2>1. CASE final'[o] = final[o]
    <3>1. disk'[o] \in {Nothing, final'[o]} /\ final'[o] # Foreign
      BY <2>0, <2>1, Kept DEF NamedOK
    <3>. QED
      BY <2>1, <3>1, <1>5 DEF NamedOK
  <2>2. CASE final'[o] # final[o]
    <3>1. final[o] = Nothing /\ final'[o] = p /\ disk' = disk /\ pc[p] = "rename"
      BY <1>0, <2>0, <2>2, NameSteps DEF CleanOK
    <3>2. bytes'[<<p, o>>] = "good"
      BY <2>0, <3>1, Kept DEF StagedOK
    <3>. QED
      BY <2>0, <3>1, <3>2 DEF NamedOK
  <2>. QED
    BY <2>1, <2>2
<1>7. ASSUME NEW q \in stood' PROVE Standing(q)'
  <2>0. q \in Publishers
    BY TypeNext DEF TypeOK
  <2>1. CASE q \in stood
    <3>1. ASSUME NEW o \in Outputs PROVE Holds(q, o)' /\ disk'[o] = q
      <4>1. final[o] = q /\ disk[o] = q
        BY <1>1, <2>1 DEF QuietInv, Standing, Holds
      <4>. QED
        BY <4>1, <1>5, <2>0, Kept DEF Holds
    <3>. QED
      BY <1>2, <3>1 DEF Standing
  <2>2. CASE q \notin stood
    BY <2>0, <2>2, Stands
  <2>. QED
    BY <2>1, <2>2
<1>. QED
  BY <1>2, <1>3, <1>4, <1>6, <1>7

LEMMA QuietPowerLoss ==
  ASSUME TypeOK, EvidenceInv, StoodInv, QuietInv, Next, PowerLoss
  PROVE  QuietInv'
<1>. USE NothingAssumption, ForeignAssumption
<1>0. CommandOK /\ NamesOK /\ FilesOK
  BY Parts
<1>1. SUFFICES ASSUME meddles = 0
               PROVE  /\ \A o \in Outputs : NamedOK(o)'
                      /\ \A q \in Publishers, o \in Outputs : StagedOK(q, o)' /\ CleanOK(q, o)'
                      /\ ~moved' /\ \A q \in stood' : Standing(q)'
  BY DEF QuietInv, PowerLoss
<1>2. ~moved' /\ mark' = mark /\ slot' = slot /\ moved' = moved
  BY <1>1 DEF QuietInv, PowerLoss
<1>3. \A o \in Outputs : final'[o] \in {final[o], disk[o]} /\ disk'[o] = final'[o]
  BY DEF PowerLoss
<1>4. \A q \in Publishers, o \in Outputs : <<q, o>> \in flushed => bytes'[<<q, o>>] = bytes[<<q, o>>]
  BY DEF PowerLoss, Files
<1>5. \A q \in Publishers : pc'[q] \in Stopped
  BY <1>0 DEF PowerLoss, CommandOK, Stopped, Steps
<1>6. ASSUME NEW q \in Publishers, NEW o \in Outputs, bytes[<<q, o>>] = "good"
      PROVE  bytes'[<<q, o>>] = "good"
  BY <1>4, <1>6 DEF EvidenceInv, FlushedOK
<1>7. ASSUME NEW o \in Outputs PROVE NamedOK(o)'
  <2>1. NamedOK(o)
    BY <1>1 DEF QuietInv
  <2>2. final'[o] \in {final[o], Nothing}
    BY <2>1, <1>3 DEF NamedOK
  <2>. QED
    BY <2>1, <2>2, <1>3, <1>6 DEF NamedOK
<1>8. ASSUME NEW q \in stood' PROVE Standing(q)'
  <2>0. q \in Publishers
    BY TypeNext DEF TypeOK
  <2>1. CASE q \in stood
    <3>1. ASSUME NEW o \in Outputs PROVE Holds(q, o)' /\ disk'[o] = q
      <4>1. final[o] = q /\ disk[o] = q /\ bytes[<<q, o>>] = "good"
        BY <1>1, <2>1 DEF QuietInv, Standing, Holds
      <4>. QED
        BY <4>1, <1>3, <1>6, <2>0 DEF Holds
    <3>. QED
      BY <1>2, <3>1 DEF Standing
  <2>2. CASE q \notin stood
    BY <2>0, <2>2, Stands
  <2>. QED
    BY <2>1, <2>2
<1>9. \A q \in Publishers, o \in Outputs : StagedOK(q, o)'
  BY <1>5 DEF StagedOK, Stopped
<1>10. \A q \in Publishers, o \in Outputs : CleanOK(q, o)'
  BY <1>1, <1>2 DEF QuietInv, CleanOK
<1>. QED
  BY <1>2, <1>7, <1>8, <1>9, <1>10

LEMMA Meddled == TypeOK /\ Interfere => PowerLoss \/ meddles' > 0
<1>1. Interfere => PowerLoss \/ meddles' = meddles + 1
  BY DEF Interfere, Move, MeddleName, MeddleStaging, Edit, Meddles
<1>2. TypeOK => meddles \in Nat
  BY DEF TypeOK
<1>. QED
  BY <1>1, <1>2

LEMMA QuietInit == Init => QuietInv
BY NothingAssumption, ForeignAssumption
   DEF Init, QuietInv, NamedOK, StagedOK, CleanOK, Files, Outputs

LEMMA QuietNext == TypeOK /\ EvidenceInv /\ StoodInv /\ QuietInv /\ [Next]_vars => QuietInv'
<1> SUFFICES ASSUME TypeOK, EvidenceInv, StoodInv, QuietInv, [Next]_vars PROVE QuietInv'
  OBVIOUS
<1>1. CASE Next
  <2>1. ASSUME NEW p \in Publishers, Publish(p) PROVE QuietInv'
    BY <1>1, <2>1, QuietPublish
  <2>2. CASE Interfere
    <3>1. CASE PowerLoss
      BY <1>1, <3>1, QuietPowerLoss
    <3>2. CASE meddles' > 0
      BY <3>2 DEF QuietInv
    <3>. QED
      BY <2>2, <3>1, <3>2, Meddled
  <2>. QED
    BY <1>1, <2>1, <2>2 DEF Next
<1>2. CASE UNCHANGED vars
  BY <1>2 DEF vars, QuietInv, NamedOK, StagedOK, CleanOK, Standing, Holds
<1>. QED
  BY <1>1, <1>2

(* An answer is given in a step that leaves the outputs as they are.         *)
LEMMA AnswerKeeps ==
  ASSUME CommandOK, FilesOK, NEW p \in Publishers, Publish(p), NEW o \in Outputs
  PROVE  answer' # answer =>
           /\ final' = final /\ disk' = disk /\ answer[p] \in {"none", "published", "failed"}
           /\ answer' = [answer EXCEPT ![p] = answer'[p]] /\ answer'[p] \in {"published", "failed"}
           /\ bytes'[<<p, o>>] # bytes[<<p, o>>] => pc[p] = "fill"
<1>. USE DEF CommandOK, FilesOK, Files
<1>1. CASE Open(p)
  BY <1>1 DEF Open
<1>2. CASE Inspect(p)
  BY <1>2 DEF Inspect, RequireAbsent
<1>3. CASE Create(p)
  BY <1>3 DEF Create
<1>4. CASE Fill(p)
  BY <1>4 DEF Fill
<1>5. CASE VerifyStaged(p)
  BY <1>5 DEF VerifyStaged
<1>6. CASE SyncStaged(p)
  BY <1>6 DEF SyncStaged
<1>7. CASE Recheck(p)
  BY <1>7 DEF Recheck, RequireAbsent
<1>8. CASE Rename(p)
  BY <1>8 DEF Rename
<1>9. CASE VerifyPublished(p)
  BY <1>9 DEF VerifyPublished
<1>10. CASE SyncPublished(p)
  BY <1>10 DEF SyncPublished
<1>11. CASE Reverify(p)
  BY <1>11 DEF Reverify
<1>12. CASE VerifyWhole(p)
  BY <1>12 DEF VerifyWhole
<1>13. CASE VerifyParent(p)
  BY <1>13 DEF VerifyParent
<1>14. CASE Close(p)
  BY <1>14 DEF Close
<1>15. CASE Fault(p)
  BY <1>15 DEF Fault
<1>16. CASE Kill(p)
  BY <1>16 DEF Kill
<1>. QED
  BY <1>1, <1>2, <1>3, <1>4, <1>5, <1>6, <1>7, <1>8, <1>9, <1>10, <1>11, <1>12, <1>13, <1>14, <1>15, <1>16
  DEF Publish

(* With others kept away, the ISO is the commit marker.                      *)
PlaceOK == meddles = 0 => Place = final["iso"]

LEMMA QuietPlace ==
  ASSUME EvidenceInv, QuietInv, FilesOK, NamesOK
  PROVE  PlaceOK
<1>. SUFFICES ASSUME meddles = 0 PROVE Place = final["iso"]
  BY DEF PlaceOK
<1>0. "iso" \in Outputs /\ Evidence \subseteq Outputs
  BY DEF Outputs
<1>1. final["iso"] = Nothing \/ final["iso"] \in Publishers
  BY <1>0 DEF QuietInv, NamedOK, NamesOK
<1>2. CASE final["iso"] \in Publishers
  <2>. DEFINE p == final["iso"]
  <2>1. ASSUME NEW e \in Evidence PROVE Holds(p, e)
    <3>1. mark[<<p, e>>] # "none"
      BY <1>2 DEF EvidenceInv, IsoOK
    <3>2. mark[<<p, e>>] = "proved"
      BY <1>0, <1>2, <3>1 DEF QuietInv, CleanOK, FilesOK, Files
    <3>. QED
      BY <1>0, <1>2, <3>2 DEF EvidenceInv, ProvedOK
  <2>2. Holds(p, "iso")
    BY <1>0, <1>2 DEF QuietInv, NamedOK, Holds
  <2>3. \A o \in Outputs : Holds(p, o)
    BY <2>1, <2>2 DEF Outputs
  <2>. QED
    BY <1>2, <2>3, NothingAssumption DEF Place
<1>. QED
  BY <1>1, <1>2 DEF Place

(* Whatever a step does, what newly stands in place is what is there.        *)
LEMMA NewlyStood ==
  ASSUME TypeOK, StoodInv, Next
  PROVE  stood' = stood \/ (Place' \in Publishers /\ Standing(Place)' /\ stood' = stood \cup {Place'})
<1>0. stood \subseteq Publishers /\ stood' = stood \cup {q \in Publishers : Standing(q)'}
  BY DEF TypeOK, Next
<1>1. ASSUME NEW q \in Publishers, Standing(q)' PROVE Place' = q
  <2>1. "iso" \in Outputs
    BY DEF Outputs
  <2>2. final'["iso"] = q /\ \A o \in Outputs : Holds(q, o)'
    BY <1>1, <2>1 DEF Standing, Holds
  <2>. QED
    BY <2>2, NothingAssumption DEF Place
<1>. QED
  BY <1>0, <1>1

AtomicInv == TypeOK /\ EvidenceInv /\ StoodInv /\ QuietInv /\ PlaceOK

(* A step of a publisher that answers                                        *)
LEMMA AnswerStep ==
  ASSUME AtomicInv, Next, NEW p \in Publishers, Publish(p), answer' # answer
  PROVE  Atomic!Answer(p)
<1>. USE DEF AtomicInv
<1>0. CommandOK /\ NamesOK /\ FilesOK /\ "iso" \in Outputs
  BY Parts DEF Outputs
<1>1. final' = final /\ disk' = disk /\ moved' = moved /\ meddles' = meddles
  BY <1>0, AnswerKeeps, KeptBounds
<1>2. ASSUME NEW q \in Publishers, NEW o \in Outputs PROVE Holds(q, o)' <=> Holds(q, o)
  <2>1. CASE q # p
    BY <1>0, <1>1, <2>1, OthersFiles DEF Holds
  <2>2. CASE q = p /\ bytes'[<<p, o>>] = bytes[<<p, o>>]
    BY <1>1, <2>2 DEF Holds
  <2>3. CASE q = p /\ pc[p] = "fill"
    <3>1. final[o] # p
      BY <2>3 DEF EvidenceInv, OwnOK, Early
    <3>. QED
      BY <1>1, <2>3, <3>1 DEF Holds
  <2>. QED
    BY <1>0, <2>1, <2>2, <2>3, AnswerKeeps
<1>3. Place' = Place
  BY <1>1, <1>2 DEF Place
<1>4. stood' = stood
  <2>1. \A q \in Publishers : Standing(q)' => Standing(q)
    BY <1>1, <1>2 DEF Standing
  <2>2. \A q \in Publishers : Standing(q)' => q \in stood
    BY <2>1 DEF StoodInv, StandingOK
  <2>. QED
    BY <2>2 DEF Next
<1>5. answer[p] = "none"
  <2>1. pc[p] # "done"
    BY <1>0, AnswerSteps
  <2>. QED
    BY <2>1 DEF StoodInv, AnsweredOK
<1>6. answer' = [answer EXCEPT ![p] = answer'[p]] /\ answer'[p] \in {"published", "failed"}
  BY <1>0, AnswerKeeps
<1>7. answer'[p] = "published" => p \in stood
  BY <1>0, <1>5, AnswerSteps DEF StoodInv, WholeOK
<1>. QED
  BY <1>1, <1>3, <1>4, <1>5, <1>6, <1>7 DEF Atomic!Answer

LEMMA SettleOrStutter ==
  ASSUME AtomicInv, Next, Place' = Place, answer' = answer, (meddles' > 0) = (meddles > 0)
  PROVE  (\E q \in Publishers : Atomic!Settle(q)) \/ UNCHANGED Atomic!vars
<1>1. CASE stood' = stood
  BY <1>1 DEF Atomic!vars
<1>2. CASE Place' \in Publishers /\ stood' = stood \cup {Place'}
  BY <1>2 DEF Atomic!Settle
<1>. QED
  BY <1>1, <1>2, NewlyStood DEF AtomicInv

LEMMA AtomicStep == AtomicInv /\ AtomicInv' /\ [Next]_vars => [Atomic!Next]_Atomic!vars
<1> SUFFICES ASSUME AtomicInv, AtomicInv', [Next]_vars
             PROVE  Atomic!Next \/ UNCHANGED Atomic!vars
  OBVIOUS
<1>. USE NothingAssumption, ForeignAssumption
<1>0. CommandOK /\ NamesOK /\ FilesOK /\ "iso" \in Outputs /\ meddles \in Nat
  BY Parts DEF Outputs, AtomicInv, TypeOK
<1>1. CASE UNCHANGED vars
  <2>1. Place' = Place
    BY <1>1 DEF vars, Place, Holds
  <2>. QED
    BY <1>1, <2>1 DEF vars, Atomic!vars
<1>2. CASE Next /\ answer' # answer
  <2>1. PICK p \in Publishers : Publish(p)
    BY <1>2 DEF Next, Interfere, PowerLoss, Move, MeddleName, MeddleStaging, Edit, Meddles
  <2>. QED
    BY <1>2, <2>1, AnswerStep DEF Atomic!Next
<1>3. CASE Next /\ answer' = answer /\ meddles' > 0
  <2>1. Place' \in Publishers \cup {Nothing, Foreign}
    BY DEF Place, AtomicInv, TypeOK
  <2>2. stood' \in {stood, stood \cup ({Place'} \cap Publishers)}
    BY <1>3, NewlyStood DEF AtomicInv
  <2>3. Atomic!Disturb
    BY <1>3, <2>1, <2>2 DEF Atomic!Disturb
  <2>. QED
    BY <2>3 DEF Atomic!Next
<1>4. CASE Next /\ answer' = answer /\ ~(meddles' > 0) /\ PowerLoss
  <2>1. meddles' = meddles /\ meddles = 0
    BY <1>0, <1>4 DEF PowerLoss
  <2>2. Place = final["iso"] /\ Place' = final'["iso"]
    BY <2>1 DEF AtomicInv, PlaceOK
  <2>3. final["iso"] # Foreign /\ disk["iso"] \in {Nothing, final["iso"]}
    BY <1>0, <2>1 DEF AtomicInv, QuietInv, NamedOK
  <2>4. final'["iso"] \in {final["iso"], disk["iso"]}
    BY <1>0, <1>4 DEF PowerLoss
  <2>5. CASE Place' = Place
    BY <1>4, <2>1, <2>5, SettleOrStutter DEF Atomic!Next
  <2>6. CASE Place' # Place
    <3>1. Place \in Publishers /\ Place' = Nothing /\ disk["iso"] = Nothing
      BY <1>0, <2>2, <2>3, <2>4, <2>6 DEF NamesOK
    <3>2. Place \notin stood
      BY <1>0, <2>1, <3>1 DEF AtomicInv, QuietInv, Standing
    <3>3. stood' = stood
      BY <1>4, <3>1, NewlyStood DEF AtomicInv
    <3>4. Atomic!Lose(Place)
      BY <1>4, <2>1, <3>1, <3>2, <3>3 DEF Atomic!Lose
    <3>. QED
      BY <3>1, <3>4 DEF Atomic!Next
  <2>. QED
    BY <2>5, <2>6
<1>5. ASSUME Next, answer' = answer, ~(meddles' > 0), NEW p \in Publishers, Publish(p)
      PROVE  Atomic!Next \/ UNCHANGED Atomic!vars
  <2>1. meddles' = meddles /\ meddles = 0
    BY <1>0, <1>5, KeptBounds
  <2>2. Place = final["iso"] /\ Place' = final'["iso"]
    BY <2>1 DEF AtomicInv, PlaceOK
  <2>3. CASE Place' = Place
    BY <1>5, <2>1, <2>3, SettleOrStutter DEF Atomic!Next
  <2>4. CASE Place' # Place
    <3>1. slot[<<p, "iso">>] # "foreign" /\ disk["iso"] \in {Nothing, final["iso"]}
      BY <1>0, <2>1 DEF AtomicInv, QuietInv, CleanOK, NamedOK
    <3>2. Place = Nothing /\ Place' = p /\ disk' = disk /\ pc[p] = "rename"
      BY <1>0, <1>5, <2>2, <2>4, <3>1, NameSteps
    <3>3. answer[p] = "none"
      BY <3>2 DEF AtomicInv, StoodInv, AnsweredOK
    <3>4. ~Standing(p)'
      BY <1>0, <2>2, <3>1, <3>2 DEF Standing
    <3>5. stood' = stood
      BY <1>5, <3>2, <3>4, NewlyStood DEF AtomicInv
    <3>6. Atomic!Commit(p)
      BY <1>5, <2>1, <3>2, <3>3, <3>5 DEF Atomic!Commit
    <3>. QED
      BY <3>6 DEF Atomic!Next
  <2>. QED
    BY <2>3, <2>4
<1>6. CASE Next
  <2>1. CASE Interfere
    BY <1>0, <1>2, <1>3, <1>4, <1>6, <2>1, Meddled DEF AtomicInv
  <2>2. ASSUME NEW p \in Publishers, Publish(p) PROVE Atomic!Next \/ UNCHANGED Atomic!vars
    BY <1>2, <1>3, <1>5, <1>6, <2>2
  <2>. QED
    BY <1>6, <2>1, <2>2 DEF Next
<1>. QED
  BY <1>1, <1>6

LEMMA AtomicInit == Init => Atomic!Init
BY NothingAssumption DEF Init, Atomic!Init, Place, Outputs

(* The publication of the three files is one atomic publication: with others *)
(* kept away the place goes from nothing to the whole set of one publisher,  *)
(* and back only when power is lost before it was durable; and "published"   *)
(* is answered only by a publisher whose whole set has durably stood there.  *)
THEOREM RefinesAtomicPublication == Spec => AtomicImage
<1>1. TypeOK /\ EvidenceInv /\ QuietInv => PlaceOK
  BY Parts, QuietPlace
<1>2. Spec => [](TypeOK /\ EvidenceInv /\ StoodInv /\ QuietInv)
  BY TypeInit, EvidenceInit, StoodInit, QuietInit, TypeNext, EvidenceNext, StoodNext, QuietNext, PTL
     DEF Spec
<1>3. Spec => []AtomicInv
  BY <1>1, <1>2, PTL DEF AtomicInv
<1>. QED
  BY <1>3, AtomicInit, AtomicStep, PTL DEF Spec, AtomicImage, Atomic!Spec

-----------------------------------------------------------------------------
(* A refusal without error, interference or power loss has a rival's claim   *)
(* for its cause.                                                            *)

(* What the publisher has staged and not yet given its final name            *)
Ahead(p, o) ==
    \/ pc[p] \in {"settle", "recheck"}
    \/ pc[p] = "rename" /\ ~Past(p, o)
    \/ pc[p] \in {"verify", "sync", "reverify"} /\ ~Past(p, o) /\ o # Order[at[p]]

SlotOK(p, o) ==
    /\ /\ pc[p] \in {"create", "fill", "stage"}
       /\ (o = "iso" /\ at[p] > 1) \/ (o = "manifest" /\ at[p] > 2)
       => slot[<<p, o>>] = "own"
    /\ pc[p] \in {"fill", "stage"} /\ o = Inspected[at[p]] => slot[<<p, o>>] = "own"
    /\ Ahead(p, o) => slot[<<p, o>>] = "own"
    /\ pc[p] = "verify" /\ o = Order[at[p]] => slot[<<p, o>>] = "nothing"

ClaimOK(p, o) ==
    /\ Ahead(p, o) => final[o] # p
    /\ pc[p] \in {"verify", "sync", "reverify"} /\ o = Order[at[p]] => final[o] = p

(* Whoever has the journal's name has claimed the manifest's before.         *)
JournalOK(p) == final["journal"] = p => mark[<<p, "manifest">>] # "none"

RefusedOK(p) == answer[p] = "failed" /\ p \notin faulted => final["manifest"] \in Publishers \ {p}

CauseInv ==
    meddles = 0 /\ losses = 0 =>
        /\ \A p \in Publishers, o \in Outputs : SlotOK(p, o) /\ ClaimOK(p, o)
        /\ \A p \in Publishers : JournalOK(p) /\ RefusedOK(p)

LEMMA OrderPositions ==
  ASSUME NEW k \in 1..Count
  PROVE  /\ Order[k] \in Outputs /\ (Order[k] = "manifest" <=> k = 1)
         /\ (Order[k] = "journal" <=> k = 2) /\ (Order[k] = "iso" <=> k = 3)
BY DEF Order, Count, Outputs, Evidence

LEMMA SlotPublish ==
  ASSUME CommandOK, FilesOK, NEW p \in Publishers, Publish(p), NEW o \in Outputs,
         \A n \in Outputs : SlotOK(p, n) /\ slot[<<p, n>>] # "foreign"
  PROVE  SlotOK(p, o)'
<1>0. at[p] \in 1..Count /\ Order[at[p]] \in Outputs /\ Inspected[at[p]] \in Outputs /\ <<p, o>> \in Files
  BY Lists DEF CommandOK, Files
<1>. USE <1>0, OrderPositions, Positions DEF CommandOK, FilesOK, Files, SlotOK, Ahead, Past, Steps, Stopped, Count, Outputs,
             Evidence
<1>1. CASE Open(p)
  BY <1>1 DEF Open
<1>2. CASE Inspect(p)
  BY <1>2 DEF Inspect, RequireAbsent
<1>3. CASE Create(p)
  <2>1. pc'[p] = "fill" /\ at'[p] = at[p] /\ pc[p] = "create"
    BY <1>3 DEF Create
  <2>2. slot'[<<p, o>>] = IF o = Inspected[at[p]] THEN "own" ELSE slot[<<p, o>>]
    BY <1>3 DEF Create
  <2>3. SlotOK(p, o)
    OBVIOUS
  <2>. QED
    BY <2>1, <2>2, <2>3
<1>4. CASE Fill(p)
  BY <1>4 DEF Fill
<1>5. CASE VerifyStaged(p)
  BY <1>5 DEF VerifyStaged
<1>6. CASE SyncStaged(p)
  BY <1>6 DEF SyncStaged
<1>7. CASE Recheck(p)
  <2>1. pc'[p] \in {"recheck", "rename", "done"} /\ slot' = slot /\ pc[p] = "recheck"
    BY <1>7 DEF Recheck, RequireAbsent
  <2>2. slot[<<p, o>>] = "own"
    BY <2>1
  <2>. QED
    BY <2>1, <2>2
<1>8. CASE Rename(p)
  <2>1. CASE pc'[p] = "verify"
    <3>1. at'[p] = at[p] /\ pc[p] = "rename" /\ slot' = [slot EXCEPT ![<<p, Order[at[p]]>>] = "nothing"]
      BY <1>8, <2>1 DEF Rename
    <3>2. slot'[<<p, o>>] = IF o = Order[at[p]] THEN "nothing" ELSE slot[<<p, o>>]
      BY <3>1
    <3>3. SlotOK(p, o)
      OBVIOUS
    <3>. QED
      BY <2>1, <3>1, <3>2, <3>3
  <2>2. CASE pc'[p] = "done"
    BY <2>2
  <2>. QED
    BY <1>8, <2>1, <2>2 DEF Rename
<1>9. CASE VerifyPublished(p)
  BY <1>9 DEF VerifyPublished
<1>10. CASE SyncPublished(p)
  BY <1>10 DEF SyncPublished
<1>11. CASE Reverify(p)
  <2>1. slot' = slot /\ pc[p] = "reverify" /\ SlotOK(p, o)
    BY <1>11 DEF Reverify
  <2>2. CASE pc'[p] = "rename" /\ at[p] < Count /\ at'[p] = at[p] + 1
    BY <2>1, <2>2
  <2>3. CASE pc'[p] \in {"whole", "done"}
    BY <2>1, <2>3
  <2>. QED
    BY <1>11, <2>2, <2>3 DEF Reverify
<1>12. CASE VerifyWhole(p)
  BY <1>12 DEF VerifyWhole
<1>13. CASE VerifyParent(p)
  BY <1>13 DEF VerifyParent
<1>14. CASE Close(p)
  BY <1>14 DEF Close
<1>15. CASE Fault(p)
  BY <1>15 DEF Fault
<1>16. CASE Kill(p)
  BY <1>16 DEF Kill
<1>. QED
  BY <1>1, <1>2, <1>3, <1>4, <1>5, <1>6, <1>7, <1>8, <1>9, <1>10, <1>11, <1>12, <1>13, <1>14, <1>15, <1>16
  DEF Publish

LEMMA Refusals ==
  ASSUME CommandOK, NEW p \in Publishers, Publish(p), answer'[p] = "failed", answer[p] = "none"
  PROVE  \/ p \in faulted'
         \/ pc[p] \in {"inspect", "recheck"} /\ final[Inspected[at[p]]] # Nothing
         \/ pc[p] = "stage" /\ (slot[<<p, Inspected[at[p]]>>] # "own" \/ bytes[<<p, Inspected[at[p]]>>] # "good")
         \/ pc[p] = "rename" /\ (final[Order[at[p]]] # Nothing \/ slot[<<p, Order[at[p]]>>] = "nothing")
         \/ pc[p] = "verify" /\ (~Holds(p, Order[at[p]]) \/ slot[<<p, Order[at[p]]>>] # "nothing")
         \/ pc[p] \in {"reverify", "whole"} /\ ~Holds(p, Order[at[p]])
         \/ pc[p] = "parent" /\ moved
<1>. USE DEF CommandOK
<1>1. CASE Open(p)
  BY <1>1 DEF Open
<1>2. CASE Inspect(p)
  BY <1>2 DEF Inspect, RequireAbsent
<1>3. CASE Create(p)
  BY <1>3 DEF Create
<1>4. CASE Fill(p)
  BY <1>4 DEF Fill
<1>5. CASE VerifyStaged(p)
  BY <1>5 DEF VerifyStaged
<1>6. CASE SyncStaged(p)
  BY <1>6 DEF SyncStaged
<1>7. CASE Recheck(p)
  BY <1>7 DEF Recheck, RequireAbsent
<1>8. CASE Rename(p)
  BY <1>8 DEF Rename
<1>9. CASE VerifyPublished(p)
  BY <1>9 DEF VerifyPublished
<1>10. CASE SyncPublished(p)
  BY <1>10 DEF SyncPublished
<1>11. CASE Reverify(p)
  BY <1>11 DEF Reverify
<1>12. CASE VerifyWhole(p)
  BY <1>12 DEF VerifyWhole
<1>13. CASE VerifyParent(p)
  BY <1>13 DEF VerifyParent
<1>14. CASE Close(p)
  BY <1>14 DEF Close
<1>15. CASE Fault(p)
  BY <1>15 DEF Fault
<1>16. CASE Kill(p)
  BY <1>16 DEF Kill
<1>. QED
  BY <1>1, <1>2, <1>3, <1>4, <1>5, <1>6, <1>7, <1>8, <1>9, <1>10, <1>11, <1>12, <1>13, <1>14, <1>15, <1>16
  DEF Publish

LEMMA AheadSteps ==
  ASSUME CommandOK, NamesOK, NEW p \in Publishers, Publish(p), NEW o \in Outputs
  PROVE  /\ Ahead(p, o)' => /\ Ahead(p, o) \/ pc[p] = "stage"
                            /\ ~(pc[p] = "rename" /\ o = Order[at[p]])
         /\ pc'[p] \in {"verify", "sync", "reverify"} =>
              /\ at'[p] = at[p]
              /\ \/ pc[p] \in {"verify", "sync"}
                 \/ pc[p] = "rename" /\ final'[Order[at[p]]] # final[Order[at[p]]]
<1>0. at[p] \in 1..Count /\ Order[at[p]] \in Outputs
  BY Lists DEF CommandOK
<1>. USE <1>0, NothingAssumption, ForeignAssumption, OrderPositions DEF CommandOK, Ahead, Past, Steps, Stopped, Count, Outputs, Evidence
<1>1. CASE Open(p)
  BY <1>1 DEF Open
<1>2. CASE Inspect(p)
  BY <1>2 DEF Inspect, RequireAbsent
<1>3. CASE Create(p)
  BY <1>3 DEF Create
<1>4. CASE Fill(p)
  BY <1>4 DEF Fill
<1>5. CASE VerifyStaged(p)
  BY <1>5 DEF VerifyStaged
<1>6. CASE SyncStaged(p)
  BY <1>6 DEF SyncStaged
<1>7. CASE Recheck(p)
  BY <1>7 DEF Recheck, RequireAbsent
<1>8. CASE Rename(p)
  <2>1. CASE pc'[p] = "done"
    BY <2>1
  <2>2. CASE pc'[p] = "verify"
    <3>1. at'[p] = at[p] /\ pc[p] = "rename" /\ final[Order[at[p]]] = Nothing
      BY <1>8, <2>2 DEF Rename
    <3>2. final'[Order[at[p]]] \in {p, Foreign}
      BY <1>8, <2>2 DEF Rename, NamesOK
    <3>3. final'[Order[at[p]]] # final[Order[at[p]]]
      BY <3>1, <3>2
    <3>4. Ahead(p, o)' => o # Order[at[p]] /\ ~Past(p, o)
      BY <2>2, <3>1
    <3>. QED
      BY <2>2, <3>1, <3>3, <3>4
  <2>. QED
    BY <1>8, <2>1, <2>2 DEF Rename
<1>9. CASE VerifyPublished(p)
  BY <1>9 DEF VerifyPublished
<1>10. CASE SyncPublished(p)
  BY <1>10 DEF SyncPublished
<1>11. CASE Reverify(p)
  BY <1>11 DEF Reverify
<1>12. CASE VerifyWhole(p)
  BY <1>12 DEF VerifyWhole
<1>13. CASE VerifyParent(p)
  BY <1>13 DEF VerifyParent
<1>14. CASE Close(p)
  BY <1>14 DEF Close
<1>15. CASE Fault(p)
  BY <1>15 DEF Fault
<1>16. CASE Kill(p)
  BY <1>16 DEF Kill
<1>. QED
  BY <1>1, <1>2, <1>3, <1>4, <1>5, <1>6, <1>7, <1>8, <1>9, <1>10, <1>11, <1>12, <1>13, <1>14, <1>15, <1>16
  DEF Publish

LEMMA ClaimPublish ==
  ASSUME TypeOK, EvidenceInv, QuietInv, CauseInv, meddles = 0, losses = 0, NEW p \in Publishers, Publish(p)
  PROVE  \A q \in Publishers, o \in Outputs : SlotOK(q, o)' /\ ClaimOK(q, o)'
<1>0. CommandOK /\ NamesOK /\ FilesOK
  BY Parts
<1>1. \A q \in Publishers, o \in Outputs : SlotOK(q, o) /\ ClaimOK(q, o) /\ slot[<<q, o>>] # "foreign"
  BY DEF CauseInv, QuietInv, CleanOK
<1>2. ASSUME NEW q \in Publishers, NEW o \in Outputs, q # p PROVE SlotOK(q, o)' /\ ClaimOK(q, o)'
  <2>1. pc'[q] = pc[q] /\ at'[q] = at[q] /\ slot'[<<q, o>>] = slot[<<q, o>>]
    BY <1>0, <1>2, OthersKeep, OthersFiles
  <2>2. final'[o] = q <=> final[o] = q
    BY <1>0, <1>2, NameSteps, NothingAssumption, ForeignAssumption
  <2>3. SlotOK(q, o)'
    BY <1>1, <2>1 DEF SlotOK, Ahead, Past
  <2>4. ClaimOK(q, o)'
    BY <1>1, <2>1, <2>2 DEF ClaimOK, Ahead, Past
  <2>. QED
    BY <2>3, <2>4
<1>3. ASSUME NEW o \in Outputs PROVE ClaimOK(p, o)'
  <2>1. ASSUME Ahead(p, o)' PROVE final'[o] # p
    <3>1. final'[o] = final[o]
      <4>1. ~(pc[p] = "rename" /\ o = Order[at[p]])
        BY <1>0, <2>1, AheadSteps
      <4>. QED
        BY <1>0, <4>1, NameSteps
    <3>2. CASE Ahead(p, o)
      BY <1>1, <3>1, <3>2 DEF ClaimOK
    <3>3. CASE pc[p] = "stage"
      BY <3>1, <3>3 DEF EvidenceInv, OwnOK, Early
    <3>. QED
      BY <1>0, <2>1, <3>2, <3>3, AheadSteps
  <2>2. ASSUME pc'[p] \in {"verify", "sync", "reverify"}, o = Order[at'[p]] PROVE final'[o] = p
    <3>1. o = Order[at[p]]
      BY <1>0, <2>2, AheadSteps
    <3>2. CASE pc[p] \in {"verify", "sync"}
      BY <1>1, <3>1, <3>2, Kept DEF ClaimOK
    <3>3. CASE final'[o] # final[o]
      <4>1. slot[<<p, o>>] # "foreign"
        BY <1>1
      <4>. QED
        BY <1>0, <3>3, <4>1, NameSteps
    <3>. QED
      BY <1>0, <2>2, <3>1, <3>2, <3>3, AheadSteps
  <2>. QED
    BY <2>1, <2>2 DEF ClaimOK
<1>4. ASSUME NEW o \in Outputs PROVE SlotOK(p, o)'
  BY <1>0, <1>1, SlotPublish
<1>. QED
  BY <1>2, <1>3, <1>4

(* With others kept away, who has any of the names has the manifest's.       *)
LEMMA Claimed ==
  ASSUME TypeOK, EvidenceInv, QuietInv, CauseInv, meddles = 0, losses = 0,
         NEW o \in Outputs, final[o] # Nothing
  PROVE  final[o] \in Publishers /\ final["manifest"] = final[o]
<1>0. NamesOK /\ FilesOK
  BY Parts
<1>1. final[o] \in Publishers
  BY <1>0 DEF QuietInv, NamedOK, NamesOK
<1>2. ASSUME o # "manifest" PROVE final["manifest"] = final[o]
  <2>. DEFINE q == final[o]
  <2>1. mark[<<q, "manifest">>] # "none"
    <3>1. CASE o = "iso"
      BY <1>1, <3>1 DEF EvidenceInv, IsoOK, Evidence
    <3>2. CASE o = "journal"
      BY <1>1, <3>2 DEF CauseInv, JournalOK
    <3>. QED
      BY <1>2, <3>1, <3>2 DEF Outputs, Evidence
  <2>2. "manifest" \in Outputs /\ <<q, "manifest">> \in Files
    BY <1>1 DEF Outputs, Evidence, Files
  <2>3. mark[<<q, "manifest">>] = "proved"
    BY <1>0, <1>1, <2>1, <2>2 DEF QuietInv, CleanOK, FilesOK
  <2>. QED
    BY <1>1, <2>2, <2>3 DEF EvidenceInv, ProvedOK, Holds
<1>. QED
  BY <1>1, <1>2

LEMMA RefusedPublish ==
  ASSUME TypeOK, EvidenceInv, StoodInv, QuietInv, CauseInv, meddles = 0, losses = 0,
         NEW p \in Publishers, Publish(p), p \notin faulted', answer'[p] = "failed"
  PROVE  final["manifest"] \in Publishers \ {p}
<1>0. CommandOK /\ NamesOK /\ FilesOK /\ at[p] \in 1..Count
  BY Parts DEF CommandOK
<1>. DEFINE o == Order[at[p]]
            n == Inspected[at[p]]
<1>1. o \in Outputs /\ n \in Outputs
  BY <1>0, Lists
<1>2. SlotOK(p, o) /\ SlotOK(p, n) /\ ClaimOK(p, o) /\ StagedOK(p, o) /\ StagedOK(p, n) /\ OwnOK(p)
      /\ PastOK(p, o) /\ ProvedOK(p, o) /\ CleanOK(p, o) /\ ~moved
  BY <1>1 DEF QuietInv, CauseInv, EvidenceInv
<1>3. answer[p] = "none"
  BY <1>0, AnswerSteps DEF StoodInv, AnsweredOK
<1>4. ~Past(p, o) \/ pc[p] \in {"whole", "parent", "close"}
  BY <1>0, OrderPositions DEF Past
<1>. HIDE DEF o, n
<1>5. CASE pc[p] \in {"inspect", "recheck"} /\ final[n] # Nothing
  <2>1. final[n] # p
    BY <1>1, <1>2, <1>5 DEF OwnOK, Early
  <2>. QED
    BY <1>1, <1>5, <2>1, Claimed
<1>6. CASE pc[p] = "rename" /\ (final[o] # Nothing \/ slot[<<p, o>>] = "nothing")
  <2>1. Ahead(p, o)
    BY <1>4, <1>6 DEF Ahead
  <2>2. slot[<<p, o>>] = "own" /\ final[o] # p
    BY <1>2, <2>1 DEF SlotOK, ClaimOK
  <2>. QED
    BY <1>1, <1>6, <2>2, Claimed
<1>7. ~(pc[p] = "stage" /\ (slot[<<p, n>>] # "own" \/ bytes[<<p, n>>] # "good"))
  BY <1>2 DEF SlotOK, StagedOK, n
<1>8. ~(pc[p] = "verify" /\ (~Holds(p, o) \/ slot[<<p, o>>] # "nothing"))
  BY <1>2 DEF SlotOK, ClaimOK, StagedOK, Holds, o
<1>9. ~(pc[p] = "reverify" /\ ~Holds(p, o))
  BY <1>2 DEF ClaimOK, StagedOK, Holds, o
<1>10. ~(pc[p] = "whole" /\ ~Holds(p, o))
  <2>1. pc[p] = "whole" => mark[<<p, o>>] \in {"none", "proved", "touched"} /\ mark[<<p, o>>] # "none"
    BY <1>0, <1>1, <1>2 DEF PastOK, Past, FilesOK, Files
  <2>. QED
    BY <1>2, <2>1 DEF CleanOK, ProvedOK
<1>. QED
  BY <1>0, <1>2, <1>3, <1>5, <1>6, <1>7, <1>8, <1>9, <1>10, Refusals DEF o, n

LEMMA FaultedGrows ==
  ASSUME NEW p \in Publishers, Publish(p)
  PROVE  faulted \subseteq faulted'
<1>1. CASE Open(p)
  BY <1>1 DEF Open
<1>2. CASE Inspect(p)
  BY <1>2 DEF Inspect, RequireAbsent
<1>3. CASE Create(p)
  BY <1>3 DEF Create
<1>4. CASE Fill(p)
  BY <1>4 DEF Fill
<1>5. CASE VerifyStaged(p)
  BY <1>5 DEF VerifyStaged
<1>6. CASE SyncStaged(p)
  BY <1>6 DEF SyncStaged
<1>7. CASE Recheck(p)
  BY <1>7 DEF Recheck, RequireAbsent
<1>8. CASE Rename(p)
  BY <1>8 DEF Rename
<1>9. CASE VerifyPublished(p)
  BY <1>9 DEF VerifyPublished
<1>10. CASE SyncPublished(p)
  BY <1>10 DEF SyncPublished
<1>11. CASE Reverify(p)
  BY <1>11 DEF Reverify
<1>12. CASE VerifyWhole(p)
  BY <1>12 DEF VerifyWhole
<1>13. CASE VerifyParent(p)
  BY <1>13 DEF VerifyParent
<1>14. CASE Close(p)
  BY <1>14 DEF Close
<1>15. CASE Fault(p)
  BY <1>15 DEF Fault
<1>16. CASE Kill(p)
  BY <1>16 DEF Kill
<1>. QED
  BY <1>1, <1>2, <1>3, <1>4, <1>5, <1>6, <1>7, <1>8, <1>9, <1>10, <1>11, <1>12, <1>13, <1>14, <1>15, <1>16
  DEF Publish

LEMMA CausePublish ==
  ASSUME TypeOK, EvidenceInv, StoodInv, QuietInv, CauseInv, NEW p \in Publishers, Publish(p)
  PROVE  CauseInv'
<1>0. CommandOK /\ NamesOK /\ FilesOK /\ "manifest" \in Outputs /\ "journal" \in Outputs
  BY Parts DEF Outputs, Evidence
<1>1. SUFFICES ASSUME meddles = 0, losses = 0
               PROVE  /\ \A q \in Publishers, o \in Outputs : SlotOK(q, o)' /\ ClaimOK(q, o)'
                      /\ \A q \in Publishers : JournalOK(q)' /\ RefusedOK(q)'
  BY KeptBounds DEF CauseInv
<1>2. \A q \in Publishers, o \in Outputs : SlotOK(q, o)' /\ ClaimOK(q, o)'
  BY <1>1, ClaimPublish
<1>3. ASSUME NEW q \in Publishers PROVE JournalOK(q)'
  <2>1. SUFFICES ASSUME final'["journal"] = q PROVE mark'[<<q, "manifest">>] # "none"
    BY DEF JournalOK
  <2>2. mark[<<q, "manifest">>] # "none"
    <3>1. CASE final["journal"] = q
      BY <1>1, <3>1 DEF CauseInv, JournalOK
    <3>2. CASE final["journal"] # q
      <4>1. pc[p] = "rename" /\ Order[at[p]] = "journal" /\ q = p
        BY <1>0, <2>1, <3>2, NameSteps, ForeignAssumption
      <4>2. Past(p, "manifest")
        BY <1>0, <4>1, OrderPositions DEF CommandOK, Past
      <4>. QED
        BY <1>0, <4>1, <4>2 DEF EvidenceInv, PastOK
    <3>. QED
      BY <3>1, <3>2
  <2>. QED
    BY <1>0, <2>2, MarkSteps, OthersFiles
<1>4. ASSUME NEW q \in Publishers PROVE RefusedOK(q)'
  <2>1. SUFFICES ASSUME answer'[q] = "failed", q \notin faulted' PROVE final'["manifest"] \in Publishers \ {q}
    BY DEF RefusedOK
  <2>2. final["manifest"] \in Publishers \ {q}
    <3>1. CASE q = p
      BY <1>1, <2>1, <3>1, RefusedPublish
    <3>2. CASE q # p
      BY <1>0, <1>1, <2>1, <3>2, OthersKeep, FaultedGrows DEF CauseInv, RefusedOK
    <3>. QED
      BY <3>1, <3>2
  <2>. QED
    BY <1>0, <2>2, NameSteps, NothingAssumption
<1>. QED
  BY <1>2, <1>3, <1>4

LEMMA CauseInit == Init => CauseInv
BY NothingAssumption DEF Init, CauseInv, SlotOK, ClaimOK, JournalOK, RefusedOK, Ahead, Outputs, Evidence

LEMMA CauseNext ==
  TypeOK /\ EvidenceInv /\ StoodInv /\ QuietInv /\ CauseInv /\ [Next]_vars => CauseInv'
<1> SUFFICES ASSUME TypeOK, EvidenceInv, StoodInv, QuietInv, CauseInv, [Next]_vars PROVE CauseInv'
  OBVIOUS
<1>1. CASE Next
  <2>1. ASSUME NEW p \in Publishers, Publish(p) PROVE CauseInv'
    BY <2>1, CausePublish
  <2>2. CASE Interfere
    <3>1. PowerLoss => losses' # 0
      BY DEF PowerLoss, TypeOK
    <3>2. meddles' > 0 => meddles' # 0
      OBVIOUS
    <3>. QED
      BY <2>2, <3>1, <3>2, Meddled DEF CauseInv
  <2>. QED
    BY <1>1, <2>1, <2>2 DEF Next
<1>2. CASE UNCHANGED vars
  BY <1>2 DEF vars, CauseInv, SlotOK, ClaimOK, JournalOK, RefusedOK, Ahead, Past
<1>. QED
  BY <1>1, <1>2

(* A publisher refuses for a cause: an error of one of its calls, something  *)
(* others did, a power loss, or a rival that has claimed the manifest name.  *)
THEOREM AlwaysRefusedForCause == Spec => []RefusedForCause
<1>1. CauseInv => RefusedForCause
  BY DEF CauseInv, RefusedForCause, RefusedOK
<1>. QED
  BY <1>1, TypeInit, EvidenceInit, StoodInit, QuietInit, CauseInit,
     TypeNext, EvidenceNext, StoodNext, QuietNext, CauseNext, PTL DEF Spec
=============================================================================
