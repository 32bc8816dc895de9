---------------------------- MODULE HandoffStore ----------------------------
(* The private store of Windows hand-offs (internal/handoff): imports of one *)
(* bundle, and purges of its entry.  An import builds the whole entry in a   *)
(* staging directory and renames it to its content address; a purge renames  *)
(* the entry to a name of its own, checks it again and removes it file by    *)
(* file.  Any number of both run at once, any of them may be killed or fail, *)
(* the power may be lost, and others may change an entry.                    *)
(*                                                                           *)
(* All bundles are identical, so what the store has under the address is one *)
(* directory, made by one of the imports or there from the start.  How many  *)
(* of its files a directory has stands for which: they come and go one after *)
(* the other.  Decoding and hashing are one comparison.                      *)
EXTENDS Naturals, FiniteSets

CONSTANTS Importers, Purgers,
          Seed,          \* the directory of an import long ago
          Size,          \* the files of an entry
          MaxCommands, MaxEdits, MaxLosses

ASSUME SeedAssumption == Seed \notin Importers
ASSUME SizeAssumption == Size \in Nat \ {0}
ASSUME PurgersAssumption == Purgers \cap (Importers \cup {"none", "staging", "final"}) = {}
ASSUME BoundsAssumption == MaxCommands \in Nat /\ MaxEdits \in Nat /\ MaxLosses \in Nat

Entries   == Importers \cup {Seed}
Processes == Importers \cup Purgers
Places    == {"none", "staging", "final"} \cup Purgers   \* a purge's own name is the purge

VARIABLES root,               \* the store directory: "none", "new" or "kept"
          place, files,       \* where each directory is, and how many files it has
          diskPlace, diskFiles,   \* the same after a power loss
          changed,            \* directories others have changed
          pc, answer,
          took,               \* the directory each purge has isolated
          early,              \* imports that found a store not yet durable
          late,               \* directories changed after a purge had checked them
          undone,             \* entries a power loss gave back to their name half-removed
          upset,              \* processes that met a fault
          edits, losses

directories == <<root, place, files, diskPlace, diskFiles>>
command     == <<pc, answer, took>>
history     == <<early, late, undone, upset>>
bounds      == <<edits, losses>>
vars        == <<directories, changed, command, history, bounds>>

ImportSteps == {"mkdir", "syncparent", "look", "existing", "fill", "synctree", "check",
                "publish", "sync", "recheck", "cleanup"}
PurgeSteps  == {"isolate", "inspect", "putback", "syncback", "remove", "rmdir",
                "syncgone", "gone"}

Init ==
    /\ root \in {"none", "kept"}
    /\ place \in [Entries -> {"none", "final"}]
    /\ \A i \in Importers : place[i] = "none"
    /\ root = "none" => place[Seed] = "none"
    /\ files = [o \in Entries |-> IF place[o] = "final" THEN Size ELSE 0]
    /\ diskPlace = place /\ diskFiles = files /\ changed = {}
    /\ pc = [x \in Processes |-> "idle"] /\ answer = [x \in Processes |-> "none"]
    /\ took = [p \in Purgers |-> {}]
    /\ early = {} /\ late = {} /\ undone = {} /\ upset = {} /\ edits = 0 /\ losses = 0

-----------------------------------------------------------------------------

Go(x, step) == pc' = [pc EXCEPT ![x] = step] /\ UNCHANGED <<answer, took>>

Stored == {o \in Entries : place[o] = "final"}

(* validateStoredEntry: the closed set, with the bytes the manifest names    *)
Whole(o) == files[o] = Size /\ o \notin changed

Valid == \E o \in Stored : Whole(o)

SyncStore == diskPlace' = place /\ UNCHANGED <<root, place, files, diskFiles>>

(* Every return of an import first removes the staging directory it still has. *)
End(x, result) ==
    /\ answer' = [answer EXCEPT ![x] = result] /\ UNCHANGED took
    /\ pc' = [pc EXCEPT ![x] = IF x \in Importers /\ place[x] = "staging"
                                 THEN "cleanup" ELSE "done"]

(* A command starts, as long as the bound lets one.                          *)
Starts(x) == pc[x] = "idle" /\ Cardinality({y \in Processes : pc[y] # "idle"}) < MaxCommands

Same   == UNCHANGED <<directories, changed, history, bounds>>
Others == UNCHANGED <<changed, history, bounds>>

-----------------------------------------------------------------------------
(* Import                                                                    *)

(* inspectStoreRoot; the source is read and verified before the store is     *)
(* looked at, and may fail to at any moment.                                 *)
BeginImport(i) ==
    /\ Starts(i) /\ Go(i, IF root = "none" THEN "mkdir" ELSE "look")
    /\ early' = IF root = "new" THEN early \cup {i} ELSE early
    /\ UNCHANGED <<directories, changed, late, undone, upset, bounds>>

(* createPrivateStoreRoot accepts a concurrent creator.                      *)
MakeRoot(i) ==
    /\ pc[i] = "mkdir" /\ root' = (IF root = "none" THEN "new" ELSE root)
    /\ Go(i, "syncparent")
    /\ UNCHANGED <<place, files, diskPlace, diskFiles>> /\ Others

SyncParent(i) ==
    /\ pc[i] = "syncparent" /\ root' = "kept" /\ Go(i, "look")
    /\ UNCHANGED <<place, files, diskPlace, diskFiles>> /\ Others

(* An entry that is there already is reused; else a staging directory is made. *)
Look(i) ==
    /\ pc[i] = "look"
    /\ IF Stored # {}
         THEN Go(i, "existing") /\ UNCHANGED place
         ELSE Go(i, "fill") /\ place' = [place EXCEPT ![i] = "staging"]
    /\ UNCHANGED <<root, files, diskPlace, diskFiles>> /\ Others

Existing(i) ==
    /\ pc[i] = "existing" /\ End(i, IF Valid THEN "existing" ELSE "failed")
    /\ Same

(* writePrivateFile and copyVerifiedPayload, one file at a time              *)
Fill(i) ==
    /\ pc[i] = "fill" /\ files' = [files EXCEPT ![i] = @ + 1]
    /\ Go(i, IF files[i] + 1 = Size THEN "synctree" ELSE "fill")
    /\ UNCHANGED <<root, place, diskPlace, diskFiles>> /\ Others

MutantSyncTree(i) ==
    /\ pc[i] = "synctree" /\ Go(i, "check")
    /\ UNCHANGED <<root, place, files, diskPlace, diskFiles>> /\ Others

SyncTree(i) ==
    /\ pc[i] = "synctree" /\ diskFiles' = [diskFiles EXCEPT ![i] = files[i]] /\ Go(i, "check")
    /\ UNCHANGED <<root, place, files, diskPlace>> /\ Others

ValidateStaged(i) ==
    /\ pc[i] = "check" /\ IF Whole(i) THEN Go(i, "publish") ELSE End(i, "failed")
    /\ Same

MutantPublish(i) ==
    /\ pc[i] = "publish"
    /\ IF Stored = {}
         THEN Go(i, "sync") /\ place' = [place EXCEPT ![i] = "final"]
         ELSE End(i, "failed") /\ UNCHANGED place
    /\ UNCHANGED <<root, files, diskPlace, diskFiles>> /\ Others

(* Another import may have been faster: its entry is then the result.        *)
Publish(i) ==
    /\ pc[i] = "publish"
    /\ IF Stored = {}
         THEN Go(i, "sync") /\ place' = [place EXCEPT ![i] = "final"]
         ELSE Go(i, "existing") /\ UNCHANGED place
    /\ UNCHANGED <<root, files, diskPlace, diskFiles>> /\ Others

SyncPublished(i) == pc[i] = "sync" /\ SyncStore /\ Go(i, "recheck") /\ Others

Rehash(i) ==
    /\ pc[i] = "recheck" /\ End(i, IF Valid THEN "imported" ELSE "failed")
    /\ Same

(* os.RemoveAll of the staging directory; its own error is ignored, and may  *)
(* leave any part of it.                                                     *)
RemoveStaging(i) ==
    /\ pc[i] = "cleanup" /\ Go(i, "done")
    /\ \/ /\ place' = [place EXCEPT ![i] = "none"] /\ files' = [files EXCEPT ![i] = 0]
          /\ UNCHANGED upset
       \/ /\ \E n \in 0..files[i] : files' = [files EXCEPT ![i] = n]
          /\ upset' = upset \cup {i} /\ UNCHANGED place
    /\ UNCHANGED <<root, diskPlace, diskFiles, changed, early, late, undone, bounds>>

-----------------------------------------------------------------------------
(* Purge                                                                     *)

PlanPurge(p) == Starts(p) /\ Valid /\ Go(p, "planned") /\ Same

(* A plan names what a valid entry has, not which directory has it.          *)
Confirm(p) ==
    /\ pc[p] = "planned" /\ IF Valid THEN Go(p, "isolate") ELSE End(p, "failed")
    /\ Same

Isolate(p) ==
    /\ pc[p] = "isolate"
    /\ IF Stored = {}
         THEN End(p, "failed") /\ UNCHANGED place
         ELSE /\ place' = [o \in Entries |-> IF o \in Stored THEN p ELSE place[o]]
              /\ took' = [took EXCEPT ![p] = Stored]
              /\ pc' = [pc EXCEPT ![p] = "inspect"] /\ UNCHANGED answer
    /\ UNCHANGED <<root, files, diskPlace, diskFiles>> /\ Others

MutantInspect(p) ==
    /\ pc[p] = "inspect" /\ Go(p, "remove")
    /\ Same

Inspect(p) ==
    /\ pc[p] = "inspect"
    /\ Go(p, IF \A o \in took[p] : Whole(o) THEN "remove" ELSE "putback")
    /\ Same

(* The name may have been taken by an import; then the directory stays aside. *)
PutBack(p) ==
    /\ pc[p] = "putback"
    /\ IF Stored = {}
         THEN /\ place' = [o \in Entries |-> IF o \in took[p] THEN "final" ELSE place[o]]
              /\ Go(p, "syncback")
         ELSE End(p, "failed") /\ UNCHANGED place
    /\ UNCHANGED <<root, files, diskPlace, diskFiles>> /\ Others

SyncBack(p) == pc[p] = "syncback" /\ SyncStore /\ End(p, "failed") /\ Others

Remains(p) == \E o \in took[p] : files[o] > 1

Remove(p) ==
    /\ pc[p] = "remove" /\ Go(p, IF Remains(p) THEN "remove" ELSE "rmdir")
    /\ files' = [o \in Entries |-> IF o \in took[p] THEN files[o] - 1 ELSE files[o]]
    /\ UNCHANGED <<root, place, diskPlace, diskFiles>> /\ Others

RemoveRoot(p) ==
    /\ pc[p] = "rmdir" /\ Go(p, "syncgone")
    /\ place' = [o \in Entries |-> IF o \in took[p] THEN "none" ELSE place[o]]
    /\ UNCHANGED <<root, files, diskPlace, diskFiles>> /\ Others

SyncGone(p) == pc[p] = "syncgone" /\ SyncStore /\ Go(p, "gone") /\ Others

ConfirmGone(p) ==
    /\ pc[p] = "gone" /\ End(p, IF Stored = {} THEN "purged" ELSE "failed")
    /\ Same

-----------------------------------------------------------------------------

(* Any call may fail.  What follows is an early return, except that a purge  *)
(* that has not removed anything puts the entry back.                        *)
Fault(x) ==
    /\ pc[x] \in (ImportSteps \cup PurgeSteps \cup {"planned"}) \ {"cleanup"}
    /\ IF pc[x] = "inspect" THEN Go(x, "putback") ELSE End(x, "failed")
    /\ upset' = upset \cup {x}
    /\ UNCHANGED <<directories, changed, early, late, undone, bounds>>

Kill(x) ==
    /\ pc[x] \in ImportSteps \cup PurgeSteps /\ pc' = [pc EXCEPT ![x] = "dead"]
    /\ upset' = upset \cup {x}
    /\ UNCHANGED <<directories, changed, answer, took, early, late, undone, bounds>>

(* Each name may be where it was when the store was last synchronised, and   *)
(* each directory may have what it had; a store directory whose parent was   *)
(* not synchronised may be gone.                                             *)
Survives(new) ==
    /\ \A o \in Entries : new[o] \in {place[o], diskPlace[o]}
    /\ Cardinality({o \in Entries : new[o] = "final"}) <= 1

Between(m, n) == IF m <= n THEN m..n ELSE n..m

PowerLoss ==
    /\ losses < MaxLosses /\ losses' = losses + 1
    /\ pc' = [x \in Processes |-> IF pc[x] \in ImportSteps \cup PurgeSteps THEN "dead" ELSE pc[x]]
    /\ upset' = upset \cup {x \in Processes : pc'[x] # pc[x]}
    /\ \/ /\ root = "new" /\ root' = "none"
          /\ place' = [o \in Entries |-> "none"] /\ files' = [o \in Entries |-> 0]
       \/ /\ root' = IF root = "new" THEN "kept" ELSE root
          /\ place' \in {new \in [Entries -> Places] : Survives(new)}
          /\ files' \in [Entries -> 0..Size]
          /\ \A o \in Entries : files'[o] \in Between(files[o], diskFiles[o])
    /\ diskPlace' = place' /\ diskFiles' = files'
    /\ undone' = undone \cup {o \in Entries : place'[o] = "final" /\ place[o] # "final"
                                              /\ files'[o] # Size}
    /\ UNCHANGED <<changed, answer, took, early, late, edits>>

(* Others change an entry, or the same directory where a purge has put it.   *)
Edit(o) ==
    /\ edits < MaxEdits /\ edits' = edits + 1
    /\ place[o] \in {"final"} \cup Purgers /\ changed' = changed \cup {o}
    /\ late' = IF \E p \in Purgers : place[o] = p /\ pc[p] \in {"remove", "rmdir"}
                 THEN late \cup {o} ELSE late
    /\ UNCHANGED <<directories, command, early, undone, upset, losses>>

-----------------------------------------------------------------------------

Import(i) ==
    \/ BeginImport(i) \/ MakeRoot(i) \/ SyncParent(i) \/ Look(i) \/ Existing(i) \/ Fill(i)
    \/ SyncTree(i) \/ ValidateStaged(i) \/ Publish(i) \/ SyncPublished(i) \/ Rehash(i)
    \/ RemoveStaging(i)

Purge(p) ==
    \/ PlanPurge(p) \/ Confirm(p) \/ Isolate(p) \/ Inspect(p) \/ PutBack(p) \/ SyncBack(p)
    \/ Remove(p) \/ RemoveRoot(p) \/ SyncGone(p) \/ ConfirmGone(p)

Next ==
    \/ \E i \in Importers : Import(i)
    \/ \E p \in Purgers : Purge(p)
    \/ \E x \in Processes : Fault(x) \/ Kill(x)
    \/ PowerLoss \/ \E o \in Entries : Edit(o)

Spec == Init /\ [][Next]_vars

-----------------------------------------------------------------------------
(* Every variable keeps to its set, and no directory gets more files than an *)
(* entry has.                                                                *)
TypeOK ==
    /\ root \in {"none", "new", "kept"}
    /\ place \in [Entries -> Places] /\ diskPlace \in [Entries -> Places]
    /\ files \in [Entries -> 0..Size] /\ diskFiles \in [Entries -> 0..Size]
    /\ changed \subseteq Entries
    /\ pc \in [Processes -> {"idle", "planned", "done", "dead"} \cup ImportSteps \cup PurgeSteps]
    /\ answer \in [Processes -> {"none", "failed", "imported", "existing", "purged"}]
    /\ took \in [Purgers -> SUBSET Entries]
    /\ early \subseteq Importers /\ late \subseteq Entries /\ undone \subseteq Entries
    /\ upset \subseteq Processes /\ edits \in Nat /\ losses \in Nat

(* Whoever looks, at any moment or after a power loss, finds under the       *)
(* address a complete entry or none.  Only a power loss during a purge, whose *)
(* first rename is not synchronised, may give the name back to a directory   *)
(* that had begun to be removed.                                             *)
WholeOrAbsent ==
    \A o \in Entries \ undone :
        /\ place[o] = "final" => files[o] = Size
        /\ diskPlace[o] = "final" => diskFiles[o] = Size

(* What a command answered outlives it.  The entry an import has published   *)
(* stays, unless a purge takes it, and even then no power loss damages it;   *)
(* what a purge has removed never comes back.  An import that relied on a    *)
(* store directory another one had just made, without synchronising its      *)
(* parent, can promise nothing.                                              *)
AnswersLast ==
    /\ \A i \in Importers \ early :
          pc[i] = "done" /\ answer[i] = "imported" /\ (\A p \in Purgers : i \notin took[p])
              => place[i] = "final" /\ diskPlace[i] = "final"
    /\ \A p \in Purgers : pc[p] = "done" /\ answer[p] = "purged" =>
          \A o \in took[p] : place[o] = "none" /\ diskPlace[o] = "none"

(* "It will never accept ... recursive deletion of unchecked content"        *)
(* (docs/adr/adr-011): a directory somebody has changed loses no file, unless *)
(* the change came after a purge had checked it in its own place.            *)
UncheckedKept ==
    [][losses' = losses =>
         \A o \in changed \ late :
             files'[o] = files[o] /\ (place'[o] = "none" => place[o] = "none")]_vars

Resting == \A x \in Processes : pc[x] \in {"idle", "planned", "done"}

(* "Identical concurrent imports converge on one validated entry"            *)
(* (docs/adr/adr-011): no import fails because of another, and when no       *)
(* command has met a fault the store holds one entry or none and nothing     *)
(* that would make list refuse it.                                           *)
Converges ==
    upset = {} /\ losses = 0 /\ edits = 0 =>
        /\ (\A p \in Purgers : pc[p] \in {"idle", "planned"})
              => \A i \in Importers : answer[i] # "failed"
        /\ Resting => /\ \A o \in Entries : place[o] \in {"none", "final"}
                      /\ Cardinality(Stored) <= 1
=============================================================================
