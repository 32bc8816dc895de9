--------------------------- MODULE ArtifactCache ---------------------------
(* The download cache: the resolver that acquires one file                   *)
(* (internal/artifact), the two release clients that acquire a bundle with   *)
(* it (internal/kernel/release, internal/userspace/release), and the source  *)
(* image of an image creation (internal/manager/image.go).                   *)
(*                                                                           *)
(* Several lexr processes share the cache directory.  Every file is acquired *)
(* through a neighbour named <file>.part, a fixed name: a process removes    *)
(* what is there, creates its own, fills it, hashes it BY NAME and renames   *)
(* it over the entry.  A removed file lives on for the process that holds it *)
(* open, so a file here carries the process still writing to it.             *)
(*                                                                           *)
(* A digest is the content it is the digest of: the number of the release a  *)
(* file belongs to (its name says which of the release's files it is),       *)
(* Partial while a download runs, or Wrong for bytes of no release.          *)
EXTENDS Naturals, FiniteSets

CONSTANTS Procs,          \* processes that share the cache directory
          Nobody,         \* no process: the writer of a closed file
          LastRelease,    \* releases are published in the order 1 .. LastRelease
          Pinned,         \* the release the catalogues pin, by tag or by digest
          MaxConcurrent,  \* commands that may run at the same time
          MaxCommands,    \* commands started in a behaviour
          MaxCacheFaults       \* failed requests, wrong bytes and kills in a behaviour

ASSUME CacheAssumption ==
    /\ Nobody \notin Procs
    /\ LastRelease \in Nat \ {0}
    /\ Pinned \in 1 .. LastRelease
    /\ MaxConcurrent \in Nat
    /\ MaxCommands \in Nat
    /\ MaxCacheFaults \in Nat

Partial  == 0
Releases == 1 .. LastRelease
Wrong  == LastRelease + 1
Bodies   == 0 .. LastRelease + 1
AnyBody  == LastRelease + 2    \* no expected digest: whatever is there is accepted

(* The files of the cache: of a kernel release kept under "latest", of a     *)
(* tagged userspace release, and of the source image, whose entry carries    *)
(* its digest in its name when the catalogue pins one.  The files of two     *)
(* kernel releases have the same names here, the case in which a stale one   *)
(* can be mistaken for a new one.                                            *)
KernelAssets    == {"sums", "bundle", "package"}
UserspaceAssets == {"usums", "payload"}
SourceAssets    == {"image", "pinnedImage"}
Assets          == KernelAssets \cup UserspaceAssets \cup SourceAssets

NoFile == [body |-> AnyBody, writer |-> Nobody]
CacheFiles  == [body : Bodies, writer : Procs \cup {Nobody}] \cup {NoFile}

VARIABLES cachePublished,  \* the newest release the publisher has put out
          cacheDigests,    \* whether its release records carry file digests
          cacheEntry,      \* the accepted files, by name
          cachePart,       \* the .part neighbours, by the name of their entry
          cacheTemp,       \* the kernel bundle manifest being written, 0: none
          cacheManifest,   \* the release the kernel bundle manifest names, 0: none
          cacheProc,       \* what each process is doing
          cacheStarted,    \* commands started
          cacheFaults      \* faults so far

cacheFiles == <<cacheEntry, cachePart, cacheTemp, cacheManifest>>
cacheWorld == <<cachePublished, cacheDigests, cacheStarted>>
cacheVars  == <<cacheFiles, cacheWorld, cacheProc, cacheFaults>>

(* pc        the next step of the command                                    *)
(* asset     the file it acquires                                            *)
(* legacy    whether that file is copied from an older cache entry           *)
(* selected  the release the command resolved                                *)
(* sums      the release whose checksums it parsed                           *)
(* recorded  the release the bundle manifest it read declares                *)
(* got       the digest of the last file it acquired                         *)
(* faulted   whether a fault touched it                                      *)
CacheSteps == {"idle", "resolve", "look", "create", "copy", "inspect", "rename",
          "use", "write", "publish", "refresh", "swap", "done", "failed"}
Kinds == {"kernel", "userspace", "source", "refresh"}

IdleProc == [kind |-> "kernel", pc |-> "idle", asset |-> "sums",
             legacy |-> FALSE, selected |-> 1, sums |-> Partial,
             recorded |-> Partial, got |-> Partial, faulted |-> FALSE]

(* What the catalogues pin was published before lexr was.                    *)
CacheInit ==
    /\ cachePublished = Pinned
    /\ cacheDigests \in BOOLEAN
    /\ cacheEntry = [a \in Assets |-> NoFile]
    /\ cachePart = [a \in Assets |-> NoFile]
    /\ cacheTemp = 0
    /\ cacheManifest = 0
    /\ cacheProc = [p \in Procs |-> IdleProc]
    /\ cacheStarted = 0
    /\ cacheFaults = 0

Ended == {"idle", "done", "failed"}
Live  == {p \in Procs : cacheProc[p].pc \notin Ended}

(* The digest the caller of Acquire passes for a file: GitHub's for a        *)
(* checksum list, none where GitHub gives none or the catalogue pins none,   *)
(* the checksum list's for every other file.                                 *)
Expected(r) ==
    CASE r.asset = "usums"       -> r.selected
      [] r.asset = "sums"        -> IF cacheDigests THEN r.selected ELSE AnyBody
      [] r.asset = "image"       -> AnyBody
      [] r.asset = "pinnedImage" -> Pinned
      [] OTHER                   -> r.sums

(* inspectExisting: a regular file with the expected digest, if there is one *)
Accepts(file, expected) ==
    /\ file # NoFile
    /\ expected = AnyBody \/ expected = file.body

(* What the location serves.  The address of a source image is rolling.      *)
Served(r) ==
    IF r.legacy THEN cacheEntry["image"].body
    ELSE IF r.asset \in SourceAssets THEN cachePublished
    ELSE r.selected

(* The kernel client removes the downloaded bundle manifest when it returns, *)
(* from the moment that download succeeded.                                  *)
HoldsBundle(r) ==
    r.asset = "package" \/ (r.asset = "bundle" /\ r.pc = "use")

WithoutBundle(r, entries) ==
    IF HoldsBundle(r) THEN [entries EXCEPT !["bundle"] = NoFile] ELSE entries

(* A failed copy from an older entry falls back to the remote; any other     *)
(* failure ends the command.                                                 *)
Failing(r, fault) ==
    IF r.legacy
    THEN [r EXCEPT !.pc = "look", !.legacy = FALSE, !.faulted = @ \/ fault]
    ELSE [r EXCEPT !.pc = "failed", !.faulted = @ \/ fault]

Fail(p, fault) ==
    /\ cacheProc' = [cacheProc EXCEPT ![p] = Failing(@, fault)]
    /\ cacheEntry' = WithoutBundle(cacheProc[p], cacheEntry)

Closed(files, p) ==
    [a \in Assets |-> IF files[a].writer = p
                      THEN [body |-> files[a].body, writer |-> Nobody]
                      ELSE files[a]]

Filled(files, p, b) ==
    [a \in Assets |-> IF files[a].writer = p
                      THEN [body |-> b, writer |-> Nobody]
                      ELSE files[a]]

CacheFault == cacheFaults < MaxCacheFaults /\ cacheFaults' = cacheFaults + 1

-----------------------------------------------------------------------------
(* A command begins: a bundle download asks GitHub first; a source image is  *)
(* looked up at once, a pinned one in an older entry of the same image if    *)
(* there is one; a refresh goes straight to the remote.                      *)
FirstAsset(kind) ==
    CASE kind = "kernel"    -> {"sums"}
      [] kind = "userspace" -> {"usums"}
      [] OTHER              -> SourceAssets

CacheBegin(p, kind, asset) ==
    /\ cacheProc[p].pc \in Ended
    /\ cacheStarted < MaxCommands
    /\ Cardinality(Live) < MaxConcurrent
    /\ asset \in FirstAsset(kind)
    /\ cacheProc' = [cacheProc EXCEPT ![p] =
          [IdleProc EXCEPT
             !.kind = kind, !.asset = asset,
             !.pc = CASE kind = "source"  -> "look"
                      [] kind = "refresh" -> "refresh"
                      [] OTHER            -> "resolve",
             !.legacy = /\ kind = "source"
                        /\ asset = "pinnedImage"
                        /\ cacheEntry["image"] # NoFile]]
    /\ cacheStarted' = cacheStarted + 1
    /\ UNCHANGED <<cacheFiles, cachePublished, cacheDigests, cacheFaults>>

(* The kernel client takes the newest release; the userspace client the      *)
(* catalogue's tag, and refuses a record without digests.                    *)
CacheResolve(p) ==
    /\ cacheProc[p].pc = "resolve"
    /\ LET r == cacheProc[p] IN
       IF r.kind = "userspace" /\ ~cacheDigests
       THEN Fail(p, FALSE)
       ELSE /\ cacheProc' = [cacheProc EXCEPT
                  ![p].pc = "look",
                  ![p].selected = IF r.kind = "kernel" THEN cachePublished
                                  ELSE Pinned]
            /\ UNCHANGED cacheEntry
    /\ UNCHANGED <<cachePart, cacheTemp, cacheManifest, cacheWorld, cacheFaults>>

-----------------------------------------------------------------------------
(* Acquire.  An entry with the expected digest is returned as it is; else    *)
(* what is left under the temporary name is removed ...                      *)
CacheLook(p) ==
    /\ cacheProc[p].pc = "look"
    /\ LET r == cacheProc[p] IN
       IF Accepts(cacheEntry[r.asset], Expected(r))
       THEN /\ cacheProc' = [cacheProc EXCEPT
                  ![p].pc = "use", ![p].got = cacheEntry[r.asset].body]
            /\ UNCHANGED cachePart
       ELSE /\ cacheProc' = [cacheProc EXCEPT ![p].pc = "create"]
            /\ cachePart' = [cachePart EXCEPT ![r.asset] = NoFile]
    /\ UNCHANGED <<cacheEntry, cacheTemp, cacheManifest, cacheWorld, cacheFaults>>

(* ... the temporary file is created, and must not exist ...                 *)
CacheCreate(p) ==
    /\ cacheProc[p].pc = "create"
    /\ LET a == cacheProc[p].asset IN
       IF cachePart[a] = NoFile
       THEN /\ cachePart' = [cachePart EXCEPT
                  ![a] = [body |-> Partial, writer |-> p]]
            /\ cacheProc' = [cacheProc EXCEPT ![p].pc = "copy"]
            /\ UNCHANGED cacheEntry
       ELSE Fail(p, FALSE) /\ UNCHANGED cachePart
    /\ UNCHANGED <<cacheTemp, cacheManifest, cacheWorld, cacheFaults>>

(* ... filled with what the location serves, wherever that file is by now ...*)
FillWith(p, b, fault) ==
    /\ cachePart' = Filled(cachePart, p, b)
    /\ cacheEntry' = Filled(cacheEntry, p, b)
    /\ cacheProc' = [cacheProc EXCEPT ![p].pc = "inspect",
                                      ![p].faulted = @ \/ fault]

CacheCopy(p) ==
    /\ cacheProc[p].pc = "copy"
    /\ FillWith(p, Served(cacheProc[p]), FALSE)
    /\ UNCHANGED <<cacheTemp, cacheManifest, cacheWorld, cacheFaults>>

(* ... which may be other bytes than the release's ...                       *)
CacheCopyWrong(p) ==
    /\ cacheProc[p].pc = "copy"
    /\ ~cacheProc[p].legacy
    /\ CacheFault
    /\ FillWith(p, Wrong, TRUE)
    /\ UNCHANGED <<cacheTemp, cacheManifest, cacheWorld>>

(* ... or end early: the temporary name is removed, whoever's file it is.    *)
CacheCopyFails(p) ==
    /\ cacheProc[p].pc = "copy"
    /\ CacheFault
    /\ cachePart' = [Closed(cachePart, p) EXCEPT ![cacheProc[p].asset] = NoFile]
    /\ cacheEntry' = WithoutBundle(cacheProc[p], Closed(cacheEntry, p))
    /\ cacheProc' = [cacheProc EXCEPT ![p] = Failing(@, TRUE)]
    /\ UNCHANGED <<cacheTemp, cacheManifest, cacheWorld>>

(* The temporary file is hashed, by name ...                                 *)
CacheInspect(p) ==
    /\ cacheProc[p].pc = "inspect"
    /\ LET r == cacheProc[p] IN
       IF Accepts(cachePart[r.asset], Expected(r))
       THEN /\ cacheProc' = [cacheProc EXCEPT
                  ![p].pc = "rename", ![p].got = cachePart[r.asset].body]
            /\ UNCHANGED <<cacheEntry, cachePart>>
       ELSE /\ Fail(p, FALSE)
            /\ cachePart' = [cachePart EXCEPT ![r.asset] = NoFile]
    /\ UNCHANGED <<cacheTemp, cacheManifest, cacheWorld, cacheFaults>>

(* ... and renamed, by name, over the entry.                                 *)
CacheRename(p) ==
    /\ cacheProc[p].pc = "rename"
    /\ LET a == cacheProc[p].asset IN
       IF cachePart[a] = NoFile
       THEN Fail(p, FALSE) /\ UNCHANGED cachePart
       ELSE /\ cacheEntry' = [cacheEntry EXCEPT ![a] = cachePart[a]]
            /\ cachePart' = [cachePart EXCEPT ![a] = NoFile]
            /\ cacheProc' = [cacheProc EXCEPT ![p].pc = "use"]
    /\ UNCHANGED <<cacheTemp, cacheManifest, cacheWorld, cacheFaults>>

-----------------------------------------------------------------------------
(* What each caller does with an acquired file.  Later files are checked     *)
(* against the list or the manifest as it reads NOW, not as it was acquired. *)
Refused(p)      == Fail(p, FALSE)
Continue(p, r)  == cacheProc' = [cacheProc EXCEPT ![p] = r] /\ UNCHANGED cacheEntry
OnlyProc        == UNCHANGED <<cachePart, cacheTemp, cacheManifest, cacheWorld,
                               cacheFaults>>

ParsesAsChecksums(body) == body \in Releases
DecodesAsBundle(body)   == body \in Releases

(* The checksum list must parse and cover the next file, with the digest     *)
(* GitHub gives for it.                                                      *)
CacheUseSums(p) ==
    /\ cacheProc[p].pc = "use"
    /\ cacheProc[p].asset \in {"sums", "usums"}
    /\ LET r    == cacheProc[p]
           list == cacheEntry[r.asset].body
       IN IF ~ParsesAsChecksums(list) \/ (cacheDigests /\ list # r.selected)
          THEN Refused(p)
          ELSE Continue(p, [r EXCEPT
                  !.sums = list, !.pc = "look",
                  !.asset = IF r.kind = "kernel" THEN "bundle" ELSE "payload"])
    /\ OnlyProc

(* Slip: the manifest is not compared with the selected release.             *)
MutantCacheUseBundle(p) ==
    /\ cacheProc[p].pc = "use"
    /\ cacheProc[p].asset = "bundle"
    /\ LET r        == cacheProc[p]
           declared == cacheEntry["bundle"].body
       IN IF ~DecodesAsBundle(declared) \/ declared # r.sums
          THEN Refused(p)
          ELSE Continue(p, [r EXCEPT !.recorded = declared, !.pc = "look",
                                     !.asset = "package"])
    /\ OnlyProc

(* The bundle manifest must be of the selected release, and the package it   *)
(* declares the one the checksum list covers.                                *)
CacheUseBundle(p) ==
    /\ cacheProc[p].pc = "use"
    /\ cacheProc[p].asset = "bundle"
    /\ LET r        == cacheProc[p]
           declared == cacheEntry["bundle"].body
       IN IF \/ ~DecodesAsBundle(declared)
             \/ declared # r.selected
             \/ declared # r.sums
          THEN Refused(p)
          ELSE Continue(p, [r EXCEPT !.recorded = declared, !.pc = "look",
                                     !.asset = "package"])
    /\ OnlyProc

(* The package's bytes must be the declared ones.                            *)
CacheUsePackage(p) ==
    /\ cacheProc[p].pc = "use"
    /\ cacheProc[p].asset = "package"
    /\ LET r == cacheProc[p] IN
       IF r.got # r.recorded
       THEN Refused(p)
       ELSE Continue(p, [r EXCEPT !.pc = "write"])
    /\ OnlyProc

(* The kernel bundle manifest is written under one fixed temporary name ...  *)
CacheWriteManifest(p) ==
    /\ cacheProc[p].pc = "write"
    /\ cacheTemp' = cacheProc[p].recorded
    /\ cacheProc' = [cacheProc EXCEPT ![p].pc = "publish"]
    /\ UNCHANGED <<cacheEntry, cachePart, cacheManifest, cacheWorld, cacheFaults>>

(* ... and renamed from it.  The download of the release's own manifest goes.*)
CachePublishManifest(p) ==
    /\ cacheProc[p].pc = "publish"
    /\ IF cacheTemp = 0
       THEN Fail(p, FALSE) /\ UNCHANGED <<cacheTemp, cacheManifest>>
       ELSE /\ cacheManifest' = cacheTemp
            /\ cacheTemp' = 0
            /\ cacheProc' = [cacheProc EXCEPT ![p].pc = "done"]
            /\ cacheEntry' = WithoutBundle(cacheProc[p], cacheEntry)
    /\ UNCHANGED <<cachePart, cacheWorld, cacheFaults>>

(* The compatibility manifest of a userspace bundle is read again and must   *)
(* be the one the catalogue pins; the receipt has a temporary name of its    *)
(* own.                                                                      *)
CacheUsePayload(p) ==
    /\ cacheProc[p].pc = "use"
    /\ cacheProc[p].asset = "payload"
    /\ IF cacheEntry["payload"].body # Pinned
       THEN Refused(p)
       ELSE Continue(p, [cacheProc[p] EXCEPT !.pc = "done"])
    /\ OnlyProc

(* A source image is used under the name of its entry.                       *)
CacheUseSource(p) ==
    /\ cacheProc[p].pc = "use"
    /\ cacheProc[p].asset \in SourceAssets
    /\ Continue(p, [cacheProc[p] EXCEPT !.pc = "done"])
    /\ OnlyProc

-----------------------------------------------------------------------------
(* Slip: a refreshed image is not compared with the pinned digest.           *)
MutantRefreshWith(p, b, fault) ==
    Continue(p, [cacheProc[p] EXCEPT !.got = b, !.faulted = fault, !.pc = "swap"])

(* A refresh downloads into a directory of its own ...                       *)
RefreshWith(p, b, fault) ==
    LET r == [cacheProc[p] EXCEPT !.got = b, !.faulted = fault] IN
    Continue(p, IF Expected(r) \in {AnyBody, b}
                THEN [r EXCEPT !.pc = "swap"]
                ELSE [r EXCEPT !.pc = "failed"])

CacheRefresh(p) ==
    /\ cacheProc[p].pc = "refresh"
    /\ RefreshWith(p, cachePublished, FALSE)
    /\ OnlyProc

CacheRefreshWrong(p) ==
    /\ cacheProc[p].pc = "refresh"
    /\ CacheFault
    /\ RefreshWith(p, Wrong, TRUE)
    /\ UNCHANGED <<cachePart, cacheTemp, cacheManifest, cacheWorld>>

CacheRefreshFails(p) ==
    /\ cacheProc[p].pc \in {"refresh", "swap"}
    /\ CacheFault
    /\ Continue(p, [cacheProc[p] EXCEPT !.pc = "failed", !.faulted = TRUE])
    /\ UNCHANGED <<cachePart, cacheTemp, cacheManifest, cacheWorld>>

(* ... and renames what it verified over the entry.                          *)
CacheSwap(p) ==
    /\ cacheProc[p].pc = "swap"
    /\ cacheEntry' = [cacheEntry EXCEPT ![cacheProc[p].asset] =
                         [body |-> cacheProc[p].got, writer |-> Nobody]]
    /\ cacheProc' = [cacheProc EXCEPT ![p].pc = "done"]
    /\ OnlyProc

-----------------------------------------------------------------------------
(* The process is killed: its files stay as they are, closed.                *)
CacheKill(p) ==
    /\ p \in Live
    /\ CacheFault
    /\ cacheProc' = [cacheProc EXCEPT ![p].pc = "idle"]
    /\ cacheEntry' = Closed(cacheEntry, p)
    /\ cachePart' = Closed(cachePart, p)
    /\ UNCHANGED <<cacheTemp, cacheManifest, cacheWorld>>

(* The publisher puts out the next release.                                  *)
CachePublisher ==
    /\ cachePublished < LastRelease
    /\ cachePublished' = cachePublished + 1
    /\ UNCHANGED <<cacheFiles, cacheDigests, cacheProc, cacheStarted, cacheFaults>>

CacheProgress(p) ==
    \/ CacheResolve(p)
    \/ CacheLook(p)
    \/ CacheCreate(p)
    \/ CacheCopy(p)
    \/ CacheInspect(p)
    \/ CacheRename(p)
    \/ CacheUseSums(p)
    \/ CacheUseBundle(p)
    \/ CacheUsePackage(p)
    \/ CacheWriteManifest(p)
    \/ CachePublishManifest(p)
    \/ CacheUsePayload(p)
    \/ CacheUseSource(p)
    \/ CacheRefresh(p)
    \/ CacheSwap(p)

CacheNext ==
    \/ \E p \in Procs :
          \/ \E kind \in Kinds, a \in Assets : CacheBegin(p, kind, a)
          \/ CacheProgress(p)
          \/ CacheCopyWrong(p)
          \/ CacheCopyFails(p)
          \/ CacheRefreshWrong(p)
          \/ CacheRefreshFails(p)
          \/ CacheKill(p)
    \/ CachePublisher

CacheSpec == CacheInit /\ [][CacheNext]_cacheVars

-----------------------------------------------------------------------------
(* Every variable has its type.                                              *)
ProcType ==
    [kind : Kinds, pc : CacheSteps, asset : Assets, legacy : BOOLEAN,
     selected : Releases, sums : Bodies, recorded : Bodies, got : Bodies,
     faulted : BOOLEAN]

CacheTypeOK ==
    /\ cachePublished \in Releases
    /\ cacheDigests \in BOOLEAN
    /\ cacheEntry \in [Assets -> CacheFiles]
    /\ cachePart \in [Assets -> CacheFiles]
    /\ cacheTemp \in Bodies
    /\ cacheManifest \in Bodies
    /\ cacheProc \in [Procs -> ProcType]
    /\ cacheStarted \in Nat
    /\ cacheFaults \in Nat

(* DownloadBundle returns a bundle of one release, the one it selected: the  *)
(* manifest's release, the checksum list's and the package's digest agree    *)
(* with it even where "latest" has moved, an older list is accepted because  *)
(* GitHub gives no digest for it, and a killed download left its files.      *)
BundleOfOneRelease ==
    \A p \in Procs :
        cacheProc[p].pc = "done" /\ cacheProc[p].kind = "kernel"
        => /\ cacheProc[p].recorded = cacheProc[p].selected
           /\ cacheProc[p].sums     = cacheProc[p].selected
           /\ cacheProc[p].got      = cacheProc[p].selected

(* What a killed or failed command leaves in the cache (a .part file, the    *)
(* downloaded manifest, its temporary) never makes a later command fail: one *)
(* that meets no fault succeeds, unless the publisher gives no digests or    *)
(* has moved a rolling address away from the pinned digest.                  *)
LeftoversNeverBlock ==
    \A p \in Procs :
        cacheProc[p].pc = "failed" /\ ~cacheProc[p].faulted
        => \/ ~cacheDigests
           \/ cacheProc[p].asset = "pinnedImage" /\ cachePublished # Pinned
           \/ MaxConcurrent > 1

(* An entry of the cache is never a partial file, and an entry named by its  *)
(* digest holds those bytes, whatever failed or was killed on the way there. *)
EntriesAreWhole ==
    \A a \in Assets :
        /\ cacheEntry[a].body # Partial
        /\ a = "pinnedImage" => cacheEntry[a].body \in {Pinned, AnyBody}

(* The digest a finished acquisition reports is that of the complete file at *)
(* the path it reports.                                                      *)
ReportedFileIsComplete ==
    \A p \in Procs :
        cacheProc[p].pc = "use"
        => cacheEntry[cacheProc[p].asset].body = cacheProc[p].got

=============================================================================
