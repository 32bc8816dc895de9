------------------------ MODULE ImageRelease_proofs -------------------------
(* Theorems about what is downloaded, the image made of it, and the release  *)
(* prepared of the image, for every value of the constants.                  *)
EXTENDS ArtifactCache, ImageCreate, ImageEvidence, ReleasePreparation,
        FiniteSetTheorems, TLAPS

-----------------------------------------------------------------------------
(* The download of a kernel bundle.                                          *)

ProcFields == {"kind", "pc", "asset", "legacy", "selected", "sums", "recorded",
               "got", "faulted"}

ProcsWhole == DOMAIN cacheProc = Procs /\ \A p \in Procs : DOMAIN cacheProc[p] = ProcFields

(* What a download has established by the file it is at.                     *)
Established(r) ==
    r.kind = "kernel" =>
        /\ r.asset \in KernelAssets /\ r.pc \notin {"refresh", "swap"}
        /\ r.pc = "resolve" => r.asset = "sums"
        /\ r.asset = "package" => r.recorded = r.selected /\ r.sums = r.selected
        /\ r.pc \in {"write", "publish", "done"} =>
              r.asset = "package" /\ r.got = r.selected

BundleInv == ProcsWhole /\ \A p \in Procs : Established(cacheProc[p])

(* One process takes a step.                                                 *)
LEMMA BundleStep ==
  ASSUME BundleInv, NEW p \in Procs, NEW r, DOMAIN r = ProcFields, Established(r),
         cacheProc' = [cacheProc EXCEPT ![p] = r]
  PROVE  BundleInv'
BY DEF BundleInv, ProcsWhole

(* ... or fails.                                                             *)
LEMMA BundleFails ==
  ASSUME BundleInv, NEW p \in Procs, NEW fault, NEW r,
         r = Failing(cacheProc[p], fault)
  PROVE  DOMAIN r = ProcFields /\ Established(r)
<1>1. DOMAIN cacheProc[p] = ProcFields /\ Established(cacheProc[p])
  BY DEF BundleInv, ProcsWhole
<1>. QED
  BY <1>1 DEF Failing, Established, ProcFields

(* A refresh is not of a kernel bundle.                                      *)
LEMMA BundleRefresh ==
  ASSUME BundleInv, NEW p \in Procs, NEW b, NEW fault, RefreshWith(p, b, fault),
         cacheProc[p].pc = "refresh"
  PROVE  BundleInv'
<1>. DEFINE old  == cacheProc[p]
            new  == [old EXCEPT !.got = b, !.faulted = fault]
            good == [new EXCEPT !.pc = "swap"]
            bad  == [new EXCEPT !.pc = "failed"]
<1>0. DOMAIN old = ProcFields /\ Established(old) /\ p \in DOMAIN cacheProc
  BY DEF BundleInv, ProcsWhole
<1>1. \/ cacheProc' = [cacheProc EXCEPT ![p] = good]
      \/ cacheProc' = [cacheProc EXCEPT ![p] = bad]
  BY DEF RefreshWith, Continue
<1>2. DOMAIN good = ProcFields /\ DOMAIN bad = ProcFields
  BY <1>0
<1>3. Established(good) /\ Established(bad)
  BY <1>0 DEF Established, ProcFields
<1>. QED
  BY <1>1, <1>2, <1>3, BundleStep

(* Every step a command takes by itself.                                     *)
LEMMA BundleProgress ==
  ASSUME BundleInv, NEW p \in Procs, CacheProgress(p)
  PROVE  BundleInv'
<1>. DEFINE old == cacheProc[p]
<1>0. DOMAIN old = ProcFields /\ Established(old) /\ p \in DOMAIN cacheProc
  BY DEF BundleInv, ProcsWhole
<1>f. ASSUME Fail(p, FALSE) PROVE BundleInv'
  <2>. DEFINE r == Failing(old, FALSE)
  <2>1. cacheProc' = [cacheProc EXCEPT ![p] = r]
    BY <1>f, <1>0 DEF Fail
  <2>. QED
    BY <2>1, BundleFails, BundleStep
<1>1. CASE CacheResolve(p)
  <2>. DEFINE r == [old EXCEPT !.pc = "look",
        !.selected = IF old.kind = "kernel" THEN cachePublished ELSE Pinned]
  <2>1. Fail(p, FALSE) \/ cacheProc' = [cacheProc EXCEPT ![p] = r]
    BY <1>1, <1>0 DEF CacheResolve
  <2>2. ASSUME cacheProc' = [cacheProc EXCEPT ![p] = r] PROVE BundleInv'
    <3>1. DOMAIN r = ProcFields
      BY <1>0
    <3>2. Established(r)
      BY <1>1, <1>0 DEF CacheResolve, Established, ProcFields, KernelAssets
    <3>. QED
      BY <2>2, <3>1, <3>2, BundleStep
  <2>. QED
    BY <2>1, <2>2, <1>f
<1>2. CASE CacheCreate(p)
  <2>. DEFINE r == [old EXCEPT !.pc = "copy"]
  <2>1. Fail(p, FALSE) \/ cacheProc' = [cacheProc EXCEPT ![p] = r]
    BY <1>2, <1>0 DEF CacheCreate
  <2>2. ASSUME cacheProc' = [cacheProc EXCEPT ![p] = r] PROVE BundleInv'
    <3>1. DOMAIN r = ProcFields
      BY <1>0
    <3>2. Established(r)
      BY <1>2, <1>0 DEF CacheCreate, Established, ProcFields, KernelAssets
    <3>. QED
      BY <2>2, <3>1, <3>2, BundleStep
  <2>. QED
    BY <2>1, <2>2, <1>f
<1>3. CASE CacheCopy(p)
  <2>. DEFINE r == [old EXCEPT !.pc = "inspect", !.faulted = @ \/ FALSE]
  <2>1. cacheProc' = [cacheProc EXCEPT ![p] = r]
    BY <1>3, <1>0 DEF CacheCopy, FillWith
  <2>2. ASSUME cacheProc' = [cacheProc EXCEPT ![p] = r] PROVE BundleInv'
    <3>1. DOMAIN r = ProcFields
      BY <1>0
    <3>2. Established(r)
      BY <1>3, <1>0 DEF CacheCopy, Established, ProcFields, KernelAssets
    <3>. QED
      BY <2>2, <3>1, <3>2, BundleStep
  <2>. QED
    BY <2>1, <2>2
<1>4. CASE CacheInspect(p)
  <2>. DEFINE r == [old EXCEPT !.pc = "rename", !.got = cachePart[old.asset].body]
  <2>1. Fail(p, FALSE) \/ cacheProc' = [cacheProc EXCEPT ![p] = r]
    BY <1>4, <1>0 DEF CacheInspect
  <2>2. ASSUME cacheProc' = [cacheProc EXCEPT ![p] = r] PROVE BundleInv'
    <3>1. DOMAIN r = ProcFields
      BY <1>0
    <3>2. Established(r)
      BY <1>4, <1>0 DEF CacheInspect, Established, ProcFields, KernelAssets
    <3>. QED
      BY <2>2, <3>1, <3>2, BundleStep
  <2>. QED
    BY <2>1, <2>2, <1>f
<1>5. CASE CacheRename(p)
  <2>. DEFINE r == [old EXCEPT !.pc = "use"]
  <2>1. Fail(p, FALSE) \/ cacheProc' = [cacheProc EXCEPT ![p] = r]
    BY <1>5, <1>0 DEF CacheRename
  <2>2. ASSUME cacheProc' = [cacheProc EXCEPT ![p] = r] PROVE BundleInv'
    <3>1. DOMAIN r = ProcFields
      BY <1>0
    <3>2. Established(r)
      BY <1>5, <1>0 DEF CacheRename, Established, ProcFields, KernelAssets
    <3>. QED
      BY <2>2, <3>1, <3>2, BundleStep
  <2>. QED
    BY <2>1, <2>2, <1>f
<1>6. CASE CacheWriteManifest(p)
  <2>. DEFINE r == [old EXCEPT !.pc = "publish"]
  <2>1. cacheProc' = [cacheProc EXCEPT ![p] = r]
    BY <1>6, <1>0 DEF CacheWriteManifest
  <2>2. ASSUME cacheProc' = [cacheProc EXCEPT ![p] = r] PROVE BundleInv'
    <3>1. DOMAIN r = ProcFields
      BY <1>0
    <3>2. Established(r)
      BY <1>6, <1>0 DEF CacheWriteManifest, Established, ProcFields, KernelAssets
    <3>. QED
      BY <2>2, <3>1, <3>2, BundleStep
  <2>. QED
    BY <2>1, <2>2
<1>7. CASE CachePublishManifest(p)
  <2>. DEFINE r == [old EXCEPT !.pc = "done"]
  <2>1. Fail(p, FALSE) \/ cacheProc' = [cacheProc EXCEPT ![p] = r]
    BY <1>7, <1>0 DEF CachePublishManifest
  <2>2. ASSUME cacheProc' = [cacheProc EXCEPT ![p] = r] PROVE BundleInv'
    <3>1. DOMAIN r = ProcFields
      BY <1>0
    <3>2. Established(r)
      BY <1>7, <1>0 DEF CachePublishManifest, Established, ProcFields, KernelAssets
    <3>. QED
      BY <2>2, <3>1, <3>2, BundleStep
  <2>. QED
    BY <2>1, <2>2, <1>f
<1>8. CASE CacheUsePayload(p)
  <2>. DEFINE r == [old EXCEPT !.pc = "done"]
  <2>1. Fail(p, FALSE) \/ cacheProc' = [cacheProc EXCEPT ![p] = r]
    BY <1>8, <1>0 DEF CacheUsePayload, Refused, Continue
  <2>2. ASSUME cacheProc' = [cacheProc EXCEPT ![p] = r] PROVE BundleInv'
    <3>1. DOMAIN r = ProcFields
      BY <1>0
    <3>2. Established(r)
      BY <1>8, <1>0 DEF CacheUsePayload, Established, ProcFields, KernelAssets
    <3>. QED
      BY <2>2, <3>1, <3>2, BundleStep
  <2>. QED
    BY <2>1, <2>2, <1>f
<1>9. CASE CacheUseSource(p)
  <2>. DEFINE r == [old EXCEPT !.pc = "done"]
  <2>1. cacheProc' = [cacheProc EXCEPT ![p] = r]
    BY <1>9, <1>0 DEF CacheUseSource, Refused, Continue
  <2>2. ASSUME cacheProc' = [cacheProc EXCEPT ![p] = r] PROVE BundleInv'
    <3>1. DOMAIN r = ProcFields
      BY <1>0
    <3>2. Established(r)
      BY <1>9, <1>0 DEF CacheUseSource, Established, KernelAssets, SourceAssets
    <3>. QED
      BY <2>2, <3>1, <3>2, BundleStep
  <2>. QED
    BY <2>1, <2>2
<1>10. CASE CacheUsePackage(p)
  <2>. DEFINE r == [old EXCEPT !.pc = "write"]
  <2>1. \/ Fail(p, FALSE)
        \/ cacheProc' = [cacheProc EXCEPT ![p] = r] /\ old.got = old.recorded
    BY <1>10, <1>0 DEF CacheUsePackage, Refused, Continue
  <2>2. ASSUME cacheProc' = [cacheProc EXCEPT ![p] = r], old.got = old.recorded PROVE BundleInv'
    <3>1. DOMAIN r = ProcFields
      BY <1>0
    <3>2. Established(r)
      BY <1>10, <2>2, <1>0 DEF CacheUsePackage, Established, ProcFields, KernelAssets
    <3>. QED
      BY <2>2, <3>1, <3>2, BundleStep
  <2>. QED
    BY <2>1, <2>2, <1>f
<1>11. CASE CacheSwap(p)
  <2>. DEFINE r == [old EXCEPT !.pc = "done"]
  <2>1. cacheProc' = [cacheProc EXCEPT ![p] = r]
    BY <1>11, <1>0 DEF CacheSwap
  <2>2. ASSUME cacheProc' = [cacheProc EXCEPT ![p] = r] PROVE BundleInv'
    <3>1. DOMAIN r = ProcFields
      BY <1>0
    <3>2. Established(r)
      BY <1>11, <1>0 DEF CacheSwap, Established, ProcFields, KernelAssets
    <3>. QED
      BY <2>2, <3>1, <3>2, BundleStep
  <2>. QED
    BY <2>1, <2>2
<1>12. CASE CacheLook(p)
  <2>. DEFINE found == [old EXCEPT !.pc = "use", !.got = cacheEntry[old.asset].body]
              other == [old EXCEPT !.pc = "create"]
  <2>1. \/ cacheProc' = [cacheProc EXCEPT ![p] = found]
        \/ cacheProc' = [cacheProc EXCEPT ![p] = other]
    BY <1>12, <1>0 DEF CacheLook
  <2>2. DOMAIN found = ProcFields /\ DOMAIN other = ProcFields
    BY <1>0
  <2>3. Established(found) /\ Established(other)
    BY <1>12, <1>0 DEF CacheLook, Established, ProcFields
  <2>. QED
    BY <2>1, <2>2, <2>3, BundleStep
<1>13. CASE CacheUseSums(p)
  <2>. DEFINE r == [old EXCEPT !.sums = cacheEntry[old.asset].body, !.pc = "look",
                     !.asset = IF old.kind = "kernel" THEN "bundle" ELSE "payload"]
  <2>1. Fail(p, FALSE) \/ cacheProc' = [cacheProc EXCEPT ![p] = r]
    BY <1>13 DEF CacheUseSums, Refused, Continue
  <2>2. DOMAIN r = ProcFields
    BY <1>0
  <2>3. Established(r)
    BY <1>13, <1>0 DEF CacheUseSums, Established, ProcFields, KernelAssets
  <2>. QED
    BY <2>1, <2>2, <2>3, <1>f, BundleStep
<1>14. CASE CacheUseBundle(p)
  <2>. DEFINE b == cacheEntry["bundle"].body
  <2>. DEFINE r == [old EXCEPT !.recorded = b, !.pc = "look", !.asset = "package"]
  <2>1. Fail(p, FALSE) \/ /\ cacheProc' = [cacheProc EXCEPT ![p] = r]
                          /\ b = old.selected /\ b = old.sums
    BY <1>14 DEF CacheUseBundle, Refused, Continue
  <2>2. DOMAIN r = ProcFields
    BY <1>0
  <2>3. ASSUME b = old.selected, b = old.sums PROVE Established(r)
    <3>1. r.recorded = b /\ r.selected = old.selected /\ r.sums = old.sums
          /\ r.pc = "look" /\ r.asset = "package" /\ r.kind = old.kind
      BY <1>0 DEF ProcFields
    <3>. QED
      BY <2>3, <3>1 DEF Established, KernelAssets
  <2>. QED
    BY <2>1, <2>2, <2>3, <1>f, BundleStep
<1>15. CASE CacheRefresh(p)
  BY <1>15, BundleRefresh DEF CacheRefresh
<1>. QED
  BY <1>1, <1>2, <1>3, <1>4, <1>5, <1>6, <1>7, <1>8, <1>9, <1>10, <1>11, <1>12, <1>13,
     <1>14, <1>15 DEF CacheProgress

(* For any number of processes that share the cache at once, of releases and *)
(* of faults: a kernel bundle is returned only with its checksum list, its   *)
(* manifest and its package all of the release that was selected             *)
(* (DownloadBundle, internal/kernel/release).                                *)
THEOREM BundleAlwaysOfOneRelease == CacheSpec => []BundleOfOneRelease
<1>1. CacheInit => BundleInv
  BY DEF CacheInit, BundleInv, ProcsWhole, Established, IdleProc, ProcFields,
     KernelAssets
<1>2. BundleInv /\ [CacheNext]_cacheVars => BundleInv'
  <2>. SUFFICES ASSUME BundleInv, [CacheNext]_cacheVars PROVE BundleInv'
    OBVIOUS
  <2>1. ASSUME NEW p \in Procs, CacheProgress(p) PROVE BundleInv'
    BY <2>1, BundleProgress
  <2>2. ASSUME NEW p \in Procs, NEW kind \in Kinds, NEW asset \in Assets,
               CacheBegin(p, kind, asset)
        PROVE  BundleInv'
    <3>. DEFINE r == [IdleProc EXCEPT
             !.kind = kind, !.asset = asset,
             !.pc = CASE kind = "source"  -> "look"
                      [] kind = "refresh" -> "refresh"
                      [] OTHER            -> "resolve",
             !.legacy = /\ kind = "source"
                        /\ asset = "pinnedImage"
                        /\ cacheEntry["image"] # NoFile]
    <3>1. cacheProc' = [cacheProc EXCEPT ![p] = r]
      BY <2>2 DEF CacheBegin
    <3>2. DOMAIN r = ProcFields
      BY DEF IdleProc, ProcFields
    <3>3. kind = "kernel" => asset = "sums"
      BY <2>2 DEF CacheBegin, FirstAsset
    <3>4. Established(r)
      BY <3>3 DEF Established, IdleProc, KernelAssets
    <3>. QED
      BY <3>1, <3>2, <3>4, BundleStep
  <2>3. ASSUME NEW p \in Procs, CacheCopyWrong(p) PROVE BundleInv'
    <3>. DEFINE old == cacheProc[p]
                r   == [old EXCEPT !.pc = "inspect", !.faulted = @ \/ TRUE]
    <3>1. cacheProc' = [cacheProc EXCEPT ![p] = r]
      BY <2>3 DEF CacheCopyWrong, FillWith, BundleInv, ProcsWhole
    <3>2. DOMAIN old = ProcFields /\ Established(old)
      BY DEF BundleInv, ProcsWhole
    <3>3. DOMAIN r = ProcFields /\ Established(r)
      BY <2>3, <3>2 DEF CacheCopyWrong, Established, ProcFields
    <3>. QED
      BY <3>1, <3>3, BundleStep
  <2>4. ASSUME NEW p \in Procs, CacheCopyFails(p) PROVE BundleInv'
    <3>. DEFINE r == Failing(cacheProc[p], TRUE)
    <3>1. cacheProc' = [cacheProc EXCEPT ![p] = r]
      BY <2>4 DEF CacheCopyFails
    <3>. QED
      BY <3>1, BundleFails, BundleStep
  <2>5. ASSUME NEW p \in Procs, CacheRefreshWrong(p) PROVE BundleInv'
    BY <2>5, BundleRefresh DEF CacheRefreshWrong
  <2>6. ASSUME NEW p \in Procs, CacheRefreshFails(p) PROVE BundleInv'
    <3>. DEFINE old == cacheProc[p]
                r   == [old EXCEPT !.pc = "failed", !.faulted = TRUE]
    <3>1. cacheProc' = [cacheProc EXCEPT ![p] = r]
      BY <2>6 DEF CacheRefreshFails, Continue
    <3>2. DOMAIN old = ProcFields /\ Established(old)
      BY DEF BundleInv, ProcsWhole
    <3>3. DOMAIN r = ProcFields /\ Established(r)
      BY <2>6, <3>2 DEF CacheRefreshFails, Established, ProcFields
    <3>. QED
      BY <3>1, <3>3, BundleStep
  <2>7. ASSUME NEW p \in Procs, CacheKill(p) PROVE BundleInv'
    <3>. DEFINE old == cacheProc[p]
                r   == [old EXCEPT !.pc = "idle"]
    <3>1. cacheProc' = [cacheProc EXCEPT ![p] = r]
      BY <2>7 DEF CacheKill, BundleInv, ProcsWhole
    <3>2. DOMAIN old = ProcFields /\ Established(old)
      BY DEF BundleInv, ProcsWhole
    <3>3. DOMAIN r = ProcFields /\ Established(r)
      BY <3>2 DEF Established, ProcFields
    <3>. QED
      BY <3>1, <3>3, BundleStep
  <2>8. CASE CachePublisher \/ UNCHANGED cacheVars
    BY <2>8 DEF CachePublisher, cacheVars, BundleInv, ProcsWhole
  <2>. QED
    BY <2>1, <2>2, <2>3, <2>4, <2>5, <2>6, <2>7, <2>8 DEF CacheNext
<1>3. BundleInv => BundleOfOneRelease
  BY DEF BundleInv, Established, BundleOfOneRelease
<1>. QED
  BY <1>1, <1>2, <1>3, PTL DEF CacheSpec

-----------------------------------------------------------------------------
(* The cache with one command at a time.                                     *)

(* One command at a time.                                                    *)
OnlyOne == \A p, q \in Live : p = q

(* Only a copying process has its temporary file open, and what is in the    *)
(* cache is whole.                                                           *)
LoneFiles ==
    /\ Pinned <= cachePublished
    /\ \A a \in Assets : cacheEntry[a].writer = Nobody
    /\ EntriesAreWhole
    /\ \A a \in Assets, p \in Procs :
          cachePart[a].writer = p => cacheProc[p].pc = "copy" /\ cacheProc[p].asset = a

(* Which files a command of each kind may be at.                             *)
Routed(r) ==
    /\ r.kind = "kernel" => r.asset \in KernelAssets
    /\ r.kind = "userspace" => r.asset \in UserspaceAssets
    /\ r.kind \in {"source", "refresh"} => r.asset \in SourceAssets
    /\ r.legacy => r.asset = "pinnedImage" /\ r.kind = "source"
    /\ r.pc = "resolve" => r.asset \in {"sums", "usums"}
    /\ r.pc \in {"refresh", "swap"} <=> r.kind = "refresh"
    /\ r.pc \in {"write", "publish"} => r.asset = "package"

(* What it has compared so far, where the publisher gives digests.           *)
Compared(r) ==
    /\ r.kind = "userspace" /\ r.pc # "resolve" => cacheDigests /\ r.selected = Pinned
    /\ cacheDigests /\ r.asset \in {"bundle", "package", "payload"}
          => r.sums = r.selected
    /\ cacheDigests /\ r.asset = "package" => r.recorded = r.selected
    /\ r.asset = "package" => r.recorded # 0
    /\ cacheDigests /\ r.pc \in {"write", "publish"} => r.got = r.selected

(* The file it is acquiring, step by step.                                   *)
Acquiring(p, r) ==
    LET part == cachePart[r.asset]
        entry == cacheEntry[r.asset]
    IN  /\ r.pc = "create" => part = NoFile
        /\ r.pc = "copy" => part = [body |-> Partial, writer |-> p]
        /\ r.pc = "inspect" =>
              /\ part.body # Partial
              /\ ~r.faulted /\ ~r.legacy =>
                    /\ part # NoFile
                    /\ r.asset \notin SourceAssets => part.body = r.selected
                    /\ r.asset = "pinnedImage" /\ cachePublished = Pinned => part.body = Pinned
        /\ r.pc = "rename" =>
              Accepts(part, Expected(r)) /\ part.body = r.got /\ part.body # Partial
        /\ r.pc = "use" => Accepts(entry, Expected(r)) /\ entry.body = r.got
        /\ r.pc = "publish" => cacheTemp = r.recorded
        /\ r.pc = "swap" => r.got # Partial /\ (r.asset = "pinnedImage" => r.got = Pinned)

Healthy(p, r) == Routed(r) /\ Compared(r) /\ Acquiring(p, r)

(* The causes a command may fail for.                                        *)
Excused(r) ==
    r.pc = "failed" /\ ~r.faulted =>
        ~cacheDigests \/ (r.asset = "pinnedImage" /\ cachePublished # Pinned)

LoneInv ==
    /\ CacheTypeOK
    /\ OnlyOne
    /\ LoneFiles
    /\ \A p \in Live : Healthy(p, cacheProc[p])
    /\ \A p \in Procs : Excused(cacheProc[p])

(* What the invariant says of the one command that runs.                     *)
LEMMA LoneFacts ==
  ASSUME CacheAssumption, LoneInv, NEW p \in Live
  PROVE  /\ p \in Procs /\ p # Nobody /\ cacheProc[p].pc \notin Ended
         /\ cacheProc[p] \in ProcType
         /\ Healthy(p, cacheProc[p])
         /\ \A q \in Procs : q # p => cacheProc[q].pc \in Ended
         /\ \A a \in Assets : cachePart[a].writer # Nobody =>
               cachePart[a].writer = p /\ cacheProc[p].pc = "copy" /\ cacheProc[p].asset = a
<1>1. p \in Procs /\ p # Nobody /\ cacheProc[p].pc \notin Ended /\ cacheProc[p] \in ProcType
  BY DEF Live, CacheAssumption, LoneInv, CacheTypeOK
<1>2. \A q \in Procs : q # p => cacheProc[q].pc \in Ended
  BY DEF Live, LoneInv, OnlyOne
<1>3. ASSUME NEW a \in Assets, cachePart[a].writer # Nobody
      PROVE  cachePart[a].writer = p /\ cacheProc[p].pc = "copy" /\ cacheProc[p].asset = a
  <2>1. cachePart[a] \in CacheFiles
    BY DEF LoneInv, CacheTypeOK
  <2>2. cachePart[a].writer \in Procs
    BY <2>1, <1>3 DEF CacheFiles, NoFile
  <2>3. cacheProc[cachePart[a].writer].pc = "copy" /\ cacheProc[cachePart[a].writer].asset = a
    BY <2>2 DEF LoneInv, LoneFiles
  <2>. QED
    BY <2>2, <2>3, <1>2 DEF Ended
<1>. QED
  BY <1>1, <1>2, <1>3 DEF LoneInv

(* The one command takes a step.                                             *)
LEMMA LoneStep ==
  ASSUME CacheAssumption, LoneInv, NEW p \in Live, NEW r \in ProcType,
         cacheProc' = [cacheProc EXCEPT ![p] = r], UNCHANGED cacheWorld,
         cacheEntry' \in [Assets -> CacheFiles], cachePart' \in [Assets -> CacheFiles],
         cacheTemp' \in Bodies, cacheManifest' \in Bodies, cacheFaults' \in Nat,
         LoneFiles', r.pc \notin Ended => Healthy(p, cacheProc[p])',
         r.pc = "failed" /\ ~r.faulted =>
            ~cacheDigests \/ (r.asset = "pinnedImage" /\ cachePublished # Pinned)
  PROVE  LoneInv'
<1>0. /\ p \in Procs
      /\ \A q \in Procs : q # p => cacheProc[q].pc \in Ended
  BY LoneFacts
<1>1. CacheTypeOK'
  BY <1>0 DEF LoneInv, CacheTypeOK, cacheWorld
<1>2. cacheProc'[p] = r /\ \A q \in Procs : q # p => cacheProc'[q] = cacheProc[q]
  BY <1>0 DEF LoneInv, CacheTypeOK
<1>3. \A q \in Live' : q = p
  BY <1>0, <1>2 DEF Live
<1>4. \A q \in Live' : Healthy(q, cacheProc[q])'
  BY <1>2, <1>3 DEF Live
<1>5. ASSUME NEW q \in Procs PROVE Excused(cacheProc[q])'
  BY <1>2 DEF LoneInv, Excused, cacheWorld
<1>. QED
  BY <1>1, <1>3, <1>4, <1>5 DEF LoneInv, OnlyOne

(* Nothing is written: the files stay as they should be ...                  *)
LEMMA LoneFilesSame ==
  ASSUME CacheAssumption, LoneInv, NEW p \in Live, cacheProc[p].pc # "copy",
         UNCHANGED <<cachePublished, cacheEntry>>,
         \A a \in Assets : cachePart'[a] = cachePart[a] \/ cachePart'[a].writer = Nobody
  PROVE  LoneFiles'
<1>1. ASSUME NEW a \in Assets, NEW q \in Procs, cachePart'[a].writer = q PROVE FALSE
  BY <1>1, LoneFacts DEF CacheAssumption
<1>. QED
  BY <1>1 DEF LoneInv, LoneFiles, EntriesAreWhole

(* ... and so they do when the manifest's download is removed.               *)
LEMMA LoneFilesRemoved ==
  ASSUME CacheAssumption, LoneInv, UNCHANGED cachePublished,
         \A a \in Assets : \/ cacheEntry'[a] = cacheEntry[a]
                           \/ a = "bundle" /\ cacheEntry'[a] = NoFile,
         \A a \in Assets : cachePart'[a].writer = Nobody
  PROVE  LoneFiles'
<1>1. NoFile.writer = Nobody /\ NoFile.body = AnyBody /\ AnyBody # Partial
  BY DEF NoFile, AnyBody, Partial, CacheAssumption
<1>2. \A a \in Assets : cacheEntry'[a].writer = Nobody
  BY <1>1 DEF LoneInv, LoneFiles
<1>3. EntriesAreWhole'
  BY <1>1 DEF LoneInv, LoneFiles, EntriesAreWhole
<1>. QED
  BY <1>2, <1>3 DEF LoneInv, LoneFiles, CacheAssumption

(* The one command fails.                                                    *)
LEMMA LoneFails ==
  ASSUME CacheAssumption, LoneInv, NEW p \in Live, Fail(p, FALSE),
         cacheProc[p].pc # "copy",
         UNCHANGED <<cacheWorld, cacheFaults, cacheTemp, cacheManifest>>,
         \/ UNCHANGED cachePart
         \/ cachePart' = [cachePart EXCEPT ![cacheProc[p].asset] = NoFile],
         cacheProc[p].kind # "refresh",
         \/ ~cacheDigests \/ cacheProc[p].faulted \/ cacheProc[p].legacy
         \/ cacheProc[p].asset = "pinnedImage" /\ cachePublished # Pinned
  PROVE  LoneInv'
<1>. DEFINE old == cacheProc[p]
            r   == Failing(old, FALSE)
<1>0. /\ p \in Procs /\ old \in ProcType /\ old.pc \notin Ended
      /\ Healthy(p, old)
      /\ \A a \in Assets : cachePart[a].writer = Nobody
  BY LoneFacts
<1>1. cacheProc' = [cacheProc EXCEPT ![p] = r]
  BY DEF Fail
<1>2. r \in ProcType
  BY <1>0 DEF Failing, ProcType, CacheSteps
<1>3. NoFile \in CacheFiles /\ NoFile.writer = Nobody
  BY DEF NoFile, CacheFiles
<1>4. cacheEntry \in [Assets -> CacheFiles] /\ cachePart \in [Assets -> CacheFiles]
      /\ cacheTemp \in Bodies /\ cacheManifest \in Bodies /\ cacheFaults \in Nat
      /\ cacheProc \in [Procs -> ProcType]
  BY DEF LoneInv, CacheTypeOK
<1>5. /\ cacheEntry' \in [Assets -> CacheFiles]
      /\ \A a \in Assets : cacheEntry'[a] = cacheEntry[a] \/ (a = "bundle" /\ cacheEntry'[a] = NoFile)
  BY <1>3, <1>4 DEF Fail, WithoutBundle
<1>6. /\ cachePart' \in [Assets -> CacheFiles]
      /\ \A a \in Assets : cachePart'[a].writer = Nobody
  BY <1>0, <1>3, <1>4
<1>7. LoneFiles'
  BY <1>5, <1>6, LoneFilesRemoved DEF cacheWorld
<1>8. cacheProc'[p] = r
  BY <1>0, <1>1, <1>4
<1>9. r.pc \notin Ended => Healthy(p, cacheProc[p])'
  <2>. SUFFICES ASSUME r.pc \notin Ended PROVE Healthy(p, cacheProc[p])'
    OBVIOUS
  <2>1. old.legacy
    BY <1>0 DEF Failing, Ended, ProcType
  <2>2. r = [old EXCEPT !.pc = "look", !.legacy = FALSE, !.faulted = @ \/ FALSE]
    BY <2>1 DEF Failing
  <2>3. /\ r.kind = old.kind /\ r.asset = old.asset /\ r.pc = "look" /\ ~r.legacy
        /\ r.selected = old.selected /\ r.sums = old.sums
        /\ r.recorded = old.recorded /\ r.got = old.got
    BY <2>2, <1>0 DEF ProcType
  <2>4. old.kind = "source" /\ old.asset = "pinnedImage"
    BY <2>1, <1>0 DEF Healthy, Routed
  <2>. QED
    BY <2>3, <2>4, <1>8 DEF Healthy, Routed, Compared, Acquiring, SourceAssets
<1>10. r.pc = "failed" /\ ~r.faulted =>
          ~cacheDigests \/ (r.asset = "pinnedImage" /\ cachePublished # Pinned)
  BY <1>0 DEF Failing, ProcType
<1>. QED
  BY <1>1, <1>2, <1>4, <1>5, <1>6, <1>7, <1>9, <1>10, LoneStep

(* The digest a file must have.                                              *)
LEMMA ExpectedDigest ==
  ASSUME NEW r
  PROVE  /\ r.asset = "usums" => Expected(r) = r.selected
         /\ r.asset = "sums" => Expected(r) = IF cacheDigests THEN r.selected ELSE AnyBody
         /\ r.asset = "image" => Expected(r) = AnyBody
         /\ r.asset = "pinnedImage" => Expected(r) = Pinned
         /\ r.asset \in {"bundle", "package", "payload"} => Expected(r) = r.sums
BY DEF Expected

(* Special contents are distinct from each other and from releases.          *)
LEMMA CacheNumbers ==
  ASSUME CacheAssumption
  PROVE  /\ AnyBody # Partial /\ Wrong # Partial /\ AnyBody \notin Bodies
         /\ Releases \subseteq Bodies /\ Wrong \in Bodies /\ Partial \in Bodies
         /\ Wrong # AnyBody /\ Partial \notin Releases /\ Pinned \in Releases
         /\ 0 \notin Releases
BY DEF CacheAssumption, AnyBody, Partial, Wrong, Bodies, Releases

(* ... which only its file, selection and checksums decide.                  *)
LEMMA ExpectedKept ==
  ASSUME NEW p, NEW r, cacheProc'[p].asset = r.asset,
         cacheProc'[p].selected = r.selected, cacheProc'[p].sums = r.sums,
         UNCHANGED cacheDigests
  PROVE  Expected(cacheProc[p])' = Expected(r)
BY DEF Expected

(* A step that writes no file of the cache.                                  *)
LEMMA LoneQuiet ==
  ASSUME CacheAssumption, LoneInv, NEW p \in Live, NEW r \in ProcType,
         cacheProc' = [cacheProc EXCEPT ![p] = r], UNCHANGED <<cacheWorld, cacheEntry>>,
         cacheProc[p].pc # "copy",
         \/ UNCHANGED cachePart
         \/ cachePart' = [cachePart EXCEPT ![cacheProc[p].asset] = NoFile],
         cacheTemp' \in Bodies, cacheManifest' \in Bodies, cacheFaults' \in Nat,
         r.pc \notin Ended /\ cacheProc'[p] = r => Healthy(p, cacheProc[p])',
         r.pc = "failed" /\ ~r.faulted =>
            ~cacheDigests \/ (r.asset = "pinnedImage" /\ cachePublished # Pinned)
  PROVE  LoneInv'
<1>1. NoFile \in CacheFiles /\ NoFile.writer = Nobody
  BY DEF NoFile, CacheFiles
<1>2. cacheEntry \in [Assets -> CacheFiles] /\ cachePart \in [Assets -> CacheFiles]
      /\ cacheProc \in [Procs -> ProcType] /\ p \in Procs
  BY LoneFacts DEF LoneInv, CacheTypeOK
<1>3. /\ cachePart' \in [Assets -> CacheFiles]
      /\ \A a \in Assets : cachePart'[a] = cachePart[a] \/ cachePart'[a].writer = Nobody
  BY <1>1, <1>2
<1>4. LoneFiles'
  BY <1>3, LoneFilesSame DEF cacheWorld
<1>5. cacheProc'[p] = r
  BY <1>2
<1>. QED
  BY <1>2, <1>3, <1>4, <1>5, LoneStep

(* A command asks what to acquire.                                           *)
LEMMA LoneResolve ==
  ASSUME CacheAssumption, LoneInv, NEW p \in Live, CacheResolve(p)
  PROVE  LoneInv'
<1>. DEFINE old == cacheProc[p]
            r   == [old EXCEPT !.pc = "look",
                      !.selected = IF old.kind = "kernel" THEN cachePublished ELSE Pinned]
<1>0. old \in ProcType /\ Healthy(p, old) /\ old.pc = "resolve"
  BY LoneFacts DEF CacheResolve
<1>1. cacheTemp' \in Bodies /\ cacheManifest' \in Bodies /\ cacheFaults' \in Nat
      /\ cachePublished \in Releases /\ Pinned \in Releases
  BY CacheNumbers DEF CacheResolve, LoneInv, CacheTypeOK
<1>2. CASE Fail(p, FALSE) /\ ~cacheDigests
  <2>1. old.kind # "refresh"
    BY <1>0 DEF Healthy, Routed
  <2>. QED
    BY <1>0, <1>2, <2>1, LoneFails DEF CacheResolve
<1>3. CASE /\ cacheProc' = [cacheProc EXCEPT ![p] = r] /\ UNCHANGED cacheEntry
           /\ ~(old.kind = "userspace" /\ ~cacheDigests)
  <2>1. r \in ProcType
    BY <1>0, <1>1 DEF ProcType, CacheSteps
  <2>2. /\ r.pc = "look" /\ r.kind = old.kind /\ r.asset = old.asset /\ r.legacy = old.legacy
        /\ old.kind # "kernel" => r.selected = Pinned
    BY <1>0 DEF ProcType
  <2>3. ASSUME cacheProc'[p] = r PROVE Healthy(p, cacheProc[p])'
    BY <1>0, <1>3, <2>2, <2>3
    DEF Healthy, Routed, Compared, Acquiring, CacheResolve, cacheWorld, ProcType
  <2>. QED
    BY <1>0, <1>1, <1>3, <2>1, <2>2, <2>3, LoneQuiet DEF CacheResolve, Ended
<1>. QED
  BY <1>2, <1>3 DEF CacheResolve

(* It looks at the entry and removes a leftover neighbour.                   *)
LEMMA LoneLook ==
  ASSUME CacheAssumption, LoneInv, NEW p \in Live, CacheLook(p)
  PROVE  LoneInv'
<1>. DEFINE old   == cacheProc[p]
            found == [old EXCEPT !.pc = "use", !.got = cacheEntry[old.asset].body]
            other == [old EXCEPT !.pc = "create"]
<1>0. old \in ProcType /\ Healthy(p, old) /\ old.pc = "look"
  BY LoneFacts DEF CacheLook
<1>1. cacheTemp' \in Bodies /\ cacheManifest' \in Bodies /\ cacheFaults' \in Nat
      /\ cacheEntry \in [Assets -> CacheFiles] /\ cachePart \in [Assets -> CacheFiles]
      /\ old.asset \in Assets
  BY <1>0 DEF CacheLook, LoneInv, CacheTypeOK, ProcType
<1>2. CASE /\ Accepts(cacheEntry[old.asset], Expected(old))
           /\ cacheProc' = [cacheProc EXCEPT ![p] = found] /\ UNCHANGED cachePart
  <2>1. found \in ProcType
    <3>1. cacheEntry[old.asset].body \in Bodies
      BY <1>1, <1>2 DEF Accepts, CacheFiles
    <3>. QED
      BY <1>0, <3>1 DEF ProcType, CacheSteps
  <2>2. /\ found.pc = "use" /\ found.kind = old.kind /\ found.asset = old.asset
        /\ found.legacy = old.legacy /\ found.selected = old.selected /\ found.sums = old.sums
        /\ found.recorded = old.recorded /\ found.faulted = old.faulted
        /\ found.got = cacheEntry[old.asset].body
    BY <1>0 DEF ProcType
  <2>3. ASSUME cacheProc'[p] = found PROVE Healthy(p, cacheProc[p])'
    <3>0. UNCHANGED cacheDigests
      BY DEF CacheLook, cacheWorld
    <3>1. Expected(cacheProc[p])' = Expected(old)
      BY <2>2, <2>3, <3>0, ExpectedKept
    <3>2. Acquiring(p, cacheProc[p])'
      BY <1>2, <2>2, <2>3, <3>1 DEF Acquiring, Accepts, CacheLook
    <3>. QED
      BY <1>0, <2>2, <2>3, <3>2 DEF Healthy, Routed, Compared, CacheLook, cacheWorld
  <2>. QED
    BY <1>0, <1>1, <1>2, <2>1, <2>2, <2>3, LoneQuiet DEF CacheLook
<1>3. CASE /\ cacheProc' = [cacheProc EXCEPT ![p] = other]
           /\ cachePart' = [cachePart EXCEPT ![old.asset] = NoFile]
  <2>1. other \in ProcType
    BY <1>0 DEF ProcType, CacheSteps
  <2>2. /\ other.pc = "create" /\ other.kind = old.kind /\ other.asset = old.asset
        /\ other.legacy = old.legacy /\ other.selected = old.selected /\ other.sums = old.sums
        /\ other.recorded = old.recorded /\ other.faulted = old.faulted
    BY <1>0 DEF ProcType
  <2>3. ASSUME cacheProc'[p] = other PROVE Healthy(p, cacheProc[p])'
    <3>2. Acquiring(p, cacheProc[p])'
      BY <1>1, <1>3, <2>2, <2>3 DEF Acquiring
    <3>. QED
      BY <1>0, <2>2, <2>3, <3>2 DEF Healthy, Routed, Compared, CacheLook, cacheWorld
  <2>. QED
    BY <1>0, <1>1, <1>3, <2>1, <2>2, <2>3, LoneQuiet DEF CacheLook
<1>. QED
  BY <1>2, <1>3 DEF CacheLook

(* No neighbour is there when it creates its own.                            *)
LEMMA LoneCreate ==
  ASSUME CacheAssumption, LoneInv, NEW p \in Live, CacheCreate(p)
  PROVE  LoneInv'
<1>. DEFINE old == cacheProc[p]
            r   == [old EXCEPT !.pc = "copy"]
            new == [body |-> Partial, writer |-> p]
<1>0. old \in ProcType /\ Healthy(p, old) /\ old.pc = "create" /\ p \in Procs
      /\ \A a \in Assets : cachePart[a].writer = Nobody
  BY LoneFacts DEF CacheCreate
<1>1. cacheTemp' \in Bodies /\ cacheManifest' \in Bodies /\ cacheFaults' \in Nat
      /\ cacheEntry \in [Assets -> CacheFiles] /\ cachePart \in [Assets -> CacheFiles]
      /\ old.asset \in Assets /\ cacheProc \in [Procs -> ProcType]
  BY <1>0 DEF CacheCreate, LoneInv, CacheTypeOK, ProcType
<1>2. /\ cachePart' = [cachePart EXCEPT ![old.asset] = new]
      /\ cacheProc' = [cacheProc EXCEPT ![p] = r] /\ UNCHANGED <<cacheWorld, cacheEntry>>
  BY <1>0 DEF CacheCreate, Healthy, Acquiring
<1>3. r \in ProcType /\ cacheProc'[p] = r
  BY <1>0, <1>1, <1>2 DEF ProcType, CacheSteps
<1>4. /\ r.pc = "copy" /\ r.kind = old.kind /\ r.asset = old.asset
      /\ r.legacy = old.legacy /\ r.selected = old.selected /\ r.sums = old.sums
      /\ r.recorded = old.recorded /\ r.faulted = old.faulted
  BY <1>0 DEF ProcType
<1>5. new \in CacheFiles
  BY <1>0, CacheNumbers DEF CacheFiles
<1>6. cachePart' \in [Assets -> CacheFiles]
  BY <1>1, <1>2, <1>5
<1>7. LoneFiles'
  <2>1. ASSUME NEW a \in Assets, NEW q \in Procs, cachePart'[a].writer = q
        PROVE  a = old.asset /\ q = p
    BY <1>0, <1>1, <1>2, <2>1 DEF CacheAssumption
  <2>. QED
    BY <1>2, <1>3, <1>4, <2>1 DEF LoneInv, LoneFiles, EntriesAreWhole, cacheWorld
<1>8. Healthy(p, cacheProc[p])'
  <2>1. Acquiring(p, cacheProc[p])'
    BY <1>1, <1>2, <1>3, <1>4 DEF Acquiring
  <2>. QED
    BY <1>0, <1>2, <1>3, <1>4, <2>1 DEF Healthy, Routed, Compared, cacheWorld
<1>. QED
  BY <1>1, <1>2, <1>3, <1>4, <1>6, <1>7, <1>8, LoneStep

(* A temporary file is filled.  No entry is open.                            *)
LEMMA LoneFill ==
  ASSUME CacheAssumption, LoneInv, NEW p \in Live, NEW b, NEW fault \in BOOLEAN,
         cacheProc[p].pc = "copy", FillWith(p, b, fault),
         b \in Bodies \/ b = AnyBody, b # Partial, cacheFaults' \in Nat,
         ~fault /\ ~cacheProc[p].legacy => b = Served(cacheProc[p]),
         UNCHANGED <<cacheTemp, cacheManifest, cacheWorld>>
  PROVE  LoneInv'
<1>. DEFINE old == cacheProc[p]
            r   == [old EXCEPT !.pc = "inspect", !.faulted = @ \/ fault]
            new == [body |-> b, writer |-> Nobody]
<1>0. /\ old \in ProcType /\ Healthy(p, old) /\ p \in Procs /\ p # Nobody
      /\ \A a \in Assets : cachePart[a].writer # Nobody => a = old.asset
  BY LoneFacts
<1>1. cacheTemp' \in Bodies /\ cacheManifest' \in Bodies
      /\ cacheEntry \in [Assets -> CacheFiles] /\ cachePart \in [Assets -> CacheFiles]
      /\ old.asset \in Assets /\ cacheProc \in [Procs -> ProcType]
      /\ cachePublished \in Releases
  BY <1>0 DEF LoneInv, CacheTypeOK, ProcType
<1>2. cachePart[old.asset] = [body |-> Partial, writer |-> p]
  BY <1>0 DEF Healthy, Acquiring
<1>3. \A a \in Assets : cachePart'[a] = IF a = old.asset THEN new ELSE cachePart[a]
  BY <1>0, <1>2 DEF FillWith, Filled
<1>4. new \in CacheFiles
  BY DEF CacheFiles, NoFile
<1>5. cachePart' \in [Assets -> CacheFiles]
  <2>1. cachePart' = [a \in Assets |-> cachePart'[a]]
    BY DEF FillWith, Filled
  <2>. QED
    BY <1>1, <1>3, <1>4, <2>1
<1>6. cacheEntry' = cacheEntry
  <2>1. \A a \in Assets : cacheEntry[a].writer # p
    BY <1>0 DEF LoneInv, LoneFiles
  <2>2. cacheEntry' = [a \in Assets |-> cacheEntry[a]]
    BY <2>1 DEF FillWith, Filled
  <2>. QED
    BY <1>1, <2>2
<1>7. cacheProc' = [cacheProc EXCEPT ![p] = r]
  BY <1>0, <1>1 DEF FillWith
<1>8. r \in ProcType /\ cacheProc'[p] = r
  BY <1>0, <1>1, <1>7 DEF ProcType, CacheSteps
<1>9. /\ r.pc = "inspect" /\ r.kind = old.kind /\ r.asset = old.asset
      /\ r.legacy = old.legacy /\ r.selected = old.selected /\ r.sums = old.sums
      /\ r.recorded = old.recorded /\ r.faulted = (old.faulted \/ fault)
  BY <1>0 DEF ProcType
<1>10. LoneFiles'
  <2>1. ASSUME NEW a \in Assets PROVE cachePart'[a].writer = Nobody
    BY <1>0, <1>3
  <2>. QED
    BY <1>6, <2>1 DEF LoneInv, LoneFiles, EntriesAreWhole, cacheWorld, CacheAssumption
<1>11. ASSUME ~r.faulted, ~r.legacy
       PROVE  /\ new # NoFile
              /\ r.asset \notin SourceAssets => b = r.selected
              /\ r.asset = "pinnedImage" /\ cachePublished = Pinned => b = Pinned
  <2>1. ~fault /\ ~old.legacy
    BY <1>9, <1>11
  <2>2. b = IF old.asset \in SourceAssets THEN cachePublished ELSE old.selected
    BY <2>1 DEF Served
  <2>3. b \in Bodies
    BY <1>0, <1>1, <2>2, CacheNumbers DEF ProcType
  <2>. QED
    BY <1>9, <2>2, <2>3, CacheNumbers DEF NoFile, SourceAssets
<1>12. Healthy(p, cacheProc[p])'
  <2>1. cachePart'[r.asset] = new
    BY <1>1, <1>3, <1>9
  <2>2. Acquiring(p, cacheProc[p])'
    BY <1>8, <1>9, <1>11, <2>1 DEF Acquiring, cacheWorld
  <2>. QED
    BY <1>0, <1>8, <1>9, <2>2 DEF Healthy, Routed, Compared, cacheWorld
<1>. QED
  BY <1>1, <1>5, <1>6, <1>7, <1>8, <1>9, <1>10, <1>12, LoneStep

(* What it downloads or copies is whole, if it arrives.                      *)
LEMMA LoneCopies ==
  ASSUME CacheAssumption, LoneInv, NEW p \in Live, CacheCopy(p) \/ CacheCopyWrong(p)
  PROVE  LoneInv'
<1>1. cacheProc[p] \in ProcType /\ cacheProc[p].pc = "copy"
      /\ cachePublished \in Releases /\ cacheFaults \in Nat
  BY LoneFacts DEF CacheCopy, CacheCopyWrong, LoneInv, CacheTypeOK
<1>2. CASE CacheCopy(p)
  <2>1. "image" \in Assets
    BY DEF Assets, SourceAssets
  <2>2. cacheEntry["image"].body \in Bodies \/ cacheEntry["image"].body = AnyBody
    BY <2>1 DEF LoneInv, CacheTypeOK, CacheFiles, NoFile
  <2>3. cacheEntry["image"].body # Partial
    BY <2>1 DEF LoneInv, LoneFiles, EntriesAreWhole
  <2>4. LET b == Served(cacheProc[p]) IN b # Partial /\ (b \in Bodies \/ b = AnyBody)
    BY <1>1, <2>2, <2>3, CacheNumbers DEF Served, ProcType
  <2>5. /\ FillWith(p, Served(cacheProc[p]), FALSE) /\ cacheFaults' \in Nat
        /\ UNCHANGED <<cacheTemp, cacheManifest, cacheWorld>>
    BY <1>1, <1>2 DEF CacheCopy
  <2>. QED
    BY <1>1, <2>4, <2>5, LoneFill
<1>3. CASE CacheCopyWrong(p)
  <2>1. /\ FillWith(p, Wrong, TRUE)
        /\ UNCHANGED <<cacheTemp, cacheManifest, cacheWorld>>
    BY <1>3, Zenon DEF CacheCopyWrong
  <2>2. cacheFaults' \in Nat
    BY <1>1, <1>3 DEF CacheCopyWrong, CacheFault
  <2>3. Wrong \in Bodies /\ Wrong # Partial
    BY CacheNumbers
  <2>. QED
    BY <1>1, <2>1, <2>2, <2>3, LoneFill
<1>. QED
  BY <1>2, <1>3

(* A download that fails takes its neighbour with it.                        *)
LEMMA LoneCopyFails ==
  ASSUME CacheAssumption, LoneInv, NEW p \in Live, CacheCopyFails(p)
  PROVE  LoneInv'
<1>. DEFINE old == cacheProc[p]
            r   == Failing(old, TRUE)
<1>0. /\ old \in ProcType /\ Healthy(p, old) /\ p \in Procs /\ p # Nobody
      /\ \A a \in Assets : cachePart[a].writer # Nobody => a = old.asset
      /\ old.pc = "copy"
  BY LoneFacts DEF CacheCopyFails
<1>1. cacheTemp' \in Bodies /\ cacheManifest' \in Bodies /\ cacheFaults' \in Nat
      /\ cacheEntry \in [Assets -> CacheFiles] /\ cachePart \in [Assets -> CacheFiles]
      /\ old.asset \in Assets /\ cacheProc \in [Procs -> ProcType]
  BY <1>0 DEF CacheCopyFails, CacheFault, LoneInv, CacheTypeOK, ProcType
<1>2. NoFile \in CacheFiles /\ NoFile.writer = Nobody
  BY DEF NoFile, CacheFiles
<1>3. ASSUME NEW files \in [Assets -> CacheFiles], NEW a \in Assets, files[a].writer # p
      PROVE  Closed(files, p)[a] = files[a]
  BY <1>3 DEF Closed
<1>4. /\ cachePart' \in [Assets -> CacheFiles]
      /\ \A a \in Assets : cachePart'[a].writer = Nobody
  <2>1. cachePart' = [Closed(cachePart, p) EXCEPT ![old.asset] = NoFile]
    BY DEF CacheCopyFails
  <2>2. DOMAIN Closed(cachePart, p) = Assets
        /\ Closed(cachePart, p) = [a \in Assets |-> Closed(cachePart, p)[a]]
    BY DEF Closed
  <2>3. \A a \in Assets : a # old.asset => Closed(cachePart, p)[a] = cachePart[a]
    BY <1>0, <1>1, <1>3
  <2>4. \A a \in Assets : cachePart'[a] = IF a = old.asset THEN NoFile ELSE cachePart[a]
    BY <2>1, <2>2, <2>3
  <2>5. DOMAIN cachePart' = Assets /\ cachePart' = [a \in Assets |-> cachePart'[a]]
    BY <2>1, <2>2
  <2>. QED
    BY <1>0, <1>1, <1>2, <2>4, <2>5
<1>5. /\ cacheEntry' \in [Assets -> CacheFiles]
      /\ \A a \in Assets : cacheEntry'[a] = cacheEntry[a] \/ (a = "bundle" /\ cacheEntry'[a] = NoFile)
  <2>1. \A a \in Assets : cacheEntry[a].writer # p
    BY <1>0 DEF LoneInv, LoneFiles
  <2>2. Closed(cacheEntry, p) = [a \in Assets |-> cacheEntry[a]]
    BY <2>1 DEF Closed
  <2>3. Closed(cacheEntry, p) = cacheEntry
    BY <1>1, <2>2
  <2>4. cacheEntry' = WithoutBundle(old, cacheEntry)
    BY <2>3 DEF CacheCopyFails
  <2>. QED
    BY <1>1, <1>2, <2>4 DEF WithoutBundle
<1>6. LoneFiles'
  BY <1>4, <1>5, LoneFilesRemoved DEF CacheCopyFails, cacheWorld
<1>7. cacheProc' = [cacheProc EXCEPT ![p] = r]
  BY DEF CacheCopyFails
<1>8. r \in ProcType /\ cacheProc'[p] = r
  BY <1>0, <1>1, <1>7 DEF Failing, ProcType, CacheSteps
<1>9. /\ r.kind = old.kind /\ r.asset = old.asset /\ ~r.legacy
      /\ r.selected = old.selected /\ r.sums = old.sums
      /\ r.recorded = old.recorded /\ r.faulted
      /\ r.pc \in {"look", "failed"} /\ (r.pc = "look" => old.legacy)
  BY <1>0 DEF Failing, ProcType
<1>10. r.pc \notin Ended => Healthy(p, cacheProc[p])'
  BY <1>0, <1>8, <1>9
  DEF Healthy, Routed, Compared, Acquiring, SourceAssets, Ended, CacheCopyFails, cacheWorld
<1>. QED
  BY <1>1, <1>4, <1>5, <1>6, <1>7, <1>8, <1>9, <1>10, LoneStep DEF CacheCopyFails

(* What a fault has not touched is what is expected.                         *)
LEMMA LoneInspect ==
  ASSUME CacheAssumption, LoneInv, NEW p \in Live, CacheInspect(p)
  PROVE  LoneInv'
<1>. DEFINE old  == cacheProc[p]
            r    == [old EXCEPT !.pc = "rename", !.got = cachePart[old.asset].body]
            part == cachePart[old.asset]
<1>0. /\ old \in ProcType /\ Healthy(p, old) /\ old.pc = "inspect"
  BY LoneFacts DEF CacheInspect
<1>1. cacheTemp' \in Bodies /\ cacheManifest' \in Bodies /\ cacheFaults' \in Nat
      /\ cachePart \in [Assets -> CacheFiles] /\ old.asset \in Assets
      /\ cachePublished \in Releases
  BY <1>0 DEF CacheInspect, LoneInv, CacheTypeOK, ProcType
<1>2. CASE ~Accepts(part, Expected(old))
  <2>1. old.kind # "refresh"
    BY <1>0 DEF Healthy, Routed
  <2>2. \/ ~cacheDigests \/ old.faulted \/ old.legacy
        \/ old.asset = "pinnedImage" /\ cachePublished # Pinned
    <3>1. SUFFICES ASSUME cacheDigests, ~old.faulted, ~old.legacy,
                          old.asset = "pinnedImage" => cachePublished = Pinned
                   PROVE  FALSE
      BY <1>0 DEF ProcType
    <3>2. /\ part # NoFile
          /\ old.asset \notin SourceAssets => part.body = old.selected
          /\ old.asset = "pinnedImage" => part.body = Pinned
          /\ old.asset \in {"bundle", "package", "payload"} => old.sums = old.selected
      BY <1>0, <3>1 DEF Healthy, Acquiring, Compared
    <3>3. Expected(old) # AnyBody /\ Expected(old) # part.body
      BY <1>2, <3>2 DEF Accepts
    <3>4. CASE old.asset \in {"usums", "sums"}
      BY <3>1, <3>2, <3>3, <3>4, ExpectedDigest DEF SourceAssets
    <3>5. CASE old.asset \in {"bundle", "package", "payload"}
      BY <3>2, <3>3, <3>5, ExpectedDigest DEF SourceAssets
    <3>6. CASE old.asset \in {"image", "pinnedImage"}
      BY <3>2, <3>3, <3>6, ExpectedDigest
    <3>. QED
      BY <1>1, <3>4, <3>5, <3>6 DEF Assets, KernelAssets, UserspaceAssets, SourceAssets
  <2>3. Fail(p, FALSE) /\ cachePart' = [cachePart EXCEPT ![old.asset] = NoFile]
    BY <1>2 DEF CacheInspect
  <2>. QED
    BY <1>0, <2>1, <2>2, <2>3, LoneFails DEF CacheInspect
<1>3. CASE Accepts(part, Expected(old))
  <2>1. /\ cacheProc' = [cacheProc EXCEPT ![p] = r]
        /\ UNCHANGED <<cachePart, cacheWorld, cacheEntry>>
    BY <1>0, <1>3 DEF CacheInspect
  <2>2. r \in ProcType
    <3>1. part.body \in Bodies
      BY <1>1, <1>3 DEF Accepts, CacheFiles
    <3>. QED
      BY <1>0, <3>1 DEF ProcType, CacheSteps
  <2>3. /\ r.pc = "rename" /\ r.kind = old.kind /\ r.asset = old.asset
        /\ r.legacy = old.legacy /\ r.selected = old.selected /\ r.sums = old.sums
        /\ r.recorded = old.recorded /\ r.faulted = old.faulted
        /\ r.got = part.body
    BY <1>0 DEF ProcType
  <2>4. part.body # Partial
    BY <1>0 DEF Healthy, Acquiring
  <2>5. ASSUME cacheProc'[p] = r PROVE Healthy(p, cacheProc[p])'
    <3>0. UNCHANGED cacheDigests
      BY <2>1 DEF cacheWorld
    <3>1. Expected(cacheProc[p])' = Expected(old)
      BY <2>3, <2>5, <3>0, ExpectedKept
    <3>2. Acquiring(p, cacheProc[p])'
      BY <1>3, <2>1, <2>3, <2>4, <2>5, <3>1 DEF Acquiring, Accepts
    <3>. QED
      BY <1>0, <2>1, <2>3, <2>5, <3>2 DEF Healthy, Routed, Compared, cacheWorld
  <2>. QED
    BY <1>0, <1>1, <2>1, <2>2, <2>3, <2>5, LoneQuiet
<1>. QED
  BY <1>2, <1>3

(* What was hashed is what is renamed.                                       *)
LEMMA LoneRename ==
  ASSUME CacheAssumption, LoneInv, NEW p \in Live, CacheRename(p)
  PROVE  LoneInv'
<1>. DEFINE old  == cacheProc[p]
            r    == [old EXCEPT !.pc = "use"]
            part == cachePart[old.asset]
<1>0. /\ old \in ProcType /\ Healthy(p, old) /\ old.pc = "rename" /\ p \in Procs
      /\ \A a \in Assets : cachePart[a].writer = Nobody
  BY LoneFacts DEF CacheRename
<1>1. cacheTemp' \in Bodies /\ cacheManifest' \in Bodies /\ cacheFaults' \in Nat
      /\ cacheEntry \in [Assets -> CacheFiles] /\ cachePart \in [Assets -> CacheFiles]
      /\ old.asset \in Assets /\ cacheProc \in [Procs -> ProcType]
  BY <1>0 DEF CacheRename, LoneInv, CacheTypeOK, ProcType
<1>2. Accepts(part, Expected(old)) /\ part.body = old.got /\ part.body # Partial
  BY <1>0 DEF Healthy, Acquiring
<1>3. /\ cacheEntry' = [cacheEntry EXCEPT ![old.asset] = part]
      /\ cachePart' = [cachePart EXCEPT ![old.asset] = NoFile]
      /\ cacheProc' = [cacheProc EXCEPT ![p] = r] /\ UNCHANGED cacheWorld
  BY <1>2 DEF CacheRename, Accepts
<1>4. r \in ProcType /\ cacheProc'[p] = r
  BY <1>0, <1>1, <1>3 DEF ProcType, CacheSteps
<1>5. /\ r.pc = "use" /\ r.kind = old.kind /\ r.asset = old.asset
      /\ r.legacy = old.legacy /\ r.selected = old.selected /\ r.sums = old.sums
      /\ r.recorded = old.recorded /\ r.faulted = old.faulted /\ r.got = old.got
  BY <1>0 DEF ProcType
<1>6. NoFile \in CacheFiles /\ NoFile.writer = Nobody
  BY DEF NoFile, CacheFiles
<1>7. /\ cachePart' \in [Assets -> CacheFiles] /\ cacheEntry' \in [Assets -> CacheFiles]
      /\ \A a \in Assets : cachePart'[a].writer = Nobody
      /\ \A a \in Assets : cacheEntry'[a] = IF a = old.asset THEN part ELSE cacheEntry[a]
  BY <1>0, <1>1, <1>3, <1>6
<1>8. LoneFiles'
  <2>1. old.asset = "pinnedImage" => part.body = Pinned
    BY <1>2, ExpectedDigest, CacheNumbers DEF Accepts
  <2>2. EntriesAreWhole'
    BY <1>2, <1>7, <2>1 DEF LoneInv, LoneFiles, EntriesAreWhole
  <2>3. \A a \in Assets : cacheEntry'[a].writer = Nobody
    BY <1>0, <1>1, <1>7 DEF LoneInv, LoneFiles
  <2>4. Pinned <= cachePublished'
    BY <1>3 DEF LoneInv, LoneFiles, cacheWorld
  <2>. QED
    BY <1>7, <2>2, <2>3, <2>4 DEF LoneFiles, CacheAssumption
<1>9. Healthy(p, cacheProc[p])'
  <2>0. UNCHANGED cacheDigests
    BY <1>3 DEF cacheWorld
  <2>1. Expected(cacheProc[p])' = Expected(old)
    BY <1>4, <1>5, <2>0, ExpectedKept
  <2>2. Acquiring(p, cacheProc[p])'
    BY <1>1, <1>2, <1>4, <1>5, <1>7, <2>1 DEF Acquiring, Accepts
  <2>. QED
    BY <1>0, <1>3, <1>4, <1>5, <2>2 DEF Healthy, Routed, Compared, cacheWorld
<1>. QED
  BY <1>1, <1>3, <1>4, <1>5, <1>7, <1>8, <1>9, LoneStep

(* A step of a command that only carries on.                                 *)
LEMMA LoneContinues ==
  ASSUME CacheAssumption, LoneInv, NEW p \in Live, NEW r \in ProcType,
         Continue(p, r), OnlyProc, UNCHANGED cacheWorld, cacheProc[p].pc # "copy",
         r.kind = cacheProc[p].kind, r.legacy = cacheProc[p].legacy,
         r.pc \in {"look", "write", "done"}, Routed(r), Compared(r)
  PROVE  LoneInv'
<1>1. cacheTemp' \in Bodies /\ cacheManifest' \in Bodies /\ cacheFaults' \in Nat
      /\ cachePart' = cachePart
  BY DEF LoneInv, CacheTypeOK, OnlyProc
<1>2. ASSUME cacheProc'[p] = r PROVE Healthy(p, cacheProc[p])'
  BY <1>2 DEF Healthy, Routed, Compared, Acquiring, cacheWorld
<1>. QED
  BY <1>1, <1>2, LoneQuiet DEF Continue, cacheWorld, Ended

(* An expected checksum list is of the selected release ...                  *)
LEMMA LoneUseSums ==
  ASSUME CacheAssumption, LoneInv, NEW p \in Live, CacheUseSums(p)
  PROVE  LoneInv'
<1>. DEFINE old  == cacheProc[p]
            list == cacheEntry[old.asset].body
            r    == [old EXCEPT !.sums = list, !.pc = "look",
                        !.asset = IF old.kind = "kernel" THEN "bundle" ELSE "payload"]
<1>0. /\ old \in ProcType /\ Healthy(p, old) /\ old.pc = "use"
      /\ old.asset \in {"sums", "usums"}
  BY LoneFacts DEF CacheUseSums
<1>1. old.kind \in {"kernel", "userspace"} /\ ~old.legacy
  BY <1>0 DEF Healthy, Routed, SourceAssets, ProcType, Kinds
<1>2. cacheDigests => list = old.selected /\ list \in Releases
  BY <1>0, ExpectedDigest, CacheNumbers DEF Healthy, Acquiring, Accepts, ProcType
<1>3. CASE Fail(p, FALSE) /\ ~cacheDigests
  BY <1>0, <1>1, <1>3, LoneFails DEF CacheUseSums, OnlyProc
<1>4. CASE Continue(p, r) /\ ParsesAsChecksums(list) /\ ~(cacheDigests /\ list # old.selected)
  <2>1. r \in ProcType
    BY <1>0, <1>4, CacheNumbers
    DEF ProcType, CacheSteps, ParsesAsChecksums, Assets, KernelAssets, UserspaceAssets
  <2>2. /\ r.pc = "look" /\ r.kind = old.kind /\ r.selected = old.selected
        /\ r.legacy = old.legacy /\ r.sums = list
        /\ r.asset = IF old.kind = "kernel" THEN "bundle" ELSE "payload"
    BY <1>0 DEF ProcType
  <2>3. Routed(r)
    BY <1>0, <1>1, <2>2 DEF Healthy, Routed, KernelAssets, UserspaceAssets
  <2>4. Compared(r)
    BY <1>0, <1>1, <1>2, <2>2 DEF Healthy, Compared
  <2>. QED
    BY <1>0, <1>4, <2>1, <2>2, <2>3, <2>4, LoneContinues
    DEF CacheUseSums, OnlyProc, cacheWorld
<1>. QED
  BY <1>2, <1>3, <1>4 DEF CacheUseSums, Refused, ParsesAsChecksums

(* ... and so is an expected manifest ...                                    *)
LEMMA LoneUseBundle ==
  ASSUME CacheAssumption, LoneInv, NEW p \in Live, CacheUseBundle(p)
  PROVE  LoneInv'
<1>. DEFINE old  == cacheProc[p]
            body == cacheEntry["bundle"].body
            r    == [old EXCEPT !.recorded = body, !.pc = "look", !.asset = "package"]
<1>0. /\ old \in ProcType /\ Healthy(p, old) /\ old.pc = "use" /\ old.asset = "bundle"
  BY LoneFacts DEF CacheUseBundle
<1>1. old.kind = "kernel" /\ ~old.legacy
  BY <1>0 DEF Healthy, Routed, UserspaceAssets, SourceAssets, ProcType, Kinds
<1>2. cacheDigests => body = old.selected /\ body = old.sums /\ body \in Releases
  BY <1>0, ExpectedDigest, CacheNumbers DEF Healthy, Acquiring, Accepts, Compared, ProcType
<1>3. CASE Fail(p, FALSE) /\ ~cacheDigests
  BY <1>0, <1>1, <1>3, LoneFails DEF CacheUseBundle, OnlyProc
<1>4. CASE Continue(p, r) /\ body \in Releases /\ body = old.selected /\ body = old.sums
  <2>1. r \in ProcType
    BY <1>0, <1>4, CacheNumbers DEF ProcType, CacheSteps, Assets, KernelAssets
  <2>2. /\ r.pc = "look" /\ r.kind = old.kind /\ r.selected = old.selected
        /\ r.legacy = old.legacy /\ r.sums = old.sums
        /\ r.asset = "package" /\ r.recorded = body
    BY <1>0 DEF ProcType
  <2>3. Routed(r)
    BY <1>0, <1>1, <2>2 DEF Healthy, Routed, KernelAssets
  <2>4. Compared(r)
    BY <1>1, <1>4, <2>2, CacheNumbers DEF Compared
  <2>. QED
    BY <1>0, <1>4, <2>1, <2>2, <2>3, <2>4, LoneContinues
    DEF CacheUseBundle, OnlyProc, cacheWorld
<1>. QED
  BY <1>2, <1>3, <1>4 DEF CacheUseBundle, Refused, DecodesAsBundle

(* ... and an expected package.                                              *)
LEMMA LoneUsePackage ==
  ASSUME CacheAssumption, LoneInv, NEW p \in Live, CacheUsePackage(p)
  PROVE  LoneInv'
<1>. DEFINE old == cacheProc[p]
            r   == [old EXCEPT !.pc = "write"]
<1>0. /\ old \in ProcType /\ Healthy(p, old) /\ old.pc = "use" /\ old.asset = "package"
  BY LoneFacts DEF CacheUsePackage
<1>1. old.kind = "kernel" /\ ~old.legacy
  BY <1>0 DEF Healthy, Routed, UserspaceAssets, SourceAssets, ProcType, Kinds
<1>2. cacheDigests => old.got = old.recorded /\ old.got = old.selected
  BY <1>0, ExpectedDigest, CacheNumbers DEF Healthy, Acquiring, Accepts, Compared, ProcType
<1>3. CASE Fail(p, FALSE) /\ ~cacheDigests
  BY <1>0, <1>1, <1>3, LoneFails DEF CacheUsePackage, OnlyProc
<1>4. CASE Continue(p, r) /\ old.got = old.recorded
  <2>1. r \in ProcType
    BY <1>0 DEF ProcType, CacheSteps
  <2>2. /\ r.pc = "write" /\ r.kind = old.kind /\ r.selected = old.selected
        /\ r.legacy = old.legacy /\ r.sums = old.sums /\ r.got = old.got
        /\ r.asset = old.asset /\ r.recorded = old.recorded
    BY <1>0 DEF ProcType
  <2>3. Routed(r)
    BY <1>0, <1>1, <2>2 DEF Healthy, Routed
  <2>4. Compared(r)
    BY <1>0, <1>1, <1>2, <2>2 DEF Healthy, Compared
  <2>. QED
    BY <1>0, <1>4, <2>1, <2>2, <2>3, <2>4, LoneContinues
    DEF CacheUsePackage, OnlyProc, cacheWorld
<1>. QED
  BY <1>2, <1>3, <1>4 DEF CacheUsePackage, Refused

(* An expected compatibility manifest is the pinned one.                     *)
LEMMA LoneUseLast ==
  ASSUME CacheAssumption, LoneInv, NEW p \in Live, CacheUsePayload(p) \/ CacheUseSource(p)
  PROVE  LoneInv'
<1>. DEFINE old == cacheProc[p]
            r   == [old EXCEPT !.pc = "done"]
<1>0. /\ old \in ProcType /\ Healthy(p, old) /\ old.pc = "use"
      /\ OnlyProc /\ UNCHANGED cacheWorld
  BY LoneFacts DEF CacheUsePayload, CacheUseSource, OnlyProc, cacheWorld
<1>1. CASE Continue(p, r)
  <2>1. r \in ProcType
    BY <1>0 DEF ProcType, CacheSteps
  <2>2. /\ r.pc = "done" /\ r.kind = old.kind /\ r.selected = old.selected
        /\ r.legacy = old.legacy /\ r.sums = old.sums /\ r.got = old.got
        /\ r.asset = old.asset /\ r.recorded = old.recorded
    BY <1>0 DEF ProcType
  <2>3. Routed(r) /\ Compared(r)
    BY <1>0, <2>2 DEF Healthy, Routed, Compared
  <2>. QED
    BY <1>0, <1>1, <2>1, <2>2, <2>3, LoneContinues
<1>2. CASE Fail(p, FALSE) /\ old.asset = "payload" /\ cacheEntry["payload"].body # Pinned
  <2>1. old.kind = "userspace"
    BY <1>0, <1>2 DEF Healthy, Routed, KernelAssets, SourceAssets, ProcType, Kinds
  <2>2. Expected(old) = Pinned
    BY <1>0, <1>2, <2>1, ExpectedDigest DEF Healthy, Compared
  <2>3. FALSE
    BY <1>0, <1>2, <2>2, CacheNumbers DEF Healthy, Acquiring, Accepts
  <2>. QED
    BY <2>3
<1>. QED
  BY <1>1, <1>2 DEF CacheUsePayload, CacheUseSource, Refused

(* The kernel bundle's manifest is there to be renamed.                      *)
LEMMA LoneManifest ==
  ASSUME CacheAssumption, LoneInv, NEW p \in Live,
         CacheWriteManifest(p) \/ CachePublishManifest(p)
  PROVE  LoneInv'
<1>. DEFINE old  == cacheProc[p]
            next == [old EXCEPT !.pc = "publish"]
            last == [old EXCEPT !.pc = "done"]
<1>0. /\ old \in ProcType /\ Healthy(p, old) /\ old.pc \in {"write", "publish"}
      /\ p \in Procs /\ \A a \in Assets : cachePart[a].writer = Nobody
  BY LoneFacts DEF CacheWriteManifest, CachePublishManifest
<1>1. /\ cacheEntry \in [Assets -> CacheFiles] /\ cachePart \in [Assets -> CacheFiles]
      /\ cacheProc \in [Procs -> ProcType] /\ cacheTemp \in Bodies
      /\ cacheManifest \in Bodies /\ cacheFaults \in Nat
  BY DEF LoneInv, CacheTypeOK
<1>2. CASE CacheWriteManifest(p)
  <2>1. next \in ProcType
    BY <1>0 DEF ProcType, CacheSteps
  <2>2. /\ next.pc = "publish" /\ next.kind = old.kind /\ next.selected = old.selected
        /\ next.legacy = old.legacy /\ next.sums = old.sums /\ next.got = old.got
        /\ next.asset = old.asset /\ next.recorded = old.recorded
    BY <1>0 DEF ProcType
  <2>3. /\ cacheProc' = [cacheProc EXCEPT ![p] = next] /\ cacheTemp' = old.recorded
        /\ UNCHANGED <<cacheEntry, cachePart, cacheManifest, cacheWorld, cacheFaults>>
        /\ old.pc = "write"
    BY <1>2 DEF CacheWriteManifest
  <2>4. cacheTemp' \in Bodies
    BY <1>0, <2>3 DEF ProcType
  <2>5. ASSUME cacheProc'[p] = next PROVE Healthy(p, cacheProc[p])'
    BY <1>0, <2>2, <2>3, <2>5 DEF Healthy, Routed, Compared, Acquiring, cacheWorld
  <2>. QED
    BY <1>0, <1>1, <2>1, <2>2, <2>3, <2>4, <2>5, LoneQuiet DEF Ended
<1>3. CASE CachePublishManifest(p)
  <2>1. last \in ProcType
    BY <1>0 DEF ProcType, CacheSteps
  <2>2. cacheTemp # 0
    BY <1>0, <1>3 DEF Healthy, Acquiring, Routed, Compared, CachePublishManifest
  <2>3. /\ cacheProc' = [cacheProc EXCEPT ![p] = last] /\ cacheManifest' = cacheTemp
        /\ cacheTemp' = 0 /\ cacheEntry' = WithoutBundle(old, cacheEntry)
        /\ UNCHANGED <<cachePart, cacheWorld, cacheFaults>>
    BY <1>3, <2>2 DEF CachePublishManifest
  <2>4. NoFile \in CacheFiles
    BY DEF NoFile, CacheFiles
  <2>5. /\ cacheEntry' \in [Assets -> CacheFiles]
        /\ \A a \in Assets : \/ cacheEntry'[a] = cacheEntry[a]
                             \/ a = "bundle" /\ cacheEntry'[a] = NoFile
    BY <1>1, <2>3, <2>4 DEF WithoutBundle
  <2>6. LoneFiles'
    BY <1>0, <2>3, <2>5, LoneFilesRemoved DEF cacheWorld
  <2>7. cacheTemp' \in Bodies /\ last.pc = "done"
    BY <1>0, <2>3, CacheNumbers DEF Partial, ProcType
  <2>. QED
    BY <1>1, <2>1, <2>3, <2>5, <2>6, <2>7, LoneStep DEF Ended
<1>. QED
  BY <1>2, <1>3

(* A refresh is refused only if the rolling address has moved ...            *)
LEMMA LoneRefresh ==
  ASSUME CacheAssumption, LoneInv, NEW p \in Live, NEW b \in Bodies, b # Partial,
         NEW fault \in BOOLEAN, RefreshWith(p, b, fault), cacheProc[p].pc = "refresh",
         ~fault => b = cachePublished,
         UNCHANGED <<cachePart, cacheTemp, cacheManifest, cacheWorld>>, cacheFaults' \in Nat
  PROVE  LoneInv'
<1>. DEFINE old  == cacheProc[p]
            new  == [old EXCEPT !.got = b, !.faulted = fault]
            good == [new EXCEPT !.pc = "swap"]
            bad  == [new EXCEPT !.pc = "failed"]
<1>0. /\ old \in ProcType /\ Healthy(p, old)
      /\ cacheTemp' \in Bodies /\ cacheManifest' \in Bodies
  BY LoneFacts DEF LoneInv, CacheTypeOK
<1>1. /\ old.kind = "refresh" /\ old.asset \in {"image", "pinnedImage"} /\ ~old.legacy
  BY <1>0 DEF Healthy, Routed, SourceAssets
<1>2. good \in ProcType /\ bad \in ProcType
  BY <1>0 DEF ProcType, CacheSteps
<1>3. /\ good.pc = "swap" /\ good.kind = old.kind /\ good.asset = old.asset
      /\ good.legacy = old.legacy /\ good.got = b
  BY <1>0 DEF ProcType
<1>4. bad.pc = "failed" /\ bad.asset = old.asset /\ bad.faulted = fault
  BY <1>0 DEF ProcType
<1>5. new.asset = old.asset
  BY <1>0 DEF ProcType
<1>6. CASE /\ cacheProc' = [cacheProc EXCEPT ![p] = good] /\ UNCHANGED cacheEntry
           /\ Expected(new) \in {AnyBody, b}
  <2>1. old.asset = "pinnedImage" => b = Pinned
    BY <1>5, <1>6, ExpectedDigest, CacheNumbers
  <2>2. ASSUME cacheProc'[p] = good PROVE Healthy(p, cacheProc[p])'
    BY <1>1, <1>3, <2>1, <2>2 DEF Healthy, Routed, Compared, Acquiring, SourceAssets
  <2>. QED
    BY <1>0, <1>2, <1>3, <1>6, <2>2, LoneQuiet
<1>7. CASE /\ cacheProc' = [cacheProc EXCEPT ![p] = bad] /\ UNCHANGED cacheEntry
           /\ Expected(new) \notin {AnyBody, b}
  <2>1. old.asset = "pinnedImage" /\ b # Pinned
    BY <1>1, <1>5, <1>7, ExpectedDigest
  <2>. QED
    BY <1>0, <1>2, <1>4, <1>7, <2>1, LoneQuiet DEF Ended
<1>. QED
  BY <1>6, <1>7 DEF RefreshWith, Continue

(* ... or fails by a fault ...                                               *)
LEMMA LoneRefreshes ==
  ASSUME CacheAssumption, LoneInv, NEW p \in Live,
         CacheRefresh(p) \/ CacheRefreshWrong(p) \/ CacheRefreshFails(p)
  PROVE  LoneInv'
<1>. DEFINE old == cacheProc[p]
            bad == [old EXCEPT !.pc = "failed", !.faulted = TRUE]
<1>0. /\ old \in ProcType /\ cachePublished \in Releases /\ cacheFaults \in Nat
      /\ cacheTemp \in Bodies /\ cacheManifest \in Bodies
  BY LoneFacts DEF LoneInv, CacheTypeOK
<1>1. CASE CacheRefresh(p)
  <2>1. /\ RefreshWith(p, cachePublished, FALSE) /\ cacheProc[p].pc = "refresh"
        /\ UNCHANGED <<cachePart, cacheTemp, cacheManifest, cacheWorld, cacheFaults>>
    BY <1>1, Zenon DEF CacheRefresh, OnlyProc
  <2>. QED
    BY <1>0, <2>1, CacheNumbers, LoneRefresh
<1>2. CASE CacheRefreshWrong(p)
  <2>1. /\ RefreshWith(p, Wrong, TRUE) /\ cacheProc[p].pc = "refresh"
        /\ UNCHANGED <<cachePart, cacheTemp, cacheManifest, cacheWorld>>
    BY <1>2, Zenon DEF CacheRefreshWrong
  <2>2. cacheFaults' \in Nat
    BY <1>0, <1>2 DEF CacheRefreshWrong, CacheFault
  <2>. QED
    BY <2>1, <2>2, CacheNumbers, LoneRefresh
<1>3. CASE CacheRefreshFails(p)
  <2>1. /\ cacheProc' = [cacheProc EXCEPT ![p] = bad] /\ UNCHANGED <<cacheEntry, cacheWorld>>
        /\ cacheTemp' \in Bodies /\ cacheManifest' \in Bodies /\ cacheFaults' \in Nat
        /\ UNCHANGED cachePart /\ old.pc # "copy"
    BY <1>0, <1>3 DEF CacheRefreshFails, CacheFault, Continue
  <2>2. bad \in ProcType /\ bad.pc = "failed" /\ bad.faulted
    BY <1>0 DEF ProcType, CacheSteps
  <2>. QED
    BY <2>1, <2>2, LoneQuiet DEF Ended
<1>. QED
  BY <1>1, <1>2, <1>3

(* ... and otherwise replaces the entry by what it verified.                 *)
LEMMA LoneSwap ==
  ASSUME CacheAssumption, LoneInv, NEW p \in Live, CacheSwap(p)
  PROVE  LoneInv'
<1>. DEFINE old == cacheProc[p]
            r   == [old EXCEPT !.pc = "done"]
            new == [body |-> old.got, writer |-> Nobody]
<1>0. /\ old \in ProcType /\ Healthy(p, old) /\ old.pc = "swap" /\ p \in Procs
      /\ \A a \in Assets : cachePart[a].writer = Nobody
  BY LoneFacts DEF CacheSwap
<1>1. /\ cacheEntry \in [Assets -> CacheFiles] /\ cachePart' \in [Assets -> CacheFiles]
      /\ cacheTemp' \in Bodies /\ cacheManifest' \in Bodies /\ cacheFaults' \in Nat
      /\ cachePart' = cachePart
  BY DEF CacheSwap, OnlyProc, LoneInv, CacheTypeOK
<1>2. /\ cacheEntry' = [cacheEntry EXCEPT ![old.asset] = new]
      /\ cacheProc' = [cacheProc EXCEPT ![p] = r] /\ UNCHANGED cacheWorld
  BY DEF CacheSwap, OnlyProc, cacheWorld
<1>3. r \in ProcType /\ r.pc = "done"
  BY <1>0 DEF ProcType, CacheSteps
<1>4. new \in CacheFiles /\ old.asset \in Assets
  BY <1>0 DEF CacheFiles, ProcType
<1>5. cacheEntry' \in [Assets -> CacheFiles]
      /\ \A a \in Assets : cacheEntry'[a] = IF a = old.asset THEN new ELSE cacheEntry[a]
  BY <1>1, <1>2, <1>4
<1>6. LoneFiles'
  <2>1. old.got # Partial /\ (old.asset = "pinnedImage" => old.got = Pinned)
    BY <1>0 DEF Healthy, Acquiring
  <2>2. EntriesAreWhole'
    BY <1>5, <2>1 DEF LoneInv, LoneFiles, EntriesAreWhole
  <2>3. \A a \in Assets : cacheEntry'[a].writer = Nobody
    BY <1>5 DEF LoneInv, LoneFiles
  <2>. QED
    BY <1>0, <1>1, <1>2, <2>2, <2>3 DEF LoneInv, LoneFiles, CacheAssumption, cacheWorld
<1>. QED
  BY <1>1, <1>2, <1>3, <1>5, <1>6, LoneStep DEF Ended

(* A kill closes what was open.                                              *)
LEMMA LoneKill ==
  ASSUME CacheAssumption, LoneInv, NEW p \in Live, CacheKill(p)
  PROVE  LoneInv'
<1>. DEFINE old == cacheProc[p]
            r   == [old EXCEPT !.pc = "idle"]
<1>0. /\ old \in ProcType /\ p \in Procs /\ p # Nobody
      /\ \A a \in Assets : cachePart[a].writer # Nobody => cachePart[a].writer = p
  BY LoneFacts
<1>1. /\ cacheEntry \in [Assets -> CacheFiles] /\ cachePart \in [Assets -> CacheFiles]
      /\ cacheTemp' \in Bodies /\ cacheManifest' \in Bodies /\ cacheFaults' \in Nat
  BY DEF CacheKill, CacheFault, LoneInv, CacheTypeOK
<1>2. cacheProc' = [cacheProc EXCEPT ![p] = r] /\ UNCHANGED cacheWorld
  <2>1. cacheProc \in [Procs -> ProcType]
    BY DEF LoneInv, CacheTypeOK
  <2>. QED
    BY <1>0, <2>1 DEF CacheKill
<1>3. r \in ProcType /\ r.pc = "idle"
  BY <1>0 DEF ProcType, CacheSteps
<1>4. cacheEntry' = cacheEntry
  <2>1. \A a \in Assets : cacheEntry[a].writer # p
    BY <1>0 DEF LoneInv, LoneFiles
  <2>2. Closed(cacheEntry, p) = [a \in Assets |-> cacheEntry[a]]
    BY <2>1 DEF Closed
  <2>. QED
    BY <1>1, <2>2 DEF CacheKill
<1>5. /\ cachePart' \in [Assets -> CacheFiles]
      /\ \A a \in Assets : cachePart'[a].writer = Nobody
  <2>1. ASSUME NEW a \in Assets
        PROVE  /\ Closed(cachePart, p)[a] \in CacheFiles
               /\ Closed(cachePart, p)[a].writer = Nobody
    <3>1. CASE cachePart[a].writer # p
      BY <1>0, <1>1, <3>1 DEF Closed
    <3>2. CASE cachePart[a].writer = p
      <4>1. Closed(cachePart, p)[a] = [body |-> cachePart[a].body, writer |-> Nobody]
        BY <3>2 DEF Closed
      <4>2. cachePart[a].body \in Bodies
        BY <1>0, <1>1, <3>2 DEF CacheFiles, NoFile
      <4>. QED
        BY <4>1, <4>2 DEF CacheFiles
    <3>. QED
      BY <3>1, <3>2
  <2>2. cachePart' = Closed(cachePart, p)
        /\ Closed(cachePart, p) = [a \in Assets |-> Closed(cachePart, p)[a]]
    BY DEF CacheKill, Closed
  <2>. QED
    BY <2>1, <2>2
<1>6. LoneFiles'
  BY <1>2, <1>4, <1>5, LoneFilesRemoved DEF cacheWorld
<1>. QED
  BY <1>1, <1>2, <1>3, <1>4, <1>5, <1>6, LoneStep DEF Ended

(* A command begins only when none runs.                                     *)
LEMMA LoneBegin ==
  ASSUME CacheAssumption, MaxConcurrent <= 1, LoneInv, NEW p \in Procs,
         NEW kind \in Kinds, NEW asset \in Assets, CacheBegin(p, kind, asset)
  PROVE  LoneInv'
<1>. DEFINE r == cacheProc'[p]
<1>1. Live = {}
  <2>1. SUFFICES ASSUME NEW q \in Live PROVE FALSE
    OBVIOUS
  <2>2. Live = {q}
    BY DEF LoneInv, OnlyOne
  <2>3. Cardinality(Live) = 1
    BY <2>2, FS_Singleton
  <2>. QED
    BY <2>3 DEF CacheBegin, CacheAssumption
<1>2. /\ cacheProc \in [Procs -> ProcType] /\ cacheStarted \in Nat
      /\ Partial \in Bodies /\ 1 \in Releases
  BY CacheNumbers DEF LoneInv, CacheTypeOK, CacheAssumption, Releases
<1>3. /\ r.kind = kind /\ r.asset = asset /\ ~r.faulted
      /\ r.pc \in {"look", "refresh", "resolve"}
      /\ r.pc = "refresh" <=> kind = "refresh"
      /\ r.pc = "resolve" <=> kind \in {"kernel", "userspace"}
      /\ r.legacy => kind = "source" /\ asset = "pinnedImage"
      /\ r \in ProcType
  BY <1>2 DEF CacheBegin, IdleProc, ProcType, Kinds, CacheSteps
<1>4. /\ cacheProc' = [cacheProc EXCEPT ![p] = r]
      /\ cacheProc' \in [Procs -> ProcType]
      /\ \A q \in Procs : q # p => cacheProc'[q] = cacheProc[q]
  BY <1>2, <1>3 DEF CacheBegin
<1>5. CacheTypeOK'
  BY <1>2, <1>4 DEF LoneInv, CacheTypeOK, CacheBegin, cacheFiles
<1>6. \A q \in Live' : q = p
  BY <1>1, <1>4 DEF Live
<1>7. \A a \in Assets : cachePart[a].writer \notin Procs
  BY <1>1 DEF LoneInv, LoneFiles, Live, Ended
<1>8. LoneFiles'
  BY <1>7 DEF LoneInv, LoneFiles, EntriesAreWhole, CacheBegin, cacheFiles
<1>9. Healthy(p, cacheProc[p])'
  <2>0. asset \in FirstAsset(kind)
    BY DEF CacheBegin
  <2>1. /\ kind = "kernel" => asset = "sums"
        /\ kind = "userspace" => asset = "usums"
        /\ kind = "source" => asset \in SourceAssets
        /\ kind = "refresh" => asset \in SourceAssets
    BY <2>0 DEF FirstAsset
  <2>2. Routed(r)
    BY <1>3, <2>1 DEF Routed, KernelAssets, UserspaceAssets
  <2>3. Compared(r)
    BY <1>3, <2>1 DEF Compared, SourceAssets, Kinds
  <2>4. UNCHANGED cacheDigests
    BY DEF CacheBegin
  <2>5. Acquiring(p, cacheProc[p])'
    BY <1>3 DEF Acquiring
  <2>. QED
    BY <2>2, <2>3, <2>4, <2>5 DEF Healthy, Routed, Compared
<1>10. \A q \in Procs : Excused(cacheProc[q])'
  BY <1>3, <1>4 DEF LoneInv, Excused, CacheBegin
<1>. QED
  BY <1>5, <1>6, <1>8, <1>9, <1>10 DEF LoneInv, OnlyOne

(* A release later than the pinned one takes no promise back.                *)
LEMMA LonePublisher ==
  ASSUME CacheAssumption, LoneInv, CachePublisher
  PROVE  LoneInv'
<1>1. /\ cachePublished \in Nat /\ Pinned \in Nat /\ Pinned < cachePublished'
      /\ cachePublished' \in Releases
  BY DEF CacheAssumption, LoneInv, LoneFiles, CacheTypeOK, CachePublisher, Releases
<1>2. CacheTypeOK' /\ OnlyOne' /\ LoneFiles'
  BY <1>1 DEF LoneInv, CacheTypeOK, OnlyOne, Live, LoneFiles, EntriesAreWhole,
     CachePublisher, cacheFiles
<1>3. ASSUME NEW p \in Live' PROVE Healthy(p, cacheProc[p])'
  <2>1. Healthy(p, cacheProc[p])
    BY <1>3 DEF LoneInv, Live, CachePublisher
  <2>2. Expected(cacheProc[p])' = Expected(cacheProc[p])
    BY ExpectedKept DEF CachePublisher
  <2>3. Routed(cacheProc[p])' /\ Compared(cacheProc[p])'
    BY <2>1 DEF Healthy, Routed, Compared, CachePublisher
  <2>4. Acquiring(p, cacheProc[p])'
    BY <1>1, <2>1, <2>2 DEF Healthy, Acquiring, Accepts, CachePublisher, cacheFiles
  <2>. QED
    BY <2>3, <2>4 DEF Healthy
<1>4. ASSUME NEW p \in Procs PROVE Excused(cacheProc[p])'
  BY <1>1 DEF LoneInv, Excused, CachePublisher
<1>. QED
  BY <1>2, <1>3, <1>4 DEF LoneInv

(* While commands run one at a time, the invariant holds, for any number of  *)
(* commands, releases, faults and kills.                                     *)
THEOREM LoneInvariant ==
  ASSUME CacheAssumption, MaxConcurrent <= 1
  PROVE  CacheSpec => []LoneInv
<1>1. CacheInit => LoneInv
  <2>. SUFFICES ASSUME CacheInit PROVE LoneInv
    OBVIOUS
  <2>1. IdleProc \in ProcType /\ IdleProc.pc = "idle"
    BY CacheNumbers DEF IdleProc, ProcType, Kinds, CacheSteps, Assets, KernelAssets,
       Releases,
       CacheAssumption
  <2>2. CacheTypeOK
    BY <2>1, CacheNumbers DEF CacheInit, CacheTypeOK, CacheFiles, Partial
  <2>3. Live = {}
    BY <2>1 DEF CacheInit, Live, Ended
  <2>4. NoFile.writer = Nobody /\ NoFile.body = AnyBody
    BY DEF NoFile
  <2>5. LoneFiles
    <3>1. Pinned <= cachePublished
      BY DEF CacheInit, CacheAssumption
    <3>2. EntriesAreWhole
      BY <2>4, CacheNumbers DEF CacheInit, EntriesAreWhole
    <3>. QED
      BY <2>4, <3>1, <3>2 DEF CacheInit, LoneFiles, CacheAssumption
  <2>. QED
    BY <2>1, <2>2, <2>3, <2>5 DEF CacheInit, LoneInv, OnlyOne, Excused
<1>2. LoneInv /\ [CacheNext]_cacheVars => LoneInv'
  <2>. SUFFICES ASSUME LoneInv, [CacheNext]_cacheVars PROVE LoneInv'
    OBVIOUS
  <2>1. ASSUME NEW p \in Procs, CacheProgress(p) PROVE LoneInv'
    <3>1. p \in Live
      BY <2>1 DEF CacheProgress, Live, Ended, CacheResolve, CacheLook, CacheCreate,
         CacheCopy,
         CacheInspect, CacheRename, CacheUseSums, CacheUseBundle, CacheUsePackage,
         CacheWriteManifest, CachePublishManifest, CacheUsePayload, CacheUseSource,
         CacheRefresh, CacheSwap
    <3>. QED
      BY <2>1, <3>1, LoneResolve, LoneLook, LoneCreate, LoneCopies, LoneInspect, LoneRename,
         LoneUseSums, LoneUseBundle, LoneUsePackage, LoneUseLast, LoneManifest,
         LoneRefreshes, LoneSwap DEF CacheProgress
  <2>2. ASSUME NEW p \in Procs,
               \/ CacheCopyWrong(p) \/ CacheCopyFails(p) \/ CacheRefreshWrong(p)
               \/ CacheRefreshFails(p) \/ CacheKill(p)
        PROVE  LoneInv'
    <3>1. p \in Live
      BY <2>2 DEF Live, Ended, CacheCopyWrong, CacheCopyFails, CacheRefreshWrong,
         CacheRefreshFails, CacheKill
    <3>. QED
      BY <2>2, <3>1, LoneCopies, LoneCopyFails, LoneRefreshes, LoneKill
  <2>3. CASE UNCHANGED cacheVars
    BY <2>3 DEF cacheVars, cacheFiles, cacheWorld, LoneInv, CacheTypeOK, OnlyOne, Live,
       LoneFiles, EntriesAreWhole, Healthy, Routed, Compared, Acquiring, Accepts, Expected,
       Excused
  <2>. QED
    BY <2>1, <2>2, <2>3, LoneBegin, LonePublisher DEF CacheNext
<1>. QED
  BY <1>1, <1>2, PTL DEF CacheSpec

(* One command at a time: whatever failed or was killed before, a command    *)
(* that meets no fault succeeds.                                             *)
THEOREM LeftoversNeverInTheWay ==
  ASSUME CacheAssumption, MaxConcurrent <= 1
  PROVE  CacheSpec => []LeftoversNeverBlock
<1>1. LoneInv => LeftoversNeverBlock
  BY DEF LoneInv, Excused, LeftoversNeverBlock
<1>. QED
  BY <1>1, LoneInvariant, PTL

(* ... an entry of the cache is whole, and what its name says ...            *)
THEOREM EntriesAlwaysWhole ==
  ASSUME CacheAssumption, MaxConcurrent <= 1
  PROVE  CacheSpec => []EntriesAreWhole
<1>1. LoneInv => EntriesAreWhole
  BY DEF LoneInv, LoneFiles
<1>. QED
  BY <1>1, LoneInvariant, PTL

(* ... and the file at the path a command reports is the one it hashed,      *)
(* which only a second command in the same cache could replace.              *)
THEOREM ReportedAlwaysComplete ==
  ASSUME CacheAssumption, MaxConcurrent <= 1
  PROVE  CacheSpec => []ReportedFileIsComplete
<1>1. LoneInv => ReportedFileIsComplete
  BY DEF LoneInv, Live, Ended, Healthy, Acquiring, ReportedFileIsComplete
<1>. QED
  BY <1>1, LoneInvariant, PTL

-----------------------------------------------------------------------------
(* The creation of an image.                                                 *)

(* The volume is known to its command, which removes or names it, or it has  *)
(* been named.                                                               *)
VolumeInv == VolumeAccounted /\ (imgVolume => imgOwned \/ imgNamed)

LEMMA VolumeKept ==
  ASSUME VolumeInv, imgPhase # "over", imgPhase' # "over", UNCHANGED Volume
  PROVE  VolumeInv'
BY DEF VolumeInv, VolumeAccounted, Volume

LEMMA VolumeSteps ==
  ASSUME VolumeInv, ImgNext
  PROVE  VolumeInv'
<1>. USE DEF At, Return, ImgAdvance
<1>1. CASE ImgSkip
  BY <1>1, VolumeKept DEF ImgSkip
<1>2. CASE ImgStage
  BY <1>2, VolumeKept DEF ImgStage
<1>3. CASE ImgMake
  BY <1>3, VolumeKept DEF ImgMake
<1>4. CASE ImgBurn
  BY <1>4, VolumeKept DEF ImgBurn
<1>5. CASE ImgPass
  BY <1>5, VolumeKept DEF ImgPass
<1>6. CASE ImgRefuse
  BY <1>6, VolumeKept DEF ImgRefuse
<1>7. CASE ImgError
  BY <1>7, VolumeKept DEF ImgError
<1>8. CASE ImgDone
  BY <1>8, VolumeKept DEF ImgDone
<1>9. CASE ImgPublish
  BY <1>9, VolumeKept DEF ImgPublish
<1>10. CASE ImgReturn
  BY <1>10, VolumeKept DEF ImgReturn
<1>11. CASE ImgHostEdit
  BY <1>11, VolumeKept DEF ImgHostEdit
<1>12. CASE ImgKill
  BY <1>12, VolumeKept DEF ImgKill
<1>. USE DEF VolumeInv, VolumeAccounted
<1>13. CASE CreateWorkVolume
  BY <1>13 DEF CreateWorkVolume
<1>14. CASE CreateWorkVolumeFails
  BY <1>14 DEF CreateWorkVolumeFails
<1>15. CASE ImgRemoveVolume
  BY <1>15 DEF ImgRemoveVolume, RemoveWorkVolume, Volume
<1>16. CASE ImgRemoveVolumeFails
  BY <1>16 DEF ImgRemoveVolumeFails, RemoveWorkVolumeFails
<1>17. CASE ImgNothingToRemove
  BY <1>17 DEF ImgNothingToRemove, Deferred, Volume
<1>18. CASE ImgKeepVolume
  BY <1>18 DEF ImgKeepVolume, Deferred
<1>19. CASE ImgCleanVolume
  BY <1>19 DEF ImgCleanVolume, Deferred, RemoveWorkVolume
<1>20. CASE ImgCleanVolumeFails
  BY <1>20 DEF ImgCleanVolumeFails, Deferred
<1>. QED
  BY <1>1, <1>2, <1>3, <1>4, <1>5, <1>6, <1>7, <1>8, <1>9, <1>10, <1>11, <1>12,
     <1>13, <1>14, <1>15, <1>16, <1>17, <1>18, <1>19, <1>20 DEF ImgNext, ImgStep

(* For every program of steps, whatever fails or does nothing, a creation    *)
(* that came to its end leaves no volume it does not name (the deferred      *)
(* clean-up of Create in each adapter's remaster.go).                        *)
THEOREM VolumeAlwaysAccounted == ImgSpec => []VolumeAccounted
<1>1. ImgInit => VolumeInv
  BY DEF ImgInit, VolumeInv, VolumeAccounted
<1>2. VolumeInv /\ [ImgNext]_imgVars => VolumeInv'
  BY VolumeSteps DEF imgVars, VolumeInv, VolumeAccounted
<1>3. VolumeInv => VolumeAccounted
  BY DEF VolumeInv
<1>. QED
  BY <1>1, <1>2, <1>3, PTL DEF ImgSpec

-----------------------------------------------------------------------------
(* What its checks let through.                                              *)

(* What an account says of contents, once the events in `D' have happened.   *)
Vouches(a, D, contents) ==
    /\ \A e \in contents : \E p \in a.roots : p[1] = e /\ p[2] \in D
    /\ \A p \in a.needs : p[1] \in contents => p[2] \in D
    /\ \A e \in Elements(a) :
         (\A p \in a.takes : p[1] = e => p[2] \in D) => e \in contents

LEMMA VouchesNothing == \A D : Vouches(NoAccount, D, {})
BY DEF Vouches, NoAccount, Elements

LEMMA VouchesLater ==
    ASSUME NEW a, NEW D, NEW new, NEW contents,
           Vouches(a, D, contents),
           \A p \in a.takes : p[2] \notin new
    PROVE  Vouches(a, D \cup new, contents)
BY DEF Vouches

LEMMA VouchesStill ==
    ASSUME NEW old, NEW new, NEW D, NEW contents,
           Vouches(old, D, contents), Never \notin D,
           \A e \in Elements(new) : \E p \in new.takes : p[1] = e /\ p[2] \notin D
    PROVE  Vouches(Either(old, new), D, contents)
<1> DEFINE both == Either(old, new)
<1>1. /\ both.roots = old.roots \cup new.roots
      /\ \A p \in both.needs : p[1] \in Elements(old) => p \in old.needs
      /\ new.takes \subseteq both.takes
      /\ \A e \in Elements(old) \ Elements(new) : <<e, Never>> \in both.takes
  BY DEF Either
<1>2. Elements(both) = Elements(old) \cup Elements(new)
  BY <1>1 DEF Elements
<1>3. \A e \in contents : \E p \in both.roots : p[1] = e /\ p[2] \in D
  BY <1>1 DEF Vouches
<1>4. \A e \in contents : e \in Elements(old)
  BY DEF Vouches, Elements
<1>5. \A p \in both.needs : p[1] \in contents => p[2] \in D
  BY <1>1, <1>4 DEF Vouches
<1>6. \A e \in Elements(both) : \E p \in both.takes : p[1] = e /\ p[2] \notin D
  <2> SUFFICES ASSUME NEW e \in Elements(both)
               PROVE  \E p \in both.takes : p[1] = e /\ p[2] \notin D
    OBVIOUS
  <2>1. CASE e \in Elements(new)
    BY <2>1, <1>1
  <2>2. CASE e \in Elements(old) \ Elements(new)
    <3>1. <<e, Never>>[1] = e /\ <<e, Never>>[2] = Never
      OBVIOUS
    <3>. QED BY <2>2, <3>1, <1>1
  <2>. QED BY <2>1, <2>2, <1>2
<1>. QED BY <1>3, <1>5, <1>6 DEF Vouches

LEMMA VouchesNow ==
    ASSUME NEW old, NEW new, NEW D, NEW contents,
           Vouches(new, D, contents), Never \notin D
    PROVE  Vouches(Either(old, new), D, contents)
<1> DEFINE both == Either(old, new)
<1>1. /\ both.roots = old.roots \cup new.roots
      /\ \A p \in both.needs : p[1] \in Elements(new) => p \in new.needs
      /\ new.takes \subseteq both.takes
      /\ \A e \in Elements(old) \ Elements(new) : <<e, Never>> \in both.takes
  BY DEF Either
<1>2. Elements(both) = Elements(old) \cup Elements(new)
  BY <1>1 DEF Elements
<1>3. \A e \in contents : \E p \in both.roots : p[1] = e /\ p[2] \in D
  BY <1>1 DEF Vouches
<1>4. \A e \in contents : e \in Elements(new)
  BY DEF Vouches, Elements
<1>5. \A p \in both.needs : p[1] \in contents => p[2] \in D
  BY <1>1, <1>4 DEF Vouches
<1>6. ASSUME NEW e \in Elements(both), \A p \in both.takes : p[1] = e => p[2] \in D
      PROVE  e \in contents
  <2>1. CASE e \in Elements(new)
    BY <2>1, <1>1, <1>6 DEF Vouches
  <2>2. CASE e \in Elements(old) \ Elements(new)
    <3>1. <<e, Never>>[1] = e /\ <<e, Never>>[2] = Never
      OBVIOUS
    <3>. QED BY <2>2, <3>1, <1>1, <1>6
  <2>. QED BY <2>1, <2>2, <1>2
<1>. QED BY <1>3, <1>5, <1>6 DEF Vouches

LEMMA EventIs == \A kind, i, x : Event(kind, i, x)[1] = kind /\ Event(kind, i, x)[2] = i
BY DEF Event

LEMMA PairIs == \A e, v : <<e, v>>[1] = e /\ <<e, v>>[2] = v
OBVIOUS

LEMMA VouchesStaged ==
    ASSUME NEW c, NEW i, NEW x, NEW D, NEW contents, x # "edited",
           Event("made", i, x) \in D,
           \/ contents = {x} /\ Event("edited", i, x) \notin D
           \/ contents = {x, "edited"} /\ Event("edited", i, x) \in D
    PROVE  Vouches(StagedAccount(c, i, x), D, contents)
<1> DEFINE made == <<x, Event("made", i, x)>>
           edit == <<"edited", Event("edited", i, x)>>
           later == <<"edited", Later(x)>>
           a == StagedAccount(c, i, x)
<1>1. /\ made[1] = x /\ made[2] = Event("made", i, x)
      /\ edit[1] = "edited" /\ edit[2] = Event("edited", i, x)
      /\ later[1] = "edited"
  BY PairIs
<1>2. /\ {made, edit} \subseteq a.roots /\ a.roots \subseteq {made, edit, later}
      /\ a.needs \subseteq {made, edit} /\ a.takes = {made, edit}
  BY DEF StagedAccount
<1>3. Elements(a) \subseteq {x, "edited"}
  BY <1>1, <1>2 DEF Elements
<1> HIDE DEF made, edit, later, a
<1>4. \A e \in contents : \E p \in a.roots : p[1] = e /\ p[2] \in D
  BY <1>1, <1>2
<1>5. \A p \in a.needs : p[1] \in contents => p[2] \in D
  BY <1>1, <1>2
<1>6. \A e \in Elements(a) :
         (\A p \in a.takes : p[1] = e => p[2] \in D) => e \in contents
  BY <1>1, <1>2, <1>3
<1>. QED BY <1>4, <1>5, <1>6 DEF Vouches, a

LEMMA MadeElements ==
    ASSUME NEW held, NEW c, NEW i, NEW x
    PROVE  Elements(MadeAccount(held, c, i, x)) =
             {x} \cup c.without
               \cup ((UNION {Elements(held[d]) : d \in c.from}) \ ({x} \cup c.without))
<1> DEFINE a == MadeAccount(held, c, i, x)
           made == Event("made", i, x)
           unclean == Event("unclean", i, x)
           parts == (UNION {Elements(held[d]) : d \in c.from}) \ ({x} \cup c.without)
<1>1. a.roots = {<<x, made>>} \cup {<<w, unclean>> : w \in c.without}
                  \cup {p \in UNION {held[d].roots : d \in c.from} : p[1] # x}
  BY DEF MadeAccount
<1> HIDE DEF a, made, unclean
<1>2. ASSUME NEW e \in Elements(a)  PROVE e \in {x} \cup c.without \cup parts
  <2>1. PICK p \in a.roots : p[1] = e
    BY DEF Elements
  <2>2. CASE p = <<x, made>>
    BY <2>1, <2>2
  <2>3. CASE \E w \in c.without : p = <<w, unclean>>
    BY <2>1, <2>3
  <2>4. CASE \E d \in c.from : p \in held[d].roots
    BY <2>1, <2>4 DEF Elements
  <2>. QED BY <1>1, <2>1, <2>2, <2>3, <2>4
<1>3. x \in Elements(a)
  <2>1. <<x, made>> \in a.roots /\ <<x, made>>[1] = x
    BY <1>1
  <2>. QED BY <2>1 DEF Elements
<1>4. ASSUME NEW e \in c.without PROVE e \in Elements(a)
  <2>1. <<e, unclean>> \in a.roots /\ <<e, unclean>>[1] = e
    BY <1>1
  <2>. QED BY <2>1 DEF Elements
<1>5. ASSUME NEW e \in parts PROVE e \in Elements(a)
  <2>1. PICK d \in c.from : e \in Elements(held[d])
    OBVIOUS
  <2>2. PICK p \in held[d].roots : p[1] = e
    BY <2>1 DEF Elements
  <2>3. p \in a.roots
    BY <2>2, <1>1
  <2>. QED BY <2>2, <2>3 DEF Elements
<1>. QED BY <1>2, <1>3, <1>4, <1>5, Zenon DEF a

LEMMA MadeTakes ==
    ASSUME NEW held, NEW c, NEW i, NEW x, NEW D,
           Event("made", i, x) \notin D, Event("unclean", i, x) \notin D,
           NEW e \in Elements(MadeAccount(held, c, i, x))
    PROVE  \E p \in MadeAccount(held, c, i, x).takes : p[1] = e /\ p[2] \notin D
<1> DEFINE a == MadeAccount(held, c, i, x)
           made == Event("made", i, x)
           unclean == Event("unclean", i, x)
           parts == (UNION {Elements(held[d]) : d \in c.from}) \ ({x} \cup c.without)
<1>1. e \in {x} \cup c.without \cup parts
  BY MadeElements
<1>2. /\ \A f \in ({x} \cup c.without \cup parts) \ c.without : <<f, made>> \in a.takes
      /\ \A w \in c.without : <<w, unclean>> \in a.takes
  BY DEF MadeAccount
<1> HIDE DEF a, made, unclean, parts
<1>3. CASE e \in c.without
  BY <1>2, <1>3, PairIs DEF unclean, a
<1>4. CASE e \notin c.without
  <2>1. <<e, made>> \in a.takes
    BY <1>1, <1>2, <1>4
  <2>2. <<e, made>>[1] = e /\ <<e, made>>[2] = made
    OBVIOUS
  <2>. QED BY <2>1, <2>2 DEF made, a
<1>. QED BY <1>3, <1>4, Zenon

LEMMA VouchesMade ==
    ASSUME NEW held, NEW c, NEW i, NEW x, NEW D, NEW had, NEW contents,
           \A d \in c.from : Vouches(held[d], D, had[d]),
           Event("made", i, x) \in D,
           \/ /\ contents = {x} \cup UNION {had[d] : d \in c.from}
              /\ Event("unclean", i, x) \notin D
           \/ /\ contents = ({x} \cup UNION {had[d] : d \in c.from}) \cup c.without
              /\ Event("unclean", i, x) \in D
    PROVE  Vouches(MadeAccount(held, c, i, x), D, contents)
<1> DEFINE a == MadeAccount(held, c, i, x)
           made == Event("made", i, x)
           unclean == Event("unclean", i, x)
           parts == (UNION {Elements(held[d]) : d \in c.from}) \ ({x} \cup c.without)
           all == {x} \cup c.without \cup parts
           Part(e) == CHOOSE d \in c.from : e \in Elements(held[d])
<1>1. Elements(a) = all
  BY MadeElements
<1>2. a.roots = {<<x, made>>} \cup {<<w, unclean>> : w \in c.without}
                     \cup {p \in UNION {held[d].roots : d \in c.from} : p[1] # x}
  BY DEF MadeAccount
<1>3. a.needs = {<<e, made>> : e \in all}
                     \cup {p \in UNION {held[d].needs : d \in c.from} :
                             /\ p[1] \in parts
                             /\ \A d \in c.from :
                                  p[1] \in Elements(held[d]) => p \in held[d].needs}
  BY DEF MadeAccount
<1>4. a.takes = {<<e, made>> : e \in all \ c.without}
                     \cup {<<w, unclean>> : w \in c.without}
                     \cup UNION {{p \in held[Part(e)].takes : p[1] = e} : e \in parts}
  BY DEF MadeAccount
<1>5. \A e \in parts : Part(e) \in c.from /\ e \in Elements(held[Part(e)])
  OBVIOUS
<1>6. \A d \in c.from : \A e \in had[d] : e \in Elements(held[d])
  BY DEF Vouches, Elements
<1>7. /\ x \in contents
      /\ \A d \in c.from : had[d] \subseteq contents
      /\ unclean \in D => c.without \subseteq contents
      /\ \A e \in contents : \/ e = x \/ \E d \in c.from : e \in had[d]
                             \/ unclean \in D /\ e \in c.without
      /\ made \in D
  OBVIOUS
<1> HIDE DEF a, made, unclean, parts, Part
<1>8. ASSUME NEW e \in contents PROVE \E p \in a.roots : p[1] = e /\ p[2] \in D
  <2>1. CASE e = x
    <3>1. <<x, made>> \in a.roots /\ <<x, made>>[1] = x /\ <<x, made>>[2] = made
      BY <1>2
    <3>. QED BY <2>1, <3>1, <1>7
  <2>2. CASE unclean \in D /\ e \in c.without
    <3>1. <<e, unclean>> \in a.roots /\ <<e, unclean>>[1] = e /\ <<e, unclean>>[2] = unclean
      BY <2>2, <1>2
    <3>. QED BY <2>2, <3>1
  <2>3. CASE e # x /\ \E d \in c.from : e \in had[d]
    <3>1. PICK d \in c.from : e \in had[d]
      BY <2>3
    <3>2. PICK p \in held[d].roots : p[1] = e /\ p[2] \in D
      BY <3>1 DEF Vouches
    <3>3. p \in a.roots
      BY <2>3, <3>2, <1>2
    <3>. QED BY <3>2, <3>3
  <2>. QED BY <1>7, <2>1, <2>2, <2>3
<1>9. ASSUME NEW p \in a.needs, p[1] \in contents PROVE p[2] \in D
  <2>1. CASE \E e \in all : p = <<e, made>>
    BY <2>1, <1>7
  <2>2. CASE /\ p[1] \in parts
             /\ \A d \in c.from : p[1] \in Elements(held[d]) => p \in held[d].needs
    <3>1. PICK d \in c.from : p[1] \in had[d]
      BY <1>9, <1>7, <2>2 DEF parts
    <3>. QED BY <3>1, <2>2, <1>6 DEF Vouches
  <2>. QED BY <1>3, <2>1, <2>2
<1>10. ASSUME NEW e \in Elements(a), \A p \in a.takes : p[1] = e => p[2] \in D
       PROVE  e \in contents
  <2>1. CASE e = x
    BY <2>1, <1>7
  <2>2. CASE e \in c.without
    <3>1. <<e, unclean>> \in a.takes /\ <<e, unclean>>[1] = e /\ <<e, unclean>>[2] = unclean
      BY <2>2, <1>4
    <3>. QED BY <2>2, <3>1, <1>7, <1>10
  <2>3. CASE e \in parts
    <3>1. \A p \in held[Part(e)].takes : p[1] = e => p \in a.takes
      BY <2>3, <1>4
    <3>2. e \in had[Part(e)]
      BY <2>3, <3>1, <1>5, <1>10 DEF Vouches
    <3>. QED BY <2>3, <3>2, <1>5, <1>7
  <2>. QED BY <1>1, <2>1, <2>2, <2>3
<1>. QED BY <1>8, <1>9, <1>10 DEF Vouches, a

LEMMA BurnedIs ==
    ASSUME NEW a, NEW i, NEW x
    PROVE  /\ Elements(BurnedAccount(a, i, x)) = Elements(a)
           /\ BurnedAccount(a, i, x).roots = a.roots
           /\ \A e \in Elements(a) : <<e, Event("burned", i, x)>> \in BurnedAccount(a, i, x).takes
           /\ a.takes \subseteq BurnedAccount(a, i, x).takes
           /\ \A p \in BurnedAccount(a, i, x).needs :
                p \in a.needs \/ p[2] = Event("burned", i, x)
<1> DEFINE b == Event("burned", i, x)
<1>1. \A e : <<e, b>>[2] = b
  BY PairIs
<1>2. \A p \in BurnedAccount(a, i, x).needs : p \in a.needs \/ \E e \in Elements(a) : p = <<e, b>>
  BY DEF BurnedAccount
<1>. QED BY <1>1, <1>2 DEF BurnedAccount, Elements

LEMMA VouchesBurned ==
    ASSUME NEW a, NEW i, NEW x, NEW D, NEW contents,
           Vouches(a, D, contents), Event("burned", i, x) \in D
    PROVE  Vouches(BurnedAccount(a, i, x), D, contents)
BY BurnedIs DEF Vouches

LEMMA ShownHappened ==
    ASSUME NEW a, NEW D, NEW contents, NEW elements,
           Vouches(a, D, contents), elements \subseteq contents
    PROVE  ShownBy(a, elements) \subseteq D
BY DEF Vouches, ShownBy

LEMMA RuledOutNever ==
    ASSUME NEW a, NEW D, NEW contents, NEW elements, NEW shown,
           Vouches(a, D, contents), elements \cap contents = {}, shown \subseteq D
    PROVE  RuledOutBy(a, elements, shown) \cap D = {}
BY DEF Vouches, RuledOutBy

LEMMA StagedEvidenceIs ==
    ASSUME NEW q, NEW k, NEW c, NEW i, NEW x, Shaped(q, k),
           NEW next, next = StagedEvidence(k, c, i, x), x \in ThingsOf(q)
    PROVE  /\ next.held[x] = StagedAccount(c, i, x)
           /\ \A y \in ThingsOf(q) \ {x} : next.held[y] = k.held[y]
           /\ next.media = k.media /\ next.ruledOut = k.ruledOut
           /\ next.shown = k.shown \cup {Event("made", i, x)}
           /\ c.op = "link" => next.linked = k.linked \cup {x}
           /\ c.op # "link" => next.linked = k.linked
           /\ next.published = k.published
BY DEF StagedEvidence, Shaped

LEMMA MadeEvidenceIs ==
    ASSUME NEW q, NEW k, NEW c, NEW i, NEW x, Shaped(q, k),
           NEW next, next = MadeEvidence(k, c, i, x), x \in ThingsOf(q)
    PROVE  /\ next.held[x] = Either(k.held[x], MadeAccount(k.held, c, i, x))
           /\ \A y \in ThingsOf(q) \ {x} : next.held[y] = k.held[y]
           /\ next.media = k.media /\ next.ruledOut = k.ruledOut
           /\ next.shown = k.shown /\ next.linked = k.linked
           /\ next.published = k.published
BY DEF MadeEvidence, Shaped

LEMMA BurnedEvidenceIs ==
    ASSUME NEW q, NEW k, NEW c, NEW i, Shaped(q, k),
           NEW next, next = BurnedEvidence(k, c, i)
    PROVE  /\ \A y \in ThingsOf(q) :
                    next.media[y] = IF y \in c.of
                                    THEN Either(k.media[y], BurnedAccount(k.held[y], i, y))
                                    ELSE k.media[y]
           /\ next.held = k.held /\ next.ruledOut = k.ruledOut
           /\ next.shown = k.shown /\ next.linked = k.linked
           /\ next.published = k.published
BY DEF BurnedEvidence, Shaped

LEMMA ExaminedIs ==
    ASSUME NEW q, NEW k, NEW a, NEW c, Shaped(q, k),
           NEW next, next = ExaminedEvidence(k, a, c),
           NEW shown, shown = k.shown \cup ShownBy(a, c.from)
    PROVE  /\ next.held = k.held /\ next.media = k.media
           /\ next.shown = shown
           /\ next.ruledOut = k.ruledOut \cup RuledOutBy(a, c.without, shown)
           /\ next.linked = k.linked /\ next.published = k.published
BY DEF ExaminedEvidence, Shaped

LEMMA ComparedIs ==
    ASSUME NEW q, NEW k, NEW c, Shaped(q, k),
           NEW next, next = MatchedEvidence(k, c)
    PROVE  /\ next.held = k.held /\ next.media = k.media
           /\ next.shown = k.shown \cup ShownByAgreement(k, c)
           /\ next.ruledOut = k.ruledOut
           /\ next.linked = k.linked /\ next.published = k.published
BY DEF MatchedEvidence, Shaped

-----------------------------------------------------------------------------
(* The evidence `k', before instruction `i', is true of the state when the   *)
(* events in `D' are those that happened.                                    *)
Bears(q, k, i, D, held, media, linked, published) ==
    /\ \A v \in D : v[2] \in Nat /\ v[2] < i
    /\ Never \notin D
    /\ k.shown \subseteq D /\ k.ruledOut \cap D = {}
    /\ \A x \in ThingsOf(q) : /\ Vouches(k.held[x], D, held[x])
                              /\ Vouches(k.media[x], D, media[x])
    /\ linked \subseteq k.linked
    /\ published => k.published

Tracks(q, K) ==
    /\ imgRequest = q
    /\ imgPc \in DOMAIN K /\ imgPc \in Nat \ {0}
    /\ DOMAIN imgHeld = ThingsOf(q) /\ DOMAIN imgMedia = ThingsOf(q)
    /\ \E D : Bears(q, K[imgPc], imgPc, D, imgHeld, imgMedia, imgLinked, imgPublished)

LEMMA BearsMore ==
    ASSUME NEW q, NEW k, NEW i \in Nat \ {0}, NEW D, NEW new,
           NEW held, NEW media, NEW linked, NEW published,
           Bears(q, k, i, D, held, media, linked, published), Steady(q, k, i),
           \A v \in new : v[2] = i /\ v[1] # "later"
    PROVE  Bears(q, k, i + 1, D \cup new, held, media, linked, published)
<1>1. \A v \in D \cup new : v[2] \in Nat /\ v[2] < i + 1
  BY DEF Bears
<1>2. Never \notin D \cup new
  <2>1. Never[2] = 0
    BY DEF Never, Event
  <2>. QED BY <2>1 DEF Bears
<1>3. k.ruledOut \cap (D \cup new) = {}
  BY DEF Bears, Steady, Fresh
<1>4. ASSUME NEW x \in ThingsOf(q)
      PROVE  /\ Vouches(k.held[x], D \cup new, held[x])
             /\ Vouches(k.media[x], D \cup new, media[x])
  <2>1. \A p \in k.held[x].takes \cup k.media[x].takes : p[2] \notin new
    BY DEF Steady, Fresh
  <2>. QED BY <2>1, VouchesLater DEF Bears
<1>. QED BY <1>1, <1>2, <1>3, <1>4 DEF Bears

(* What every instruction starts from.                                       *)
LEMMA AtInstruction ==
    ASSUME NEW q, NEW K, EvidenceSuffices(q, K), Tracks(q, K),
           imgPc \in DOMAIN Program
    PROVE  /\ Program = ProgramOf(q) /\ Current = ProgramOf(q)[imgPc]
           /\ Orderly(q, imgPc) /\ imgPc \in Nat \ {0}
           /\ imgPc + 1 \in DOMAIN K
           /\ K[imgPc + 1] = After(q, K[imgPc], imgPc)
           /\ Shaped(q, K[imgPc]) /\ Steady(q, K[imgPc], imgPc)
           /\ Current.of \subseteq ThingsOf(q) /\ Current.from \subseteq ThingsOf(q)
           /\ Subject = SubjectOf(ProgramOf(q)[imgPc])
           /\ Current.op \in Subjective => Subject \in Current.of /\ Subject # "edited"
<1>1. Program = ProgramOf(q) /\ Current = ProgramOf(q)[imgPc]
  BY DEF Program, ProgramOf, Current, Tracks
<1>2. /\ Orderly(q, imgPc) /\ imgPc \in Nat \ {0}
      /\ imgPc + 1 \in DOMAIN K
      /\ K[imgPc + 1] = After(q, K[imgPc], imgPc)
      /\ Shaped(q, K[imgPc]) /\ Steady(q, K[imgPc], imgPc)
  BY <1>1 DEF EvidenceSuffices, Tracks
<1>3. Current.of \subseteq ThingsOf(q) /\ Current.from \subseteq ThingsOf(q)
  BY <1>1 DEF ThingsOf, Things
<1>4. Subject = SubjectOf(ProgramOf(q)[imgPc])
  BY <1>1 DEF Subject, SubjectOf
<1>5. Current.op \in Subjective => Subject \in Current.of /\ Subject # "edited"
  BY <1>1, <1>2 DEF Orderly, Subject
<1>. QED BY <1>1, <1>2, <1>3, <1>4, <1>5

(* The next instruction is come to with the next evidence.                   *)
LEMMA Onward ==
    ASSUME NEW q, NEW K, EvidenceSuffices(q, K), Tracks(q, K),
           imgPc \in DOMAIN Program, ImgAdvance,
           DOMAIN imgHeld' = DOMAIN imgHeld, DOMAIN imgMedia' = DOMAIN imgMedia,
           NEW D, Bears(q, After(q, K[imgPc], imgPc), imgPc + 1, D,
                        imgHeld', imgMedia', imgLinked', imgPublished')
    PROVE  Tracks(q, K)'
<1>1. /\ imgPc + 1 \in DOMAIN K /\ imgPc \in Nat \ {0}
      /\ K[imgPc + 1] = After(q, K[imgPc], imgPc)
  BY AtInstruction
<1>2. imgPc' = imgPc + 1 /\ imgRequest' = imgRequest
  BY DEF ImgAdvance
<1>. QED BY <1>1, <1>2 DEF Tracks

LEMMA SkipTracks ==
    ASSUME NEW q, NEW K, EvidenceSuffices(q, K), Tracks(q, K), ImgSkip
    PROVE  Tracks(q, K)'
<1>1. imgPc \in DOMAIN Program
  BY DEF ImgSkip
<1>2. Passed(q, imgPc)
  BY <1>1, AtInstruction DEF ImgSkip, Passed, Tracks
<1>3. PICK D : Bears(q, K[imgPc], imgPc, D, imgHeld, imgMedia, imgLinked, imgPublished)
  BY DEF Tracks
<1>4. Bears(q, K[imgPc], imgPc + 1, D \cup {}, imgHeld, imgMedia, imgLinked, imgPublished)
  BY <1>1, <1>3, AtInstruction, BearsMore
<1>5. After(q, K[imgPc], imgPc) = K[imgPc]
  BY <1>2 DEF After
<1>. QED BY <1>1, <1>4, <1>5, Onward DEF ImgSkip, Goods, Records

LEMMA AtIs ==
    ASSUME NEW q, NEW K, EvidenceSuffices(q, K), Tracks(q, K),
           NEW ops, At(ops)
    PROVE  /\ imgPc \in DOMAIN Program /\ ~Passed(q, imgPc)
           /\ Current.op \in ops
BY AtInstruction DEF At, Passed, Tracks

LEMMA AfterIs ==
    ASSUME NEW q, NEW k, NEW i, NEW c, NEW x,
           c = ProgramOf(q)[i], x = SubjectOf(c), ~Passed(q, i)
    PROVE  /\ c.op \in {"copy", "link"} => After(q, k, i) = StagedEvidence(k, c, i, x)
           /\ c.op = "make"    => After(q, k, i) = MadeEvidence(k, c, i, x)
           /\ c.op = "burn"    => After(q, k, i) = BurnedEvidence(k, c, i)
           /\ c.op = "expect"  => After(q, k, i) = ExaminedEvidence(k, k.held[x], c)
           /\ c.op = "shows"   => After(q, k, i) = ExaminedEvidence(k, k.media[x], c)
           /\ c.op = "matches" => After(q, k, i) = MatchedEvidence(k, c)
           /\ c.op = "publish" => After(q, k, i) = [k EXCEPT !.published = TRUE]
           /\ c.op \in {"volume", "remove", "done"} => After(q, k, i) = k
<1>1. /\ c.op \in {"copy", "link"} => After(q, k, i) = StagedEvidence(k, c, i, x)
      /\ c.op = "make"    => After(q, k, i) = MadeEvidence(k, c, i, x)
      /\ c.op = "burn"    => After(q, k, i) = BurnedEvidence(k, c, i)
  BY DEF After
<1>2. /\ c.op = "expect"  => After(q, k, i) = ExaminedEvidence(k, k.held[x], c)
      /\ c.op = "shows"   => After(q, k, i) = ExaminedEvidence(k, k.media[x], c)
      /\ c.op = "matches" => After(q, k, i) = MatchedEvidence(k, c)
  BY DEF After
<1>3. c.op = "publish" => After(q, k, i) = [k EXCEPT !.published = TRUE]
  BY DEF After
<1>4. c.op \in {"volume", "remove", "done"} => After(q, k, i) = k
  BY DEF After
<1>. QED BY <1>1, <1>2, <1>3, <1>4

LEMMA StageTracks ==
    ASSUME NEW q, NEW K, EvidenceSuffices(q, K), Tracks(q, K), ImgStage
    PROVE  Tracks(q, K)'
<1> DEFINE i == imgPc
           k == K[i]
           c == Current
           x == Subject
           next == StagedEvidence(k, c, i, x)
           made == Event("made", i, x)
           edit == Event("edited", i, x)
           new == {made} \cup IF x \in imgEdited THEN {edit} ELSE {}
<1>1. i \in DOMAIN Program /\ ~Passed(q, i) /\ c.op \in {"copy", "link"}
  BY AtIs DEF ImgStage
<1>2. /\ c = ProgramOf(q)[i] /\ x = SubjectOf(c) /\ x \in ThingsOf(q) /\ x # "edited"
      /\ Shaped(q, k) /\ Steady(q, k, i) /\ i \in Nat \ {0}
  BY <1>1, AtInstruction DEF Subjective
<1>3. After(q, k, i) = next
  BY <1>1, <1>2, AfterIs
<1>4. PICK D : Bears(q, k, i, D, imgHeld, imgMedia, imgLinked, imgPublished)
  BY DEF Tracks
<1>5. edit \notin D
  BY <1>4, <1>2, EventIs DEF Bears
<1>6. made # edit
  BY EventIs
<1>7. \A v \in new : v[2] = i /\ v[1] # "later"
  BY EventIs
<1>8. Bears(q, k, i + 1, D \cup new, imgHeld, imgMedia, imgLinked, imgPublished)
  BY <1>2, <1>4, <1>7, BearsMore
<1>9. /\ next.held[x] = StagedAccount(c, i, x)
      /\ \A y \in ThingsOf(q) \ {x} : next.held[y] = k.held[y]
      /\ next.media = k.media /\ next.ruledOut = k.ruledOut
      /\ next.shown = k.shown \cup {made}
      /\ c.op = "link" => next.linked = k.linked \cup {x}
      /\ c.op # "link" => next.linked = k.linked
      /\ next.published = k.published
  <2>1. next = StagedEvidence(k, c, i, x)
    OBVIOUS
  <2>2. Shaped(q, k) /\ x \in ThingsOf(q)
    BY <1>2
  <2> HIDE DEF next, k, c, x
  <2>. QED BY <2>1, <2>2, StagedEvidenceIs
<1>10. /\ imgHeld' = [imgHeld EXCEPT ![x] = Staged(x)]
       /\ imgLinked' = IF c.op = "link" THEN imgLinked \cup {x} ELSE imgLinked
       /\ ImgAdvance /\ imgMedia' = imgMedia /\ imgPublished' = imgPublished
  BY DEF ImgStage, Records
<1>11. DOMAIN imgHeld = ThingsOf(q)
  BY DEF Tracks
<1>12. Vouches(StagedAccount(c, i, x), D \cup new, Staged(x))
  <2>1. CASE x \in imgEdited
    BY <2>1, <1>2, VouchesStaged DEF Staged
  <2>2. CASE x \notin imgEdited
    BY <2>2, <1>2, <1>5, <1>6, VouchesStaged DEF Staged
  <2>. QED BY <2>1, <2>2
<1> HIDE DEF next, new, made, k, c, x
<1>13. \A y \in ThingsOf(q) : Vouches(next.held[y], D \cup new, imgHeld'[y])
  <2> TAKE y \in ThingsOf(q)
  <2>1. CASE y = x
    BY <2>1, <1>9, <1>10, <1>11, <1>12
  <2>2. CASE y # x
    BY <2>2, <1>8, <1>9, <1>10, <1>11 DEF Bears
  <2>. QED BY <2>1, <2>2
<1>14. made \in new
  BY DEF new
<1>15. Bears(q, next, i + 1, D \cup new, imgHeld', imgMedia', imgLinked', imgPublished')
  BY <1>8, <1>9, <1>10, <1>13, <1>14 DEF Bears
<1>16. DOMAIN imgHeld' = DOMAIN imgHeld /\ DOMAIN imgMedia' = DOMAIN imgMedia
  BY <1>10
<1>. QED BY <1>1, <1>3, <1>10, <1>15, <1>16, Onward DEF k

LEMMA MakeTracks ==
    ASSUME NEW q, NEW K, EvidenceSuffices(q, K), Tracks(q, K), ImgMake
    PROVE  Tracks(q, K)'
<1> DEFINE i == imgPc
           k == K[i]
           c == Current
           x == Subject
           next == MadeEvidence(k, c, i, x)
           made == Event("made", i, x)
           unclean == Event("unclean", i, x)
           account == MadeAccount(k.held, c, i, x)
<1>1. i \in DOMAIN Program /\ ~Passed(q, i) /\ c.op = "make"
  BY AtIs DEF ImgMake
<1>2. /\ c = ProgramOf(q)[i] /\ x = SubjectOf(c) /\ x \in ThingsOf(q)
      /\ c.from \subseteq ThingsOf(q)
      /\ Shaped(q, k) /\ Steady(q, k, i) /\ i \in Nat \ {0}
  BY <1>1, AtInstruction DEF Subjective
<1>3. After(q, k, i) = next
  BY <1>1, <1>2, AfterIs
<1>4. PICK D : Bears(q, k, i, D, imgHeld, imgMedia, imgLinked, imgPublished)
  BY DEF Tracks
<1>5. made \notin D /\ unclean \notin D /\ made # unclean
  BY <1>4, <1>2, EventIs DEF Bears
<1>6. /\ next.held[x] = Either(k.held[x], account)
      /\ \A y \in ThingsOf(q) \ {x} : next.held[y] = k.held[y]
      /\ next.media = k.media /\ next.ruledOut = k.ruledOut
      /\ next.shown = k.shown /\ next.linked = k.linked
      /\ next.published = k.published
  BY <1>2, MadeEvidenceIs
<1>7. /\ ImgAdvance /\ imgMedia' = imgMedia /\ imgPublished' = imgPublished
      /\ imgLinked' = imgLinked /\ DOMAIN imgHeld = ThingsOf(q)
      /\ DOMAIN imgHeld' = DOMAIN imgHeld
  BY DEF ImgMake, Records, Tracks
<1>8. ASSUME NEW new, new \subseteq {made, unclean},
             NEW contents, imgHeld' = [imgHeld EXCEPT ![x] = contents],
             Vouches(Either(k.held[x], account), D \cup new, contents)
      PROVE  Bears(q, next, i + 1, D \cup new, imgHeld', imgMedia', imgLinked', imgPublished')
  <2>1. \A v \in new : v[2] = i /\ v[1] # "later"
    BY <1>8, EventIs
  <2>2. Bears(q, k, i + 1, D \cup new, imgHeld, imgMedia, imgLinked, imgPublished)
    BY <2>1, <1>2, <1>4, BearsMore
  <2> HIDE DEF next, made, unclean, account, k, c, x
  <2>3. \A y \in ThingsOf(q) : Vouches(next.held[y], D \cup new, imgHeld'[y])
    <3> TAKE y \in ThingsOf(q)
    <3>1. CASE y = x
      BY <3>1, <1>6, <1>7, <1>8
    <3>2. CASE y # x
      BY <3>2, <2>2, <1>6, <1>7, <1>8 DEF Bears
    <3>. QED BY <3>1, <3>2
  <2>. QED BY <2>2, <2>3, <1>6, <1>7 DEF Bears
<1>9. ASSUME NEW new, made \in new, new \subseteq {made, unclean},
             NEW contents, imgHeld' = [imgHeld EXCEPT ![x] = contents],
             \/ contents = MadeOf(c.from) /\ unclean \notin new
             \/ contents = MadeOf(c.from) \cup c.without /\ unclean \in new
      PROVE  Bears(q, next, i + 1, D \cup new, imgHeld', imgMedia', imgLinked', imgPublished')
  <2>1. \A v \in new : v[2] = i /\ v[1] # "later"
    BY <1>9, EventIs
  <2>2. Bears(q, k, i + 1, D \cup new, imgHeld, imgMedia, imgLinked, imgPublished)
    BY <2>1, <1>2, <1>4, BearsMore
  <2>3. \A d \in c.from : Vouches(k.held[d], D \cup new, imgHeld[d])
    BY <2>2, <1>2 DEF Bears
  <2>4. Never \notin D \cup new
    BY <2>2 DEF Bears
  <2>5. Vouches(account, D \cup new, contents)
    BY <2>3, <1>5, <1>9, VouchesMade DEF MadeOf
  <2>6. Vouches(Either(k.held[x], account), D \cup new, contents)
    BY <2>4, <2>5, VouchesNow
  <2>. QED BY <2>6, <1>8, <1>9
<1>10. CASE imgHeld' = [imgHeld EXCEPT ![x] = MadeOf(c.from)]
  <2>1. Bears(q, next, i + 1, D \cup {made}, imgHeld', imgMedia', imgLinked', imgPublished')
    BY <1>10, <1>9, <1>5
  <2>. QED BY <2>1, <1>1, <1>3, <1>7, Onward
<1>11. CASE imgHeld' = [imgHeld EXCEPT ![x] = MadeOf(c.from) \cup c.without]
  <2>1. Bears(q, next, i + 1, D \cup {made, unclean}, imgHeld', imgMedia', imgLinked', imgPublished')
    BY <1>11, <1>9, <1>5
  <2>. QED BY <2>1, <1>1, <1>3, <1>7, Onward
<1>12. CASE imgHeld' = imgHeld
  <2>1. \A e \in Elements(account) : \E p \in account.takes : p[1] = e /\ p[2] \notin D \cup {}
    BY <1>5, MadeTakes
  <2>2. Vouches(Either(k.held[x], account), D \cup {}, imgHeld[x])
    BY <2>1, <1>2, <1>4, VouchesStill DEF Bears
  <2>3. \A v \in {} : v[2] = i /\ v[1] # "later"
    OBVIOUS
  <2>4. Bears(q, k, i + 1, D \cup {}, imgHeld, imgMedia, imgLinked, imgPublished)
    BY <2>3, <1>2, <1>4, BearsMore
  <2> HIDE DEF next, account, k, c, x
  <2>5. \A y \in ThingsOf(q) : Vouches(next.held[y], D \cup {}, imgHeld'[y])
    <3> TAKE y \in ThingsOf(q)
    <3>1. CASE y = x
      BY <3>1, <1>6, <1>12, <2>2
    <3>2. CASE y # x
      BY <3>2, <1>6, <1>12, <2>4 DEF Bears
    <3>. QED BY <3>1, <3>2
  <2>6. Bears(q, next, i + 1, D \cup {}, imgHeld', imgMedia', imgLinked', imgPublished')
    BY <2>4, <2>5, <1>6, <1>7 DEF Bears
  <2>. QED BY <2>6, <1>1, <1>3, <1>7, Onward DEF k
<1>. QED BY <1>10, <1>11, <1>12 DEF ImgMake

LEMMA BurnTracks ==
    ASSUME NEW q, NEW K, EvidenceSuffices(q, K), Tracks(q, K), ImgBurn
    PROVE  Tracks(q, K)'
<1> DEFINE i == imgPc
           k == K[i]
           c == Current
           next == BurnedEvidence(k, c, i)
           Burned(y) == Event("burned", i, y)
<1>1. i \in DOMAIN Program /\ ~Passed(q, i) /\ c.op = "burn"
  BY AtIs DEF ImgBurn
<1>2. /\ c = ProgramOf(q)[i] /\ Shaped(q, k) /\ Steady(q, k, i) /\ i \in Nat \ {0}
  BY <1>1, AtInstruction
<1>3. After(q, k, i) = next
  BY <1>1, <1>2, AfterIs
<1>4. PICK D : Bears(q, k, i, D, imgHeld, imgMedia, imgLinked, imgPublished)
  BY DEF Tracks
<1>5. PICK missed \in SUBSET c.of :
        imgMedia' = [y \in DOMAIN imgMedia |->
                       IF y \in c.of \ missed THEN imgHeld[y] ELSE imgMedia[y]]
  BY DEF ImgBurn
<1>6. /\ ImgAdvance /\ imgHeld' = imgHeld /\ imgPublished' = imgPublished
      /\ imgLinked' = imgLinked /\ DOMAIN imgMedia = ThingsOf(q)
      /\ DOMAIN imgMedia' = DOMAIN imgMedia
  BY <1>5 DEF ImgBurn, Records, Tracks
<1> DEFINE new == {Burned(y) : y \in c.of \ missed}
<1>7. \A v \in new : v[2] = i /\ v[1] # "later"
  BY EventIs
<1>8. Bears(q, k, i + 1, D \cup new, imgHeld, imgMedia, imgLinked, imgPublished)
  BY <1>2, <1>4, <1>7, BearsMore
<1>9. /\ \A y \in ThingsOf(q) :
           next.media[y] = IF y \in c.of
                           THEN Either(k.media[y], BurnedAccount(k.held[y], i, y))
                           ELSE k.media[y]
      /\ next.held = k.held /\ next.ruledOut = k.ruledOut
      /\ next.shown = k.shown /\ next.linked = k.linked
      /\ next.published = k.published
  <2>1. next = BurnedEvidence(k, c, i)
    OBVIOUS
  <2> HIDE DEF next, k, c
  <2>. QED BY <2>1, <1>2, BurnedEvidenceIs
<1>10. \A y : y \in missed => Burned(y) \notin D \cup new
  <2>1. \A y : Burned(y) \notin D
    BY <1>4, <1>2, EventIs DEF Bears
  <2>2. \A y, z : Burned(y) = Burned(z) => y = z
    BY DEF Event
  <2>. QED BY <2>1, <2>2
<1>11. \A y \in c.of \ missed : Burned(y) \in new
  OBVIOUS
<1>12. Never \notin D \cup new
  BY <1>8 DEF Bears
<1> HIDE DEF next, new, k, c
<1>13. \A y \in ThingsOf(q) : Vouches(next.media[y], D \cup new, imgMedia'[y])
  <2> TAKE y \in ThingsOf(q)
  <2>1. /\ Vouches(k.held[y], D \cup new, imgHeld[y])
        /\ Vouches(k.media[y], D \cup new, imgMedia[y])
    BY <1>8 DEF Bears
  <2>2. imgMedia'[y] = IF y \in c.of \ missed THEN imgHeld[y] ELSE imgMedia[y]
    BY <1>5, <1>6
  <2>3. CASE y \in c.of \ missed
    <3>1. Vouches(BurnedAccount(k.held[y], i, y), D \cup new, imgHeld[y])
      BY <2>1, <2>3, <1>11, VouchesBurned
    <3>2. Vouches(Either(k.media[y], BurnedAccount(k.held[y], i, y)), D \cup new, imgHeld[y])
      BY <3>1, <1>12, VouchesNow
    <3>. QED BY <3>2, <2>2, <2>3, <1>9
  <2>4. CASE y \in missed
    <3>1. \A e \in Elements(BurnedAccount(k.held[y], i, y)) :
            \E p \in BurnedAccount(k.held[y], i, y).takes : p[1] = e /\ p[2] \notin D \cup new
      <4> TAKE e \in Elements(BurnedAccount(k.held[y], i, y))
      <4>1. <<e, Burned(y)>> \in BurnedAccount(k.held[y], i, y).takes
        BY BurnedIs
      <4>2. <<e, Burned(y)>>[1] = e /\ <<e, Burned(y)>>[2] = Burned(y)
        BY PairIs
      <4>. QED BY <4>1, <4>2, <2>4, <1>10
    <3>2. Vouches(Either(k.media[y], BurnedAccount(k.held[y], i, y)), D \cup new, imgMedia[y])
      BY <3>1, <2>1, <1>12, VouchesStill
    <3>. QED BY <3>2, <2>2, <2>4, <1>5, <1>9
  <2>5. CASE y \notin c.of
    BY <2>1, <2>2, <2>5, <1>9
  <2>. QED BY <2>3, <2>4, <2>5
<1>14. Bears(q, next, i + 1, D \cup new, imgHeld', imgMedia', imgLinked', imgPublished')
  BY <1>6, <1>8, <1>9, <1>13 DEF Bears
<1>15. DOMAIN imgHeld' = DOMAIN imgHeld
  BY <1>6
<1>. QED BY <1>1, <1>3, <1>6, <1>14, <1>15, Onward DEF k

LEMMA PassTracks ==
    ASSUME NEW q, NEW K, EvidenceSuffices(q, K), Tracks(q, K), ImgPass
    PROVE  Tracks(q, K)'
<1> DEFINE i == imgPc
           k == K[i]
           c == Current
           x == Subject
           next == After(q, k, i)
<1>1. i \in DOMAIN Program /\ ~Passed(q, i) /\ c.op \in {"expect", "shows", "matches"}
  BY AtIs DEF ImgPass
<1>2. /\ c = ProgramOf(q)[i] /\ x = SubjectOf(c)
      /\ c.op \in Subjective => x \in ThingsOf(q)
      /\ c.of \subseteq ThingsOf(q) /\ c.from \subseteq ThingsOf(q)
      /\ Shaped(q, k) /\ Steady(q, k, i) /\ i \in Nat \ {0} /\ Orderly(q, i)
  BY <1>1, AtInstruction
<1>3. PICK D : Bears(q, k, i, D, imgHeld, imgMedia, imgLinked, imgPublished)
  BY DEF Tracks
<1>4. /\ ImgAdvance /\ imgHeld' = imgHeld /\ imgMedia' = imgMedia
      /\ imgPublished' = imgPublished /\ imgLinked' = imgLinked
  BY DEF ImgPass, Goods, Records
<1>5. Bears(q, k, i + 1, D, imgHeld, imgMedia, imgLinked, imgPublished)
  <2>1. \A v \in {} : v[2] = i /\ v[1] # "later"
    OBVIOUS
  <2>2. D \cup {} = D
    OBVIOUS
  <2>3. Bears(q, k, i + 1, D \cup {}, imgHeld, imgMedia, imgLinked, imgPublished)
    BY <2>1, <1>2, <1>3, BearsMore
  <2>. QED BY <2>2, <2>3
<1>6. ASSUME NEW a, NEW contents, Vouches(a, D, contents), Fits(contents),
             next = ExaminedEvidence(k, a, c)
      PROVE  Bears(q, next, i + 1, D, imgHeld, imgMedia, imgLinked, imgPublished)
  <2> DEFINE shown == k.shown \cup ShownBy(a, c.from)
  <2>1. ShownBy(a, c.from) \subseteq D
    BY <1>6, ShownHappened DEF Fits
  <2>2. shown \subseteq D
    BY <2>1, <1>5 DEF Bears
  <2>3. RuledOutBy(a, c.without, shown) \cap D = {}
    BY <2>2, <1>6, RuledOutNever DEF Fits
  <2>4. /\ next.held = k.held /\ next.media = k.media
        /\ next.shown = shown
        /\ next.ruledOut = k.ruledOut \cup RuledOutBy(a, c.without, shown)
        /\ next.linked = k.linked /\ next.published = k.published
    <3>1. shown = k.shown \cup ShownBy(a, c.from)
      OBVIOUS
    <3> HIDE DEF k, c, next, shown
    <3>. QED BY <3>1, <1>2, <1>6, ExaminedIs
  <2> HIDE DEF next, k, shown
  <2>. QED BY <2>2, <2>3, <2>4, <1>5 DEF Bears
<1>7. CASE c.op = "expect"
  <2>1. next = ExaminedEvidence(k, k.held[x], c)
    BY <1>1, <1>2, <1>7, AfterIs
  <2>2. Fits(imgHeld[x])
    BY <1>7 DEF ImgPass, ImgHolds
  <2>3. Vouches(k.held[x], D, imgHeld[x])
    BY <1>2, <1>3, <1>7 DEF Bears, Subjective
  <2>. QED BY <2>1, <2>2, <2>3, <1>1, <1>4, <1>6, Onward
<1>8. CASE c.op = "shows"
  <2>1. next = ExaminedEvidence(k, k.media[x], c)
    BY <1>1, <1>2, <1>8, AfterIs
  <2>2. Fits(imgMedia[x])
    BY <1>8 DEF ImgPass, ImgHolds
  <2>3. Vouches(k.media[x], D, imgMedia[x])
    BY <1>2, <1>3, <1>8 DEF Bears, Subjective
  <2>. QED BY <2>1, <2>2, <2>3, <1>1, <1>4, <1>6, Onward
<1>9. CASE c.op = "matches"
  <2>1. next = MatchedEvidence(k, c)
    BY <1>1, <1>2, <1>9, AfterIs
  <2>2. \A y \in c.of, list \in c.from : Agrees(y, list)
    BY <1>9 DEF ImgPass, ImgHolds
  <2>3. /\ \A y \in c.of : ShownBy(k.media[y], {y}) \subseteq D
        /\ \A y \in c.of, list \in c.from : ShownBy(k.media[list], {y}) \subseteq D
    <3>1. \A y \in c.of \cup c.from : Vouches(k.media[y], D, imgMedia[y])
      BY <1>2, <1>3 DEF Bears
    <3>2. \A y \in c.of, list \in c.from : {y} \subseteq imgMedia[y] /\ {y} \subseteq imgMedia[list]
      BY <2>2 DEF Agrees
    <3>3. c.from # {}
      BY <1>2, <1>9 DEF Orderly
    <3>. QED BY <3>1, <3>2, <3>3, ShownHappened
  <2>4. /\ next.held = k.held /\ next.media = k.media
        /\ next.shown = k.shown \cup ShownByAgreement(k, c)
        /\ next.ruledOut = k.ruledOut
        /\ next.linked = k.linked /\ next.published = k.published
    <3> HIDE DEF k, c, next
    <3>. QED BY <2>1, <1>2, ComparedIs
  <2>5. next.shown \subseteq D
    <3>1. ShownByAgreement(k, c) \subseteq D
      <4> SUFFICES ASSUME NEW v \in ShownByAgreement(k, c) PROVE v \in D
        OBVIOUS
      <4>1. PICK y \in c.of :
              v \in ShownBy(k.media[y], {y})
                     \cup UNION {ShownBy(k.media[list], {y}) : list \in c.from}
        BY DEF ShownByAgreement
      <4>. QED BY <4>1, <2>3
    <3>2. k.shown \subseteq D
      BY <1>5 DEF Bears
    <3>. QED BY <2>4, <3>1, <3>2
  <2>6. Bears(q, next, i + 1, D, imgHeld, imgMedia, imgLinked, imgPublished)
    <3> HIDE DEF next, k
    <3>. QED BY <2>4, <2>5, <1>5 DEF Bears
  <2>. QED BY <2>6, <1>1, <1>4, Onward
<1>. QED BY <1>1, <1>7, <1>8, <1>9

LEMMA PublishTracks ==
    ASSUME NEW q, NEW K, EvidenceSuffices(q, K), Tracks(q, K), ImgPublish
    PROVE  Tracks(q, K)'
<1> DEFINE i == imgPc
           k == K[i]
           c == Current
           next == [k EXCEPT !.published = TRUE]
<1>1. i \in DOMAIN Program /\ ~Passed(q, i) /\ c.op = "publish"
  BY AtIs DEF ImgPublish
<1>2. /\ c = ProgramOf(q)[i] /\ Shaped(q, k) /\ Steady(q, k, i) /\ i \in Nat \ {0}
  BY <1>1, AtInstruction
<1>3. After(q, k, i) = next
  <2> HIDE DEF k, c
  <2>. QED BY <1>1, <1>2, AfterIs
<1>4. PICK D : Bears(q, k, i, D, imgHeld, imgMedia, imgLinked, imgPublished)
  BY DEF Tracks
<1>5. \A v \in {} : v[2] = i /\ v[1] # "later"
  OBVIOUS
<1>6. Bears(q, k, i + 1, D \cup {}, imgHeld, imgMedia, imgLinked, imgPublished)
  BY <1>2, <1>4, <1>5, BearsMore
<1>7. /\ next.held = k.held /\ next.media = k.media /\ next.shown = k.shown
      /\ next.ruledOut = k.ruledOut /\ next.linked = k.linked /\ next.published
  BY <1>2 DEF Shaped
<1>8. /\ ImgAdvance /\ imgHeld' = imgHeld /\ imgMedia' = imgMedia /\ imgLinked' = imgLinked
  BY DEF ImgPublish, Goods
<1>9. Bears(q, next, i + 1, D \cup {}, imgHeld', imgMedia', imgLinked', imgPublished')
  <2> HIDE DEF next, k
  <2>. QED BY <1>6, <1>7, <1>8 DEF Bears
<1>. QED BY <1>1, <1>3, <1>8, <1>9, Onward

(* Instructions that leave the workspace and the medium as they are.         *)
LEMMA PassingTracks ==
    ASSUME NEW q, NEW K, EvidenceSuffices(q, K), Tracks(q, K),
           ImgDone \/ CreateWorkVolume \/ ImgRemoveVolume
    PROVE  Tracks(q, K)'
<1>1. /\ imgPc \in DOMAIN Program /\ ~Passed(q, imgPc)
      /\ Current.op \in {"done", "volume", "remove"}
  <2>1. \E ops : At(ops) /\ ops \subseteq {"done", "volume", "remove"}
    BY DEF ImgDone, CreateWorkVolume, ImgRemoveVolume
  <2>. QED BY <2>1, AtIs
<1>2. /\ Current = ProgramOf(q)[imgPc] /\ Subject = SubjectOf(ProgramOf(q)[imgPc])
      /\ Steady(q, K[imgPc], imgPc) /\ imgPc \in Nat \ {0}
  BY <1>1, AtInstruction
<1>3. After(q, K[imgPc], imgPc) = K[imgPc]
  BY <1>1, <1>2, AfterIs
<1>4. PICK D : Bears(q, K[imgPc], imgPc, D, imgHeld, imgMedia, imgLinked, imgPublished)
  BY DEF Tracks
<1>5. \A v \in {} : v[2] = imgPc /\ v[1] # "later"
  OBVIOUS
<1>6. Bears(q, K[imgPc], imgPc + 1, D \cup {}, imgHeld, imgMedia, imgLinked, imgPublished)
  BY <1>2, <1>4, <1>5, BearsMore
<1>7. /\ ImgAdvance /\ imgHeld' = imgHeld /\ imgMedia' = imgMedia /\ imgLinked' = imgLinked
      /\ imgPublished' = imgPublished
  BY DEF ImgDone, CreateWorkVolume, ImgRemoveVolume, Goods, Records
<1>. QED BY <1>1, <1>3, <1>6, <1>7, Onward

(* Steps after which the command does not go on.                             *)
LEMMA StoppingTracks ==
    ASSUME NEW q, NEW K, Tracks(q, K),
           \/ ImgRefuse \/ ImgError \/ CreateWorkVolumeFails \/ ImgRemoveVolumeFails
           \/ ImgReturn \/ ImgNothingToRemove \/ ImgKeepVolume \/ ImgCleanVolume
           \/ ImgCleanVolumeFails \/ ImgKill \/ UNCHANGED imgVars
    PROVE  Tracks(q, K)'
<1>1. UNCHANGED <<imgRequest, imgPc, imgHeld, imgMedia, imgLinked, imgPublished>>
  BY DEF ImgRefuse, ImgError, CreateWorkVolumeFails, ImgRemoveVolumeFails, ImgReturn,
         ImgNothingToRemove, ImgKeepVolume, ImgCleanVolume, ImgCleanVolumeFails,
         ImgKill, imgVars, Return, Deferred, Goods, Records
<1>. QED BY <1>1 DEF Tracks

LEMMA HostEditTracks ==
    ASSUME NEW q, NEW K, EvidenceSuffices(q, K), Tracks(q, K), ImgHostEdit
    PROVE  Tracks(q, K)'
<1> DEFINE i == imgPc
           k == K[i]
<1>1. PICK x : /\ imgHeld' = IF x \in imgLinked
                              THEN [imgHeld EXCEPT ![x] = @ \cup {"edited"}] ELSE imgHeld
               /\ UNCHANGED <<imgRequest, imgPc, imgMedia, imgLinked, imgPublished>>
  BY DEF ImgHostEdit, Records
<1>2. CASE x \notin imgLinked
  BY <1>1, <1>2 DEF Tracks
<1>3. CASE x \in imgLinked
  <2>1. PICK D : Bears(q, k, i, D, imgHeld, imgMedia, imgLinked, imgPublished)
    BY DEF Tracks
  <2>2. i \in DOMAIN K /\ i \in Nat \ {0} /\ DOMAIN imgHeld = ThingsOf(q)
    BY DEF Tracks
  <2>3. Shaped(q, k) /\ Steady(q, k, i)
    BY <2>2 DEF EvidenceSuffices
  <2> DEFINE new == {Later(x)}
  <2>4. Later(x)[1] = "later" /\ Later(x)[2] = 0
    BY EventIs DEF Later
  <2>5. Later(x) # Never
    <3>1. Never[1] = "never"
      BY DEF Never, Event
    <3>. QED BY <3>1, <2>4
  <2>6. \A v \in D \cup new : v[2] \in Nat /\ v[2] < i
    BY <2>1, <2>2, <2>4 DEF Bears
  <2>7. /\ \A v \in k.ruledOut : v[1] # "later"
        /\ \A y \in ThingsOf(q) :
              \A p \in k.held[y].takes \cup k.media[y].takes : p[2] \notin new
    BY <2>3, <2>4 DEF Steady, Fresh
  <2>8. \A y \in ThingsOf(q) : /\ Vouches(k.held[y], D \cup new, imgHeld[y])
                               /\ Vouches(k.media[y], D \cup new, imgMedia[y])
    BY <2>1, <2>7, VouchesLater DEF Bears
  <2>9. x \in k.linked
    BY <1>3, <2>1 DEF Bears
  <2>10. /\ <<"edited", Later(x)>> \in k.held[x].roots
         /\ \A p \in k.held[x].needs : p[1] # "edited"
    BY <2>3, <2>9 DEF Steady
  <2>11. <<"edited", Later(x)>>[1] = "edited" /\ <<"edited", Later(x)>>[2] = Later(x)
    OBVIOUS
  <2>12. ASSUME NEW contents, Vouches(k.held[x], D \cup new, contents)
         PROVE  Vouches(k.held[x], D \cup new, contents \cup {"edited"})
    BY <2>10, <2>11, <2>12 DEF Vouches
  <2>13. \A y \in ThingsOf(q) : Vouches(k.held[y], D \cup new, imgHeld'[y])
    <3> TAKE y \in ThingsOf(q)
    <3>1. imgHeld'[y] = IF y = x THEN imgHeld[y] \cup {"edited"} ELSE imgHeld[y]
      BY <1>1, <1>3, <2>2
    <3>. QED BY <3>1, <2>8, <2>12
  <2>14. Never \notin D \cup new /\ k.ruledOut \cap (D \cup new) = {}
    BY <2>1, <2>4, <2>5, <2>7 DEF Bears
  <2>15. Bears(q, k, i, D \cup new, imgHeld', imgMedia', imgLinked', imgPublished')
    BY <1>1, <2>1, <2>6, <2>8, <2>13, <2>14 DEF Bears
  <2>16. DOMAIN imgHeld' = DOMAIN imgHeld
    BY <1>1, <1>3
  <2>. QED BY <1>1, <2>15, <2>16 DEF Tracks
<1>. QED BY <1>2, <1>3

LEMMA StepTracks ==
    ASSUME NEW q, NEW K, EvidenceSuffices(q, K), Tracks(q, K), [ImgNext]_imgVars
    PROVE  Tracks(q, K)'
BY SkipTracks, StageTracks, MakeTracks, BurnTracks, PassTracks, PublishTracks,
   PassingTracks, StoppingTracks, HostEditTracks DEF ImgNext, ImgStep

LEMMA StartTracks ==
    ASSUME NEW q, NEW K, EvidenceSuffices(q, K), ImgInit, imgRequest = q
    PROVE  Tracks(q, K)
<1> DEFINE k == K[1]
<1>1. 1 \in DOMAIN K /\ k = NoEvidence(q)
  BY DEF EvidenceSuffices
<1>2. Program = ProgramOf(q) /\ Things(Program) = ThingsOf(q)
  BY DEF Program, ProgramOf, ThingsOf
<1>3. /\ imgHeld = [x \in ThingsOf(q) |-> {}] /\ imgMedia = [x \in ThingsOf(q) |-> {}]
      /\ imgPc = 1 /\ imgLinked = {} /\ ~imgPublished
  BY <1>2 DEF ImgInit
<1>4. NoAccounts(q) \in [ThingsOf(q) -> {NoAccount}]
  <2>1. [x \in ThingsOf(q) |-> NoAccount] \in [ThingsOf(q) -> {NoAccount}]
    OBVIOUS
  <2>. QED BY <2>1 DEF NoAccounts
<1>5. /\ \A x \in ThingsOf(q) : k.held[x] = NoAccount /\ k.media[x] = NoAccount
      /\ k.shown = {} /\ k.ruledOut = {} /\ k.linked = {}
  BY <1>1, <1>4 DEF NoEvidence
<1> HIDE DEF k
<1>6. Bears(q, k, 1, {}, imgHeld, imgMedia, imgLinked, imgPublished)
  BY <1>3, <1>5, VouchesNothing DEF Bears
<1>. QED BY <1>1, <1>3, <1>6 DEF Tracks, k

LEMMA TrackedPromises ==
    ASSUME NEW q, NEW K, EvidenceSuffices(q, K), Tracks(q, K)
    PROVE  PromisesKept
<1> SUFFICES ASSUME imgPublished, NEW p \in PromisesTo(q)
             PROVE  p.from \subseteq imgMedia[p.of] /\ p.without \cap imgMedia[p.of] = {}
  BY DEF PromisesKept, Promised, Tracks
<1> DEFINE k == K[imgPc]
<1>1. PICK D : Bears(q, k, imgPc, D, imgHeld, imgMedia, imgLinked, imgPublished)
  BY DEF Tracks
<1>2. p.of \in ThingsOf(q) /\ BearsOut(k, p)
  BY <1>1 DEF EvidenceSuffices, Tracks, Bears
<1>3. Vouches(k.media[p.of], D, imgMedia[p.of]) /\ k.shown \subseteq D /\ k.ruledOut \cap D = {}
  BY <1>1, <1>2 DEF Bears
<1>. QED BY <1>2, <1>3 DEF BearsOut, Vouches

LEMMA RequestsKnown == ImgRequests \subseteq AllRequests
BY CreateAssumption DEF ImgRequests, AllRequests, Programs

(* What a published medium is promised to have it has, and what it is        *)
(* promised to be without it is without, whichever commands did nothing and  *)
(* whatever was edited under way.                                            *)
THEOREM PromisesAlwaysKept == ImgSpec => []PromisesKept
<1> DEFINE Inv == \E q \in ImgRequests : Tracks(q, EvidenceFor(q))
<1>1. \A q \in ImgRequests : EvidenceSuffices(q, EvidenceFor(q))
  BY RequestsKnown, ProgramsAssumption
<1>2. ImgInit => Inv
  <2> SUFFICES ASSUME ImgInit PROVE Inv
    OBVIOUS
  <2>1. imgRequest \in ImgRequests
    BY DEF ImgInit
  <2>. QED BY <1>1, <2>1, StartTracks
<1>3. Inv /\ [ImgNext]_imgVars => Inv'
  <2> SUFFICES ASSUME NEW q \in ImgRequests, Tracks(q, EvidenceFor(q)), [ImgNext]_imgVars
               PROVE  Tracks(q, EvidenceFor(q))'
    OBVIOUS
  <2>. QED BY <1>1, StepTracks
<1>4. Inv => PromisesKept
  BY <1>1, TrackedPromises
<1>. QED BY <1>2, <1>3, <1>4, PTL DEF ImgSpec

-----------------------------------------------------------------------------
(* What its checks refuse.                                                   *)

(* As long as nothing went wrong, the state is that of the faithful run.     *)
Faithful(s) ==
    /\ imgHeld = s.held /\ imgMedia = s.media
    /\ imgVolume = s.volume /\ imgPublished = s.published

Follows(q, run) ==
    /\ imgRequest = q
    /\ imgPc \in DOMAIN run /\ imgPc \in Nat \ {0}
    /\ imgSilent \in Nat /\ imgErrors \in Nat
    /\ imgSilent = 0 /\ imgErrors = 0 =>
         /\ imgEdited = {}
         /\ imgPhase = "running" => Faithful(run[imgPc])
         /\ imgPhase \in {"cleaning", "over"} => imgPublished

LEMMA AtFaithful ==
    ASSUME NEW q, NEW run, RunsThrough(q, run), Follows(q, run),
           NEW ops, At(ops)
    PROVE  /\ imgPc \in DOMAIN ProgramOf(q) /\ imgPc \in Nat \ {0}
           /\ imgPhase = "running" /\ Program = ProgramOf(q)
           /\ ~Passed(q, imgPc) /\ Current = ProgramOf(q)[imgPc] /\ Current.op \in ops
           /\ Subject = SubjectOf(ProgramOf(q)[imgPc])
           /\ imgPc + 1 \in DOMAIN run
           /\ run[imgPc + 1] = FaithfulAfter(q, run[imgPc], imgPc)
           /\ Accepted(q, run[imgPc], imgPc)
           /\ DOMAIN run[imgPc] = {"held", "media", "volume", "published"}
<1>1. Program = ProgramOf(q) /\ Current = ProgramOf(q)[imgPc]
  BY DEF Program, ProgramOf, Current, Follows
<1>2. /\ imgPhase = "running" /\ imgPc \in DOMAIN ProgramOf(q)
      /\ ~Passed(q, imgPc) /\ Current.op \in ops
  BY <1>1 DEF At, Passed, Follows
<1>3. Subject = SubjectOf(ProgramOf(q)[imgPc])
  BY <1>1 DEF Subject, SubjectOf
<1>4. /\ imgPc + 1 \in DOMAIN run /\ imgPc \in DOMAIN run
      /\ run[imgPc + 1] = FaithfulAfter(q, run[imgPc], imgPc)
      /\ Accepted(q, run[imgPc], imgPc)
      /\ DOMAIN run[imgPc] = {"held", "media", "volume", "published"}
  BY <1>2 DEF RunsThrough
<1>. QED BY <1>1, <1>2, <1>3, <1>4 DEF Follows

(* A step of the program leads on to the next state of the faithful run, or  *)
(* it did not do what it reported.                                           *)
LEMMA OnwardFaithfully ==
    ASSUME NEW q, NEW run, Follows(q, run), imgPhase = "running",
           imgPc + 1 \in DOMAIN run,
           NEW s, s = run[imgPc + 1],
           ImgAdvance, imgEdited' = imgEdited,
           \/ /\ imgSilent' = imgSilent
              /\ imgSilent = 0 /\ imgErrors = 0 => Faithful(s)'
           \/ Silently
    PROVE  Follows(q, run)'
<1>1. /\ imgPc' = imgPc + 1 /\ imgRequest' = imgRequest /\ imgPhase' = "running"
      /\ imgErrors' = imgErrors
  BY DEF ImgAdvance
<1>2. /\ imgRequest = q /\ imgPc \in Nat \ {0} /\ imgPc' \in Nat \ {0}
      /\ imgSilent \in Nat /\ imgErrors \in Nat /\ imgPc' \in DOMAIN run
  BY <1>1 DEF Follows
<1>3. CASE Silently
  <2>1. imgSilent' \in Nat /\ imgSilent' # 0
    BY <1>2, <1>3 DEF Silently
  <2>. QED BY <1>1, <1>2, <2>1 DEF Follows
<1>4. CASE /\ imgSilent' = imgSilent
           /\ imgSilent = 0 /\ imgErrors = 0 => Faithful(s)'
  <2>1. ASSUME imgSilent' = 0, imgErrors' = 0
        PROVE  imgEdited' = {} /\ Faithful(run[imgPc])'
    BY <1>1, <1>4, <2>1 DEF Follows, Faithful
  <2>2. imgSilent' \in Nat
    BY <1>2, <1>4
  <2>. QED BY <1>1, <1>2, <2>1, <2>2 DEF Follows
<1>. QED BY <1>3, <1>4

(* A step that ends the program: with an error, or with all of it run.       *)
LEMMA ReturnFaithfully ==
    ASSUME NEW q, NEW run, Follows(q, run), NEW failed, Return(failed),
           UNCHANGED <<Goods, imgPublished, imgSilent>>,
           Err \/ (imgErrors' = imgErrors /\ (imgSilent = 0 /\ imgErrors = 0 => imgPublished))
    PROVE  Follows(q, run)'
<1>1. /\ imgRequest' = imgRequest /\ imgPc' = imgPc /\ imgPhase' = "cleaning"
      /\ imgEdited' = imgEdited /\ imgPublished' = imgPublished
      /\ imgSilent' = imgSilent
  BY DEF Return, Goods
<1>2. CASE Err
  <2>1. imgErrors' \in Nat /\ imgErrors' # 0
    BY <1>2 DEF Err, Follows
  <2>. QED BY <1>1, <2>1 DEF Follows
<1>3. CASE imgErrors' = imgErrors /\ (imgSilent = 0 /\ imgErrors = 0 => imgPublished)
  BY <1>1, <1>3 DEF Follows
<1>. QED BY <1>2, <1>3

-----------------------------------------------------------------------------
LEMMA SkipFollows ==
    ASSUME NEW q, NEW run, RunsThrough(q, run), Follows(q, run), ImgSkip
    PROVE  Follows(q, run)'
<1>1. Program = ProgramOf(q) /\ Current = ProgramOf(q)[imgPc]
  BY DEF Program, ProgramOf, Current, Follows
<1>2. /\ imgPhase = "running" /\ imgPc \in DOMAIN ProgramOf(q) /\ Passed(q, imgPc)
      /\ ImgAdvance
      /\ imgEdited' = imgEdited /\ imgSilent' = imgSilent
      /\ imgHeld' = imgHeld /\ imgMedia' = imgMedia
      /\ imgVolume' = imgVolume /\ imgPublished' = imgPublished
  BY <1>1 DEF ImgSkip, Passed, Follows, Goods, Volume, Records
<1>3. imgPc + 1 \in DOMAIN run /\ run[imgPc + 1] = FaithfulAfter(q, run[imgPc], imgPc)
  BY <1>2 DEF RunsThrough
<1>4. run[imgPc + 1] = run[imgPc]
  BY <1>2, <1>3 DEF FaithfulAfter
<1>5. imgSilent = 0 /\ imgErrors = 0 => Faithful(run[imgPc])
  BY <1>2 DEF Follows
<1>6. imgSilent = 0 /\ imgErrors = 0 =>
        /\ imgHeld' = run[imgPc].held /\ imgMedia' = run[imgPc].media
        /\ imgVolume' = run[imgPc].volume /\ imgPublished' = run[imgPc].published
  BY <1>2, <1>5 DEF Faithful
<1>7. \A s : s = run[imgPc + 1] =>
        (imgSilent = 0 /\ imgErrors = 0 => Faithful(s)')
  BY <1>4, <1>6 DEF Faithful
<1>. QED BY <1>2, <1>3, <1>7, OnwardFaithfully

LEMMA StageFollows ==
    ASSUME NEW q, NEW run, RunsThrough(q, run), Follows(q, run), ImgStage
    PROVE  Follows(q, run)'
<1>1. /\ At({"copy", "link"}) /\ ImgAdvance /\ imgEdited' = imgEdited
      /\ imgHeld' = [imgHeld EXCEPT ![Subject] = Staged(Subject)]
      /\ imgMedia' = imgMedia /\ imgVolume' = imgVolume
      /\ imgPublished' = imgPublished /\ imgSilent' = imgSilent
  BY DEF ImgStage, Volume, Records
<1>. DEFINE c == ProgramOf(q)[imgPc]  x == SubjectOf(c)  r == run[imgPc]
<1>2. /\ imgPhase = "running" /\ ~Passed(q, imgPc) /\ c.op \in {"copy", "link"}
      /\ Subject = x
      /\ imgPc + 1 \in DOMAIN run
      /\ run[imgPc + 1] = FaithfulAfter(q, r, imgPc)
  BY <1>1, AtFaithful DEF Follows
<1>3. run[imgPc + 1] = [r EXCEPT !.held[x] = {x}]
  BY <1>2 DEF FaithfulAfter
<1>4. DOMAIN r = {"held", "media", "volume", "published"}
  BY <1>1, AtFaithful
<1>5. ASSUME imgSilent = 0, imgErrors = 0
      PROVE  /\ imgHeld' = run[imgPc + 1].held /\ imgMedia' = run[imgPc + 1].media
             /\ imgVolume' = run[imgPc + 1].volume
             /\ imgPublished' = run[imgPc + 1].published
  <2>1. Faithful(r) /\ imgEdited = {}
    BY <1>2, <1>5 DEF Follows
  <2>2. Staged(x) = {x}
    BY <2>1 DEF Staged
  <2>3. imgHeld' = [r.held EXCEPT ![x] = {x}]
    BY <1>1, <1>2, <2>1, <2>2 DEF Faithful
  <2>. QED BY <1>1, <1>3, <1>4, <2>1, <2>3 DEF Faithful
<1>6. \A s : s = run[imgPc + 1] =>
        (imgSilent = 0 /\ imgErrors = 0 => Faithful(s)')
  BY <1>5 DEF Faithful
<1>. QED BY <1>1, <1>2, <1>6, OnwardFaithfully

LEMMA MakeFollows ==
    ASSUME NEW q, NEW run, RunsThrough(q, run), Follows(q, run), ImgMake
    PROVE  Follows(q, run)'
<1>1. /\ At({"make"}) /\ ImgAdvance /\ imgEdited' = imgEdited
      /\ imgMedia' = imgMedia /\ imgVolume' = imgVolume
      /\ imgPublished' = imgPublished
      /\ \/ /\ imgHeld' = [imgHeld EXCEPT ![Subject] = MadeOf(Current.from)]
            /\ imgSilent' = imgSilent
         \/ Silently
  BY DEF ImgMake, Volume, Records
<1>. DEFINE c == ProgramOf(q)[imgPc]  x == SubjectOf(c)  r == run[imgPc]
<1>2. /\ imgPhase = "running" /\ ~Passed(q, imgPc) /\ c.op = "make"
      /\ Subject = x /\ Current = c
      /\ imgPc + 1 \in DOMAIN run
      /\ run[imgPc + 1] = FaithfulAfter(q, r, imgPc)
  BY <1>1, AtFaithful DEF Follows
<1>3. run[imgPc + 1] = [r EXCEPT !.held[x] = {x} \cup UNION {r.held[d] : d \in c.from}]
  BY <1>2 DEF FaithfulAfter
<1>4. DOMAIN r = {"held", "media", "volume", "published"}
  BY <1>1, AtFaithful
<1>5. CASE imgHeld' = [imgHeld EXCEPT ![Subject] = MadeOf(Current.from)]
           /\ imgSilent' = imgSilent
  <2>1. ASSUME imgSilent = 0, imgErrors = 0
        PROVE  /\ imgHeld' = run[imgPc + 1].held /\ imgMedia' = run[imgPc + 1].media
               /\ imgVolume' = run[imgPc + 1].volume
               /\ imgPublished' = run[imgPc + 1].published
    <3>1. Faithful(r)
      BY <1>2, <2>1 DEF Follows
    <3>2. MadeOf(Current.from) = {x} \cup UNION {r.held[d] : d \in c.from}
      BY <1>2, <3>1 DEF MadeOf, Faithful
    <3>3. imgHeld' = [r.held EXCEPT ![x] = {x} \cup UNION {r.held[d] : d \in c.from}]
      BY <1>2, <1>5, <3>1, <3>2 DEF Faithful
    <3>. QED BY <1>1, <1>3, <1>4, <3>1, <3>3 DEF Faithful
  <2>2. \A s : s = run[imgPc + 1] =>
          (imgSilent = 0 /\ imgErrors = 0 => Faithful(s)')
    BY <2>1 DEF Faithful
  <2>. QED BY <1>1, <1>2, <1>5, <2>2, OnwardFaithfully
<1>6. CASE Silently
  BY <1>1, <1>2, <1>6, OnwardFaithfully
<1>. QED BY <1>1, <1>5, <1>6

LEMMA BurnFollows ==
    ASSUME NEW q, NEW run, RunsThrough(q, run), Follows(q, run), ImgBurn
    PROVE  Follows(q, run)'
<1>1. PICK missed \in SUBSET Current.of :
        /\ \/ missed = {} /\ imgSilent' = imgSilent
           \/ Cardinality(missed) = 1 /\ Silently
        /\ imgMedia' = [x \in DOMAIN imgMedia |->
                          IF x \in Current.of \ missed THEN imgHeld[x] ELSE imgMedia[x]]
  BY DEF ImgBurn
<1>2. /\ At({"burn"}) /\ ImgAdvance /\ imgEdited' = imgEdited
      /\ imgHeld' = imgHeld /\ imgVolume' = imgVolume /\ imgPublished' = imgPublished
  BY DEF ImgBurn, Volume, Records
<1>. DEFINE c == ProgramOf(q)[imgPc]  r == run[imgPc]
<1>3. /\ imgPhase = "running" /\ ~Passed(q, imgPc) /\ c.op = "burn"
      /\ Current = c
      /\ imgPc + 1 \in DOMAIN run
      /\ run[imgPc + 1] = FaithfulAfter(q, r, imgPc)
  BY <1>2, AtFaithful DEF Follows
<1>. DEFINE burned == [y \in DOMAIN r.media |->
                         IF y \in c.of THEN r.held[y] ELSE r.media[y]]
<1>4. DOMAIN r = {"held", "media", "volume", "published"}
  BY <1>2, AtFaithful
<1>5. run[imgPc + 1] = [r EXCEPT !.media = burned]
  BY <1>3 DEF FaithfulAfter
<1>6. CASE missed = {} /\ imgSilent' = imgSilent
  <2>1. ASSUME imgSilent = 0, imgErrors = 0
        PROVE  /\ imgHeld' = run[imgPc + 1].held /\ imgMedia' = run[imgPc + 1].media
               /\ imgVolume' = run[imgPc + 1].volume
               /\ imgPublished' = run[imgPc + 1].published
    <3>1. Faithful(r)
      BY <1>3, <2>1 DEF Follows
    <3>2. imgMedia' = burned
      BY <1>1, <1>3, <1>6, <3>1 DEF Faithful
    <3>. HIDE DEF burned
    <3>. QED BY <1>2, <1>4, <1>5, <3>1, <3>2 DEF Faithful
  <2>2. \A s : s = run[imgPc + 1] =>
          (imgSilent = 0 /\ imgErrors = 0 => Faithful(s)')
    BY <2>1 DEF Faithful
  <2>. QED BY <1>2, <1>3, <1>6, <2>2, OnwardFaithfully
<1>7. CASE Silently
  BY <1>2, <1>3, <1>7, OnwardFaithfully
<1>. QED BY <1>1, <1>6, <1>7

(* The steps that only look, or only write a record.                         *)
LEMMA LookFollows ==
    ASSUME NEW q, NEW run, RunsThrough(q, run), Follows(q, run),
           ImgPass \/ ImgDone
    PROVE  Follows(q, run)'
<1>1. /\ At({"expect", "shows", "matches", "done"}) /\ ImgAdvance
      /\ imgEdited' = imgEdited /\ imgSilent' = imgSilent
      /\ imgHeld' = imgHeld /\ imgMedia' = imgMedia
      /\ imgVolume' = imgVolume /\ imgPublished' = imgPublished
  BY DEF ImgPass, ImgDone, Goods, Volume, Records, At
<1>. DEFINE c == ProgramOf(q)[imgPc]  r == run[imgPc]
<1>2. /\ imgPhase = "running" /\ ~Passed(q, imgPc)
      /\ c.op \in {"expect", "shows", "matches", "done"}
      /\ imgPc + 1 \in DOMAIN run
      /\ run[imgPc + 1] = FaithfulAfter(q, r, imgPc)
  BY <1>1, AtFaithful DEF Follows
<1>3. run[imgPc + 1] = r
  BY <1>2 DEF FaithfulAfter
<1>4. imgSilent = 0 /\ imgErrors = 0 =>
        /\ imgHeld' = r.held /\ imgMedia' = r.media
        /\ imgVolume' = r.volume /\ imgPublished' = r.published
  BY <1>1, <1>2 DEF Follows, Faithful
<1>5. \A s : s = run[imgPc + 1] =>
        (imgSilent = 0 /\ imgErrors = 0 => Faithful(s)')
  BY <1>3, <1>4 DEF Faithful
<1>. QED BY <1>1, <1>2, <1>5, OnwardFaithfully

LEMMA PublishFollows ==
    ASSUME NEW q, NEW run, RunsThrough(q, run), Follows(q, run), ImgPublish
    PROVE  Follows(q, run)'
<1>1. /\ At({"publish"}) /\ ImgAdvance
      /\ imgEdited' = imgEdited /\ imgSilent' = imgSilent
      /\ imgHeld' = imgHeld /\ imgMedia' = imgMedia
      /\ imgVolume' = imgVolume /\ imgPublished' = TRUE
  BY DEF ImgPublish, Goods, Volume
<1>. DEFINE c == ProgramOf(q)[imgPc]  r == run[imgPc]
<1>2. /\ imgPhase = "running" /\ ~Passed(q, imgPc) /\ c.op = "publish"
      /\ imgPc + 1 \in DOMAIN run
      /\ run[imgPc + 1] = FaithfulAfter(q, r, imgPc)
      /\ DOMAIN r = {"held", "media", "volume", "published"}
  BY <1>1, AtFaithful DEF Follows
<1>3. run[imgPc + 1] = [r EXCEPT !.published = TRUE]
  BY <1>2 DEF FaithfulAfter
<1>4. imgSilent = 0 /\ imgErrors = 0 =>
        /\ imgHeld' = r.held /\ imgMedia' = r.media /\ imgVolume' = r.volume
  BY <1>1, <1>2 DEF Follows, Faithful
<1>5. \A s : s = run[imgPc + 1] =>
        (imgSilent = 0 /\ imgErrors = 0 => Faithful(s)')
  BY <1>1, <1>2, <1>3, <1>4 DEF Faithful
<1>. QED BY <1>1, <1>2, <1>5, OnwardFaithfully

LEMMA CreateVolumeFollows ==
    ASSUME NEW q, NEW run, RunsThrough(q, run), Follows(q, run), CreateWorkVolume
    PROVE  Follows(q, run)'
<1>1. /\ At({"volume"}) /\ ImgAdvance
      /\ imgEdited' = imgEdited /\ imgSilent' = imgSilent
      /\ imgHeld' = imgHeld /\ imgMedia' = imgMedia
      /\ imgVolume' = TRUE /\ imgPublished' = imgPublished
  BY DEF CreateWorkVolume, Goods, Records
<1>. DEFINE c == ProgramOf(q)[imgPc]  r == run[imgPc]
<1>2. /\ imgPhase = "running" /\ ~Passed(q, imgPc) /\ c.op = "volume"
      /\ imgPc + 1 \in DOMAIN run
      /\ run[imgPc + 1] = FaithfulAfter(q, r, imgPc)
      /\ DOMAIN r = {"held", "media", "volume", "published"}
  BY <1>1, AtFaithful DEF Follows
<1>3. run[imgPc + 1] = [r EXCEPT !.volume = TRUE]
  BY <1>2 DEF FaithfulAfter
<1>4. imgSilent = 0 /\ imgErrors = 0 =>
        /\ imgHeld' = r.held /\ imgMedia' = r.media /\ imgPublished' = r.published
  BY <1>1, <1>2 DEF Follows, Faithful
<1>5. \A s : s = run[imgPc + 1] =>
        (imgSilent = 0 /\ imgErrors = 0 => Faithful(s)')
  BY <1>1, <1>2, <1>3, <1>4 DEF Faithful
<1>. QED BY <1>1, <1>2, <1>5, OnwardFaithfully

LEMMA RemoveVolumeFollows ==
    ASSUME NEW q, NEW run, RunsThrough(q, run), Follows(q, run), ImgRemoveVolume,
           imgVolume \in BOOLEAN, q.keep \in BOOLEAN
    PROVE  Follows(q, run)'
<1>1. /\ At({"remove"}) /\ ImgAdvance
      /\ imgEdited' = imgEdited /\ imgSilent' = imgSilent
      /\ imgHeld' = imgHeld /\ imgMedia' = imgMedia
      /\ imgPublished' = imgPublished
      /\ \/ imgRequest.keep /\ imgVolume' = imgVolume
         \/ ~imgRequest.keep /\ imgVolume /\ imgVolume' = FALSE
  BY DEF ImgRemoveVolume, RemoveWorkVolume, Goods, Records, Volume
<1>. DEFINE c == ProgramOf(q)[imgPc]  r == run[imgPc]
<1>2. /\ imgPhase = "running" /\ ~Passed(q, imgPc) /\ c.op = "remove"
      /\ imgPc + 1 \in DOMAIN run
      /\ run[imgPc + 1] = FaithfulAfter(q, r, imgPc)
      /\ DOMAIN r = {"held", "media", "volume", "published"}
      /\ imgRequest = q
  BY <1>1, AtFaithful DEF Follows
<1>3. run[imgPc + 1] = [r EXCEPT !.volume = @ /\ q.keep]
  BY <1>2 DEF FaithfulAfter
<1>4. imgSilent = 0 /\ imgErrors = 0 =>
        /\ imgHeld' = r.held /\ imgMedia' = r.media /\ imgPublished' = r.published
        /\ imgVolume = r.volume
  BY <1>1, <1>2 DEF Follows, Faithful
<1>5. imgVolume' = (imgVolume /\ q.keep)
  BY <1>1, <1>2
<1>6. run[imgPc + 1].held = r.held /\ run[imgPc + 1].media = r.media
      /\ run[imgPc + 1].published = r.published
      /\ run[imgPc + 1].volume = (r.volume /\ q.keep)
  BY <1>2, <1>3
<1>7. imgSilent = 0 /\ imgErrors = 0 => imgVolume' = run[imgPc + 1].volume
  BY <1>4, <1>5, <1>6
<1>8. \A s : s = run[imgPc + 1] =>
        (imgSilent = 0 /\ imgErrors = 0 => Faithful(s)')
  BY <1>4, <1>6, <1>7 DEF Faithful
<1>. QED BY <1>1, <1>2, <1>8, OnwardFaithfully

-----------------------------------------------------------------------------
(* Nothing is refused of what the faithful run makes.                        *)
LEMMA RefuseFollows ==
    ASSUME NEW q, NEW run, RunsThrough(q, run), Follows(q, run), ImgRefuse
    PROVE  Follows(q, run)'
<1>1. /\ At({"expect", "shows", "matches"}) /\ ~ImgHolds /\ Return(TRUE)
      /\ UNCHANGED <<Goods, imgPublished, imgSilent>> /\ imgErrors' = imgErrors
  BY DEF ImgRefuse, Records
<1>. DEFINE c == ProgramOf(q)[imgPc]  r == run[imgPc]  x == SubjectOf(c)
<1>2. /\ imgPhase = "running" /\ Current = c /\ Subject = x
      /\ c.op \in {"expect", "shows", "matches"} /\ Accepted(q, r, imgPc)
  BY <1>1, AtFaithful
<1>3. ASSUME imgSilent = 0, imgErrors = 0
      PROVE  FALSE
  <2>1. imgHeld = r.held /\ imgMedia = r.media
    BY <1>2, <1>3 DEF Follows, Faithful
  <2>2. c.op # "expect"
    BY <1>1, <1>2, <2>1 DEF ImgHolds, Fits, Accepted
  <2>3. c.op # "shows"
    BY <1>1, <1>2, <2>1 DEF ImgHolds, Fits, Accepted
  <2>4. c.op # "matches"
    BY <1>1, <1>2, <2>1 DEF ImgHolds, Agrees, Accepted
  <2>. QED BY <1>2, <2>2, <2>3, <2>4
<1>. QED BY <1>1, <1>3, ReturnFaithfully

LEMMA ErrorFollows ==
    ASSUME NEW q, NEW run, Follows(q, run), ImgError \/ CreateWorkVolumeFails
    PROVE  Follows(q, run)'
<1>1. /\ Return(TRUE) /\ UNCHANGED <<Goods, imgPublished, imgSilent>> /\ Err
  BY DEF ImgError, CreateWorkVolumeFails, Records
<1>. QED BY <1>1, ReturnFaithfully

LEMMA RemoveVolumeFailsFollows ==
    ASSUME NEW q, NEW run, RunsThrough(q, run), Follows(q, run), ImgRemoveVolumeFails
    PROVE  Follows(q, run)'
<1>1. /\ At({"remove"}) /\ ~imgRequest.keep /\ Return(TRUE)
      /\ UNCHANGED <<Goods, imgPublished, imgSilent>>
      /\ (~imgVolume /\ imgErrors' = imgErrors) \/ Err
  BY DEF ImgRemoveVolumeFails, RemoveWorkVolumeFails, Records
<1>2. imgPhase = "running" /\ imgRequest = q /\ ProgramOf(q)[imgPc].op = "remove"
      /\ Accepted(q, run[imgPc], imgPc)
  BY <1>1, AtFaithful DEF Follows
<1>3. run[imgPc].volume
  BY <1>1, <1>2 DEF Accepted
<1>4. imgSilent = 0 /\ imgErrors = 0 => imgVolume
  BY <1>2, <1>3 DEF Follows, Faithful
<1>. QED BY <1>1, <1>4, ReturnFaithfully

LEMMA ReturnFollows ==
    ASSUME NEW q, NEW run, RunsThrough(q, run), Follows(q, run), ImgReturn
    PROVE  Follows(q, run)'
<1>1. /\ imgPhase = "running" /\ imgPc \notin DOMAIN ProgramOf(q) /\ Return(FALSE)
      /\ UNCHANGED <<Goods, imgPublished, imgSilent>> /\ imgErrors' = imgErrors
  BY DEF ImgReturn, Records, Program, ProgramOf, Follows
<1>2. run[imgPc].published
  BY <1>1 DEF RunsThrough, Follows
<1>3. imgSilent = 0 /\ imgErrors = 0 => imgPublished
  BY <1>1, <1>2 DEF Follows, Faithful
<1>. QED BY <1>1, <1>3, ReturnFaithfully

(* The clean-up, and what happens to the program from outside.               *)
LEMMA AsideFollows ==
    ASSUME NEW q, NEW run, Follows(q, run),
           \/ ImgNothingToRemove \/ ImgKeepVolume \/ ImgCleanVolume
           \/ ImgCleanVolumeFails \/ ImgKill \/ ImgHostEdit
           \/ UNCHANGED imgVars
    PROVE  Follows(q, run)'
<1>1. CASE ImgNothingToRemove \/ ImgKeepVolume \/ ImgCleanVolume \/ ImgCleanVolumeFails
  <2>1. /\ imgPhase = "cleaning" /\ imgPhase' = "over"
        /\ imgRequest' = imgRequest /\ imgPc' = imgPc /\ imgEdited' = imgEdited
        /\ imgPublished' = imgPublished /\ imgSilent' = imgSilent
    BY <1>1 DEF ImgNothingToRemove, ImgKeepVolume, ImgCleanVolume,
                ImgCleanVolumeFails, Deferred, Goods, Records
  <2>2. imgErrors' = imgErrors \/ Err
    BY <1>1 DEF ImgNothingToRemove, ImgKeepVolume, ImgCleanVolume,
                ImgCleanVolumeFails, RemoveWorkVolumeFails
  <2>3. CASE Err
    <3>1. imgErrors' \in Nat /\ imgErrors' # 0
      BY <2>3 DEF Err, Follows
    <3>. QED BY <2>1, <3>1 DEF Follows
  <2>4. CASE imgErrors' = imgErrors
    BY <2>1, <2>4 DEF Follows
  <2>. QED BY <2>2, <2>3, <2>4
<1>2. CASE ImgKill
  <2>1. /\ imgPhase' = "killed" /\ imgRequest' = imgRequest /\ imgPc' = imgPc
        /\ imgEdited' = imgEdited /\ imgSilent' = imgSilent /\ imgErrors' = imgErrors
    BY <1>2 DEF ImgKill, Goods
  <2>. QED BY <2>1 DEF Follows
<1>3. CASE ImgHostEdit
  <2>1. /\ imgRequest' = imgRequest /\ imgPc' = imgPc /\ imgErrors' = imgErrors
        /\ Silently
    BY <1>3 DEF ImgHostEdit
  <2>2. imgSilent' \in Nat /\ imgSilent' # 0
    BY <2>1 DEF Silently, Follows
  <2>. QED BY <2>1, <2>2 DEF Follows
<1>4. CASE UNCHANGED imgVars
  BY <1>4 DEF imgVars, Follows, Faithful
<1>. QED BY <1>1, <1>2, <1>3, <1>4

LEMMA StepFollows ==
    ASSUME NEW q, NEW run, RunsThrough(q, run), Follows(q, run),
           imgVolume \in BOOLEAN, q.keep \in BOOLEAN, [ImgNext]_imgVars
    PROVE  Follows(q, run)'
<1>1. CASE ImgSkip              BY <1>1, SkipFollows
<1>2. CASE ImgStage             BY <1>2, StageFollows
<1>3. CASE ImgMake              BY <1>3, MakeFollows
<1>4. CASE ImgBurn              BY <1>4, BurnFollows
<1>5. CASE ImgPass \/ ImgDone   BY <1>5, LookFollows
<1>6. CASE ImgRefuse            BY <1>6, RefuseFollows
<1>7. CASE ImgError \/ CreateWorkVolumeFails
  BY <1>7, ErrorFollows
<1>8. CASE ImgPublish           BY <1>8, PublishFollows
<1>9. CASE CreateWorkVolume     BY <1>9, CreateVolumeFollows
<1>10. CASE ImgRemoveVolume      BY <1>10, RemoveVolumeFollows
<1>11. CASE ImgRemoveVolumeFails BY <1>11, RemoveVolumeFailsFollows
<1>12. CASE ImgReturn           BY <1>12, ReturnFollows
<1>13. CASE \/ ImgNothingToRemove \/ ImgKeepVolume \/ ImgCleanVolume
            \/ ImgCleanVolumeFails \/ ImgKill \/ ImgHostEdit
            \/ UNCHANGED imgVars
  BY <1>13, AsideFollows
<1>. QED
  BY <1>1, <1>2, <1>3, <1>4, <1>5, <1>6, <1>7, <1>8, <1>9, <1>10, <1>11,
     <1>12, <1>13 DEF ImgNext, ImgStep

LEMMA StartFollows ==
    ASSUME ImgInit, RunsThrough(imgRequest, FaithfulRun(imgRequest))
    PROVE  Follows(imgRequest, FaithfulRun(imgRequest))
<1>. DEFINE q == imgRequest  run == FaithfulRun(q)
             none == [x \in ThingsOf(q) |-> {}]
<1>1. Program = ProgramOf(q)
  BY DEF Program, ProgramOf
<1>2. imgHeld = none /\ imgMedia = none
  BY <1>1 DEF ImgInit, ThingsOf
<1>3. NothingHeld(q) = none
  <2>1. none \in [ThingsOf(q) -> {{}}]
    OBVIOUS
  <2>2. \A f \in [ThingsOf(q) -> {{}}] : f = none
    OBVIOUS
  <2>. QED BY <2>1, <2>2 DEF NothingHeld
<1>4. run[1] = FaithfulStart(q) /\ 1 \in DOMAIN run
  BY DEF RunsThrough
<1>. HIDE DEF run, none
<1>5. /\ FaithfulStart(q).held = none /\ FaithfulStart(q).media = none
      /\ FaithfulStart(q).volume = FALSE /\ FaithfulStart(q).published = FALSE
  BY <1>3 DEF FaithfulStart
<1>6. /\ imgVolume = FALSE /\ imgPublished = FALSE /\ imgEdited = {}
      /\ imgPhase = "running" /\ imgPc = 1 /\ imgSilent = 0 /\ imgErrors = 0
  BY DEF ImgInit
<1>7. Faithful(run[1])
  BY <1>2, <1>4, <1>5, <1>6 DEF Faithful
<1>. QED BY <1>4, <1>6, <1>7 DEF Follows, run

-----------------------------------------------------------------------------
LEMMA Typed ==
    ASSUME ImgTypeOK, imgRequest' = imgRequest,
           imgPhase' \in {"running", "cleaning", "over", "killed"},
           {imgVolume', imgOwned', imgNamed', imgFailed', imgPublished'} \subseteq BOOLEAN,
           imgSilent' = imgSilent \/ Silently, imgErrors' = imgErrors \/ Err
    PROVE  ImgTypeOK'
<1>1. imgSilent' \in 0 .. MaxSilent
  BY CreateAssumption DEF ImgTypeOK, Silently
<1>2. imgErrors' \in 0 .. MaxErrors
  BY CreateAssumption DEF ImgTypeOK, Err
<1>. QED BY <1>1, <1>2 DEF ImgTypeOK

LEMMA TypedSteps ==
    ASSUME ImgTypeOK, ImgNext
    PROVE  ImgTypeOK'
<1>1. imgRequest' = imgRequest
  BY DEF ImgNext, ImgStep, ImgSkip, ImgStage, ImgMake, ImgBurn, ImgPass, ImgRefuse,
         ImgError, ImgDone, ImgPublish, CreateWorkVolume, CreateWorkVolumeFails,
         ImgRemoveVolume, ImgRemoveVolumeFails, ImgReturn, ImgNothingToRemove,
         ImgKeepVolume, ImgCleanVolume, ImgCleanVolumeFails, ImgHostEdit, ImgKill,
         ImgAdvance, Return, Deferred
<1>2. imgPhase' \in {"running", "cleaning", "over", "killed"}
  BY DEF ImgTypeOK, ImgNext, ImgStep, ImgSkip, ImgStage, ImgMake, ImgBurn, ImgPass,
         ImgRefuse, ImgError, ImgDone, ImgPublish, CreateWorkVolume,
         CreateWorkVolumeFails, ImgRemoveVolume, ImgRemoveVolumeFails, ImgReturn,
         ImgNothingToRemove, ImgKeepVolume, ImgCleanVolume, ImgCleanVolumeFails,
         ImgHostEdit, ImgKill, ImgAdvance, Return, Deferred
<1>3. {imgVolume', imgOwned', imgNamed'} \subseteq BOOLEAN
  BY DEF ImgTypeOK, ImgNext, ImgStep, ImgSkip, ImgStage, ImgMake, ImgBurn, ImgPass,
         ImgRefuse, ImgError, ImgDone, ImgPublish, CreateWorkVolume,
         CreateWorkVolumeFails, ImgRemoveVolume, ImgRemoveVolumeFails, ImgReturn,
         ImgNothingToRemove, ImgKeepVolume, ImgCleanVolume, ImgCleanVolumeFails,
         ImgHostEdit, ImgKill, Volume, RemoveWorkVolume, RemoveWorkVolumeFails
<1>4. {imgFailed', imgPublished'} \subseteq BOOLEAN
  BY DEF ImgTypeOK, ImgNext, ImgStep, ImgSkip, ImgStage, ImgMake, ImgBurn, ImgPass,
         ImgRefuse, ImgError, ImgDone, ImgPublish, CreateWorkVolume,
         CreateWorkVolumeFails, ImgRemoveVolume, ImgRemoveVolumeFails, ImgReturn,
         ImgNothingToRemove, ImgKeepVolume, ImgCleanVolume, ImgCleanVolumeFails,
         ImgHostEdit, ImgKill, ImgAdvance, Return, Records, Deferred
<1>5. imgSilent' = imgSilent \/ Silently
  BY DEF ImgNext, ImgStep, ImgSkip, ImgStage, ImgMake, ImgBurn, ImgPass, ImgRefuse,
         ImgError, ImgDone, ImgPublish, CreateWorkVolume, CreateWorkVolumeFails,
         ImgRemoveVolume, ImgRemoveVolumeFails, ImgReturn, ImgNothingToRemove,
         ImgKeepVolume, ImgCleanVolume, ImgCleanVolumeFails, ImgHostEdit, ImgKill,
         Deferred
<1>6. imgErrors' = imgErrors \/ Err
  BY DEF ImgNext, ImgStep, ImgSkip, ImgStage, ImgMake, ImgBurn, ImgPass, ImgRefuse,
         ImgError, ImgDone, ImgPublish, CreateWorkVolume, CreateWorkVolumeFails,
         ImgRemoveVolume, ImgRemoveVolumeFails, ImgReturn, ImgNothingToRemove,
         ImgKeepVolume, ImgCleanVolume, ImgCleanVolumeFails, ImgHostEdit, ImgKill,
         ImgAdvance, RemoveWorkVolumeFails
<1>7. {imgVolume', imgOwned', imgNamed', imgFailed', imgPublished'} \subseteq BOOLEAN
  BY <1>3, <1>4
<1>. QED BY <1>1, <1>2, <1>5, <1>6, <1>7, Typed

(* The state of a creation is of its types, whatever its steps do.           *)
THEOREM CreationTyped == ImgSpec => []ImgTypeOK
<1>1. ImgInit => ImgTypeOK
  <2>1. 0 \in 0 .. MaxSilent /\ 0 \in 0 .. MaxErrors
    BY CreateAssumption
  <2>. QED BY <2>1 DEF ImgInit, ImgTypeOK
<1>2. ImgTypeOK /\ [ImgNext]_imgVars => ImgTypeOK'
  <2>1. ASSUME ImgTypeOK, UNCHANGED imgVars PROVE ImgTypeOK'
    BY <2>1 DEF imgVars, ImgTypeOK
  <2>. QED BY <2>1, TypedSteps
<1>. QED BY <1>1, <1>2, PTL DEF ImgSpec

(* A creation in which every command did what it reported, nothing failed    *)
(* and nobody edited its inputs publishes: no check of an adapter refuses    *)
(* what its own steps made, and the volume that is removed is there.         *)
THEOREM NothingOfItsOwnEverRefused == ImgSpec => []NothingOfItsOwnRefused
<1> DEFINE Inv == Follows(imgRequest, FaithfulRun(imgRequest))
<1>1. ASSUME imgRequest \in ImgRequests
      PROVE  RunsThrough(imgRequest, FaithfulRun(imgRequest))
  BY <1>1, RequestsKnown, ProgramsAssumption
<1>2. ImgInit => Inv
  <2>1. ImgInit => imgRequest \in ImgRequests
    BY DEF ImgInit
  <2>. QED BY <1>1, <2>1, StartFollows
<1>3. ImgTypeOK /\ Inv /\ [ImgNext]_imgVars => Inv'
  <2>1. SUFFICES ASSUME ImgTypeOK, [ImgNext]_imgVars,
                        NEW q, q = imgRequest, Follows(q, FaithfulRun(q))
                 PROVE  Inv'
    OBVIOUS
  <2>2. imgVolume \in BOOLEAN /\ q.keep \in BOOLEAN /\ RunsThrough(q, FaithfulRun(q))
    BY <1>1, <2>1 DEF ImgTypeOK, ImgRequests
  <2>3. Follows(q, FaithfulRun(q))'
    BY <2>1, <2>2, StepFollows
  <2>4. imgRequest' = q
    BY <2>3 DEF Follows
  <2>. QED BY <2>3, <2>4
<1>4. Inv => NothingOfItsOwnRefused
  BY DEF Follows, NothingOfItsOwnRefused
<1>. QED BY <1>2, <1>3, <1>4, CreationTyped, PTL DEF ImgSpec

-----------------------------------------------------------------------------
(* The preparation of a release.                                             *)

EarlyPcs == {"idle", "image", "manifest", "journal", "read", "validate", "stage"}

(* What a preparer answers, where it is, and whose the directories are.      *)
RelPlaced ==
    /\ relPc \in [Preparers -> RelPcs]
    /\ relStaging \in [Preparers -> Preparers \cup {Vacant, Outsider}]
    /\ relAnswer \in [Preparers -> {"none", "planned", "failed", "published",
                                   "published, not synchronised"}]
    /\ relOutput \in Preparers \cup {Vacant, Outsider}

OwnAt(p) ==
    /\ relStaging[p] \in {p, Vacant, Outsider}
    /\ relPc[p] \in RelWork \cup {"idle"} => relAnswer[p] = "none"
    /\ relPc[p] \in EarlyPcs => relStaging[p] # p
    /\ relPc[p] = "sync" => relOutput \in {p, Outsider}
    /\ relOutput = p => /\ relPc[p] \in {"sync", "done", "dead"}
                        /\ relAnswer[p] # "failed" /\ relStaging[p] # p

RelOwn == \A p \in Preparers : OwnAt(p)

AnswerInv == RelPlaced /\ RelOwn /\ AnswerIsTrue

LEMMA RelStops ==
  ASSUME AnswerInv, NEW p \in Preparers, RelStop(p), relPc[p] \in RelWork \ {"sync"},
         UNCHANGED <<relStaging, relOutput, relStuck>>
  PROVE  AnswerInv'
<1>1. RelPlaced'
  BY DEF AnswerInv, RelPlaced, RelStop, RelPcs
<1>2. RelOwn'
  BY DEF AnswerInv, RelPlaced, RelOwn, OwnAt, RelStop, RelWork, EarlyPcs
<1>3. AnswerIsTrue'
  BY DEF AnswerInv, RelPlaced, RelOwn, OwnAt, AnswerIsTrue, RelStop, EarlyPcs
<1>. QED
  BY <1>1, <1>2, <1>3 DEF AnswerInv

(* A step that goes on to a later one.                                       *)
LEMMA RelGoes ==
  ASSUME AnswerInv, NEW p \in Preparers, NEW next \in RelWork \ {"sync"},
         relPc' = [relPc EXCEPT ![p] = next], UNCHANGED relAnswer,
         relPc[p] \in (RelWork \cup {"idle"}) \ {"sync"},
         next \in EarlyPcs => relPc[p] \in EarlyPcs,
         UNCHANGED <<relStaging, relOutput, relStuck>>
  PROVE  AnswerInv'
BY DEF AnswerInv, RelPlaced, RelOwn, OwnAt, AnswerIsTrue, RelPcs, RelWork

LEMMA AnswerSteps ==
  ASSUME AnswerInv, ReleaseAssumption, NEW p \in Preparers, RelStep(p)
  PROVE  AnswerInv'
<1>. USE DEF RelUnless, RelGo, relInputs, relStaged, relEvidence, relOthers, relBounds
<1>1. CASE RelBegin(p)
  BY <1>1, RelGoes DEF RelBegin, EarlyPcs, RelWork
<1>2. CASE InspectImage(p) \/ InspectManifest(p) \/ InspectJournal(p)
  BY <1>2, RelGoes DEF InspectImage, InspectManifest, InspectJournal, InspectSource,
     EarlyPcs, RelWork
<1>3. CASE RelFinishPlan(p)
  <2>1. CASE /\ relPc' = [relPc EXCEPT ![p] = "done"]
             /\ relAnswer' = [relAnswer EXCEPT ![p] = "planned"]
    <3>1. RelPlaced'
      BY <1>3, <2>1 DEF RelFinishPlan, AnswerInv, RelPlaced, RelPcs
    <3>2. RelOwn'
      BY <1>3, <2>1 DEF RelFinishPlan, AnswerInv, RelPlaced, RelOwn, OwnAt, RelWork,
         EarlyPcs
    <3>3. AnswerIsTrue'
      BY <1>3, <2>1 DEF RelFinishPlan, AnswerInv, RelPlaced, AnswerIsTrue, EarlyPcs
    <3>. QED
      BY <3>1, <3>2, <3>3 DEF AnswerInv
  <2>. QED
    BY <1>3, <2>1, RelGoes, RelStops DEF RelFinishPlan, EarlyPcs, RelWork
<1>4. CASE RelValidateImage(p)
  BY <1>4, RelGoes, RelStops DEF RelValidateImage, EarlyPcs, RelWork
<1>5. CASE RelStage(p)
  <2>1. RelPlaced'
    BY <1>5 DEF RelStage, AnswerInv, RelPlaced, RelPcs, RelWork
  <2>2. RelOwn'
    BY <1>5 DEF RelStage, AnswerInv, RelPlaced, RelOwn, OwnAt, RelWork, EarlyPcs,
       ReleaseAssumption
  <2>3. AnswerIsTrue'
    BY <1>5 DEF RelStage, AnswerInv, AnswerIsTrue
  <2>. QED
    BY <2>1, <2>2, <2>3 DEF AnswerInv
<1>6. CASE RelCopySidecar(p)
  BY <1>6, RelGoes, RelStops DEF RelCopySidecar, EarlyPcs, RelWork
<1>7. CASE RelOpenImage(p)
  BY <1>7, RelGoes, RelStops DEF RelOpenImage, EarlyPcs, RelWork
<1>8. CASE RelCompress(p)
  BY <1>8, RelGoes, RelStops DEF RelCompress, EarlyPcs, RelWork
<1>9. CASE RelFinishCompression(p)
  BY <1>9, RelGoes, RelStops DEF RelFinishCompression, EarlyPcs, RelWork
<1>10. CASE RelWriteRecords(p)
  BY <1>10, RelGoes, RelStops DEF RelWriteRecords, EarlyPcs, RelWork
<1>11. CASE RelWriteSums(p)
  BY <1>11, RelGoes, RelStops DEF RelWriteSums, EarlyPcs, RelWork
<1>12. CASE RelCheck(p)
  BY <1>12, RelGoes, RelStops DEF RelCheck, EarlyPcs, RelWork
<1>13. CASE RelPublish(p)
  <2>1. CASE Reachable(p) /\ relOutput = Vacant
    <3>1. RelPlaced'
      BY <1>13, <2>1 DEF RelPublish, AnswerInv, RelPlaced, RelPcs, RelWork
    <3>2. /\ relPc[p] = "publish" /\ relPc' = [relPc EXCEPT ![p] = "sync"]
          /\ relStaging' = [relStaging EXCEPT ![p] = Vacant]
          /\ relOutput' \in {p, Outsider}
          /\ UNCHANGED <<relAnswer, relStuck>>
      BY <1>13, <2>1 DEF RelPublish, Reachable, AnswerInv, RelOwn, OwnAt
    <3>3. \A q \in Preparers : relAnswer[q] # "published" /\ relPc[q] # "sync"
      BY <2>1 DEF AnswerInv, AnswerIsTrue, RelOwn, OwnAt
    <3>4. /\ \A q \in Preparers :
                relStaging'[q] = IF q = p THEN Vacant ELSE relStaging[q]
          /\ \A q \in Preparers : relPc'[q] = IF q = p THEN "sync" ELSE relPc[q]
          /\ \A q \in Preparers \ {p} : relOutput' # q
      <4>1. \A q \in Preparers :
                relStaging'[q] = IF q = p THEN Vacant ELSE relStaging[q]
        BY <3>2 DEF AnswerInv, RelPlaced
      <4>2. \A q \in Preparers : relPc'[q] = IF q = p THEN "sync" ELSE relPc[q]
        BY <3>2 DEF AnswerInv, RelPlaced
      <4>3. \A q \in Preparers \ {p} : relOutput' # q
        BY <3>2 DEF ReleaseAssumption
      <4>. QED
        BY <4>1, <4>2, <4>3
    <3>5. relAnswer[p] = "none"
      BY <3>2 DEF AnswerInv, RelOwn, OwnAt, RelWork
    <3>6. RelOwn'
      <4>. SUFFICES ASSUME NEW q \in Preparers PROVE OwnAt(q)'
        BY DEF RelOwn, OwnAt
      <4>1. CASE q = p
        <5>1. relPc'[p] = "sync" /\ relStaging'[p] = Vacant /\ relAnswer'[p] = "none"
          BY <3>2, <3>4, <3>5
        <5>2. Vacant # p
          BY DEF ReleaseAssumption
        <5>. QED
          BY <4>1, <5>1, <5>2, <3>2 DEF OwnAt, EarlyPcs
      <4>2. CASE q # p
        BY <4>2, <3>2, <3>3, <3>4 DEF AnswerInv, RelOwn, OwnAt
      <4>. QED
        BY <4>1, <4>2
    <3>7. AnswerIsTrue'
      BY <3>2, <3>3, <3>4 DEF AnswerInv, AnswerIsTrue
    <3>. QED
      BY <3>1, <3>6, <3>7 DEF AnswerInv
  <2>. QED
    BY <1>13, <2>1, RelStops DEF RelPublish, RelWork
<1>14. CASE RelFinish(p)
  <2>1. RelPlaced'
    BY <1>14 DEF RelFinish, AnswerInv, RelPlaced, RelPcs
  <2>2. RelOwn'
    BY <1>14 DEF RelFinish, AnswerInv, RelPlaced, RelOwn, OwnAt, RelWork, EarlyPcs
  <2>3. AnswerIsTrue'
    BY <1>14 DEF RelFinish, AnswerInv, RelOwn, OwnAt, AnswerIsTrue, RelWork, EarlyPcs,
       ReleaseAssumption
  <2>. QED
    BY <2>1, <2>2, <2>3 DEF AnswerInv
<1>15. CASE RelCleanUp(p)
  <2>1. RelPlaced'
    BY <1>15 DEF RelCleanUp, AnswerInv, RelPlaced, RelPcs
  <2>2. RelOwn'
    BY <1>15 DEF RelCleanUp, AnswerInv, RelOwn, OwnAt, RelWork, EarlyPcs,
       ReleaseAssumption
  <2>3. AnswerIsTrue'
    BY <1>15 DEF RelCleanUp, AnswerInv, RelPlaced, RelOwn, OwnAt, AnswerIsTrue
  <2>. QED
    BY <2>1, <2>2, <2>3 DEF AnswerInv
<1>. QED
  BY <1>1, <1>2, <1>3, <1>4, <1>5, <1>6, <1>7, <1>8, <1>9, <1>10, <1>11, <1>12,
     <1>13, <1>14, <1>15 DEF RelStep

LEMMA AnswerOthers ==
  ASSUME AnswerInv, ReleaseAssumption, NEW p \in Preparers,
         RelSyncFails(p) \/ RelCleanUpFails(p) \/ RelFault(p) \/ RelKill(p)
           \/ RelEditStaged(p) \/ RelSwap(p)
  PROVE  AnswerInv'
<1>. USE DEF relInputs, relStaged, relEvidence, relOthers, relBounds
<1>1. CASE RelFault(p)
  BY <1>1, RelStops DEF RelFault
<1>2. CASE RelSyncFails(p)
  <2>1. RelPlaced'
    BY <1>2 DEF RelSyncFails, AnswerInv, RelPlaced, RelPcs
  <2>2. RelOwn'
    BY <1>2 DEF RelSyncFails, AnswerInv, RelPlaced, RelOwn, OwnAt, RelWork, EarlyPcs
  <2>3. AnswerIsTrue'
    BY <1>2 DEF RelSyncFails, AnswerInv, RelPlaced, AnswerIsTrue, RelWork, EarlyPcs,
       ReleaseAssumption
  <2>. QED
    BY <2>1, <2>2, <2>3 DEF AnswerInv
<1>3. CASE RelCleanUpFails(p)
  <2>1. RelPlaced'
    BY <1>3 DEF RelCleanUpFails, AnswerInv, RelPlaced, RelPcs
  <2>2. RelOwn'
    BY <1>3 DEF RelCleanUpFails, AnswerInv, RelOwn, OwnAt, RelWork, EarlyPcs
  <2>3. AnswerIsTrue'
    BY <1>3 DEF RelCleanUpFails, AnswerInv, RelOwn, OwnAt, AnswerIsTrue
  <2>. QED
    BY <2>1, <2>2, <2>3 DEF AnswerInv
<1>4. CASE RelKill(p)
  <2>1. RelPlaced'
    BY <1>4 DEF RelKill, AnswerInv, RelPlaced, RelPcs
  <2>2. RelOwn'
    BY <1>4 DEF RelKill, AnswerInv, RelOwn, OwnAt, RelWork, EarlyPcs
  <2>3. AnswerIsTrue'
    BY <1>4 DEF RelKill, AnswerInv, AnswerIsTrue
  <2>. QED
    BY <2>1, <2>2, <2>3 DEF AnswerInv
<1>5. CASE RelEditStaged(p)
  <2>1. RelPlaced'
    BY <1>5 DEF RelEditStaged, AnswerInv, RelPlaced
  <2>2. RelOwn'
    BY <1>5 DEF RelEditStaged, AnswerInv, RelOwn, OwnAt
  <2>3. AnswerIsTrue'
    BY <1>5 DEF RelEditStaged, AnswerInv, AnswerIsTrue
  <2>. QED
    BY <2>1, <2>2, <2>3 DEF AnswerInv
<1>6. CASE RelSwap(p)
  <2>1. RelPlaced'
    BY <1>6 DEF RelSwap, AnswerInv, RelPlaced
  <2>2. /\ relStaging[p] = p
        /\ \E d \in {Vacant, Outsider} : relStaging' = [relStaging EXCEPT ![p] = d]
        /\ UNCHANGED <<relPc, relAnswer, relOutput, relStuck>>
    BY <1>6 DEF RelSwap
  <2>3. RelOwn'
    <3>. SUFFICES ASSUME NEW q \in Preparers PROVE OwnAt(q)'
      BY DEF RelOwn
    <3>1. relStaging'[q] \in {relStaging[q], Vacant, Outsider} /\ q \notin {Vacant, Outsider}
      BY <2>2 DEF AnswerInv, RelPlaced, ReleaseAssumption
    <3>. QED
      BY <2>2, <3>1 DEF AnswerInv, RelOwn, OwnAt
  <2>4. AnswerIsTrue'
    <3>1. \A q \in Preparers : relStaging'[q] = q => relStaging[q] = q
      BY <2>2 DEF AnswerInv, RelPlaced, ReleaseAssumption
    <3>. QED
      BY <2>2, <3>1 DEF AnswerInv, AnswerIsTrue
  <2>. QED
    BY <2>1, <2>3, <2>4 DEF AnswerInv
<1>. QED
  BY <1>1, <1>2, <1>3, <1>4, <1>5, <1>6

(* A staging directory is its preparer's, gone or somebody else's; a         *)
(* preparer whose directory has the release's name has not failed; and what  *)
(* each answers is true (prepare and its deferred clean-up, prepare.go).     *)
THEOREM AnswerInvariant == RelSpec => []AnswerInv
<1>1. RelInit => AnswerInv
  <2>. SUFFICES ASSUME RelInit PROVE AnswerInv
    OBVIOUS
  <2>1. RelPlaced
    BY DEF RelInit, RelPlaced, RelPcs
  <2>2. RelOwn
    BY ReleaseAssumption DEF RelInit, RelOwn, OwnAt
  <2>3. AnswerIsTrue
    BY ReleaseAssumption DEF ReleaseAssumption, RelInit, AnswerIsTrue
  <2>. QED
    BY <2>1, <2>2, <2>3 DEF AnswerInv
<1>2. AnswerInv /\ [RelNext]_relVars => AnswerInv'
  <2>. SUFFICES ASSUME AnswerInv, [RelNext]_relVars PROVE AnswerInv'
    OBVIOUS
  <2>1. CASE RelNext
    <3>1. CASE RelEditSource
      BY <3>1 DEF RelEditSource, relStaged, AnswerInv, RelPlaced, RelOwn, OwnAt,
         AnswerIsTrue
    <3>. QED
      BY <2>1, <3>1, ReleaseAssumption, AnswerSteps, AnswerOthers DEF RelNext
  <2>2. CASE UNCHANGED relVars
    BY <2>2 DEF relVars, relStaged, AnswerInv, RelPlaced, RelOwn, OwnAt, AnswerIsTrue
  <2>. QED
    BY <2>1, <2>2
<1>. QED
  BY <1>1, <1>2, PTL DEF RelSpec

(* For any number of preparers, faults and edits: "published" means that the *)
(* directory has the name, and a failure leaves neither a release nor its    *)
(* own staging directory (prepare's answer and clean-up).                    *)
THEOREM AnswerAlwaysTrue == RelSpec => []AnswerIsTrue
<1>1. AnswerInv => AnswerIsTrue
  BY DEF AnswerInv
<1>. QED
  BY <1>1, AnswerInvariant, PTL

(* From the validation of the image on, its report is about what was planned,*)
(* and a staged text is the planned one, spoilt or not written; and a        *)
(* directory that passed its check, or has the release's name, is whole.     *)
Assembling == {"stage", "sidecar", "open", "compress", "compressed", "records",
               "sums", "check", "publish", "sync"}

RelContents ==
    /\ relSource \in [Sources -> Contents]
    /\ relPlan \in [Preparers -> [Sources -> Contents]]
    /\ relReport \in [Preparers -> Contents]
    /\ relText \in [Preparers -> [Texts -> Contents]]
    /\ DOMAIN relParts = Preparers

WholeAt(p) ==
    /\ \A t \in Texts : relText[p][t] = relReport[p]
    /\ JoinsUpTo(relParts[p], relReport[p])

OneAt(p) ==
    /\ relPc[p] \in EarlyPcs => \A t \in Texts : relText[p][t] = Missing
    /\ relPc[p] \in Assembling =>
          /\ relReport[p] \in Creations
          /\ relPlan[p]["image"] = relReport[p] /\ relPlan[p]["manifest"] = relReport[p]
          /\ \A t \in Texts : relText[p][t] \in {Missing, Spoilt, relReport[p]}
    /\ p \notin relLate /\ ((relPc[p] = "publish" /\ relStaging[p] = p) \/ relOutput = p)
          => WholeAt(p)

OneInv == RelContents /\ \A p \in Preparers : OneAt(p)

LEMMA OneKept ==
  ASSUME OneInv, NEW q \in Preparers,
         relText'[q] = relText[q], relParts'[q] = relParts[q],
         relReport'[q] = relReport[q], relPlan'[q] = relPlan[q], relBlocks' = relBlocks,
         relPc'[q] \in EarlyPcs => relPc[q] \in EarlyPcs,
         relPc'[q] \in Assembling => relPc[q] \in Assembling,
         q \notin relLate'
           /\ ((relPc'[q] = "publish" /\ relStaging'[q] = q) \/ relOutput' = q)
           => q \notin relLate
                /\ ((relPc[q] = "publish" /\ relStaging[q] = q) \/ relOutput = q)
  PROVE  OneAt(q)'
<1>1. WholeAt(q) => WholeAt(q)'
  BY DEF WholeAt, JoinsUpTo
<1>. QED
  BY <1>1 DEF OneInv, OneAt

(* What a step of one preparer leaves alone of another.                      *)
LEMMA OneElsewhere ==
  ASSUME OneInv, AnswerInv, NEW p \in Preparers, NEW q \in Preparers \ {p},
         relText'[q] = relText[q], relParts'[q] = relParts[q],
         relReport'[q] = relReport[q], relPlan'[q] = relPlan[q], relBlocks' = relBlocks,
         relPc'[q] = relPc[q], relStaging'[q] = relStaging[q],
         relOutput' = q => relOutput = q, relLate' \in {relLate, relLate \cup {p}}
  PROVE  OneAt(q)'
BY OneKept

(* A step that writes to a staging directory not checked yet.                *)
LEMMA OneWritten ==
  ASSUME OneInv, AnswerInv, NEW p \in Preparers,
         relPc[p] \in Assembling \ {"publish", "sync"},
         relPc'[p] \in {"cleanup", relPc[p]} \cup (Assembling \ ({"publish", "sync"} \cup EarlyPcs)),
         relReport'[p] = relReport[p], relPlan'[p] = relPlan[p], relOutput' = relOutput,
         relPc[p] = "stage" => relPc'[p] # "stage",
         relPc'[p] \in Assembling =>
           \A t \in Texts : relText'[p][t] \in {Missing, Spoilt, relReport[p]}
  PROVE  OneAt(p)'
<1>1. relOutput # p
  BY DEF AnswerInv, RelOwn, OwnAt, Assembling
<1>. QED
  BY <1>1 DEF OneInv, OneAt, Assembling, EarlyPcs

LEMMA ContentsKept ==
  ASSUME RelContents, ReleaseAssumption, RelNext
  PROVE  RelContents'
<1>. USE DEF RelContents, relInputs, relStaged, relEvidence, Contents, Creations,
             Missing, Spoilt, ReleaseAssumption
<1>1. CASE RelEditSource
  BY <1>1 DEF RelEditSource
<1>2. ASSUME NEW p \in Preparers, RelStep(p) PROVE RelContents'
  <2>1. CASE InspectImage(p) \/ InspectManifest(p) \/ InspectJournal(p)
    <3>1. PICK s \in Sources : relPlan' = [relPlan EXCEPT ![p][s] = relSource[s]]
      BY <2>1 DEF InspectImage, InspectManifest, InspectJournal, InspectSource, Sources
    <3>2. relPlan' \in [Preparers -> [Sources -> Contents]]
      BY <3>1
    <3>. QED
      BY <2>1, <3>2 DEF InspectImage, InspectManifest, InspectJournal, InspectSource
  <2>2. CASE RelValidateImage(p)
    BY <2>2 DEF RelValidateImage, Sources
  <2>3. CASE RelCopySidecar(p)
    BY <2>3 DEF RelCopySidecar, Sources, Texts
  <2>4. CASE RelCompress(p)
    BY <2>4 DEF RelCompress
  <2>5. CASE RelWriteRecords(p)
    BY <2>5 DEF RelWriteRecords, Sources, Texts
  <2>6. CASE RelWriteSums(p)
    BY <2>6 DEF RelWriteSums, Sources, Texts
  <2>7. CASE RelBegin(p) \/ RelFinishPlan(p) \/ RelStage(p) \/ RelOpenImage(p)
             \/ RelFinishCompression(p)
    BY <2>7 DEF RelBegin, RelFinishPlan, RelStage, RelOpenImage, RelFinishCompression
  <2>8. CASE RelCheck(p) \/ RelPublish(p) \/ RelFinish(p) \/ RelCleanUp(p)
    BY <2>8 DEF RelCheck, RelPublish, RelFinish, RelCleanUp
  <2>. QED
    BY <1>2, <2>1, <2>2, <2>3, <2>4, <2>5, <2>6, <2>7, <2>8 DEF RelStep
<1>3. ASSUME NEW p \in Preparers,
             RelSyncFails(p) \/ RelCleanUpFails(p) \/ RelFault(p) \/ RelKill(p)
      PROVE  RelContents'
  BY <1>3 DEF RelSyncFails, RelCleanUpFails, RelFault, RelKill
<1>4. ASSUME NEW p \in Preparers, RelEditStaged(p) PROVE RelContents'
  <2>1. relText' = relText \/ \E t \in Texts : relText' = [relText EXCEPT ![p][t] = Spoilt]
    BY <1>4 DEF RelEditStaged
  <2>2. relText' \in [Preparers -> [Texts -> Contents]]
    <3>1. Spoilt \in Contents
      OBVIOUS
    <3>2. ASSUME NEW t \in Texts, relText' = [relText EXCEPT ![p][t] = Spoilt]
          PROVE  relText' \in [Preparers -> [Texts -> Contents]]
      <4>. HIDE DEF Contents, Spoilt, Creations, Missing
      <4>. QED
        BY <3>1, <3>2
    <3>. QED
      BY <2>1, <3>2
  <2>3. DOMAIN relParts' = Preparers
    BY <1>4 DEF RelEditStaged
  <2>. QED
    BY <1>4, <2>2, <2>3 DEF RelEditStaged
<1>5. ASSUME NEW p \in Preparers, RelSwap(p) PROVE RelContents'
  <2>1. Empty \in [Texts -> Contents]
    BY DEF Empty
  <2>. QED
    BY <1>5, <2>1 DEF RelSwap
<1>. QED
  BY <1>1, <1>2, <1>3, <1>4, <1>5 DEF RelNext

(* What a step of a preparer leaves of its own directory.                    *)
LEMMA OneAtItself ==
  ASSUME OneInv, AnswerInv, ReleaseAssumption, NEW p \in Preparers, RelStep(p)
  PROVE  OneAt(p)'
<1>. USE DEF RelUnless, RelGo, RelStop, relInputs, relStaged, relEvidence, relOthers
<1>0. /\ relPc \in [Preparers -> RelPcs]
      /\ relOutput = p => relPc[p] \in {"sync", "done", "dead"}
      /\ relPc[p] \in EarlyPcs => relStaging[p] # p
  BY DEF AnswerInv, RelPlaced, RelOwn, OwnAt
<1>1. CASE RelBegin(p) \/ RelFinishPlan(p) \/ RelOpenImage(p) \/ RelFinishCompression(p)
           \/ RelFinish(p) \/ RelCleanUp(p)
  <2>1. CASE RelBegin(p)
    BY <2>1, <1>0, OneKept DEF RelBegin, EarlyPcs, Assembling
  <2>2. CASE RelFinishPlan(p)
    BY <2>2, <1>0, OneKept DEF RelFinishPlan, EarlyPcs, Assembling
  <2>3. CASE RelOpenImage(p)
    BY <2>3, <1>0, OneKept DEF RelOpenImage, EarlyPcs, Assembling
  <2>4. CASE RelFinishCompression(p)
    BY <2>4, <1>0, OneKept DEF RelFinishCompression, EarlyPcs, Assembling
  <2>5. CASE RelFinish(p)
    BY <2>5, <1>0, OneKept DEF RelFinish, EarlyPcs, Assembling
  <2>6. CASE RelCleanUp(p)
    BY <2>6, <1>0, OneKept DEF RelCleanUp, EarlyPcs, Assembling
  <2>. QED
    BY <1>1, <2>1, <2>2, <2>3, <2>4, <2>5, <2>6
<1>2. CASE InspectImage(p) \/ InspectManifest(p) \/ InspectJournal(p)
  <2>1. /\ relPc[p] \in {"image", "manifest", "journal"}
        /\ relPc'[p] \in {"manifest", "journal", "read"}
        /\ UNCHANGED <<relText, relOutput>>
    BY <1>2, <1>0 DEF InspectImage, InspectManifest, InspectJournal, InspectSource
  <2>. QED
    BY <2>1, <1>0 DEF OneInv, OneAt, EarlyPcs, Assembling
<1>3. CASE RelValidateImage(p)
  <2>1. /\ relPc[p] = "validate" /\ relPc'[p] \in {"stage", "done"}
        /\ UNCHANGED <<relText, relOutput, relPlan>>
        /\ relPc'[p] = "stage" =>
             /\ relSource["image"] \in Creations
             /\ relSource["image"] = relPlan[p]["image"]
             /\ relSource["image"] = relPlan[p]["manifest"]
    BY <1>3, <1>0 DEF RelValidateImage, ReportAgrees, AsInspected
  <2>2. relReport'[p] = relSource["image"]
    BY <1>3 DEF RelValidateImage, OneInv, RelContents
  <2>. QED
    BY <2>1, <2>2, <1>0 DEF OneInv, OneAt, EarlyPcs, Assembling
<1>4. CASE RelStage(p)
  <2>1. /\ relPc[p] = "stage" /\ relPc'[p] = "sidecar"
        /\ UNCHANGED <<relText, relOutput, relPlan, relReport>>
    BY <1>4, <1>0 DEF RelStage
  <2>. QED
    BY <2>1, <1>0 DEF OneInv, OneAt, EarlyPcs, Assembling
<1>5. CASE RelCopySidecar(p)
  <2>1. /\ relPc[p] = "sidecar" /\ relPc'[p] \in {"open", "cleanup"}
        /\ UNCHANGED <<relReport, relPlan, relOutput>>
        /\ relPc'[p] = "open" => relSource["manifest"] = relPlan[p]["manifest"]
    BY <1>5, <1>0 DEF RelCopySidecar, AsInspected
  <2>2. \A t \in Texts : relText'[p][t] = IF t = "sidecar" THEN relSource["manifest"]
                                          ELSE relText[p][t]
    BY <1>5 DEF RelCopySidecar, OneInv, RelContents
  <2>3. relPc'[p] \in Assembling =>
           \A t \in Texts : relText'[p][t] \in {Missing, Spoilt, relReport[p]}
    BY <2>1, <2>2 DEF OneInv, OneAt, Assembling
  <2>. QED
    BY <2>1, <2>3, OneWritten DEF Assembling, EarlyPcs
<1>6. CASE RelCompress(p)
  <2>1. /\ relPc[p] = "compress" /\ relPc'[p] \in {"compress", "compressed", "cleanup"}
        /\ UNCHANGED <<relReport, relPlan, relOutput, relText>>
    BY <1>6, <1>0 DEF RelCompress
  <2>2. \A t \in Texts : relText'[p][t] \in {Missing, Spoilt, relReport[p]}
    BY <2>1 DEF OneInv, OneAt, Assembling
  <2>. QED
    BY <2>1, <2>2, OneWritten DEF Assembling, EarlyPcs
<1>7. CASE RelWriteRecords(p)
  <2>1. /\ relPc[p] = "records" /\ relPc'[p] \in {"sums", "cleanup"}
        /\ UNCHANGED <<relReport, relPlan, relOutput>>
    BY <1>7, <1>0 DEF RelWriteRecords
  <2>2. \A t \in Texts : relText'[p][t] \in {relPlan[p]["image"], relPlan[p]["manifest"],
                                             relText[p][t]}
    BY <1>7 DEF RelWriteRecords, OneInv, RelContents, Texts
  <2>3. \A t \in Texts : relText'[p][t] \in {Missing, Spoilt, relReport[p]}
    BY <2>1, <2>2 DEF OneInv, OneAt, Assembling
  <2>. QED
    BY <2>1, <2>3, OneWritten DEF Assembling, EarlyPcs
<1>8. CASE RelWriteSums(p)
  <2>1. /\ relPc[p] = "sums" /\ relPc'[p] \in {"check", "cleanup"}
        /\ UNCHANGED <<relReport, relPlan, relOutput>>
    BY <1>8, <1>0 DEF RelWriteSums
  <2>2. \A t \in Texts : relText'[p][t] \in {relPlan[p]["image"], relText[p][t]}
    BY <1>8 DEF RelWriteSums, OneInv, RelContents, Texts
  <2>3. \A t \in Texts : relText'[p][t] \in {Missing, Spoilt, relReport[p]}
    BY <2>1, <2>2 DEF OneInv, OneAt, Assembling
  <2>. QED
    BY <2>1, <2>3, OneWritten DEF Assembling, EarlyPcs
<1>9. CASE RelCheck(p)
  <2>1. /\ relPc[p] = "check" /\ relPc'[p] \in {"publish", "cleanup"}
        /\ UNCHANGED <<relText, relParts, relBlocks, relReport, relPlan, relOutput>>
        /\ relPc'[p] = "publish" => ValidateDirectory(p)
    BY <1>9, <1>0 DEF RelCheck
  <2>2. /\ relReport[p] \in Creations
        /\ relPlan[p]["image"] = relReport[p] /\ relPlan[p]["manifest"] = relReport[p]
        /\ \A t \in Texts : relText[p][t] \in {Missing, Spoilt, relReport[p]}
    BY <2>1 DEF OneInv, OneAt, Assembling
  <2>3. ASSUME ValidateDirectory(p) PROVE WholeAt(p)
    <3>1. Missing \notin Creations /\ Spoilt \notin Creations
      BY DEF Missing, Spoilt, Creations, ReleaseAssumption
    <3>2. \A t \in {"record", "contract"} : relText[p][t] = relReport[p]
      BY <2>2, <2>3, <3>1 DEF ValidateDirectory, RecordsAgree, Decodes, Texts
    <3>3. \A t \in Texts : relText[p][t] = relReport[p]
      BY <2>3, <3>2 DEF ValidateDirectory, SumsCover, Texts
    <3>4. JoinsUpTo(relParts[p], relReport[p])
      BY <2>3, <3>2 DEF ValidateDirectory
    <3>. QED
      BY <3>3, <3>4 DEF WholeAt
  <2>4. relPc'[p] = "publish" => WholeAt(p)'
    <3>1. WholeAt(p) => WholeAt(p)'
      BY <2>1 DEF WholeAt, JoinsUpTo
    <3>. QED
      BY <2>1, <2>3, <3>1
  <2>5. relOutput # p
    BY <2>1, <1>0
  <2>. QED
    BY <2>1, <2>2, <2>4, <2>5 DEF OneAt, EarlyPcs, Assembling
<1>10. CASE RelPublish(p)
  <2>1. /\ relPc[p] = "publish" /\ relPc'[p] \in {"sync", "cleanup"}
        /\ UNCHANGED <<relText, relParts, relBlocks, relReport, relPlan, relLate>>
        /\ relOutput' \in {relOutput, relStaging[p]}
    BY <1>10, <1>0 DEF RelPublish
  <2>. QED
    BY <2>1, <1>0, OneKept DEF EarlyPcs, Assembling
<1>. QED
  BY <1>1, <1>2, <1>3, <1>4, <1>5, <1>6, <1>7, <1>8, <1>9, <1>10 DEF RelStep

(* ... and of the others'.                                                   *)
LEMMA OneAtOthers ==
  ASSUME OneInv, AnswerInv, ReleaseAssumption, NEW p \in Preparers, RelStep(p),
         NEW q \in Preparers \ {p}
  PROVE  OneAt(q)'
<1>. USE DEF RelUnless, RelGo, RelStop, relInputs, relStaged, relEvidence, relOthers
<1>1. /\ relPc \in [Preparers -> RelPcs]
      /\ relStaging \in [Preparers -> Preparers \cup {Vacant, Outsider}]
      /\ relStaging[p] # q /\ RelContents
  <2>1. relStaging[p] \in {p, Vacant, Outsider}
    BY DEF AnswerInv, RelOwn, OwnAt
  <2>. QED
    BY <2>1 DEF AnswerInv, RelPlaced, ReleaseAssumption, OneInv
<1>2. relPc'[q] = relPc[q]
  BY <1>1 DEF RelStep, RelBegin, InspectImage, InspectManifest, InspectJournal,
     InspectSource, RelFinishPlan, RelValidateImage, RelStage, RelCopySidecar,
     RelOpenImage, RelCompress, RelFinishCompression, RelWriteRecords, RelWriteSums,
     RelCheck, RelPublish, RelFinish, RelCleanUp
<1>3. relText'[q] = relText[q]
  BY <1>1 DEF RelContents, RelStep, RelBegin, InspectImage, InspectManifest,
     InspectJournal, InspectSource, RelFinishPlan, RelValidateImage, RelStage,
     RelCopySidecar, RelOpenImage, RelCompress, RelFinishCompression, RelWriteRecords,
     RelWriteSums, RelCheck, RelPublish, RelFinish, RelCleanUp
<1>4. relParts'[q] = relParts[q]
  BY <1>1 DEF RelContents, RelStep, RelBegin, InspectImage, InspectManifest,
     InspectJournal, InspectSource, RelFinishPlan, RelValidateImage, RelStage,
     RelCopySidecar, RelOpenImage, RelCompress, RelFinishCompression, RelWriteRecords,
     RelWriteSums, RelCheck, RelPublish, RelFinish, RelCleanUp
<1>5. relReport'[q] = relReport[q] /\ relPlan'[q] = relPlan[q]
  BY <1>1 DEF RelContents, RelStep, RelBegin, InspectImage, InspectManifest,
     InspectJournal, InspectSource, RelFinishPlan, RelValidateImage, RelStage,
     RelCopySidecar, RelOpenImage, RelCompress, RelFinishCompression, RelWriteRecords,
     RelWriteSums, RelCheck, RelPublish, RelFinish, RelCleanUp
<1>6. relStaging'[q] = relStaging[q]
  BY <1>1 DEF RelStep, RelBegin, InspectImage, InspectManifest, InspectJournal,
     InspectSource, RelFinishPlan, RelValidateImage, RelStage, RelCopySidecar,
     RelOpenImage, RelCompress, RelFinishCompression, RelWriteRecords, RelWriteSums,
     RelCheck, RelPublish, RelFinish, RelCleanUp
<1>7. relBlocks' = relBlocks /\ relLate' = relLate /\ (relOutput' = q => relOutput = q)
  BY <1>1 DEF RelStep, RelBegin, InspectImage, InspectManifest, InspectJournal,
     InspectSource, RelFinishPlan, RelValidateImage, RelStage, RelCopySidecar,
     RelOpenImage, RelCompress, RelFinishCompression, RelWriteRecords, RelWriteSums,
     RelCheck, RelPublish, RelFinish, RelCleanUp
<1>. QED
  BY <1>2, <1>3, <1>4, <1>5, <1>6, <1>7, OneElsewhere

LEMMA OneElse ==
  ASSUME OneInv, AnswerInv, ReleaseAssumption, NEW p \in Preparers,
         RelSyncFails(p) \/ RelCleanUpFails(p) \/ RelFault(p) \/ RelKill(p)
           \/ RelEditStaged(p) \/ RelSwap(p),
         NEW q \in Preparers
  PROVE  OneAt(q)'
<1>. USE DEF relInputs, relStaged, relEvidence, relOthers
<1>0. /\ relPc \in [Preparers -> RelPcs]
      /\ relStaging \in [Preparers -> Preparers \cup {Vacant, Outsider}] /\ RelContents
      /\ OwnAt(p)
  BY DEF AnswerInv, RelPlaced, RelOwn, OneInv
<1>1. CASE RelSyncFails(p) \/ RelCleanUpFails(p) \/ RelFault(p) \/ RelKill(p)
  <2>1. /\ UNCHANGED <<relText, relParts, relReport, relPlan, relBlocks, relStaging,
                       relOutput, relLate>>
        /\ \E next \in {"cleanup", "done", "dead"} : relPc' = [relPc EXCEPT ![p] = next]
    BY <1>0, <1>1 DEF RelSyncFails, RelCleanUpFails, RelFault, RelKill, RelStop
  <2>2. relPc'[q] \in {relPc[q], "cleanup", "done", "dead"}
    BY <1>0, <2>1
  <2>. QED
    BY <2>1, <2>2, OneKept DEF EarlyPcs, Assembling
<1>2. CASE RelEditStaged(p) /\ q = p
  <2>1. /\ UNCHANGED <<relReport, relPlan, relPc, relOutput, relStaging>> /\ relStaging[p] = p
        /\ relPc[p] = "publish" \/ relOutput = p => p \in relLate'
        /\ \A t \in Texts : relText'[p][t] \in {Spoilt, relText[p][t]}
    BY <1>0, <1>2 DEF RelEditStaged, Late, Validated, RelContents
  <2>. QED
    BY <1>0, <1>2, <2>1 DEF OneInv, OneAt, OwnAt
<1>3. CASE RelSwap(p) /\ q = p
  <2>1. /\ UNCHANGED <<relReport, relPlan, relPc, relOutput>> /\ relStaging[p] = p
        /\ relStaging'[p] # p /\ \A t \in Texts : relText'[p][t] = Missing
    BY <1>0, <1>3 DEF RelSwap, RelContents, Empty, ReleaseAssumption
  <2>. QED
    BY <1>0, <1>3, <2>1 DEF OneInv, OneAt, OwnAt
<1>4. CASE (RelEditStaged(p) \/ RelSwap(p)) /\ q # p
  <2>1. /\ UNCHANGED <<relReport, relPlan, relPc, relBlocks, relOutput>>
        /\ relStaging'[q] = relStaging[q] /\ relLate' \in {relLate, relLate \cup {p}}
    BY <1>0, <1>4 DEF RelEditStaged, RelSwap, Late
  <2>2. relText'[q] = relText[q] /\ relParts'[q] = relParts[q]
    BY <1>0, <1>4 DEF RelEditStaged, RelSwap, RelContents
  <2>. QED
    BY <1>4, <2>1, <2>2, OneElsewhere
<1>. QED
  BY <1>1, <1>2, <1>3, <1>4

(* For any number of preparers, creations, faults and edits, and any part    *)
(* limit: the published directory is whole and about the one image that was  *)
(* validated, unless its files were changed after that (validateDirectory    *)
(* and publishDirectoryNoReplace).                                           *)
THEOREM ReleaseAlwaysOfOneImage == RelSpec => []ReleaseIsOfOneImage
<1>1. RelInit => OneInv
  <2>. SUFFICES ASSUME RelInit PROVE OneInv
    OBVIOUS
  <2>1. RelContents
    BY ReleaseAssumption DEF RelInit, RelContents, Contents, Missing, Unplanned, Empty
  <2>2. ASSUME NEW p \in Preparers PROVE OneAt(p)
    BY ReleaseAssumption DEF RelInit, OneAt, Assembling, Empty
  <2>. QED
    BY <2>1, <2>2 DEF OneInv
<1>2. OneInv /\ AnswerInv /\ [RelNext]_relVars => OneInv'
  <2>. SUFFICES ASSUME OneInv, AnswerInv, [RelNext]_relVars PROVE OneInv'
    OBVIOUS
  <2>1. CASE RelNext
    <3>1. RelContents'
      BY <2>1, ContentsKept, ReleaseAssumption DEF OneInv
    <3>2. ASSUME NEW q \in Preparers PROVE OneAt(q)'
      <4>1. CASE RelEditSource
        BY <4>1, OneKept DEF RelEditSource, relEvidence, relStaged, relOthers
      <4>2. ASSUME NEW p \in Preparers, RelStep(p) PROVE OneAt(q)'
        BY <4>2, ReleaseAssumption, OneAtItself, OneAtOthers
      <4>3. ASSUME NEW p \in Preparers, \/ RelSyncFails(p) \/ RelCleanUpFails(p)
                                        \/ RelFault(p) \/ RelKill(p)
                                        \/ RelEditStaged(p) \/ RelSwap(p)
            PROVE  OneAt(q)'
        BY <4>3, ReleaseAssumption, OneElse
      <4>. QED
        BY <2>1, <4>1, <4>2, <4>3 DEF RelNext
    <3>. QED
      BY <3>1, <3>2 DEF OneInv
  <2>2. CASE UNCHANGED relVars
    <3>1. RelContents'
      BY <2>2 DEF relVars, relInputs, relEvidence, relStaged, OneInv, RelContents
    <3>2. ASSUME NEW q \in Preparers PROVE OneAt(q)'
      BY <2>2, OneKept DEF relVars, relInputs, relEvidence, relStaged, relOthers
    <3>. QED
      BY <3>1, <3>2 DEF OneInv
  <2>. QED
    BY <2>1, <2>2
<1>3. OneInv => ReleaseIsOfOneImage
  <2>. SUFFICES ASSUME OneInv, NEW p \in Preparers \ relLate, relOutput = p
                PROVE  /\ relText[p] = [t \in Texts |-> relReport[p]]
                       /\ JoinsUpTo(relParts[p], relReport[p])
    BY DEF ReleaseIsOfOneImage
  <2>1. WholeAt(p) /\ relText[p] \in [Texts -> Contents]
    BY DEF OneInv, OneAt, RelContents
  <2>. QED
    BY <2>1 DEF WholeAt
<1>. QED
  BY <1>1, <1>2, <1>3, AnswerInvariant, PTL DEF RelSpec
=============================================================================
