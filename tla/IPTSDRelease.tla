---------------------------- MODULE IPTSDRelease ----------------------------
(* What the native IPTSD archive has to be: internal/userspace/install's     *)
(* archive.go unpacks it, internal/userspace/iptsd holds it against a pinned *)
(* contract.  A file is named for its part in that contract, and its content *)
(* is the contract it belongs to.                                            *)
EXTENDS Naturals, Sequences

(* An archive is what its entries say, in order.  Every name is canonical and*)
(* under the root, and comes once; the root comes as a directory; there are  *)
(* directories and regular files only.                                       *)
ProcessTar(entries) ==
    /\ \A i \in DOMAIN entries :
         entries[i].inside /\ entries[i].kind \in {"directory", "regular"}
    /\ \A i, j \in DOMAIN entries : entries[i].name = entries[j].name => i = j
    /\ \E i \in DOMAIN entries : entries[i].name = "root"

(* The files of the integration, with the contents each may have: those of   *)
(* the released archives, of which one is older, and those of the repository,*)
(* which has the specification of Fedora's package too.                      *)
ReleaseProfile ==
    [source |-> {"pinned"}, sums |-> {"pinned"}, template |-> {"pinned"},
     readme |-> {"release", "older"}]

RepositoryProfile ==
    [source |-> {"pinned"}, sums |-> {"pinned"}, template |-> {"pinned"},
     readme |-> {"repository"}, spec |-> {"pinned"}]

(* Not a file is missing, added or different.                                *)
ValidateIntegration(tree, profile) ==
    /\ DOMAIN tree = DOMAIN profile
    /\ \A file \in DOMAIN profile : tree[file] \in profile[file]

(* The payload is what its manifest lists, and the manifest, which is pinned,*)
(* is the one the integration names; so is the source.                       *)
ParsePayloadManifest(sums) == IF sums = "pinned" THEN {"binary", "source", "licence"} ELSE {}

ValidatePayloadNames(names) == names = {"sums", "binary", "source", "licence"}

ValidatePayload(payload, integration) ==
    /\ payload.sums = "pinned"
    /\ LET manifest == {"sums"} \cup ParsePayloadManifest(payload.sums)
       IN DOMAIN payload = manifest /\ ValidatePayloadNames(manifest)
    /\ \A file \in DOMAIN payload : payload[file] = "pinned"
    /\ payload.source = integration.source
    /\ payload.sums = integration.sums

(* What is rendered from the templates has digests of its own.               *)
RenderIntegration(integration) == integration.template = "pinned"

ValidateReleaseAs(release, profile) ==
    /\ ValidateIntegration(release.integration, profile)
    /\ ValidatePayload(release.payload, release.integration)
    /\ RenderIntegration(release.integration)

ValidateRelease(release) ==
    ValidateReleaseAs(release, ReleaseProfile) \/ ValidateReleaseAs(release, RepositoryProfile)

(* Bounded inputs: archives of up to two entries, and releases which differ  *)
(* from a good one in any of their files.                                          *)
IPTSDArchives ==
    UNION {[1 .. n -> [name : {"root", "file"}, inside : BOOLEAN,
                       kind : {"directory", "regular", "link"}]] : n \in 0 .. 2}

IPTSDReleases ==
    [integration :
        [{"source", "sums", "template", "readme"} -> {"pinned", "release", "older", "other"}]
          \cup [{"source", "sums", "template", "readme", "spec"} -> {"pinned", "repository"}],
     payload :
        [{"sums", "binary", "source", "licence"} -> {"pinned", "other"}]
          \cup [{"sums", "source"} -> {"pinned"}]]

ReleaseVerdicts ==
    {IF unpacked /\ valid THEN "install" ELSE "refused" :
        unpacked \in {ProcessTar(a) : a \in IPTSDArchives},
        valid \in {ValidateRelease(r) : r \in IPTSDReleases}}
=============================================================================
