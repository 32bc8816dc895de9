----------------------------- MODULE MCDelivery -----------------------------
(* From what is built to what runs: a kernel and the sensors' binaries are   *)
(* built, inputs are acquired, an image is created and prepared for release, *)
(* and so are packages; a kernel is installed, again after a crash if need   *)
(* be, and userspace components are.  A behaviour follows one of these       *)
(* stages.                                                                   *)
EXTENDS MCKernelInstall, KernelBuild, ArtifactCache, ImageCreate,
        ReleasePreparation, PackageRelease, UserspaceInstall, SensorBuild, TLC

CONSTANTS c1, r1, r2

MCProcs     == {c1}
(* Of the two, both build, or both prepare a release.                        *)
MCPreparers == {r1, r2}
Symmetry    == Permutations(MCPreparers)

BuildRequest(kind, reset, skipClean, mode) ==
    [kind |-> kind, reset |-> reset, skipClean |-> skipClean, mode |-> mode]

(* Both kinds of source, with and without a reset, and every mode.           *)
MCBldRequests == {BuildRequest("https", FALSE, FALSE, "source"),
                  BuildRequest("https", TRUE, FALSE, "stubble"),
                  BuildRequest("local", FALSE, FALSE, "nostubble"),
                  BuildRequest("local", TRUE, FALSE, "source"),
                  BuildRequest("local", FALSE, TRUE, "source")}

(* What compatibility decides is what its manifests mean.                    *)
ASSUME VersionsAreOrdered /\ EvidenceDecides

VARIABLE stage

DeliveryInit ==
    /\ stage \in {"build", "sensors", "acquire", "create", "release", "package",
                  "install", "userspace"}
    /\ BldInit
    /\ stage # "build" =>
           bldAsk = [c \in Builds |-> CHOOSE q \in BldRequests : TRUE]
    /\ CacheInit /\ (stage # "acquire" => cacheDigests)
    /\ ImgInit /\ (stage # "create" => imgRequest = CHOOSE q \in ImgRequests : TRUE)
    /\ RelInit /\ (stage # "release" => relOrderly /\ relBlocks = 2)
    /\ PkgInit /\ (stage # "package" => pkgKind = "kernel")
    /\ UsrInit /\ (stage # "userspace" => usrRequest = CHOOSE q \in UsrRequests : TRUE)
    /\ Init /\ SenInit

DeliveryNext ==
    /\ UNCHANGED stage
    /\ \/ /\ stage = "build" /\ BldNext
          /\ UNCHANGED <<senVars, cacheVars, imgVars, relVars, pkgVars, vars, usrVars>>
       \/ /\ stage = "sensors" /\ SenNext
          /\ UNCHANGED <<bldVars, cacheVars, imgVars, relVars, pkgVars, vars, usrVars>>
       \/ /\ stage = "acquire" /\ CacheNext
          /\ UNCHANGED <<bldVars, senVars, imgVars, relVars, pkgVars, vars, usrVars>>
       \/ /\ stage = "create" /\ ImgNext
          /\ UNCHANGED <<bldVars, senVars, cacheVars, relVars, pkgVars, vars, usrVars>>
       \/ /\ stage = "release" /\ RelNext
          /\ UNCHANGED <<bldVars, senVars, cacheVars, imgVars, pkgVars, vars, usrVars>>
       \/ /\ stage = "package" /\ PkgNext
          /\ UNCHANGED <<bldVars, senVars, cacheVars, imgVars, relVars, vars, usrVars>>
       \/ /\ stage = "install" /\ Next
          /\ UNCHANGED <<bldVars, senVars, cacheVars, imgVars, relVars, pkgVars, usrVars>>
       \/ /\ stage = "userspace" /\ UsrNext
          /\ UNCHANGED <<bldVars, senVars, cacheVars, imgVars, relVars, pkgVars, vars>>

DeliveryVars ==
    <<stage, bldVars, senVars, cacheVars, imgVars, relVars, pkgVars, vars, usrVars>>

DeliverySpec == DeliveryInit /\ [][DeliveryNext]_DeliveryVars
=============================================================================
