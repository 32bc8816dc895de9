---------------------------- MODULE Compatibility ---------------------------
(* Whether a userspace component fits a machine: internal/userspace/         *)
(* compatibility and assessment.  A manifest has hard bounds and, within     *)
(* them, the evidence of what was tested.  Pure operators, which             *)
(* UserspaceInstall asks and MCDelivery compares with what they mean.        *)
EXTENDS Naturals, Sequences

(* A version is a number and the identifiers of a pre-release, each of which *)
(* is a number too: the numeric ones come before the others.                 *)
LOCAL Precedes(x, y) ==
    \E i \in 1 .. Len(y) :
        /\ \A j \in 1 .. i - 1 : j \in DOMAIN x /\ x[j] = y[j]
        /\ i \in DOMAIN x => x[i] < y[i]

VersionLess(a, b) ==
    \/ a.core < b.core
    \/ /\ a.core = b.core
       /\ \/ a.pre # <<>> /\ b.pre = <<>>
          \/ a.pre # <<>> /\ b.pre # <<>> /\ Precedes(a.pre, b.pre)

(* A build whose version tells nothing: a development or a changed one.      *)
NoVersion == [core |-> 0, pre |-> <<>>]

(* Of a range from a minimum to below a maximum, tested through another; of  *)
(* a maximum or a test there may be none.                                    *)
ValidateVersionRange(r) ==
    /\ r.tested # NoVersion => ~VersionLess(r.tested, r.from)
    /\ r.below # NoVersion => /\ VersionLess(r.from, r.below)
                              /\ r.tested # NoVersion => VersionLess(r.tested, r.below)

Within(n, from, below) == n >= from /\ (below = 0 \/ n < below)

WithinOS(system, version) ==
    \E r \in system.ranges : Within(version, r.from, r.below)

Validate(manifest) ==
    /\ ValidateVersionRange(manifest.lexr)
    /\ manifest.rules # <<>>
    /\ \A i \in DOMAIN manifest.rules :
         LET rule == manifest.rules[i]
         IN /\ rule.devices # {} /\ rule.systems # {} /\ rule.kernels # {}
            /\ \A s, t \in rule.systems : s.id = t.id => s = t
            /\ \A s \in rule.systems :
                 /\ s.ranges # {}
                 /\ \A r \in s.ranges : r.below = 0 \/ r.from < r.below
                 /\ \A v \in s.tested : WithinOS(s, v)
            /\ \A k, l \in rule.kernels : k.domain = l.domain => k = l
            /\ \A k \in rule.kernels :
                 k.from >= 1 /\ k.tested >= k.from /\ Within(k.tested, k.from, k.below)

-----------------------------------------------------------------------------
MatchingSystems(rule, target) ==
    {s \in rule.systems : s.id = target.os /\ WithinOS(s, target.osVersion)}

MatchingKernels(rule, target) ==
    {k \in rule.kernels :
        k.domain = target.domain /\ Within(target.generation, k.from, k.below)}

Matches(rule, target) ==
    /\ target.device \in rule.devices
    /\ MatchingSystems(rule, target) # {} /\ MatchingKernels(rule, target) # {}

LexrTested(range, version) ==
    version # NoVersion /\ range.tested # NoVersion /\ ~VersionLess(range.tested, version)

InEvidence(manifest, rule, target) ==
    /\ LexrTested(manifest.lexr, target.lexr)
    /\ \A s \in MatchingSystems(rule, target) : target.osVersion \in s.tested
    /\ \A k \in MatchingKernels(rule, target) : target.generation <= k.tested

(* The first rule that is in evidence decides, or the first that matches.    *)
Evaluate(manifest, target) ==
    LET range    == manifest.lexr
        matching == {i \in DOMAIN manifest.rules : Matches(manifest.rules[i], target)}
    IN CASE ~Validate(manifest) -> "unavailable"
         [] /\ target.lexr # NoVersion
            /\ \/ VersionLess(target.lexr, range.from)
               \/ range.below # NoVersion /\ ~VersionLess(target.lexr, range.below)
              -> "incompatible"
         [] matching = {} -> "incompatible"
         [] \E i \in matching : InEvidence(manifest, manifest.rules[i], target) -> "tested"
         [] OTHER -> "unverified"

RequireAllowed(decision, allowUnverified) ==
    decision = "tested" \/ (decision = "unverified" /\ allowUnverified)

(* What the root shows of an architecture or device, and what the user says  *)
(* of it, have to agree; one of them has to say it.                          *)
ObserveRoot(observed, selected) ==
    CASE observed = "unknown" -> selected
      [] selected \in {"unknown", observed} -> observed
      [] OTHER -> "refused"

(* A manifest counts only with the size and digest the catalogue pins, for   *)
(* that component and release; one that nothing pins is refused.             *)
AssessCompatibility(pinned, found, device, decision, allowUnverified) ==
    IF ~pinned THEN found = "none"
    ELSE /\ found = "pinned"
         /\ device \notin {"unknown", "refused"}
         /\ RequireAllowed(decision, allowUnverified)

-----------------------------------------------------------------------------
(* Bounded inputs.                                                           *)
Versions == {NoVersion} \cup [core : 1 .. 2, pre : {<<>>, <<1>>, <<2>>, <<1, 1>>}]

Plain(n) == [core |-> n, pre |-> <<>>]

LexrRanges ==
    [from : {Plain(1)}, below : {NoVersion, Plain(1), Plain(3)},
     tested : {NoVersion, Plain(1), Plain(2)}]

CompatibilityRules ==
    [devices : {{"oled"}},
     systems : {{[id |-> "os", ranges |-> {[from |-> 1, below |-> b]}, tested |-> t]} :
                   b \in {0, 2}, t \in SUBSET {1, 2}},
     kernels : {{[domain |-> "sp11", from |-> 1, below |-> b, tested |-> t]} :
                   b \in {0, 2}, t \in {1, 2}}]

CompatibilityManifests ==
    [lexr : LexrRanges,
     rules : UNION {[1 .. n -> CompatibilityRules] : n \in 0 .. 2}]

CompatibilityTargets ==
    [lexr : {NoVersion, Plain(1), Plain(2), Plain(3)}, device : {"oled", "lcd"},
     os : {"os"}, osVersion : 1 .. 2, domain : {"sp11"}, generation : 1 .. 2]

Decisions ==
    {Evaluate(m, t) : m \in CompatibilityManifests, t \in CompatibilityTargets}

CompatibilityAssessments(pinned) ==
    {AssessCompatibility(pinned, f, d, v, a) :
        f \in {"none", "pinned", "other"},
        d \in {ObserveRoot(o, s) : o, s \in {"unknown", "oled", "lcd"}},
        v \in Decisions,
        a \in BOOLEAN}

(* Versions are in one order.                                                *)
VersionsAreOrdered ==
    /\ \A a, b \in Versions :
         /\ ~(VersionLess(a, b) /\ VersionLess(b, a))
         /\ a # b => VersionLess(a, b) \/ VersionLess(b, a)
    /\ \A a, b, c \in Versions :
         VersionLess(a, b) /\ VersionLess(b, c) => VersionLess(a, c)

(* A target that is called tested is within hard bounds with every part of   *)
(* it, and some one rule has evidence for all of them at once; and what is in*)
(* bounds with nothing but evidence missing is unverified, never refused.    *)
EvidenceDecides ==
    \A m \in CompatibilityManifests, t \in CompatibilityTargets :
        LET decision == Evaluate(m, t)
            bounded  == /\ t.lexr.core >= m.lexr.from.core
                        /\ m.lexr.below = NoVersion \/ t.lexr.core < m.lexr.below.core
        IN /\ decision = "tested" =>
                /\ bounded /\ t.lexr.core <= m.lexr.tested.core
                /\ \E i \in DOMAIN m.rules :
                     /\ t.device \in m.rules[i].devices
                     /\ \E s \in m.rules[i].systems : t.osVersion \in s.tested
                     /\ \E k \in m.rules[i].kernels :
                          t.generation <= k.tested /\ (k.below = 0 \/ t.generation < k.below)
           /\ decision = "incompatible" /\ (bounded \/ t.lexr = NoVersion) =>
                \A i \in DOMAIN m.rules :
                    \/ t.device \notin m.rules[i].devices
                    \/ \A s \in m.rules[i].systems, k \in m.rules[i].kernels :
                         t.osVersion \notin s.tested \/ k.tested < t.generation
=============================================================================
