---------------------------- MODULE ImageEvidence ---------------------------
(* Why the checks of an image adapter suffice, whichever of its commands did *)
(* nothing: an account of what each thing that is found on the medium proves *)
(* to have been done, worked out along the adapter's program, and the run in *)
(* which every command does what it reports.  Nothing here depends on a      *)
(* constant: that the accounts bear the promises out is a closed formula,    *)
(* which TLC evaluates.                                                      *)
EXTENDS ImageAdapters

AllRequests ==
    [adapter : DOMAIN Programs, keep : BOOLEAN, companion : BOOLEAN]

ProgramOf(q) == Programs[q.adapter]
ThingsOf(q)  == Things(ProgramOf(q))

(* The instruction is for a companion, and none was asked for.               *)
Passed(q, i) == ProgramOf(q)[i].ifCompanion /\ ~q.companion

SubjectOf(c) == CHOOSE x \in c.of : TRUE

(* Which instructions act on a thing that they name.                         *)
Subjective == {"copy", "link", "make", "expect", "shows"}

-----------------------------------------------------------------------------
(* What can happen at an instruction: it takes effect ("made", "burned"), it *)
(* lets in what it should leave out ("unclean"), the file it stages has been *)
(* edited ("edited").  A linked file may also be edited "later".             *)
Event(kind, i, x) == <<kind, i, x>>
Never             == Event("never", 0, "")
Later(x)          == Event("later", 0, x)

(* An account of the contents of a thing, as pairs of an element and an      *)
(* event: the element is there only if one of its roots happened, and then   *)
(* all its needs did; it is there if all it takes happened.                  *)
NoAccount    == [roots |-> {}, needs |-> {}, takes |-> {}]
Elements(a)  == {p[1] : p \in a.roots}

(* The thing is as the new account says, or still as the old one does.       *)
Either(old, new) ==
    [roots |-> old.roots \cup new.roots,
     needs |-> {p \in old.needs \cup new.needs :
                  /\ p[1] \in Elements(old) => p \in old.needs
                  /\ p[1] \in Elements(new) => p \in new.needs},
     takes |-> new.takes \cup {<<e, Never>> : e \in Elements(old) \ Elements(new)}]

StagedAccount(c, i, x) ==
    LET made == <<x, Event("made", i, x)>>
        edit == <<"edited", Event("edited", i, x)>>
    IN  [roots |-> {made, edit} \cup IF c.op = "link" THEN {<<"edited", Later(x)>>} ELSE {},
         needs |-> {made} \cup IF c.op = "link" THEN {} ELSE {edit},
         takes |-> {made, edit}]

(* What is made of other things has what they have.                          *)
MadeAccount(held, c, i, x) ==
    LET made    == Event("made", i, x)
        unclean == Event("unclean", i, x)
        parts   == (UNION {Elements(held[d]) : d \in c.from}) \ ({x} \cup c.without)
        all     == {x} \cup c.without \cup parts
        Part(e) == CHOOSE d \in c.from : e \in Elements(held[d])
    IN  [roots |-> {<<x, made>>} \cup {<<w, unclean>> : w \in c.without}
                     \cup {p \in UNION {held[d].roots : d \in c.from} : p[1] # x},
         needs |-> {<<e, made>> : e \in all}
                     \cup {p \in UNION {held[d].needs : d \in c.from} :
                             /\ p[1] \in parts
                             /\ \A d \in c.from :
                                  p[1] \in Elements(held[d]) => p \in held[d].needs},
         takes |-> {<<e, made>> : e \in all \ c.without}
                     \cup {<<w, unclean>> : w \in c.without}
                     \cup UNION {{p \in held[Part(e)].takes : p[1] = e} : e \in parts}]

BurnedAccount(a, i, x) ==
    LET burned == {<<e, Event("burned", i, x)>> : e \in Elements(a)}
    IN  [roots |-> a.roots, needs |-> a.needs \cup burned, takes |-> a.takes \cup burned]

-----------------------------------------------------------------------------
(* What finding the elements in a thing shows to have happened, and what is  *)
(* ruled out by not finding them: the only thing missing for them to be there*)
ShownBy(a, elements) == {p[2] : p \in {r \in a.needs : r[1] \in elements}}

RuledOutBy(a, elements, shown) ==
    {p[2] : p \in {r \in a.takes :
       /\ r[1] \in elements /\ r[1] \in Elements(a)
       /\ \A s \in a.takes : s[1] = r[1] /\ s[2] # r[2] => s[2] \in shown}}

ExaminedEvidence(k, a, c) ==
    LET shown == k.shown \cup ShownBy(a, c.from)
    IN  [k EXCEPT !.shown = shown,
                  !.ruledOut = @ \cup RuledOutBy(a, c.without, shown)]

ShownByAgreement(k, c) ==
    LET Agreeing(x) == UNION {ShownBy(k.media[list], {x}) : list \in c.from}
    IN  UNION {ShownBy(k.media[x], {x}) \cup Agreeing(x) : x \in c.of}

MatchedEvidence(k, c) == [k EXCEPT !.shown = @ \cup ShownByAgreement(k, c)]

StagedEvidence(k, c, i, x) ==
    [k EXCEPT !.held[x] = StagedAccount(c, i, x),
              !.shown = @ \cup {Event("made", i, x)},
              !.linked = IF c.op = "link" THEN @ \cup {x} ELSE @]

MadeEvidence(k, c, i, x) ==
    [k EXCEPT !.held[x] = Either(@, MadeAccount(k.held, c, i, x))]

BurnedEvidence(k, c, i) ==
    [k EXCEPT !.media =
       [y \in DOMAIN @ |-> IF y \in c.of THEN Either(@[y], BurnedAccount(k.held[y], i, y))
                           ELSE @[y]]]

(* The evidence once instruction `i' is passed.                              *)
After(q, k, i) ==
    LET c == ProgramOf(q)[i]
        x == SubjectOf(c)
    IN  IF Passed(q, i) THEN k
        ELSE CASE c.op \in {"copy", "link"} -> StagedEvidence(k, c, i, x)
               [] c.op = "make"    -> MadeEvidence(k, c, i, x)
               [] c.op = "burn"    -> BurnedEvidence(k, c, i)
               [] c.op = "expect"  -> ExaminedEvidence(k, k.held[x], c)
               [] c.op = "shows"   -> ExaminedEvidence(k, k.media[x], c)
               [] c.op = "matches" -> MatchedEvidence(k, c)
               [] c.op = "publish" -> [k EXCEPT !.published = TRUE]
               [] OTHER            -> k

(* Of the functions that give every thing no account there is just the one.  *)
NoAccounts(q) == CHOOSE f \in [ThingsOf(q) -> {NoAccount}] : TRUE

NoEvidence(q) ==
    [held |-> NoAccounts(q), media |-> NoAccounts(q),
     shown |-> {}, ruledOut |-> {}, linked |-> {}, published |-> FALSE]

(* The evidence before each instruction, and at the end.                     *)
EvidenceFor(q) ==
    LET upTo[i \in 0 .. Len(ProgramOf(q))] ==
          IF i = 0 THEN <<NoEvidence(q)>>
          ELSE LET before == upTo[i - 1]
               IN  Append(before, After(q, before[i], i))
    IN  upTo[Len(ProgramOf(q))]

-----------------------------------------------------------------------------
(* The program is one that evidence can be kept of at instruction `i'.       *)
Orderly(q, i) ==
    LET c == ProgramOf(q)[i]
    IN  /\ i \in Nat \ {0}
        /\ c.op \in Subjective => c.of # {}
        /\ c.op = "matches" => c.from # {}
        /\ "edited" \notin c.of

Shaped(q, k) ==
    /\ DOMAIN k = {"held", "media", "shown", "ruledOut", "linked", "published"}
    /\ DOMAIN k.held = ThingsOf(q) /\ DOMAIN k.media = ThingsOf(q)

(* What happens at instruction `i', and what is edited later, has been taken *)
(* for proof of nothing.                                                     *)
Fresh(v, i) == v[2] # i /\ v[1] # "later"

Steady(q, k, i) ==
    /\ \A x \in ThingsOf(q) : \A p \in k.held[x].takes \cup k.media[x].takes : Fresh(p[2], i)
    /\ \A v \in k.ruledOut : Fresh(v, i)
    /\ \A x \in k.linked : /\ <<"edited", Later(x)>> \in k.held[x].roots
                           /\ \A p \in k.held[x].needs : p[1] # "edited"

(* What was shown and what was ruled out bear the promise out.               *)
BearsOut(k, p) ==
    /\ \A e \in p.from : /\ e \in Elements(k.media[p.of])
                         /\ \A r \in k.media[p.of].takes :
                              r[1] = e => r[2] \in k.shown
    /\ \A r \in k.media[p.of].roots :
         r[1] \in p.without => r[2] \in k.ruledOut

EvidenceSuffices(q, evidence) ==
    /\ evidence[1] = NoEvidence(q) /\ 1 \in DOMAIN evidence
    /\ \A i \in DOMAIN ProgramOf(q) :
         /\ Orderly(q, i)
         /\ i \in DOMAIN evidence /\ i + 1 \in DOMAIN evidence
         /\ evidence[i + 1] = After(q, evidence[i], i)
    /\ \A i \in DOMAIN evidence :
         /\ Shaped(q, evidence[i]) /\ Steady(q, evidence[i], i)
         /\ evidence[i].published =>
              \A p \in PromisesTo(q) : /\ p.of \in ThingsOf(q)
                                      /\ BearsOut(evidence[i], p)

-----------------------------------------------------------------------------
(* The run in which every command does what it reports, nothing fails and    *)
(* nothing is edited.                                                        *)
FaithfulAfter(q, s, i) ==
    LET c == ProgramOf(q)[i]
        x == SubjectOf(c)
    IN  IF Passed(q, i) THEN s
        ELSE CASE c.op \in {"copy", "link"} -> [s EXCEPT !.held[x] = {x}]
               [] c.op = "make" ->
                    [s EXCEPT !.held[x] = {x} \cup UNION {s.held[d] : d \in c.from}]
               [] c.op = "burn" ->
                    [s EXCEPT !.media = [y \in DOMAIN @ |->
                                           IF y \in c.of THEN s.held[y] ELSE @[y]]]
               [] c.op = "volume"  -> [s EXCEPT !.volume = TRUE]
               [] c.op = "remove"  -> [s EXCEPT !.volume = @ /\ q.keep]
               [] c.op = "publish" -> [s EXCEPT !.published = TRUE]
               [] OTHER            -> s

NothingHeld(q) == CHOOSE f \in [ThingsOf(q) -> {{}}] : TRUE

FaithfulStart(q) ==
    [held |-> NothingHeld(q), media |-> NothingHeld(q),
     volume |-> FALSE, published |-> FALSE]

FaithfulRun(q) ==
    LET upTo[i \in 0 .. Len(ProgramOf(q))] ==
          IF i = 0 THEN <<FaithfulStart(q)>>
          ELSE LET before == upTo[i - 1]
               IN  Append(before, FaithfulAfter(q, before[i], i))
    IN  upTo[Len(ProgramOf(q))]

(* No check refuses what has been made, and the volume is there to remove.   *)
Accepted(q, s, i) ==
    LET c == ProgramOf(q)[i]
        x == SubjectOf(c)
        Fitting(contents) == c.from \subseteq contents /\ c.without \cap contents = {}
    IN  /\ c.op = "expect" => Fitting(s.held[x])
        /\ c.op = "shows"  => Fitting(s.media[x])
        /\ c.op = "matches" =>
             \A y \in c.of, list \in c.from :
                y \in s.media[y] /\ s.media[y] \subseteq s.media[list]
        /\ c.op = "remove" => q.keep \/ s.volume

RunsThrough(q, run) ==
    /\ run[1] = FaithfulStart(q) /\ 1 \in DOMAIN run
    /\ \A i \in DOMAIN ProgramOf(q) :
         /\ Orderly(q, i)
         /\ i \in DOMAIN run /\ i + 1 \in DOMAIN run
         /\ run[i + 1] = FaithfulAfter(q, run[i], i)
         /\ ~Passed(q, i) => Accepted(q, run[i], i)
    /\ \A i \in DOMAIN run : DOMAIN run[i] = {"held", "media", "volume", "published"}
    /\ \A i \in DOMAIN run \ DOMAIN ProgramOf(q) : run[i].published

-----------------------------------------------------------------------------
(* For each of the adapters, the evidence its checks gather bears out what   *)
(* it promises, and they refuse nothing of its own.                          *)
ASSUME ProgramsAssumption ==
    \A q \in AllRequests : /\ EvidenceSuffices(q, EvidenceFor(q))
                           /\ RunsThrough(q, FaithfulRun(q))
=============================================================================
