------------------------- MODULE AtomicPublication -------------------------
(* What a publication promises, whatever files it consists of and however it *)
(* puts them there: one place is taken by the complete output of one         *)
(* publisher or by nobody's, it is never replaced, and a publisher that      *)
(* answers "published" had its complete output durably in place.             *)
(*                                                                           *)
(* That holds as long as only publishers use the place.  Once others have    *)
(* disturbed it, anything may be there, but an answer still is about output  *)
(* that did stand there.                                                     *)
CONSTANTS Publishers, Nobody, Spoilt

VARIABLES place,      \* whose complete output is in place
          stood,      \* the publishers whose output has durably been there
          answer,     \* of each publisher
          disturbed   \* others have used the place

vars == <<place, stood, answer, disturbed>>

Init ==
    /\ place = Nobody /\ stood = {} /\ disturbed = FALSE
    /\ answer = [p \in Publishers |-> "none"]

(* All of the output appears in one step, and only where nothing is.         *)
Commit(p) ==
    /\ place = Nobody /\ answer[p] = "none" /\ place' = p
    /\ UNCHANGED <<stood, answer, disturbed>>

Settle(p) ==
    /\ place = p /\ stood' = stood \cup {p}
    /\ UNCHANGED <<place, answer, disturbed>>

(* A power loss takes back what had not become durable.                      *)
Lose(p) ==
    /\ place = p /\ p \notin stood /\ place' = Nobody
    /\ UNCHANGED <<stood, answer, disturbed>>

Answer(p) ==
    /\ answer[p] = "none"
    /\ \/ p \in stood /\ answer' = [answer EXCEPT ![p] = "published"]
       \/ answer' = [answer EXCEPT ![p] = "failed"]
    /\ UNCHANGED <<place, stood, disturbed>>

Disturb ==
    /\ disturbed' = TRUE /\ place' \in Publishers \cup {Nobody, Spoilt}
    /\ stood' \in {stood, stood \cup ({place'} \cap Publishers)}
    /\ UNCHANGED answer

Next == Disturb \/ \E p \in Publishers : Commit(p) \/ Settle(p) \/ Lose(p) \/ Answer(p)

Spec == Init /\ [][Next]_vars
=============================================================================
