---------------------------- MODULE Local_proofs ----------------------------
(* What holds of the radio's address, of captures and of updates, for all    *)
(* values of the constants; and of every write of a medium, for all devices, *)
(* fingerprints, image lengths and bounds.                                   *)
EXTENDS MediaWrite, BluetoothAddress, CameraCapture, SelfUpdate, TLAPS

-----------------------------------------------------------------------------
(* Bluetooth addresses.  Every variable keeps to its set.                    *)

BtWorldOK ==
    /\ btAt \in [Radios -> BtIndexes \cup {Unlisted}]
    /\ btGiven \subseteq BtGifts
    /\ btRequests \subseteq [index : BtIndexes \cup {Unlisted}, attempt : Nat, since : Nat]

BtStateOK ==
    /\ btReply \in {"none", "success", "failure"}
    /\ btPc \in BtPcs /\ btAnswer \in BtAnswers
    /\ btAttempt \in 0 .. BtAttempts /\ btSince \in Nat
    /\ btPending \subseteq BtIndexes /\ btFound \subseteq BtIndexes
    /\ btIndex \in BtIndexes \cup {Unlisted}
    /\ btMoves \in Nat /\ btFaults \in Nat

(* Until an answer, attempts are left; none has been given before the end.   *)
BtCounted ==
    /\ btPc \notin {"attempt", "done"} => btAttempt < BtAttempts
    /\ btPc # "done" => btAnswer = "none"
    /\ btAnswer = "not accepted" => btAttempt = BtAttempts

BtTyped == BtWorldOK /\ BtStateOK /\ BtCounted /\ btExpired \in BOOLEAN /\ btCancelled \in BOOLEAN

LEMMA BtTypedInit == BtInit => BtTyped
<1> SUFFICES ASSUME BtInit PROVE BtTyped
  OBVIOUS
<1>1. BtWorldOK
  BY DEF BtInit, BtWorldOK
<1>2. BtStateOK
  BY BluetoothAssumption DEF BtInit, BtStateOK, BtPcs, BtAnswers
<1>3. BtCounted
  BY BluetoothAssumption DEF BtInit, BtCounted
<1>4. btExpired \in BOOLEAN /\ btCancelled \in BOOLEAN
  BY DEF BtInit
<1>. QED
  BY <1>1, <1>2, <1>3, <1>4 DEF BtTyped

LEMMA BtWorldNext == BtWorldOK /\ BtStateOK /\ BtNext => BtWorldOK'
<1> SUFFICES ASSUME BtWorldOK, BtStateOK, BtNext PROVE BtWorldOK'
  OBVIOUS
<1>. USE DEF BtWorldOK, btKernel
<1>1. CASE BtSend
  <2>1. [index |-> btIndex, attempt |-> btAttempt, since |-> btSince] \in
            [index : BtIndexes \cup {Unlisted}, attempt : Nat, since : Nat]
    BY BluetoothAssumption DEF BtStateOK
  <2>. QED
    BY <1>1, <2>1 DEF BtSend
<1>2. CASE BtCarryOut
  <2>. PICK q \in btRequests, status \in {"success", "failure"} :
          /\ btRequests' = btRequests \ {q}
          /\ btGiven' = IF status = "failure" THEN btGiven
                ELSE btGiven \cup {[radio |-> r, attempt |-> q.attempt,
                                    moved |-> btMoves > q.since] : r \in BtRadio(q.index)}
          /\ UNCHANGED btAt
    BY <1>2 DEF BtCarryOut
  <2>1. q.attempt \in Nat /\ (btMoves > q.since) \in BOOLEAN
    OBVIOUS
  <2>2. \A r \in BtRadio(q.index) :
           [radio |-> r, attempt |-> q.attempt, moved |-> btMoves > q.since] \in BtGifts
    BY <2>1, Zenon DEF BtRadio, BtGifts
  <2>3. btGiven' \subseteq BtGifts
    BY <2>2
  <2>. QED
    BY <2>3
<1>3. CASE BtMove
  BY <1>3 DEF BtMove
<1>4. CASE ~(BtSend \/ BtCarryOut \/ BtMove)
  BY <1>4 DEF BtNext, BtBegin, BtNextAttempt, BtDelay, BtScan, BtProbe, BtSelect,
     BtSearchFails, BtPoll, BtSendFails, BtReadReply, BtReadOther, BtReadNothing,
     BtDeadline, BtCancel
<1>. QED
  BY <1>1, <1>2, <1>3, <1>4

LEMMA OneMore ==
  /\ \A n \in Nat : n + 1 \in Nat
  /\ \A m \in Nat : \A n \in 0 .. m : n < m => n + 1 \in 0 .. m
OBVIOUS

LEMMA BtStateNext ==
  ASSUME BtWorldOK, BtStateOK, BtCounted, BtNext
  PROVE  BtStateOK' /\ BtCounted'
<1>. USE BluetoothAssumption DEF BtStateOK, BtCounted, btSearch, btCall, BtTo, BtEnd,
         BtFault, BtPcs, BtAnswers
<1>0. /\ btMoves + 1 \in Nat /\ btFaults + 1 \in Nat
      /\ btAttempt < BtAttempts => btAttempt + 1 \in 0 .. BtAttempts
  BY OneMore
<1>1. CASE BtBegin
  BY <1>1 DEF BtBegin
<1>2. CASE BtNextAttempt
  BY <1>2 DEF BtNextAttempt
<1>3. CASE BtDelay
  BY <1>3 DEF BtDelay
<1>4. CASE BtScan
  <2>1. Listed \subseteq BtIndexes
    BY DEF Listed, BtWorldOK
  <2>. QED
    BY <1>4, <2>1 DEF BtScan
<1>5. CASE BtProbe
  BY <1>5 DEF BtProbe
<1>6. CASE BtSelect
  <2>1. btIndex' \in BtIndexes \cup {Unlisted}
    BY <1>6 DEF BtSelect
  <2>. QED
    BY <1>6, <2>1 DEF BtSelect
<1>7. CASE BtSearchFails
  BY <1>0, <1>7 DEF BtSearchFails
<1>8. CASE BtPoll
  BY <1>8 DEF BtPoll
<1>9. CASE BtSend
  BY <1>9 DEF BtSend
<1>10. CASE BtCarryOut
  BY <1>10 DEF BtCarryOut
<1>11. CASE BtMove
  BY <1>0, <1>11 DEF BtMove
<1>12. CASE BtDeadline \/ BtCancel
  BY <1>12 DEF BtDeadline, BtCancel
<1>13. CASE BtSendFails \/ BtReadOther
  BY <1>0, <1>13 DEF BtSendFails, BtReadOther, BtFailAttempt
<1>14. CASE BtReadReply
  BY <1>0, <1>14 DEF BtReadReply, BtFailAttempt
<1>15. CASE BtReadNothing
  BY <1>0, <1>15 DEF BtReadNothing, BtFailAttempt
<1>. QED
  BY <1>1, <1>2, <1>3, <1>4, <1>5, <1>6, <1>7, <1>8, <1>9, <1>10, <1>11, <1>12,
     <1>13, <1>14, <1>15 DEF BtNext

LEMMA BtFlagsNext ==
  ASSUME btExpired \in BOOLEAN, btCancelled \in BOOLEAN, BtNext
  PROVE  btExpired' \in BOOLEAN /\ btCancelled' \in BOOLEAN
BY DEF BtNext, BtBegin, BtNextAttempt, BtDelay, BtScan, BtProbe, BtSelect,
   BtSearchFails, BtPoll, BtSend, BtSendFails, BtReadReply, BtReadOther, BtReadNothing,
   BtCarryOut, BtMove, BtDeadline, BtCancel

LEMMA BtTypedStep == BtTyped /\ [BtNext]_btVars => BtTyped'
<1> SUFFICES ASSUME BtTyped, [BtNext]_btVars PROVE BtTyped'
  OBVIOUS
<1>1. CASE BtNext
  BY <1>1, BtWorldNext, BtStateNext, BtFlagsNext DEF BtTyped
<1>2. CASE UNCHANGED btVars
  BY <1>2 DEF BtTyped, BtWorldOK, BtStateOK, BtCounted, btVars, btKernel, btSearch, btCall
<1>. QED
  BY <1>1, <1>2

LEMMA BtTypedAlways == BtSpec => []BtTyped
<1>. QED
  BY BtTypedInit, BtTypedStep, PTL DEF BtSpec

(* The variables of the address setting keep to their sets.                  *)
THEOREM BtTypeCorrect == BtSpec => []BtTypeOK
<1>1. BtTyped => BtTypeOK
  BY DEF BtTyped, BtWorldOK, BtStateOK, BtTypeOK
<1>. QED
  BY <1>1, BtTypedAlways, PTL

-----------------------------------------------------------------------------
(* While nothing has moved since an attempt began, what it has found, and    *)
(* what it and the attempts before it have asked for, is the built-in radio. *)

BtApart == \A r, s \in Radios : r # s /\ btAt[r] # Unlisted => btAt[r] # btAt[s]

BtLooked ==
    /\ btSince <= btMoves
    /\ btPc = "probe" /\ btSince = btMoves => \A i \in btFound : IsBuiltIn(i)
    /\ btPc = "send" => btIndex \in BtIndexes
    /\ btPc = "send" /\ btSince = btMoves => IsBuiltIn(btIndex)

BtAsked ==
    \A q \in btRequests :
        /\ q.index \in BtIndexes /\ q.since <= btMoves
        /\ q.since = btMoves => IsBuiltIn(q.index)

BtPrivate == BtApart /\ BtLooked /\ BtAsked /\ AddressStaysPrivate

LEMMA BtPrivateInit == BtInit => BtPrivate
BY DEF BtInit, BtPrivate, BtApart, BtLooked, BtAsked, AddressStaysPrivate

(* Only a move changes which radio has an index.                             *)
LEMMA BtStill ==
  ASSUME BtNext, ~BtMove
  PROVE  /\ UNCHANGED <<btAt, btMoves>>
         /\ \A i : IsBuiltIn(i)' <=> IsBuiltIn(i)
<1>1. UNCHANGED <<btAt, btMoves>>
  BY DEF BtNext, BtBegin, BtNextAttempt, BtDelay, BtScan, BtProbe, BtSelect,
     BtSearchFails, BtPoll, BtSend, BtSendFails, BtReadReply, BtReadOther,
     BtReadNothing, BtCarryOut, BtDeadline, BtCancel, btKernel
<1>. QED
  BY <1>1 DEF IsBuiltIn

LEMMA BtApartNext == BtWorldOK /\ BtApart /\ BtNext => BtApart'
<1> SUFFICES ASSUME BtWorldOK, BtApart, BtNext PROVE BtApart'
  OBVIOUS
<1>1. CASE BtMove
  BY <1>1 DEF BtMove, BtApart, BtRadio, BtWorldOK
<1>2. CASE ~BtMove
  BY <1>2, BtStill DEF BtApart
<1>. QED
  BY <1>1, <1>2

LEMMA BtLookedNext == BtTyped /\ BtLooked /\ BtNext => BtLooked'
<1> SUFFICES ASSUME BtTyped, BtLooked, BtNext PROVE BtLooked'
  OBVIOUS
<1>. USE DEF BtTyped, BtStateOK, BtLooked, btSearch, btCall, BtTo, BtEnd
<1>1. CASE BtMove
  BY <1>1 DEF BtMove
<1>2. CASE BtNextAttempt
  <2>1. btMoves \in Nat /\ btMoves' = btMoves /\ btSince' = btMoves
        /\ btPc' \notin {"probe", "send"}
    BY <1>2 DEF BtNextAttempt
  <2>. QED
    BY <2>1
<1>3. CASE BtScan
  BY <1>3 DEF BtScan
<1>4. CASE BtProbe
  BY <1>4, BtStill DEF BtProbe, BtMove
<1>5. CASE BtSelect
  BY <1>5, BtStill DEF BtSelect, BtMove
<1>6. CASE BtBegin \/ BtDelay \/ BtPoll \/ BtSearchFails \/ BtSend
  BY <1>6, BtStill DEF BtBegin, BtDelay, BtPoll, BtSearchFails, BtSend
<1>7. CASE BtSendFails \/ BtReadReply \/ BtReadOther \/ BtReadNothing
  BY <1>7, BtStill DEF BtSendFails, BtReadReply, BtReadOther, BtReadNothing, BtFailAttempt
<1>8. CASE BtCarryOut \/ BtDeadline \/ BtCancel
  <2>1. UNCHANGED <<btAt, btMoves, btPc, btSince, btFound, btIndex>>
    BY <1>8 DEF BtCarryOut, BtDeadline, BtCancel, btKernel
  <2>. QED
    BY <2>1 DEF IsBuiltIn
<1>. QED
  BY <1>1, <1>2, <1>3, <1>4, <1>5, <1>6, <1>7, <1>8 DEF BtNext

LEMMA BtAskedNext == BtTyped /\ BtLooked /\ BtAsked /\ BtNext => BtAsked'
<1> SUFFICES ASSUME BtTyped, BtLooked, BtAsked, BtNext PROVE BtAsked'
  OBVIOUS
<1>. USE DEF BtTyped, BtStateOK, BtAsked
<1>1. CASE BtMove
  BY <1>1 DEF BtMove, BtWorldOK
<1>2. CASE BtSend
  BY <1>2, BtStill DEF BtSend, BtMove, BtLooked
<1>3. CASE ~(BtMove \/ BtSend)
  <2>1. btRequests' \subseteq btRequests
    BY <1>3 DEF BtNext, BtBegin, BtNextAttempt, BtDelay, BtScan, BtProbe, BtSelect,
       BtSearchFails, BtPoll, BtSendFails, BtReadReply, BtReadOther, BtReadNothing,
       BtCarryOut, BtDeadline, BtCancel, btKernel
  <2>. QED
    BY <1>3, <2>1, BtStill
<1>. QED
  BY <1>1, <1>2, <1>3

LEMMA BtGivenNext ==
  BtTyped /\ BtApart /\ BtAsked /\ AddressStaysPrivate /\ BtNext => AddressStaysPrivate'
<1> SUFFICES ASSUME BtTyped, BtApart, BtAsked, AddressStaysPrivate, BtNext
             PROVE  AddressStaysPrivate'
  OBVIOUS
<1>1. CASE BtCarryOut
  <2>. PICK q \in btRequests, status \in {"success", "failure"} :
          btGiven' = IF status = "failure" THEN btGiven
                ELSE btGiven \cup {[radio |-> r, attempt |-> q.attempt,
                                    moved |-> btMoves > q.since] : r \in BtRadio(q.index)}
    BY <1>1 DEF BtCarryOut
  <2>1. ASSUME NEW r \in BtRadio(q.index), ~(btMoves > q.since) PROVE r \in BuiltIn
    <3>1. btMoves \in Nat /\ q.since \in Nat
      BY DEF BtTyped, BtStateOK, BtWorldOK
    <3>2. IsBuiltIn(q.index) /\ q.index # Unlisted
      BY <2>1, <3>1, BluetoothAssumption DEF BtAsked
    <3>. QED
      BY <3>2, BluetoothAssumption DEF BtRadio, IsBuiltIn, BtApart
  <2>2. ASSUME NEW g \in btGiven', g \notin btGiven PROVE g.radio \in BuiltIn \/ g.moved
    <3>1. PICK r \in BtRadio(q.index) :
             g = [radio |-> r, attempt |-> q.attempt, moved |-> btMoves > q.since]
      BY <2>2
    <3>2. g.radio = r /\ g.moved = (btMoves > q.since)
      BY <3>1
    <3>. QED
      BY <2>1, <3>2
  <2>. QED
    BY <2>2 DEF AddressStaysPrivate
<1>2. CASE ~BtCarryOut
  <2>1. UNCHANGED btGiven
    BY <1>2 DEF BtNext, BtBegin, BtNextAttempt, BtDelay, BtScan, BtProbe, BtSelect,
       BtSearchFails, BtPoll, BtSend, BtSendFails, BtReadReply, BtReadOther,
       BtReadNothing, BtMove, BtDeadline, BtCancel, btKernel
  <2>. QED
    BY <2>1 DEF AddressStaysPrivate
<1>. QED
  BY <1>1, <1>2

LEMMA BtPrivateStep == BtTyped /\ BtPrivate /\ [BtNext]_btVars => BtPrivate'
<1> SUFFICES ASSUME BtTyped, BtPrivate, [BtNext]_btVars PROVE BtPrivate'
  OBVIOUS
<1>1. CASE BtNext
  BY <1>1, BtApartNext, BtLookedNext, BtAskedNext, BtGivenNext DEF BtPrivate, BtTyped
<1>2. CASE UNCHANGED btVars
  BY <1>2 DEF BtPrivate, BtApart, BtLooked, BtAsked, AddressStaysPrivate, IsBuiltIn,
     btVars, btKernel, btSearch, btCall
<1>. QED
  BY <1>1, <1>2

LEMMA BtPrivateAlways == BtSpec => []BtPrivate
<1>. QED
  BY BtPrivateInit, BtPrivateStep, BtTypedAlways, PTL DEF BtSpec

(* The kernel gives the private address to no radio but the built-in one,    *)
(* whatever attempts are made and however late it carries their requests     *)
(* out, unless radios moved after the attempt began to look.                 *)
THEOREM AddressAlwaysPrivate == BtSpec => []AddressStaysPrivate
<1>1. BtPrivate => AddressStaysPrivate
  BY DEF BtPrivate
<1>. QED
  BY <1>1, BtPrivateAlways, PTL

-----------------------------------------------------------------------------
(* A success that can be read is that of this attempt's request.             *)

BtReplyIsOurs == btReply = "success" => \E g \in btGiven : g.attempt = btAttempt

BtTells == BtReplyIsOurs /\ AddressAnswerTells

LEMMA BtTellsInit == BtInit => BtTells
BY DEF BtInit, BtTells, BtReplyIsOurs, AddressAnswerTells

LEMMA BtReplyNext == BtTyped /\ BtReplyIsOurs /\ BtNext => BtReplyIsOurs'
<1> SUFFICES ASSUME BtTyped, BtReplyIsOurs, BtNext PROVE BtReplyIsOurs'
  OBVIOUS
<1>1. CASE BtCarryOut
  <2>. PICK q \in btRequests, status \in {"success", "failure"} :
          /\ status = "success" => BtRadio(q.index) # {}
          /\ btGiven' = IF status = "failure" THEN btGiven
                ELSE btGiven \cup {[radio |-> r, attempt |-> q.attempt,
                                    moved |-> btMoves > q.since] : r \in BtRadio(q.index)}
          /\ btReply' = IF btPc = "read" /\ q.attempt = btAttempt THEN status ELSE btReply
          /\ UNCHANGED btAttempt
    BY <1>1 DEF BtCarryOut, btCall
  <2>1. btGiven \subseteq btGiven'
    OBVIOUS
  <2>2. CASE btReply' = btReply
    BY <2>1, <2>2 DEF BtReplyIsOurs
  <2>3. CASE btPc = "read" /\ q.attempt = btAttempt /\ btReply' = status
    <3>1. CASE status = "failure"
      BY <2>3, <3>1 DEF BtReplyIsOurs
    <3>2. CASE status = "success"
      <4>. PICK r \in BtRadio(q.index) : TRUE
        BY <3>2
      <4>1. [radio |-> r, attempt |-> q.attempt, moved |-> btMoves > q.since] \in btGiven'
        BY <3>2
      <4>. QED
        BY <2>3, <4>1 DEF BtReplyIsOurs
    <3>. QED
      BY <3>1, <3>2
  <2>. QED
    BY <2>2, <2>3
<1>2. CASE ~BtCarryOut
  <2>1. /\ UNCHANGED btGiven
        /\ btReply' = "none" \/ UNCHANGED <<btReply, btAttempt>>
    BY <1>2 DEF BtNext, BtBegin, BtNextAttempt, BtDelay, BtScan, BtProbe, BtSelect,
       BtSearchFails, BtPoll, BtSend, BtSendFails, BtReadReply, BtReadOther,
       BtReadNothing, BtMove, BtDeadline, BtCancel, BtFailAttempt, btKernel, btCall
  <2>. QED
    BY <2>1 DEF BtReplyIsOurs
<1>. QED
  BY <1>1, <1>2

(* As long as nothing has moved, two that match are two that are built in.   *)
LEMMA BtAmbiguous ==
  ASSUME BtTyped, BtLooked, btPc = "probe", btMoves = 0,
         NEW i \in btFound, NEW j \in btFound, i # j
  PROVE  \E r, s \in BuiltIn : r # s
<1>1. IsBuiltIn(i) /\ IsBuiltIn(j)
  BY DEF BtLooked, BtTyped, BtStateOK
<1>. QED
  BY <1>1 DEF IsBuiltIn

LEMMA BtTellsNext ==
  BtTyped /\ BtLooked /\ BtReplyIsOurs /\ AddressAnswerTells /\ BtNext => AddressAnswerTells'
<1> SUFFICES ASSUME BtTyped, BtLooked, BtReplyIsOurs, AddressAnswerTells, BtNext
             PROVE  AddressAnswerTells'
  OBVIOUS
<1>1. btGiven \subseteq btGiven' /\ (btMoves > 0 => btMoves' > 0)
  <2>1. CASE BtCarryOut
    BY <2>1 DEF BtCarryOut, BtTyped, BtStateOK
  <2>2. CASE BtMove
    BY <2>2 DEF BtMove, BtTyped, BtStateOK
  <2>3. CASE ~(BtCarryOut \/ BtMove)
    BY <2>3, BtStill DEF BtNext, BtBegin, BtNextAttempt, BtDelay, BtScan, BtProbe, BtSelect,
       BtSearchFails, BtPoll, BtSend, BtSendFails, BtReadReply, BtReadOther,
       BtReadNothing, BtDeadline, BtCancel, btKernel, BtTyped, BtStateOK
  <2>. QED
    BY <2>1, <2>2, <2>3
<1>2. CASE btAnswer' = btAnswer /\ btAttempt' = btAttempt
  BY <1>1, <1>2 DEF AddressAnswerTells, BtTyped, BtStateOK
<1>3. CASE btAnswer' = "none"
  BY <1>3 DEF AddressAnswerTells
<1>4. CASE BtReadReply /\ btAnswer' = "set"
  BY <1>1, <1>4 DEF BtReadReply, BtEnd, BtReplyIsOurs, AddressAnswerTells, btKernel,
     BtFailAttempt, BtTo, BtTyped, BtCounted
<1>5. CASE BtNextAttempt
  BY <1>5 DEF BtNextAttempt, BtEnd, BtTo, AddressAnswerTells, BtTyped, BtCounted
<1>6. CASE BtSelect
  <2>1. CASE btAnswer' = "ambiguous"
    <3>1. CASE btMoves = 0
      BY <1>6, <2>1, <3>1, BtAmbiguous DEF BtSelect, BtEnd, BtTo, AddressAnswerTells,
         BtTyped, BtCounted
    <3>2. CASE btMoves > 0
      BY <1>1, <2>1, <3>2 DEF AddressAnswerTells
    <3>. QED
      BY <3>1, <3>2 DEF BtTyped, BtStateOK
  <2>2. CASE btAnswer' = btAnswer
    BY <1>2, <1>6, <2>2 DEF BtSelect, btCall
  <2>. QED
    BY <1>6, <2>1, <2>2 DEF BtSelect, BtEnd, BtTo
<1>7. ASSUME ~(BtReadReply /\ btAnswer' = "set"), ~BtNextAttempt, ~BtSelect
      PROVE  \/ btAnswer' = btAnswer /\ btAttempt' = btAttempt
             \/ btAnswer' \in {"none", "cancelled", "no reply", "absent", "failed", "refused"}
  BY <1>7 DEF BtNext, BtBegin, BtDelay, BtScan, BtProbe, BtSearchFails, BtPoll, BtSend,
     BtSendFails, BtReadReply, BtReadOther, BtReadNothing, BtCarryOut, BtMove,
     BtDeadline, BtCancel, BtFailAttempt, BtEnd, BtTo, btCall, BtTyped, BtCounted
<1>8. CASE btAnswer' \in {"none", "cancelled", "no reply", "absent", "failed", "refused"}
  BY <1>8 DEF AddressAnswerTells
<1>. QED
  BY <1>2, <1>4, <1>5, <1>6, <1>7, <1>8

LEMMA BtTellsStep == BtTyped /\ BtLooked /\ BtTells /\ [BtNext]_btVars => BtTells'
<1> SUFFICES ASSUME BtTyped, BtLooked, BtTells, [BtNext]_btVars PROVE BtTells'
  OBVIOUS
<1>1. CASE BtNext
  BY <1>1, BtReplyNext, BtTellsNext DEF BtTells
<1>2. CASE UNCHANGED btVars
  BY <1>2 DEF BtTells, BtReplyIsOurs, AddressAnswerTells, btVars, btKernel, btCall
<1>. QED
  BY <1>1, <1>2

(* The answer to a call is about the request of its own last attempt.        *)
THEOREM AddressAnswerAlwaysTells == BtSpec => []AddressAnswerTells
<1>1. BtTells => AddressAnswerTells
  BY DEF BtTells
<1>2. BtPrivate => BtLooked
  BY DEF BtPrivate
<1>. QED
  BY <1>1, <1>2, BtTellsInit, BtTellsStep, BtTypedAlways, BtPrivateAlways, PTL DEF BtSpec

-----------------------------------------------------------------------------
(* Camera captures.  Every variable keeps to its set.                        *)

CapMediaOK ==
    /\ capGraph \in Routes \cup {Nil} /\ capExact \subseteq AllSet
    /\ capUser \in Capturers \cup {Nil, Client}
    /\ capRoute \in [Capturers -> Routes \cup {Nil}]
    /\ capSeen \in [Capturers -> SUBSET GraphSet]
    /\ capShot \in [Capturers -> SUBSET AllSet]

CapFilesOK ==
    /\ capFile \in [CapFiles -> [made : Capturers \cup {Nil, Client},
                                 holds : Capturers \cup {Nil}]]
    /\ capExchanged \subseteq CapFiles /\ capHurt \subseteq CapFiles

CapPlacesOK ==
    /\ capAt \in [Capturers -> Nat]
    /\ capPc \in [Capturers -> CapPcs]
    /\ capAnswer \in [Capturers -> {"none", "planned", "failed", "captured"}]

CapMarksOK ==
    /\ capLogged \subseteq Capturers /\ capNoise \subseteq Capturers
    /\ capDisturbed \subseteq Capturers
    /\ capEdits \in Nat /\ capFaults \in Nat

CapTyped == CapMediaOK /\ CapFilesOK /\ CapPlacesOK /\ CapMarksOK

LEMMA EvidenceNames ==
  /\ Len(Evidence) = 6
  /\ \A k \in 1 .. 6 : Evidence[k] \in CapFiles
  /\ \A k, l \in 1 .. 6 : Evidence[k] = Evidence[l] => k = l
  /\ \A f \in CapFiles : \E k \in 1 .. 6 : Evidence[k] = f
BY DEF Evidence, CapFiles

LEMMA CapTypedInit == CapInit => CapTyped
<1> SUFFICES ASSUME CapInit PROVE CapTyped
  OBVIOUS
<1>1. CapMediaOK
  BY DEF CapInit, CapMediaOK
<1>2. CapFilesOK
  BY DEF CapInit, CapFilesOK, File
<1>3. CapPlacesOK
  BY DEF CapInit, CapPlacesOK, CapPcs
<1>4. CapMarksOK
  BY DEF CapInit, CapMarksOK
<1>. QED
  BY <1>1, <1>2, <1>3, <1>4 DEF CapTyped

CapAtSteps == {"idle", "discover", "media", "video", "before"}

CapCounts ==
    \A p \in Capturers :
        /\ capPc[p] \in CapAtSteps => capAt[p] = 0
        /\ capPc[p] \in {"reserve", "release"} => capAt[p] <= 6
        /\ capPc[p] = "configure" => capAt[p] < Settings
        /\ capAnswer[p] # "none" => capPc[p] = "done"

LEMMA CapCountsInit == CapInit => CapCounts
BY DEF CapInit, CapCounts

CapWorld ==
    \/ CapEmit \/ CapEditSetting \/ CapEditRoute \/ CapClientStarts \/ CapClientStops
    \/ CapExchange

(* A step of one capture leaves the others where they are, ...               *)
LEMMA CapOthers ==
  ASSUME NEW p \in Capturers, CapStep(p), CapPlacesOK, CapMediaOK,
         NEW q \in Capturers, q # p
  PROVE  /\ capPc'[q] = capPc[q] /\ capAt'[q] = capAt[q] /\ capAnswer'[q] = capAnswer[q]
         /\ capSeen'[q] = capSeen[q] /\ capShot'[q] = capShot[q]
<1>. USE DEF CapPlacesOK, CapMediaOK, CapTo, CapEnd, CapStop, CapUnless, capOwn, CapWrite
<1>1. CASE CapBegin(p) \/ CapDiscover(p) \/ CapMediaFree(p) \/ CapVideoFree(p)
  BY <1>1 DEF CapBegin, CapDiscover, CapMediaFree, CapVideoFree
<1>2. CASE CapReserve(p) \/ CapRelease(p) \/ CapReleased(p)
  BY <1>2 DEF CapReserve, CapRelease, CapReleased
<1>3. CASE CapWriteBefore(p) \/ CapWriteAfter(p)
  BY <1>3 DEF CapWriteBefore, CapWriteAfter
<1>4. CASE CapConfigure(p) \/ CapVerifyFormat(p) \/ CapReadTopology(p)
  BY <1>4 DEF CapConfigure, CapVerifyFormat, CapReadTopology
<1>5. CASE CapConfirm(p) \/ CapStartLog(p) \/ CapFailed(p)
  BY <1>5 DEF CapConfirm, CapStartLog, CapFailed
<1>6. CASE CapStartStream(p) \/ CapFinishStream(p)
  BY <1>6 DEF CapStartStream, CapFinishStream
<1>7. CASE CapCollectLog(p) \/ CapWriteStatistics(p)
  BY <1>7 DEF CapCollectLog, CapWriteStatistics
<1>8. CASE CapCheckBuffers(p) \/ CapAnalyse(p)
  BY <1>8 DEF CapCheckBuffers, CapAnalyse, CapInspect
<1>9. CASE CapFails(p) \/ CapKill(p)
  BY <1>9 DEF CapFails, CapKill
<1>. QED
  BY <1>1, <1>2, <1>3, <1>4, <1>5, <1>6, <1>7, <1>8, <1>9 DEF CapStep

(* ... and of anybody else, all of them.                                     *)
LEMMA CapApart ==
  ASSUME CapWorld
  PROVE  UNCHANGED <<capPc, capAt, capAnswer, capSeen, capShot, capRoute>>
BY DEF CapWorld, CapEmit, CapEditSetting, CapEditRoute, CapClientStarts, CapClientStops,
   CapExchange, capOwn

(* Where a step leads a capture.                                             *)
CapFlow(from, to) ==
    CASE from = "idle"       -> to \in {"discover", "done"}
      [] from = "discover"   -> to \in {"media", "done", "dead"}
      [] from = "media"      -> to \in {"video", "done", "dead"}
      [] from = "video"      -> to \in {"reserve", "done", "dead"}
      [] from = "reserve"    -> to \in {"reserve", "release", "before", "dead"}
      [] from = "release"    -> to \in {"release", "done", "dead"}
      [] from = "before"     -> to \in {"configure", "done", "dead"}
      [] from = "configure"  -> to \in {"configure", "format", "done", "dead"}
      [] from = "format"     -> to \in {"topology", "done", "dead"}
      [] from = "topology"   -> to \in {"after", "done", "dead"}
      [] from = "after"      -> to \in {"confirm", "done", "dead"}
      [] from = "confirm"    -> to \in {"log", "done", "dead"}
      [] from = "log"        -> to \in {"stream", "done", "dead"}
      [] from = "stream"     -> to \in {"streaming", "failed", "dead"}
      [] from = "streaming"  -> to \in {"kernel", "failed", "dead"}
      [] from = "kernel"     -> to \in {"buffers", "done", "dead"}
      [] from = "failed"     -> to \in {"done", "dead"}
      [] from = "buffers"    -> to \in {"analyse", "done", "dead"}
      [] from = "analyse"    -> to \in {"statistics", "done", "dead"}
      [] from = "statistics" -> to \in {"done", "dead"}
      [] OTHER -> FALSE

(* All that one capture's step does to its own place, its file count and its *)
(* answer.                                                                   *)
LEMMA CapOwnStep ==
  ASSUME NEW p \in Capturers, CapStep(p), CapPlacesOK, CapCounts
  PROVE  /\ capPc' \in [Capturers -> CapPcs] /\ capAt' \in [Capturers -> Nat]
         /\ CapFlow(capPc[p], capPc'[p])
         /\ capAnswer' \in [Capturers -> {"none", "planned", "failed", "captured"}]
         /\ capAnswer'[p] = capAnswer[p] \/ capPc'[p] = "done"
         /\ capAnswer'[p] = "captured" /\ capAnswer[p] # "captured" => CapWriteStatistics(p)
         /\ capPc'[p] \in CapAtSteps => capAt'[p] = 0
         /\ capPc'[p] \in {"reserve", "release"} => capAt'[p] <= 6
         /\ capPc'[p] = "configure" => capAt'[p] < Settings
<1>. USE CaptureAssumption, EvidenceNames DEF CapPlacesOK, CapCounts, CapAtSteps, CapTo,
         CapEnd, CapStop, CapUnless, capOwn, CapWrite, CapPcs, CapWork, CapFlow
<1>1. CASE CapBegin(p) \/ CapDiscover(p)
  BY <1>1 DEF CapBegin, CapDiscover
<1>2. CASE CapMediaFree(p) \/ CapVideoFree(p)
  BY <1>2 DEF CapMediaFree, CapVideoFree
<1>3. CASE CapReserve(p)
  BY <1>3 DEF CapReserve
<1>4. CASE CapRelease(p)
  BY <1>4 DEF CapRelease
<1>5. CASE CapReleased(p)
  BY <1>5 DEF CapReleased
<1>6. CASE CapWriteBefore(p)
  BY <1>6 DEF CapWriteBefore
<1>7. CASE CapWriteAfter(p)
  BY <1>7 DEF CapWriteAfter
<1>8. CASE CapConfigure(p)
  BY <1>8 DEF CapConfigure
<1>9. CASE CapVerifyFormat(p)
  BY <1>9 DEF CapVerifyFormat
<1>10. CASE CapReadTopology(p)
  BY <1>10 DEF CapReadTopology
<1>11. CASE CapConfirm(p)
  BY <1>11 DEF CapConfirm
<1>12. CASE CapStartLog(p) \/ CapFailed(p)
  BY <1>12 DEF CapStartLog, CapFailed
<1>13. CASE CapStartStream(p)
  BY <1>13 DEF CapStartStream
<1>14. CASE CapFinishStream(p)
  BY <1>14 DEF CapFinishStream
<1>15. CASE CapCollectLog(p)
  BY <1>15 DEF CapCollectLog
<1>16. CASE CapWriteStatistics(p)
  BY <1>16 DEF CapWriteStatistics
<1>17. CASE CapCheckBuffers(p)
  BY <1>17 DEF CapCheckBuffers, CapInspect
<1>18. CASE CapAnalyse(p)
  BY <1>18 DEF CapAnalyse, CapInspect
<1>19. CASE CapFails(p)
  BY <1>19 DEF CapFails
<1>20. CASE CapKill(p)
  BY <1>20 DEF CapKill
<1>. QED
  BY <1>1, <1>2, <1>3, <1>4, <1>5, <1>6, <1>7, <1>8, <1>9, <1>10, <1>11, <1>12, <1>13,
     <1>14, <1>15, <1>16, <1>17, <1>18, <1>19, <1>20 DEF CapStep

LEMMA CapMediaNext == CapMediaOK /\ CapPlacesOK /\ CapCounts /\ CapNext => CapMediaOK'
<1> SUFFICES ASSUME CapMediaOK, CapPlacesOK, CapCounts, CapNext PROVE CapMediaOK'
  OBVIOUS
<1>. USE DEF CapMediaOK, capMedia, capOwn
<1>1. ASSUME NEW p \in Capturers, CapDiscover(p) PROVE CapMediaOK'
  BY <1>1 DEF CapDiscover
<1>2. ASSUME NEW p \in Capturers, CapConfigure(p) PROVE CapMediaOK'
  <2>1. capAt[p] + 1 \in AllSet
    BY <1>2, CaptureAssumption DEF CapConfigure, CapCounts, CapPlacesOK, AllSet
  <2>. QED
    BY <1>2, <2>1 DEF CapConfigure
<1>3. ASSUME NEW p \in Capturers, CapReadTopology(p) PROVE CapMediaOK'
  BY <1>3 DEF CapReadTopology
<1>4. ASSUME NEW p \in Capturers, CapStartStream(p) PROVE CapMediaOK'
  BY <1>4 DEF CapStartStream
<1>5. ASSUME NEW p \in Capturers, CapFinishStream(p) \/ CapKill(p) PROVE CapMediaOK'
  BY <1>5 DEF CapFinishStream, CapKill
<1>6. ASSUME NEW p \in Capturers, CapStep(p),
             ~(\/ CapDiscover(p) \/ CapConfigure(p) \/ CapReadTopology(p)
               \/ CapStartStream(p) \/ CapFinishStream(p) \/ CapKill(p))
      PROVE  CapMediaOK'
  BY <1>6 DEF CapStep, CapBegin, CapMediaFree, CapVideoFree, CapReserve, CapRelease,
     CapReleased, CapWriteBefore, CapVerifyFormat, CapWriteAfter, CapConfirm, CapStartLog,
     CapCollectLog, CapFailed, CapCheckBuffers, CapAnalyse, CapInspect,
     CapWriteStatistics, CapFails
<1>7. CASE CapEditSetting \/ CapEditRoute
  BY <1>7 DEF CapEditSetting, CapEditRoute
<1>8. CASE CapClientStarts \/ CapClientStops
  BY <1>8 DEF CapClientStarts, CapClientStops
<1>9. CASE CapEmit \/ CapExchange
  BY <1>9 DEF CapEmit, CapExchange
<1>. QED
  BY <1>1, <1>2, <1>3, <1>4, <1>5, <1>6, <1>7, <1>8, <1>9 DEF CapNext

(* Every step that changes a file gives it a maker and a writer.             *)
LEMMA CapFilesNext == CapFilesOK /\ CapPlacesOK /\ CapCounts /\ CapNext => CapFilesOK'
<1> SUFFICES ASSUME CapFilesOK, CapPlacesOK, CapCounts, CapNext PROVE CapFilesOK'
  OBVIOUS
<1>. USE DEF CapFilesOK, capDisk, capPast, File
<1>1. ASSUME NEW p \in Capturers, NEW f \in CapFiles,
             UNCHANGED capExchanged,
             Hurt(p, f) \/ UNCHANGED capHurt,
             \/ UNCHANGED capFile
             \/ capFile' = [capFile EXCEPT ![f].holds = p]
             \/ capFile' = [capFile EXCEPT ![f] = File(p, Nil)]
             \/ capFile' = [capFile EXCEPT ![f] = File(Nil, Nil)]
             \/ capFile' = [capFile EXCEPT ![f] = File(IF @.made = Nil THEN p ELSE @.made, p)]
      PROVE  CapFilesOK'
  <2>1. capHurt' \subseteq CapFiles
    BY <1>1 DEF Hurt
  <2>2. capFile[f].made \in Capturers \cup {Nil, Client} /\ capFile[f].holds \in Capturers \cup {Nil}
    OBVIOUS
  <2>. QED
    BY <1>1, <2>1, <2>2
<1>2. ASSUME NEW p \in Capturers, CapReserve(p) PROVE CapFilesOK'
  <2>0. capAt[p] \in Nat /\ capAt[p] <= 6
    BY <1>2 DEF CapReserve, CapCounts, CapPlacesOK
  <2>1. capAt[p] + 1 \in 1 .. 6 \/ capAt[p] = Len(Evidence)
    BY <2>0, EvidenceNames
  <2>2. CASE capAt[p] = Len(Evidence)
    BY <1>2, <2>2 DEF CapReserve
  <2>3. CASE capAt[p] # Len(Evidence)
    <3>1. Evidence[capAt[p] + 1] \in CapFiles
      BY <2>1, <2>3, EvidenceNames
    <3>. QED
      BY <1>2, <2>3, <3>1, <1>1 DEF CapReserve
  <2>. QED
    BY <2>2, <2>3
<1>3. ASSUME NEW p \in Capturers, CapRelease(p) PROVE CapFilesOK'
  <2>0. capAt[p] \in Nat /\ capAt[p] <= 6 /\ capAt[p] > 0
    BY <1>3 DEF CapRelease, CapCounts, CapPlacesOK
  <2>1. Evidence[capAt[p]] \in CapFiles
    BY <2>0, EvidenceNames
  <2>. QED
    BY <1>3, <2>1, <1>1 DEF CapRelease
<1>4. ASSUME NEW p \in Capturers, CapWriteBefore(p) PROVE CapFilesOK'
  BY <1>4, <1>1 DEF CapWriteBefore, CapWrite, CapFiles
<1>5. ASSUME NEW p \in Capturers, CapWriteAfter(p) PROVE CapFilesOK'
  BY <1>5, <1>1 DEF CapWriteAfter, CapWrite, CapFiles
<1>6. ASSUME NEW p \in Capturers, CapStartStream(p) PROVE CapFilesOK'
  BY <1>6, <1>1 DEF CapStartStream, CapWrite, CapFiles
<1>7. ASSUME NEW p \in Capturers, CapFinishStream(p) PROVE CapFilesOK'
  BY <1>7, <1>1 DEF CapFinishStream, CapFiles
<1>8. ASSUME NEW p \in Capturers, CapCollectLog(p) \/ CapFailed(p) PROVE CapFilesOK'
  BY <1>8, <1>1 DEF CapCollectLog, CapFailed, KeepLog, CapWrite, CapFiles
<1>9. ASSUME NEW p \in Capturers, CapWriteStatistics(p) PROVE CapFilesOK'
  BY <1>9, <1>1 DEF CapWriteStatistics, CapFiles
<1>10. ASSUME NEW p \in Capturers, CapStep(p),
              ~(\/ CapReserve(p) \/ CapRelease(p) \/ CapWriteBefore(p) \/ CapWriteAfter(p)
                \/ CapStartStream(p) \/ CapFinishStream(p) \/ CapCollectLog(p)
                \/ CapFailed(p) \/ CapWriteStatistics(p))
       PROVE  CapFilesOK'
  BY <1>10 DEF CapStep, CapBegin, CapDiscover, CapMediaFree, CapVideoFree, CapReleased,
     CapConfigure, CapVerifyFormat, CapReadTopology, CapConfirm, CapStartLog,
     CapCheckBuffers, CapAnalyse, CapInspect, CapFails, CapKill
<1>11. CASE CapExchange
  BY <1>11 DEF CapExchange
<1>12. CASE CapWorld /\ ~CapExchange
  BY <1>12 DEF CapWorld, CapEmit, CapEditSetting, CapEditRoute, CapClientStarts,
     CapClientStops
<1>. QED
  BY <1>2, <1>3, <1>4, <1>5, <1>6, <1>7, <1>8, <1>9, <1>10, <1>11, <1>12
     DEF CapNext, CapWorld

LEMMA CapMarksNext == CapMarksOK /\ CapNext => CapMarksOK'
<1> SUFFICES ASSUME CapMarksOK, CapNext PROVE CapMarksOK'
  OBVIOUS
<1>1. /\ capEdits' = capEdits \/ capEdits' = capEdits + 1
      /\ capFaults' = capFaults \/ capFaults' = capFaults + 1
      /\ capLogged' \subseteq Capturers
      /\ capNoise' \subseteq Capturers
      /\ capDisturbed' \subseteq Capturers
  <2>1. CASE CapWorld
    BY <2>1 DEF CapMarksOK, CapWorld, CapEmit, CapEditSetting, CapEditRoute,
       CapClientStarts, CapClientStops, CapExchange, CapEdit, CapFault, capLog, capPast,
       Checked
  <2>2. ASSUME NEW p \in Capturers, CapStep(p)
        PROVE  /\ UNCHANGED <<capNoise, capDisturbed, capEdits>>
               /\ capLogged' \subseteq capLogged
               /\ capFaults' = capFaults \/ capFaults' = capFaults + 1
    BY <2>2 DEF CapStep, CapBegin, CapDiscover, CapMediaFree, CapVideoFree, CapReserve,
       CapRelease, CapReleased, CapWriteBefore, CapConfigure, CapVerifyFormat,
       CapReadTopology, CapWriteAfter, CapConfirm, CapStartLog, CapStartStream,
       CapFinishStream, CapCollectLog, CapFailed, CapCheckBuffers, CapAnalyse, CapInspect,
       CapWriteStatistics, CapFails, CapKill, CapFault, capLog, capPast
  <2>. QED
    BY <2>1, <2>2 DEF CapNext, CapWorld, CapMarksOK
<1>. QED
  BY <1>1 DEF CapMarksOK

LEMMA CapTypedStep ==
  CapTyped /\ CapCounts /\ [CapNext]_capVars => CapTyped' /\ CapCounts'
<1> SUFFICES ASSUME CapTyped, CapCounts, [CapNext]_capVars PROVE CapTyped' /\ CapCounts'
  OBVIOUS
<1>1. ASSUME NEW p \in Capturers, CapStep(p) PROVE CapPlacesOK' /\ CapCounts'
  <2>1. CapPlacesOK'
    BY <1>1, CapOwnStep DEF CapPlacesOK, CapTyped
  <2>2. ASSUME NEW q \in Capturers
        PROVE  /\ capPc'[q] \in CapAtSteps => capAt'[q] = 0
               /\ capPc'[q] \in {"reserve", "release"} => capAt'[q] <= 6
               /\ capPc'[q] = "configure" => capAt'[q] < Settings
               /\ capAnswer'[q] # "none" => capPc'[q] = "done"
    <3>1. CASE q = p
      <4>1. capPc[p] # "done"
        BY <1>1, CapOwnStep DEF CapTyped, CapFlow
      <4>. QED
        BY <1>1, <3>1, <4>1, CapOwnStep DEF CapTyped, CapCounts
    <3>2. CASE q # p
      <4>1. capPc'[q] = capPc[q] /\ capAt'[q] = capAt[q] /\ capAnswer'[q] = capAnswer[q]
        BY <1>1, <3>2, CapOthers DEF CapTyped
      <4>. QED
        BY <4>1 DEF CapCounts
    <3>. QED
      BY <3>1, <3>2
  <2>. QED
    BY <2>1, <2>2 DEF CapCounts
<1>2. ASSUME CapWorld PROVE CapPlacesOK' /\ CapCounts'
  BY <1>2, CapApart DEF CapTyped, CapPlacesOK, CapCounts
<1>3. CASE UNCHANGED capVars
  BY <1>3 DEF CapTyped, CapMediaOK, CapFilesOK, CapPlacesOK, CapMarksOK, CapCounts,
     capVars, capMedia, capDisk, capOwn, capLog, capPast
<1>4. CASE CapNext
  <2>1. CapPlacesOK' /\ CapCounts'
    BY <1>1, <1>2, <1>4 DEF CapNext, CapWorld
  <2>2. CapMediaOK' /\ CapFilesOK' /\ CapMarksOK'
    BY <1>4, CapMediaNext, CapFilesNext, CapMarksNext DEF CapTyped
  <2>. QED
    BY <2>1, <2>2 DEF CapTyped
<1>. QED
  BY <1>3, <1>4

LEMMA CapTypedAlways == CapSpec => [](CapTyped /\ CapCounts)
<1>. QED
  BY CapTypedInit, CapCountsInit, CapTypedStep, PTL DEF CapSpec

(* The variables of the captures keep to their sets.                         *)
THEOREM CapTypeCorrect == CapSpec => []CapTypeOK
<1>1. CapTyped => CapTypeOK
  BY DEF CapTyped, CapMediaOK, CapFilesOK, CapPlacesOK, CapMarksOK, CapTypeOK
<1>. QED
  BY <1>1, CapTypedAlways, PTL

-----------------------------------------------------------------------------
(* What a capture has reserved and not given up is its own file, unless      *)
(* others removed or replaced it.                                            *)

CapAfter == {"before", "configure", "format", "topology", "after", "confirm", "log",
             "stream", "streaming", "kernel", "failed", "buffers", "analyse", "statistics"}

Holds(p, f) ==
    \/ capPc[p] \in CapAfter \/ capAnswer[p] = "captured"
    \/ capPc[p] \in {"reserve", "release"} /\ \E k \in 1 .. capAt[p] : Evidence[k] = f

CapOwned ==
    \A p \in Capturers, f \in CapFiles :
        Holds(p, f) => capFile[f].made = p \/ f \in capExchanged

CapKept == CapOwned /\ OthersFilesKept

LEMMA CapKeptInit == CapInit => CapKept
BY DEF CapInit, CapKept, CapOwned, OthersFilesKept, Holds, CapAfter

(* What a step may do to a file.                                             *)
Touch(p, f) ==
    \/ capFile'[f] = capFile[f]
    \/ /\ capPc[p] = "reserve" /\ capFile[f].made = Nil /\ capFile'[f] = File(p, Nil)
       /\ f = Evidence[capAt[p] + 1]
    \/ /\ capPc[p] = "release" /\ capFile'[f] = File(Nil, Nil)
       /\ f = Evidence[capAt[p]] /\ capAt[p] > 0
    \/ /\ capPc[p] \in CapAfter /\ capFile'[f].holds = p
       /\ \/ capFile'[f].made = capFile[f].made
          \/ capFile[f].made = Nil /\ capFile'[f].made = p

LEMMA CapTouches ==
  ASSUME CapFilesOK, CapPlacesOK, CapCounts, NEW p \in Capturers, CapStep(p),
         NEW f \in CapFiles
  PROVE  /\ Touch(p, f)
         /\ f \in capHurt' /\ f \notin capHurt =>
                Holds(p, f) /\ capFile[f].made \notin {Nil, p}
         /\ UNCHANGED capExchanged
<1>. USE DEF CapFilesOK, capDisk, capPast, File, Touch
<1>0. capFile[f] \in [made : Capturers \cup {Nil, Client}, holds : Capturers \cup {Nil}]
  OBVIOUS
<1>1. ASSUME capPc[p] \in CapAfter, NEW g \in CapFiles,
             UNCHANGED capExchanged,
             Hurt(p, g) \/ UNCHANGED capHurt,
             \/ UNCHANGED capFile
             \/ capFile' = [capFile EXCEPT ![g].holds = p]
             \/ capFile' = [capFile EXCEPT ![g] = File(IF @.made = Nil THEN p ELSE @.made, p)]
      PROVE  /\ Touch(p, f)
             /\ f \in capHurt' /\ f \notin capHurt =>
                    Holds(p, f) /\ capFile[f].made \notin {Nil, p}
             /\ UNCHANGED capExchanged
  <2>1. f \in capHurt' /\ f \notin capHurt => Holds(p, f) /\ capFile[f].made \notin {Nil, p}
    BY <1>1 DEF Hurt, Holds
  <2>2. Touch(p, f)
    <3>1. CASE g # f \/ UNCHANGED capFile
      BY <1>1, <3>1
    <3>2. CASE g = f
      BY <1>0, <1>1, <3>2
    <3>. QED
      BY <3>1, <3>2
  <2>. QED
    BY <1>1, <2>1, <2>2
<1>2. CASE CapReserve(p)
  <2>0. capAt[p] \in Nat /\ capAt[p] <= 6
    BY <1>2 DEF CapReserve, CapCounts, CapPlacesOK
  <2>1. capAt[p] = Len(Evidence) \/ Evidence[capAt[p] + 1] \in CapFiles
    BY <2>0, EvidenceNames
  <2>. QED
    BY <1>2, <2>1 DEF CapReserve
<1>3. CASE CapRelease(p)
  <2>0. capAt[p] \in Nat /\ capAt[p] <= 6 /\ capAt[p] > 0
    BY <1>3 DEF CapRelease, CapCounts, CapPlacesOK
  <2>1. Evidence[capAt[p]] \in CapFiles /\ capAt[p] \in 1 .. capAt[p]
    BY <2>0, EvidenceNames
  <2>2. f \in capHurt' /\ f \notin capHurt => Holds(p, f) /\ capFile[f].made \notin {Nil, p}
    BY <1>3, <2>1 DEF CapRelease, Hurt, Holds
  <2>. QED
    BY <1>3, <2>0, <2>1, <2>2 DEF CapRelease
<1>4. CASE CapWriteBefore(p)
  BY <1>4, <1>1 DEF CapWriteBefore, CapWrite, CapFiles, CapAfter
<1>5. CASE CapWriteAfter(p)
  BY <1>5, <1>1 DEF CapWriteAfter, CapWrite, CapFiles, CapAfter
<1>6. CASE CapStartStream(p)
  BY <1>6, <1>1 DEF CapStartStream, CapWrite, CapFiles, CapAfter
<1>7. CASE CapFinishStream(p)
  BY <1>7, <1>1 DEF CapFinishStream, CapFiles, CapAfter
<1>8. CASE CapCollectLog(p) \/ CapFailed(p)
  BY <1>8, <1>1 DEF CapCollectLog, CapFailed, KeepLog, CapWrite, CapFiles, CapAfter
<1>9. CASE CapWriteStatistics(p)
  BY <1>9, <1>1 DEF CapWriteStatistics, CapFiles, CapAfter
<1>10. CASE ~(\/ CapReserve(p) \/ CapRelease(p) \/ CapWriteBefore(p) \/ CapWriteAfter(p)
              \/ CapStartStream(p) \/ CapFinishStream(p) \/ CapCollectLog(p)
              \/ CapFailed(p) \/ CapWriteStatistics(p))
  BY <1>10 DEF CapStep, CapBegin, CapDiscover, CapMediaFree, CapVideoFree, CapReleased,
     CapConfigure, CapVerifyFormat, CapReadTopology, CapConfirm, CapStartLog,
     CapCheckBuffers, CapAnalyse, CapInspect, CapFails, CapKill
<1>. QED
  BY <1>2, <1>3, <1>4, <1>5, <1>6, <1>7, <1>8, <1>9, <1>10

(* How many files are reserved.                                              *)
LEMMA CapReserved ==
  ASSUME CapPlacesOK, CapCounts, NEW p \in Capturers, CapStep(p)
  PROVE  /\ capPc[p] = "video" => capAt'[p] = capAt[p]
         /\ capPc[p] = "reserve" /\ capPc'[p] = "before" => capAt[p] = 6
         /\ capPc[p] = "reserve" /\ capPc'[p] = "release" => capAt'[p] = capAt[p]
         /\ capPc[p] = "reserve" /\ capPc'[p] = "reserve" =>
                /\ capAt'[p] = capAt[p] + 1
                /\ capFile' = [capFile EXCEPT ![Evidence[capAt[p] + 1]] = File(p, Nil)]
         /\ capPc[p] = "release" /\ capPc'[p] = "release" =>
                capAt'[p] = capAt[p] - 1 /\ capAt[p] > 0
<1>. USE EvidenceNames DEF CapPlacesOK, CapTo, CapEnd, CapStop, CapUnless
<1>1. CASE CapReserve(p)
  BY <1>1 DEF CapReserve
<1>2. CASE CapRelease(p)
  BY <1>2 DEF CapRelease
<1>3. CASE CapReleased(p)
  BY <1>3 DEF CapReleased
<1>4. CASE CapFails(p)
  BY <1>4 DEF CapFails, capOwn
<1>5. CASE CapKill(p)
  BY <1>5 DEF CapKill, capOwn
<1>6. CASE ~(CapReserve(p) \/ CapRelease(p) \/ CapReleased(p) \/ CapFails(p) \/ CapKill(p))
  BY <1>6 DEF CapStep, CapBegin, CapDiscover, CapMediaFree, CapVideoFree, CapWriteBefore,
     CapConfigure, CapVerifyFormat, CapReadTopology, CapWriteAfter, CapConfirm,
     CapStartLog, CapStartStream, CapFinishStream, CapCollectLog, CapFailed,
     CapCheckBuffers, CapAnalyse, CapInspect, CapWriteStatistics, capOwn
<1>. QED
  BY <1>1, <1>2, <1>3, <1>4, <1>5, <1>6

(* A capture newly holds only what it has just reserved.                     *)
LEMMA CapHoldsNext ==
  ASSUME CapTyped, CapCounts, NEW p \in Capturers, CapStep(p), NEW f \in CapFiles,
         Holds(p, f)'
  PROVE  \/ Holds(p, f) /\ (capPc[p] = "release" /\ capAt[p] > 0 => f # Evidence[capAt[p]])
         \/ capFile'[f].made = p
<1>0. /\ CapFlow(capPc[p], capPc'[p]) /\ capPc[p] \in CapPcs
      /\ capAnswer'[p] = "captured" /\ capAnswer[p] # "captured" => CapWriteStatistics(p)
      /\ capPc'[p] \in CapAtSteps => capAt'[p] = 0
      /\ capAt[p] \in Nat /\ capAt'[p] \in Nat
  BY CapOwnStep DEF CapTyped, CapPlacesOK
<1>1. CASE capAnswer'[p] = "captured"
  <2>1. CASE CapWriteStatistics(p)
    BY <2>1 DEF CapWriteStatistics, Holds, CapAfter
  <2>2. CASE capAnswer[p] = "captured"
    BY <1>0, <2>2 DEF CapCounts, CapFlow
  <2>. QED
    BY <1>0, <1>1, <2>1, <2>2
<1>2. CASE capPc'[p] \in CapAfter
  <2>1. capPc[p] \in CapAfter \/ (capPc[p] = "reserve" /\ capPc'[p] = "before")
    BY <1>0, <1>2 DEF CapFlow, CapAfter, CapPcs, CapWork
  <2>2. CASE capPc[p] \in CapAfter
    BY <2>2 DEF Holds, CapAfter
  <2>3. CASE capPc[p] = "reserve" /\ capPc'[p] = "before"
    <3>1. capAt[p] = 6
      BY <2>3, CapReserved DEF CapTyped
    <3>2. \E k \in 1 .. capAt[p] : Evidence[k] = f
      BY <3>1, EvidenceNames
    <3>. QED
      BY <2>3, <3>2 DEF Holds
  <2>. QED
    BY <2>1, <2>2, <2>3
<1>3. CASE capAnswer'[p] # "captured" /\ capPc'[p] \in {"reserve", "release"}
  <2>. PICK k \in 1 .. capAt'[p] : Evidence[k] = f
    BY <1>3 DEF Holds, CapAfter
  <2>0. capPc[p] \in {"video", "reserve", "release"}
    BY <1>0, <1>3 DEF CapFlow, CapPcs, CapWork
  <2>1. CASE capPc[p] = "video"
    <3>1. capPc'[p] = "reserve" /\ capAt[p] = 0
      BY <1>0, <1>3, <2>1 DEF CapFlow, CapCounts, CapAtSteps
    <3>2. capAt'[p] = 0
      BY <2>1, <3>1, CapReserved DEF CapTyped
    <3>. QED
      BY <3>2
  <2>2. CASE capPc[p] = "reserve" /\ capPc'[p] = "release"
    <3>1. capAt'[p] = capAt[p]
      BY <2>2, CapReserved DEF CapTyped
    <3>. QED
      BY <2>2, <3>1 DEF Holds
  <2>3. CASE capPc[p] = "reserve" /\ capPc'[p] = "reserve"
    <3>1. /\ capAt'[p] = capAt[p] + 1
          /\ capFile' = [capFile EXCEPT ![Evidence[capAt[p] + 1]] = File(p, Nil)]
      BY <2>3, CapReserved DEF CapTyped
    <3>2. CASE k = capAt[p] + 1
      BY <3>1, <3>2 DEF CapTyped, CapFilesOK, File
    <3>3. CASE k # capAt[p] + 1
      <4>1. k \in 1 .. capAt[p]
        BY <1>0, <3>1, <3>3
      <4>. QED
        BY <2>3, <4>1 DEF Holds
    <3>. QED
      BY <3>2, <3>3
  <2>4. CASE capPc[p] = "release"
    <3>1. capPc'[p] = "release"
      BY <1>0, <1>3, <2>4 DEF CapFlow
    <3>2. capAt'[p] = capAt[p] - 1 /\ capAt[p] > 0 /\ capAt[p] <= 6
      BY <2>4, <3>1, CapReserved DEF CapTyped, CapCounts
    <3>3. k \in 1 .. capAt[p] /\ k # capAt[p] /\ k \in 1 .. 6 /\ capAt[p] \in 1 .. 6
      BY <1>0, <3>2
    <3>4. f # Evidence[capAt[p]]
      BY <3>3, EvidenceNames
    <3>. QED
      BY <2>4, <3>3, <3>4 DEF Holds
  <2>. QED
    BY <1>3, <2>0, <2>1, <2>2, <2>3, <2>4
<1>. QED
  BY <1>1, <1>2, <1>3 DEF Holds

LEMMA CapOwnedStep ==
  ASSUME CapTyped, CapCounts, CapOwned, NEW p \in Capturers, CapStep(p),
         NEW q \in Capturers, NEW f \in CapFiles, Holds(q, f)'
  PROVE  capFile'[f].made = q \/ f \in capExchanged'
<1>0. Touch(p, f) /\ UNCHANGED capExchanged
  BY CapTouches DEF CapTyped
<1>1. CASE q = p
  <2>1. CASE capFile'[f].made = p
    BY <1>1, <2>1
  <2>2. CASE Holds(p, f) /\ (capPc[p] = "release" /\ capAt[p] > 0 => f # Evidence[capAt[p]])
    <3>1. capFile[f].made = p \/ f \in capExchanged
      BY <2>2 DEF CapOwned
    <3>. QED
      BY <1>0, <1>1, <2>2, <3>1, CaptureAssumption DEF Touch
  <2>. QED
    BY <1>1, <2>1, <2>2, CapHoldsNext
<1>2. CASE q # p
  <2>1. Holds(q, f)
    BY <1>2, CapOthers DEF Holds, CapTyped
  <2>2. capFile[f].made = q \/ f \in capExchanged
    BY <2>1 DEF CapOwned
  <2>3. CASE capFile[f].made = q
    <3>1. CASE capPc[p] = "release" /\ f = Evidence[capAt[p]] /\ capAt[p] > 0
      <4>1. Holds(p, f)
        BY <3>1 DEF Holds, CapTyped, CapPlacesOK
      <4>. QED
        BY <1>0, <1>2, <2>3, <4>1 DEF CapOwned
    <3>. QED
      BY <1>0, <2>3, <3>1, CaptureAssumption DEF Touch
  <2>. QED
    BY <1>0, <2>2, <2>3
<1>. QED
  BY <1>1, <1>2

LEMMA CapKeptStep == CapTyped /\ CapCounts /\ CapKept /\ [CapNext]_capVars => CapKept'
<1> SUFFICES ASSUME CapTyped, CapCounts, CapKept, [CapNext]_capVars PROVE CapKept'
  OBVIOUS
<1>1. ASSUME NEW p \in Capturers, CapStep(p) PROVE CapKept'
  <2>1. CapOwned'
    BY <1>1, CapOwnedStep DEF CapOwned, CapKept
  <2>2. capHurt' \subseteq CapFiles
    BY <1>1, CapFilesNext DEF CapTyped, CapNext, CapFilesOK
  <2>3. ASSUME NEW f \in capHurt' PROVE f \in capExchanged'
    BY <1>1, <2>2, CapTouches DEF CapKept, CapOwned, OthersFilesKept, CapTyped
  <2>. QED
    BY <2>1, <2>3 DEF CapKept, OthersFilesKept
<1>2. CASE CapExchange
  <2>1. UNCHANGED <<capPc, capAt, capAnswer, capHurt>> /\ capExchanged \subseteq capExchanged'
    BY <1>2 DEF CapExchange, capOwn
  <2>2. ASSUME NEW q \in Capturers, NEW f \in CapFiles, Holds(q, f)
        PROVE  capFile'[f].made = q \/ f \in capExchanged'
    BY <1>2, <2>1, <2>2 DEF CapExchange, CapKept, CapOwned, CapTyped, CapFilesOK, File
  <2>. QED
    BY <2>1, <2>2 DEF CapKept, CapOwned, OthersFilesKept, Holds
<1>3. CASE CapWorld /\ ~CapExchange
  <2>1. UNCHANGED <<capPc, capAt, capAnswer, capHurt, capFile, capExchanged>>
    BY <1>3 DEF CapWorld, CapEmit, CapEditSetting, CapEditRoute, CapClientStarts,
       CapClientStops, capOwn, capDisk, capPast
  <2>. QED
    BY <2>1 DEF CapKept, CapOwned, OthersFilesKept, Holds
<1>4. CASE UNCHANGED capVars
  BY <1>4 DEF CapKept, CapOwned, OthersFilesKept, Holds, capVars, capDisk, capOwn, capPast
<1>. QED
  BY <1>1, <1>2, <1>3, <1>4 DEF CapNext, CapWorld

LEMMA CapKeptAlways == CapSpec => []CapKept
<1>. QED
  BY CapKeptInit, CapKeptStep, CapTypedAlways, PTL DEF CapSpec

(* However many captures run under one name, none writes to or removes a     *)
(* file it has not reserved, unless others exchanged what it had.            *)
THEOREM OthersFilesAlwaysKept == CapSpec => []OthersFilesKept
<1>1. CapKept => OthersFilesKept
  BY DEF CapKept
<1>. QED
  BY <1>1, CapKeptAlways, PTL

-----------------------------------------------------------------------------
(* Only one user streams, and an error the kernel emits meanwhile ends that  *)
(* capture.                                                                  *)

CapStreams == \A p \in Capturers : capPc[p] = "streaming" <=> capUser = p

CapHeard ==
    \A p \in capNoise :
        \/ capPc[p] \in {"streaming", "kernel"} /\ p \in capLogged
        \/ capPc[p] \in {"failed", "done", "dead"} /\ capAnswer[p] # "captured"

CapListens == CapStreams /\ CapHeard

LEMMA CapListensInit == CapInit => CapListens
BY CaptureAssumption DEF CapInit, CapListens, CapStreams, CapHeard

LEMMA CapUserStep ==
  ASSUME CapMediaOK, CapPlacesOK, NEW p \in Capturers, CapStep(p), CapStreams
  PROVE  \/ UNCHANGED capUser /\ (capPc'[p] = "streaming" <=> capPc[p] = "streaming")
         \/ capUser = Nil /\ capUser' = p /\ capPc'[p] = "streaming"
         \/ capUser = p /\ capUser' = Nil /\ capPc'[p] # "streaming"
<1>. USE CaptureAssumption DEF CapPlacesOK, CapMediaOK, CapTo, CapEnd, CapStop, CapUnless,
         capMedia, CapWrite, CapStreams
<1>1. CASE CapBegin(p) \/ CapDiscover(p) \/ CapMediaFree(p) \/ CapVideoFree(p)
  BY <1>1 DEF CapBegin, CapDiscover, CapMediaFree, CapVideoFree
<1>2. CASE CapReserve(p) \/ CapRelease(p) \/ CapReleased(p)
  BY <1>2 DEF CapReserve, CapRelease, CapReleased
<1>3. CASE CapWriteBefore(p) \/ CapWriteAfter(p)
  BY <1>3 DEF CapWriteBefore, CapWriteAfter
<1>4. CASE CapConfigure(p) \/ CapVerifyFormat(p) \/ CapReadTopology(p)
  BY <1>4 DEF CapConfigure, CapVerifyFormat, CapReadTopology
<1>5. CASE CapConfirm(p) \/ CapStartLog(p) \/ CapFailed(p)
  BY <1>5 DEF CapConfirm, CapStartLog, CapFailed
<1>6. CASE CapStartStream(p)
  BY <1>6 DEF CapStartStream
<1>7. CASE CapFinishStream(p)
  BY <1>7 DEF CapFinishStream
<1>8. CASE CapCollectLog(p) \/ CapWriteStatistics(p)
  BY <1>8 DEF CapCollectLog, CapWriteStatistics
<1>9. CASE CapCheckBuffers(p) \/ CapAnalyse(p)
  BY <1>9 DEF CapCheckBuffers, CapAnalyse, CapInspect
<1>10. CASE CapFails(p)
  BY <1>10 DEF CapFails
<1>11. CASE CapKill(p)
  BY <1>11 DEF CapKill
<1>. QED
  BY <1>1, <1>2, <1>3, <1>4, <1>5, <1>6, <1>7, <1>8, <1>9, <1>10, <1>11 DEF CapStep

LEMMA CapStreamsStep ==
  ASSUME CapTyped, CapCounts, NEW p \in Capturers, CapStep(p), CapStreams
  PROVE  CapStreams'
<1> SUFFICES ASSUME NEW q \in Capturers
             PROVE  capPc'[q] = "streaming" <=> capUser' = q
  BY DEF CapStreams
<1>1. \/ UNCHANGED capUser /\ (capPc'[p] = "streaming" <=> capPc[p] = "streaming")
      \/ capUser = Nil /\ capUser' = p /\ capPc'[p] = "streaming"
      \/ capUser = p /\ capUser' = Nil /\ capPc'[p] # "streaming"
  BY CapUserStep DEF CapTyped
<1>2. CASE q = p
  BY <1>1, <1>2, CaptureAssumption DEF CapStreams
<1>3. CASE q # p
  <2>1. capPc'[q] = capPc[q]
    BY <1>3, CapOthers DEF CapTyped
  <2>. QED
    BY <1>1, <1>3, <2>1, CaptureAssumption DEF CapStreams
<1>. QED
  BY <1>2, <1>3

(* What a capture's own step does with an error it has heard.                *)
LEMMA CapLogStep ==
  ASSUME CapPlacesOK, NEW p \in Capturers, CapStep(p)
  PROVE  /\ UNCHANGED capNoise
         /\ capLogged' = capLogged \/ (capPc[p] = "log" /\ capLogged' = capLogged \ {p})
         /\ capPc[p] = "kernel" /\ p \in capLogged => capPc'[p] \in {"done", "dead"}
<1>. USE DEF CapPlacesOK, CapTo, CapEnd, CapStop, CapUnless, capLog
<1>1. CASE CapStartLog(p)
  BY <1>1 DEF CapStartLog
<1>2. CASE CapCollectLog(p)
  BY <1>2 DEF CapCollectLog
<1>3. CASE CapFails(p)
  BY <1>3 DEF CapFails
<1>4. CASE CapKill(p)
  BY <1>4 DEF CapKill
<1>5. CASE ~(CapStartLog(p) \/ CapCollectLog(p) \/ CapFails(p) \/ CapKill(p))
  BY <1>5 DEF CapStep, CapBegin, CapDiscover, CapMediaFree, CapVideoFree, CapReserve,
     CapRelease, CapReleased, CapWriteBefore, CapConfigure, CapVerifyFormat,
     CapReadTopology, CapWriteAfter, CapConfirm, CapStartStream, CapFinishStream,
     CapFailed, CapCheckBuffers, CapAnalyse, CapInspect, CapWriteStatistics
<1>. QED
  BY <1>1, <1>2, <1>3, <1>4, <1>5

LEMMA CapListensStep ==
  CapTyped /\ CapCounts /\ CapListens /\ [CapNext]_capVars => CapListens'
<1> SUFFICES ASSUME CapTyped, CapCounts, CapListens, [CapNext]_capVars PROVE CapListens'
  OBVIOUS
<1>1. ASSUME NEW p \in Capturers, CapStep(p) PROVE CapListens'
  <2>1. CapStreams'
    BY <1>1, CapStreamsStep DEF CapListens
  <2>2. UNCHANGED capNoise /\ capNoise \subseteq Capturers
    BY <1>1, CapLogStep DEF CapTyped, CapMarksOK
  <2>3. ASSUME NEW q \in capNoise
        PROVE  \/ capPc'[q] \in {"streaming", "kernel"} /\ q \in capLogged'
               \/ capPc'[q] \in {"failed", "done", "dead"} /\ capAnswer'[q] # "captured"
    <3>1. \/ capPc[q] \in {"streaming", "kernel"} /\ q \in capLogged
          \/ capPc[q] \in {"failed", "done", "dead"} /\ capAnswer[q] # "captured"
      BY DEF CapListens, CapHeard
    <3>2. CASE q = p
      <4>1. /\ CapFlow(capPc[p], capPc'[p])
            /\ capAnswer'[p] = "captured" /\ capAnswer[p] # "captured" => CapWriteStatistics(p)
        BY <1>1, CapOwnStep DEF CapTyped
      <4>2. capPc[p] # "statistics" => ~CapWriteStatistics(p)
        BY DEF CapWriteStatistics
      <4>3. /\ capLogged' = capLogged \/ capPc[p] = "log"
            /\ capPc[p] = "kernel" /\ p \in capLogged => capPc'[p] \in {"done", "dead"}
        BY <1>1, CapLogStep DEF CapTyped
      <4>4. capPc[p] \in {"streaming", "kernel"} => capAnswer[p] # "captured"
        BY DEF CapCounts
      <4>. QED
        BY <3>1, <3>2, <4>1, <4>2, <4>3, <4>4 DEF CapFlow
    <3>3. CASE q # p
      <4>1. capPc'[q] = capPc[q] /\ capAnswer'[q] = capAnswer[q]
        BY <1>1, <2>2, <3>3, CapOthers DEF CapTyped
      <4>2. q \in capLogged => q \in capLogged'
        BY <1>1, <3>3, CapLogStep DEF CapTyped
      <4>. QED
        BY <3>1, <4>1, <4>2
    <3>. QED
      BY <3>2, <3>3
  <2>. QED
    BY <2>1, <2>2, <2>3 DEF CapListens, CapHeard
<1>2. CASE CapEmit
  <2>1. UNCHANGED <<capPc, capAnswer, capUser>>
    BY <1>2 DEF CapEmit, capMedia
  <2>2. ASSUME NEW q \in capNoise'
        PROVE  \/ capPc[q] \in {"streaming", "kernel"} /\ q \in capLogged'
               \/ capPc[q] \in {"failed", "done", "dead"} /\ capAnswer[q] # "captured"
    <3>1. CASE q \in capNoise
      BY <1>2, <3>1 DEF CapEmit, CapListens, CapHeard, CapTyped, CapMarksOK
    <3>2. CASE q \in Capturers /\ capUser = q
      BY <1>2, <3>2 DEF CapEmit, CapListens, CapStreams
    <3>. QED
      BY <1>2, <3>1, <3>2 DEF CapEmit
  <2>. QED
    BY <2>1, <2>2 DEF CapListens, CapStreams, CapHeard
<1>3. CASE CapClientStarts \/ CapClientStops
  <2>1. UNCHANGED <<capPc, capAnswer, capLogged, capNoise>>
        /\ capUser \in {Nil, Client} /\ capUser' \in {Nil, Client}
    BY <1>3 DEF CapClientStarts, CapClientStops, capLog
  <2>. QED
    BY <2>1, CaptureAssumption DEF CapListens, CapStreams, CapHeard
<1>4. CASE CapEditSetting \/ CapEditRoute \/ CapExchange
  BY <1>4 DEF CapEditSetting, CapEditRoute, CapExchange, capLog, capMedia, CapListens,
     CapStreams, CapHeard
<1>5. CASE UNCHANGED capVars
  BY <1>5 DEF capVars, capLog, capMedia, CapListens, CapStreams, CapHeard
<1>. QED
  BY <1>1, <1>2, <1>3, <1>4, <1>5 DEF CapNext

LEMMA CapListensAlways == CapSpec => []CapListens
<1>. QED
  BY CapListensInit, CapListensStep, CapTypedAlways, PTL DEF CapSpec

-----------------------------------------------------------------------------
(* Unless others disturb it, a capture streams over what it has checked.     *)

CapFrames == {"streaming", "kernel", "buffers", "analyse", "statistics"}

CapChecked ==
    \A p \in Capturers \ capDisturbed :
        /\ capPc[p] \in {"topology", "after", "confirm"} => Settings \in capExact
        /\ capPc[p] \in {"after", "confirm"} => capSeen[p] \subseteq capExact
        /\ capPc[p] \in {"log", "stream"} => capExact = AllSet
        /\ capPc[p] \in CapFrames \/ capAnswer[p] = "captured" => capShot[p] = AllSet

LEMMA CapCheckedInit == CapInit => CapChecked
BY DEF CapInit, CapChecked, CapFrames

(* A capture's step only makes settings, and it takes over what it sees.     *)
LEMMA CapSettingsStep ==
  ASSUME CapMediaOK, CapPlacesOK, NEW p \in Capturers, CapStep(p)
  PROVE  /\ capExact \subseteq capExact' /\ UNCHANGED capDisturbed
         /\ capPc[p] = "format" /\ capPc'[p] = "topology" => Settings \in capExact
         /\ capPc[p] = "topology" /\ capPc'[p] = "after" => capSeen'[p] \subseteq capExact
         /\ capPc[p] # "topology" => capSeen'[p] = capSeen[p]
         /\ capPc[p] = "confirm" /\ capPc'[p] = "log" => capSeen[p] = GraphSet
         /\ capPc[p] = "stream" /\ capPc'[p] = "streaming" => capShot'[p] = capExact
         /\ capPc[p] # "stream" => capShot'[p] = capShot[p]
<1>. USE DEF CapMediaOK, CapPlacesOK, CapTo, CapEnd, CapStop, CapUnless, capMedia, capOwn,
         capPast, CapWrite
<1>1. CASE CapConfigure(p)
  BY <1>1 DEF CapConfigure
<1>2. CASE CapVerifyFormat(p)
  BY <1>2 DEF CapVerifyFormat
<1>3. CASE CapReadTopology(p)
  BY <1>3 DEF CapReadTopology
<1>4. CASE CapConfirm(p)
  BY <1>4 DEF CapConfirm
<1>5. CASE CapStartStream(p)
  BY <1>5 DEF CapStartStream
<1>6. CASE CapFails(p)
  BY <1>6 DEF CapFails
<1>7. CASE CapKill(p)
  BY <1>7 DEF CapKill
<1>8. CASE ~(\/ CapConfigure(p) \/ CapVerifyFormat(p) \/ CapReadTopology(p) \/ CapConfirm(p)
             \/ CapStartStream(p) \/ CapFails(p) \/ CapKill(p))
  BY <1>8 DEF CapStep, CapBegin, CapDiscover, CapMediaFree, CapVideoFree, CapReserve,
     CapRelease, CapReleased, CapWriteBefore, CapWriteAfter, CapStartLog, CapFinishStream,
     CapCollectLog, CapFailed, CapCheckBuffers, CapAnalyse, CapInspect, CapWriteStatistics
<1>. QED
  BY <1>1, <1>2, <1>3, <1>4, <1>5, <1>6, <1>7, <1>8

LEMMA CapCheckedStep ==
  CapTyped /\ CapCounts /\ CapChecked /\ [CapNext]_capVars => CapChecked'
<1> SUFFICES ASSUME CapTyped, CapCounts, CapChecked, [CapNext]_capVars PROVE CapChecked'
  OBVIOUS
<1>0. capExact \subseteq AllSet /\ AllSet = GraphSet \cup {Settings}
  BY CaptureAssumption DEF CapTyped, CapMediaOK, AllSet, GraphSet
<1>1. ASSUME NEW p \in Capturers, CapStep(p) PROVE CapChecked'
  <2>0. capExact \subseteq capExact' /\ UNCHANGED capDisturbed /\ capExact' \subseteq AllSet
    BY <1>1, CapSettingsStep, CapMediaNext DEF CapTyped, CapNext, CapMediaOK
  <2> SUFFICES ASSUME NEW q \in Capturers \ capDisturbed
               PROVE  /\ capPc'[q] \in {"topology", "after", "confirm"} => Settings \in capExact'
                      /\ capPc'[q] \in {"after", "confirm"} => capSeen'[q] \subseteq capExact'
                      /\ capPc'[q] \in {"log", "stream"} => capExact' = AllSet
                      /\ capPc'[q] \in CapFrames \/ capAnswer'[q] = "captured" => capShot'[q] = AllSet
    BY <2>0 DEF CapChecked
  <2>1. /\ capPc[q] \in {"topology", "after", "confirm"} => Settings \in capExact
        /\ capPc[q] \in {"after", "confirm"} => capSeen[q] \subseteq capExact
        /\ capPc[q] \in {"log", "stream"} => capExact = AllSet
        /\ capPc[q] \in CapFrames \/ capAnswer[q] = "captured" => capShot[q] = AllSet
    BY DEF CapChecked
  <2>2. CASE q # p
    <3>1. /\ capPc'[q] = capPc[q] /\ capAnswer'[q] = capAnswer[q]
          /\ capSeen'[q] = capSeen[q] /\ capShot'[q] = capShot[q]
      BY <1>1, <2>2, CapOthers DEF CapTyped
    <3>. QED
      BY <2>0, <2>1, <3>1
  <2>3. CASE q = p
    <3>1. /\ CapFlow(capPc[p], capPc'[p]) /\ capPc[p] \in CapPcs
          /\ capAnswer'[p] = "captured" /\ capAnswer[p] # "captured" => CapWriteStatistics(p)
      BY <1>1, CapOwnStep DEF CapTyped, CapPlacesOK
    <3>2. CapWriteStatistics(p) => capPc[p] = "statistics"
      BY DEF CapWriteStatistics
    <3>3. /\ capPc[p] = "format" /\ capPc'[p] = "topology" => Settings \in capExact
          /\ capPc[p] = "topology" /\ capPc'[p] = "after" => capSeen'[p] \subseteq capExact
          /\ capPc[p] # "topology" => capSeen'[p] = capSeen[p]
          /\ capPc[p] = "confirm" /\ capPc'[p] = "log" => capSeen[p] = GraphSet
          /\ capPc[p] = "stream" /\ capPc'[p] = "streaming" => capShot'[p] = capExact
          /\ capPc[p] # "stream" => capShot'[p] = capShot[p]
      BY <1>1, CapSettingsStep DEF CapTyped
    <3>4. capPc'[p] \in {"topology", "after", "confirm"} => Settings \in capExact'
      BY <2>0, <2>1, <2>3, <3>1, <3>3 DEF CapFlow, CapPcs, CapWork
    <3>5. capPc'[p] \in {"after", "confirm"} => capSeen'[p] \subseteq capExact'
      BY <2>0, <2>1, <2>3, <3>1, <3>3 DEF CapFlow, CapPcs, CapWork
    <3>6. ASSUME capPc'[p] \in {"log", "stream"} PROVE capExact' = AllSet
      <4>1. (capPc[p] = "confirm" /\ capPc'[p] = "log") \/ capPc[p] = "log"
        BY <3>1, <3>6 DEF CapFlow, CapPcs, CapWork
      <4>. QED
        BY <1>0, <2>0, <2>1, <2>3, <3>3, <4>1
    <3>7. ASSUME capPc'[p] \in CapFrames PROVE capShot'[p] = AllSet
      <4>1. (capPc[p] = "stream" /\ capPc'[p] = "streaming") \/ capPc[p] \in CapFrames
        BY <3>1, <3>7 DEF CapFlow, CapPcs, CapWork, CapFrames
      <4>2. capPc[p] \in CapFrames => capPc[p] # "stream"
        BY DEF CapFrames
      <4>. QED
        BY <2>1, <2>3, <3>3, <4>1, <4>2
    <3>8. ASSUME capAnswer'[p] = "captured" PROVE capShot'[p] = AllSet
      <4>1. capPc[p] \in {"statistics", "done"}
        BY <3>1, <3>2, <3>8 DEF CapCounts
      <4>. QED
        BY <2>1, <2>3, <3>1, <3>2, <3>3, <3>8, <4>1 DEF CapFrames
    <3>. QED
      BY <2>3, <3>4, <3>5, <3>6, <3>7, <3>8
  <2>. QED
    BY <2>2, <2>3
<1>2. CASE CapEditSetting
  <2>. PICK s \in capExact : /\ capExact' = capExact \ {s}
                            /\ capDisturbed' = capDisturbed \cup Checked(s)
    BY <1>2 DEF CapEditSetting
  <2>1. UNCHANGED <<capPc, capAnswer, capSeen, capShot>>
    BY <1>2 DEF CapEditSetting, capOwn
  <2>. QED
    BY <2>1 DEF CapChecked, Checked
<1>3. CASE CapEditRoute
  BY <1>3 DEF CapEditRoute, CapChecked, Checked, capOwn
<1>4. CASE CapEmit \/ CapClientStarts \/ CapClientStops \/ CapExchange
  BY <1>4 DEF CapEmit, CapClientStarts, CapClientStops, CapExchange, CapChecked, capOwn,
     capPast, capMedia
<1>5. CASE UNCHANGED capVars
  BY <1>5 DEF capVars, capOwn, capPast, capMedia, CapChecked
<1>. QED
  BY <1>1, <1>2, <1>3, <1>4, <1>5 DEF CapNext

LEMMA CapCheckedAlways == CapSpec => []CapChecked
<1>. QED
  BY CapCheckedInit, CapCheckedStep, CapTypedAlways, PTL DEF CapSpec

-----------------------------------------------------------------------------
(* Its files hold what it wrote.                                             *)

WrittenAt(f) ==
    CASE f = "before" ->
            CapFrames \cup {"configure", "format", "topology", "after", "confirm", "log", "stream"}
      [] f = "after"  -> CapFrames \cup {"confirm", "log", "stream"}
      [] f = "stream" -> CapFrames
      [] f = "raw"    -> CapFrames \ {"streaming"}
      [] f = "kernel" -> CapFrames \ {"streaming", "kernel"}
      [] OTHER -> {}

Written(p, f) == capPc[p] \in WrittenAt(f) \/ capAnswer[p] = "captured"

CapHeld ==
    \A p \in Capturers, f \in CapFiles \ capExchanged : Written(p, f) => capFile[f].holds = p

LEMMA CapHeldInit == CapInit => CapHeld
BY DEF CapInit, CapHeld, Written, WrittenAt, CapFrames

LEMMA WrittenIsHeld ==
  ASSUME NEW p, NEW f \in CapFiles, Written(p, f)
  PROVE  Holds(p, f) /\ (capPc[p] \in CapAfter \/ capAnswer[p] = "captured")
BY DEF Written, WrittenAt, Holds, CapAfter, CapFrames, CapFiles

(* A file becomes written by a write.                                        *)
LEMMA CapWrites ==
  ASSUME CapFilesOK, CapPlacesOK, CapCounts, NEW p \in Capturers, CapStep(p),
         NEW f \in CapFiles, Written(p, f)'
  PROVE  Written(p, f) \/ capFile'[f].holds = p
<1>. USE DEF CapFilesOK, CapPlacesOK, Written, WrittenAt, CapFrames, CapTo, CapEnd, CapStop,
         CapUnless, CapWrite, CapFiles
<1>1. CASE CapWriteBefore(p)
  BY <1>1 DEF CapWriteBefore
<1>2. CASE CapWriteAfter(p)
  BY <1>2 DEF CapWriteAfter
<1>3. CASE CapStartStream(p)
  BY <1>3 DEF CapStartStream
<1>4. CASE CapFinishStream(p)
  BY <1>4 DEF CapFinishStream, File
<1>5. CASE CapCollectLog(p)
  BY <1>5 DEF CapCollectLog
<1>6. CASE CapWriteStatistics(p)
  BY <1>6 DEF CapWriteStatistics
<1>7. CASE CapBegin(p) \/ CapDiscover(p) \/ CapMediaFree(p) \/ CapVideoFree(p)
  BY <1>7 DEF CapBegin, CapDiscover, CapMediaFree, CapVideoFree
<1>8. CASE CapReserve(p) \/ CapRelease(p) \/ CapReleased(p)
  BY <1>8 DEF CapReserve, CapRelease, CapReleased
<1>9. CASE CapConfigure(p) \/ CapVerifyFormat(p) \/ CapReadTopology(p)
  BY <1>9 DEF CapConfigure, CapVerifyFormat, CapReadTopology
<1>10. CASE CapConfirm(p) \/ CapStartLog(p) \/ CapFailed(p)
  BY <1>10 DEF CapConfirm, CapStartLog, CapFailed
<1>11. CASE CapCheckBuffers(p) \/ CapAnalyse(p)
  BY <1>11 DEF CapCheckBuffers, CapAnalyse, CapInspect
<1>12. CASE CapFails(p)
  BY <1>12 DEF CapFails
<1>13. CASE CapKill(p)
  BY <1>13 DEF CapKill
<1>. QED
  BY <1>1, <1>2, <1>3, <1>4, <1>5, <1>6, <1>7, <1>8, <1>9, <1>10, <1>11, <1>12, <1>13
     DEF CapStep

LEMMA CapHeldStep ==
  CapTyped /\ CapCounts /\ CapKept /\ CapHeld /\ [CapNext]_capVars => CapHeld'
<1> SUFFICES ASSUME CapTyped, CapCounts, CapKept, CapHeld, [CapNext]_capVars PROVE CapHeld'
  OBVIOUS
<1>1. ASSUME NEW p \in Capturers, CapStep(p) PROVE CapHeld'
  <2> SUFFICES ASSUME NEW q \in Capturers, NEW f \in CapFiles, f \notin capExchanged',
                      Written(q, f)'
               PROVE  capFile'[f].holds = q
    BY DEF CapHeld
  <2>0. Touch(p, f) /\ f \notin capExchanged
    BY <1>1, CapTouches DEF CapTyped
  <2>1. CASE q = p
    <3>1. CASE Written(p, f)
      <4>1. capFile[f].holds = p
        BY <2>0, <3>1 DEF CapHeld
      <4>2. capPc[p] \notin {"reserve", "release"}
        BY <3>1, WrittenIsHeld DEF CapAfter, CapCounts
      <4>. QED
        BY <2>0, <2>1, <4>1, <4>2 DEF Touch
    <3>. QED
      BY <1>1, <2>1, <3>1, CapWrites DEF CapTyped
  <2>2. CASE q # p
    <3>1. Written(q, f)
      BY <1>1, <2>2, CapOthers DEF Written, CapTyped
    <3>2. capFile[f].made = q /\ capFile[f].holds = q
      BY <2>0, <3>1, WrittenIsHeld DEF CapKept, CapOwned, CapHeld
    <3>3. ~Holds(p, f)
      BY <2>0, <2>2, <3>2 DEF CapKept, CapOwned
    <3>4. capFile'[f] = capFile[f]
      BY <2>0, <3>2, <3>3, CaptureAssumption DEF Touch, Holds, CapTyped, CapPlacesOK
    <3>. QED
      BY <3>2, <3>4
  <2>. QED
    BY <2>1, <2>2
<1>2. CASE CapExchange
  <2>1. UNCHANGED <<capPc, capAnswer>> /\ capExchanged \subseteq capExchanged'
    BY <1>2 DEF CapExchange
  <2>2. ASSUME NEW q \in Capturers, NEW f \in CapFiles, f \notin capExchanged', Written(q, f)
        PROVE  capFile'[f].holds = q
    <3>1. capFile[f].made = q /\ capFile[f].holds = q
      BY <2>1, <2>2, WrittenIsHeld DEF CapKept, CapOwned, CapHeld
    <3>. QED
      BY <1>2, <2>2, <3>1 DEF CapExchange, CapTyped, CapFilesOK
  <2>. QED
    BY <2>1, <2>2 DEF CapHeld, Written
<1>3. CASE CapWorld /\ ~CapExchange
  BY <1>3 DEF CapWorld, CapEmit, CapEditSetting, CapEditRoute, CapClientStarts,
     CapClientStops, capDisk, capPast, CapHeld, Written
<1>4. CASE UNCHANGED capVars
  BY <1>4 DEF capVars, capDisk, capPast, CapHeld, Written
<1>. QED
  BY <1>1, <1>2, <1>3, <1>4 DEF CapNext, CapWorld

LEMMA CapHeldAlways == CapSpec => []CapHeld
<1>. QED
  BY CapHeldInit, CapHeldStep, CapTypedAlways, CapKeptAlways, PTL DEF CapSpec

(* What a capture that succeeds says is so: its settings were made and were  *)
(* those streamed with, no error came meanwhile, and its files are its own.  *)
THEOREM CaptureAlwaysTells == CapSpec => []CaptureTells
<1>1. CapTyped /\ CapListens /\ CapChecked /\ CapHeld /\ CapCounts => CaptureTells
  BY DEF CapListens, CapHeard, CapChecked, CapHeld, Written, CaptureTells, CapCounts
<1>. QED
  BY <1>1, CapTypedAlways, CapListensAlways, CapCheckedAlways, CapHeldAlways, PTL

-----------------------------------------------------------------------------
(* Updates of the program itself.  Every variable keeps to its set, and an   *)
(* updater that has selected a release has selected one that exists.         *)

UpdFilesOK ==
    /\ updSystem \in {"unix", "windows"}
    /\ updTarget \in Programs /\ updOld \in Programs
    /\ updTemp \in [Updaters -> {"none", "part", "whole"}]
    /\ updRuns \in [Updaters -> Programs]

UpdChosenOK ==
    /\ updAsk \in [Updaters -> 0 .. LastTag]
    /\ updTag \in [Updaters -> 0 .. LastTag] /\ updBytes \in [Updaters -> Bytes]
    /\ updLatest \in Tags /\ updAsset \in [Tags -> Bytes]
    /\ updSums \in [Tags -> Bytes \cup {"none"}]
    /\ updVerified \subseteq Tags \X Bytes

UpdPlacesOK ==
    /\ updPc \in [Updaters -> UpdPcs]
    /\ updAnswer \in [Updaters -> {"none", "failed", "up to date", "updated"}]
    /\ updBroken \subseteq Updaters

UpdCountsOK == updChanges \in Nat /\ updFaults \in Nat

UpdSelected == \A p \in Updaters : updPc[p] \in UpdLive \ {"discover"} => updTag[p] \in Tags

UpdTyped == UpdFilesOK /\ UpdChosenOK /\ UpdPlacesOK /\ UpdCountsOK /\ UpdSelected

LEMMA UpdTypedInit == UpdInit => UpdTyped
<1> SUFFICES ASSUME UpdInit PROVE UpdTyped
  OBVIOUS
<1>1. NoProgram \in Programs /\ \A t \in InstalledTags : Program(t, "first", NoUpdater) \in Programs
  BY UpdateAssumption DEF NoProgram, Program, Programs, Bytes
<1>2. UpdFilesOK
  BY <1>1 DEF UpdInit, UpdFilesOK
<1>3. UpdChosenOK
  BY UpdateAssumption DEF UpdInit, UpdChosenOK, Tags, Newest, Bytes
<1>4. UpdPlacesOK
  BY DEF UpdInit, UpdPlacesOK, UpdPcs
<1>5. UpdCountsOK
  BY DEF UpdInit, UpdCountsOK
<1>6. UpdSelected
  BY DEF UpdInit, UpdSelected, UpdLive, UpdGap
<1>. QED
  BY <1>2, <1>3, <1>4, <1>5, <1>6 DEF UpdTyped

(* A step of one updater leaves the others where they are.                   *)
LEMMA UpdOthers ==
  ASSUME NEW p \in Updaters, UpdStep(p), UpdPlacesOK, UpdFilesOK, UpdChosenOK,
         NEW q \in Updaters, q # p
  PROVE  /\ updPc'[q] = updPc[q] /\ updRuns'[q] = updRuns[q]
         /\ updTag'[q] = updTag[q] /\ updBytes'[q] = updBytes[q]
<1>. USE DEF UpdPlacesOK, UpdFilesOK, UpdChosenOK, UpdTo, UpdEnd, updChosen
<1>1. CASE UpdBegin(p) \/ UpdDiscover(p) \/ UpdFetch(p) \/ UpdVerify(p)
  BY <1>1 DEF UpdBegin, UpdDiscover, UpdFetch, UpdVerify
<1>2. CASE UpdRemoveOld(p) \/ UpdMoveAside(p) \/ UpdCreate(p) \/ UpdWrite(p) \/ UpdRename(p)
  BY <1>2 DEF UpdRemoveOld, UpdMoveAside, UpdCreate, UpdWrite, UpdRename
<1>3. CASE UpdReport(p) \/ UpdDiscard(p) \/ UpdRestore(p) \/ UpdFails(p) \/ UpdKill(p)
  BY <1>3 DEF UpdReport, UpdDiscard, UpdRestore, UpdFails, UpdKill
<1>. QED
  BY <1>1, <1>2, <1>3 DEF UpdStep

LEMMA UpdPlacesNext == UpdPlacesOK /\ UpdNext => UpdPlacesOK'
<1> SUFFICES ASSUME UpdPlacesOK, UpdNext PROVE UpdPlacesOK'
  OBVIOUS
<1>. USE DEF UpdPlacesOK, UpdTo, UpdEnd, UpdPcs, UpdLive, UpdGap
<1>1. ASSUME NEW p \in Updaters, UpdBegin(p) \/ UpdDiscover(p) \/ UpdFetch(p) \/ UpdVerify(p)
      PROVE  UpdPlacesOK'
  BY <1>1 DEF UpdBegin, UpdDiscover, UpdFetch, UpdVerify, UpdStart
<1>2. ASSUME NEW p \in Updaters, \/ UpdRemoveOld(p) \/ UpdMoveAside(p) \/ UpdCreate(p)
                                \/ UpdWrite(p) \/ UpdRename(p)
      PROVE  UpdPlacesOK'
  BY <1>2 DEF UpdRemoveOld, UpdMoveAside, UpdCreate, UpdWrite, UpdRename
<1>3. ASSUME NEW p \in Updaters, UpdReport(p) \/ UpdDiscard(p) \/ UpdRestore(p)
      PROVE  UpdPlacesOK'
  BY <1>3 DEF UpdReport, UpdDiscard, UpdRestore
<1>4. ASSUME NEW p \in Updaters, UpdFails(p) \/ UpdKill(p) PROVE UpdPlacesOK'
  BY <1>4 DEF UpdFails, UpdKill
<1>5. CASE UpdPublish
  BY <1>5 DEF UpdPublish
<1>. QED
  BY <1>1, <1>2, <1>3, <1>4, <1>5 DEF UpdNext, UpdStep

LEMMA UpdFilesNext ==
  UpdFilesOK /\ UpdChosenOK /\ UpdSelected /\ UpdNext => UpdFilesOK'
<1> SUFFICES ASSUME UpdFilesOK, UpdChosenOK, UpdSelected, UpdNext PROVE UpdFilesOK'
  OBVIOUS
<1>0. NoProgram \in Programs
      /\ \A p \in Updaters : Program(updTag[p], updBytes[p], p) \in Programs
  BY UpdateAssumption DEF NoProgram, Program, Programs, Bytes, UpdChosenOK
<1>. USE DEF UpdFilesOK, updFiles, updGiven
<1>1. ASSUME NEW p \in Updaters, UpdBegin(p) PROVE UpdFilesOK'
  BY <1>1 DEF UpdBegin
<1>2. ASSUME NEW p \in Updaters, UpdRemoveOld(p) \/ UpdMoveAside(p) \/ UpdRestore(p)
      PROVE  UpdFilesOK'
  BY <1>0, <1>2 DEF UpdRemoveOld, UpdMoveAside, UpdRestore
<1>3. ASSUME NEW p \in Updaters, UpdCreate(p) \/ UpdWrite(p) \/ UpdRename(p) \/ UpdDiscard(p)
      PROVE  UpdFilesOK'
  BY <1>0, <1>3 DEF UpdCreate, UpdWrite, UpdRename, UpdDiscard
<1>4. ASSUME NEW p \in Updaters, UpdStep(p),
             ~(\/ UpdBegin(p) \/ UpdRemoveOld(p) \/ UpdMoveAside(p) \/ UpdRestore(p)
               \/ UpdCreate(p) \/ UpdWrite(p) \/ UpdRename(p) \/ UpdDiscard(p))
      PROVE  UpdFilesOK'
  BY <1>4 DEF UpdStep, UpdDiscover, UpdFetch, UpdVerify, UpdReport, UpdFails, UpdKill
<1>5. CASE UpdPublish
  BY <1>5 DEF UpdPublish
<1>. QED
  BY <1>1, <1>2, <1>3, <1>4, <1>5 DEF UpdNext

LEMMA UpdTags ==
  /\ Tags \subseteq 0 .. LastTag
  /\ \A n \in 0 .. LastTag : n # Newest => n \in Tags
  /\ \A n \in Tags : n < LastTag => n + 1 \in Tags
BY UpdateAssumption DEF Tags, Newest

LEMMA UpdChosenNext ==
  UpdChosenOK /\ UpdPlacesOK /\ UpdSelected /\ UpdNext => UpdChosenOK' /\ UpdSelected'
<1> SUFFICES ASSUME UpdChosenOK, UpdPlacesOK, UpdSelected, UpdNext
             PROVE  UpdChosenOK' /\ UpdSelected'
  OBVIOUS
<1>. USE DEF UpdChosenOK, UpdPlacesOK, UpdSelected, updChosen, updRemote, updGiven, UpdTo,
         UpdEnd, UpdLive, UpdGap
<1>1. ASSUME NEW p \in Updaters, UpdBegin(p) PROVE UpdChosenOK' /\ UpdSelected'
  BY <1>1 DEF UpdBegin
<1>2. ASSUME NEW p \in Updaters, UpdDiscover(p) PROVE UpdChosenOK' /\ UpdSelected'
  <2>. DEFINE tag == IF updAsk[p] = Newest THEN updLatest ELSE updAsk[p]
  <2>1. tag \in Tags
    BY UpdTags
  <2>2. updTag' = [updTag EXCEPT ![p] = tag]
    BY <1>2 DEF UpdDiscover
  <2>3. \/ updPc' = [updPc EXCEPT ![p] = "done"]
        \/ updPc' = [updPc EXCEPT ![p] = "fetch"]
    BY <1>2 DEF UpdDiscover
  <2>4. Tags \subseteq 0 .. LastTag
    BY UpdTags
  <2>5. UNCHANGED <<updAsk, updBytes, updLatest, updAsset, updSums, updVerified>>
    BY <1>2 DEF UpdDiscover
  <2>. HIDE DEF tag
  <2>. QED
    BY <2>1, <2>2, <2>3, <2>4, <2>5
<1>3. ASSUME NEW p \in Updaters, UpdFetch(p) PROVE UpdChosenOK' /\ UpdSelected'
  <2>1. updAsset[updTag[p]] \in Bytes /\ "damaged" \in Bytes
    BY <1>3 DEF UpdFetch, Bytes
  <2>. QED
    BY <1>3, <2>1 DEF UpdFetch
<1>4. ASSUME NEW p \in Updaters, UpdVerify(p) PROVE UpdChosenOK' /\ UpdSelected'
  <2>1. <<updTag[p], updBytes[p]>> \in Tags \X Bytes
    BY <1>4 DEF UpdVerify
  <2>. QED
    BY <1>4, <2>1 DEF UpdVerify
<1>5. ASSUME NEW p \in Updaters, UpdRemoveOld(p) \/ UpdMoveAside(p) \/ UpdCreate(p)
                                 \/ UpdWrite(p) \/ UpdRename(p)
      PROVE  UpdChosenOK' /\ UpdSelected'
  BY <1>5 DEF UpdRemoveOld, UpdMoveAside, UpdCreate, UpdWrite, UpdRename
<1>6. ASSUME NEW p \in Updaters, UpdReport(p) \/ UpdDiscard(p) \/ UpdRestore(p)
                                 \/ UpdFails(p) \/ UpdKill(p)
      PROVE  UpdChosenOK' /\ UpdSelected'
  BY <1>6 DEF UpdReport, UpdDiscard, UpdRestore, UpdFails, UpdKill
<1>7. CASE UpdPublish
  <2>1. updLatest < LastTag => updLatest + 1 \in Tags
    BY UpdTags
  <2>2. "second" \in Bytes
    BY DEF Bytes
  <2>. QED
    BY <1>7, <2>1, <2>2 DEF UpdPublish
<1>. QED
  BY <1>1, <1>2, <1>3, <1>4, <1>5, <1>6, <1>7 DEF UpdNext, UpdStep

LEMMA UpdCountsNext == UpdCountsOK /\ UpdNext => UpdCountsOK'
<1> SUFFICES ASSUME UpdCountsOK, UpdNext PROVE UpdCountsOK'
  OBVIOUS
<1>1. /\ updChanges' = updChanges \/ updChanges' = updChanges + 1
      /\ updFaults' = updFaults \/ updFaults' = updFaults + 1
  BY DEF UpdNext, UpdStep, UpdBegin, UpdDiscover, UpdFetch, UpdVerify, UpdRemoveOld,
     UpdMoveAside, UpdCreate, UpdWrite, UpdRename, UpdReport, UpdDiscard, UpdRestore,
     UpdFails, UpdKill, UpdPublish, UpdFault
<1>. QED
  BY <1>1 DEF UpdCountsOK

LEMMA UpdTypedStep == UpdTyped /\ [UpdNext]_updVars => UpdTyped'
<1> SUFFICES ASSUME UpdTyped, [UpdNext]_updVars PROVE UpdTyped'
  OBVIOUS
<1>1. CASE UpdNext
  BY <1>1, UpdPlacesNext, UpdFilesNext, UpdChosenNext, UpdCountsNext DEF UpdTyped
<1>2. CASE UNCHANGED updVars
  BY <1>2 DEF UpdTyped, UpdFilesOK, UpdChosenOK, UpdPlacesOK, UpdCountsOK, UpdSelected,
     updVars, updGiven, updFiles, updChosen, updRemote
<1>. QED
  BY <1>1, <1>2

LEMMA UpdTypedAlways == UpdSpec => []UpdTyped
<1>. QED
  BY UpdTypedInit, UpdTypedStep, PTL DEF UpdSpec

(* The variables of the updates keep to their sets.                          *)
THEOREM UpdTypeCorrect == UpdSpec => []UpdTypeOK
<1>1. UpdTyped => UpdTypeOK
  BY DEF UpdTyped, UpdFilesOK, UpdChosenOK, UpdPlacesOK, UpdCountsOK, UpdSelected, UpdTypeOK
<1>. QED
  BY <1>1, UpdTypedAlways, PTL

-----------------------------------------------------------------------------
(* On Windows, the program an updater runs lies at the executable's path or  *)
(* beside it; so while nothing is at the path, whoever tidies up finds what  *)
(* lies beside it in use.                                                    *)

UpdRunning ==
    \A p \in Updaters :
        /\ updPc[p] \in {"remove", "aside", "restore"} => updSystem = "windows"
        /\ updPc[p] \in UpdLive => updRuns[p] # NoProgram
        /\ updPc[p] \in UpdLive /\ updSystem = "windows" => updRuns[p] \in {updTarget, updOld}

UpdRemains == UpdRunning /\ ExecutableRemains

LEMMA UpdRemainsInit == UpdInit => UpdRemains
BY DEF UpdInit, UpdRemains, UpdRunning, ExecutableRemains, UpdLive, UpdGap, NoProgram, Program

(* What an updater puts there is a program.                                  *)
LEMMA UpdIsProgram == \A p \in Updaters : Program(updTag[p], updBytes[p], p) # NoProgram
BY UpdateAssumption DEF Program, NoProgram

UpdFileSteps(p) ==
    UpdRemoveOld(p) \/ UpdMoveAside(p) \/ UpdRename(p) \/ UpdRestore(p)

(* Only four steps move the two files.                                       *)
LEMMA UpdElsewhere ==
  ASSUME NEW p \in Updaters, UpdStep(p), ~UpdFileSteps(p)
  PROVE  UNCHANGED <<updTarget, updOld>>
BY DEF UpdFileSteps, UpdStep, UpdBegin, UpdDiscover, UpdFetch, UpdVerify, UpdCreate,
   UpdWrite, UpdReport, UpdDiscard, UpdFails, UpdKill, updFiles

LEMMA UpdGivenStays ==
  ASSUME NEW p \in Updaters, UpdStep(p) PROVE UNCHANGED <<updSystem, updAsk>>
BY DEF UpdStep, UpdBegin, UpdDiscover, UpdFetch, UpdVerify, UpdRemoveOld, UpdMoveAside,
   UpdCreate, UpdWrite, UpdRename, UpdReport, UpdDiscard, UpdRestore, UpdFails, UpdKill,
   updGiven

(* Where a step leads an updater, and what it runs.                          *)
LEMMA UpdOwnStep ==
  ASSUME NEW p \in Updaters, UpdStep(p), UpdPlacesOK, UpdFilesOK
  PROVE  /\ \/ updPc[p] \in UpdLive /\ updRuns'[p] = updRuns[p]
            \/ /\ UpdBegin(p) /\ updPc'[p] = "discover"
               /\ updTarget # NoProgram /\ updRuns'[p] = updTarget
         /\ updPc'[p] # "idle"
         /\ updPc'[p] \in {"remove", "aside", "restore"} =>
                updPc[p] \in {"remove", "aside"} \/ updSystem = "windows"
         /\ updPc[p] \in UpdGap => updPc'[p] \in UpdGap \/ p \in updBroken'
                                   \/ UpdFileSteps(p) \/ updSystem = "unix"
<1>. USE DEF UpdPlacesOK, UpdFilesOK, UpdTo, UpdEnd, UpdLive, UpdGap
<1>1. CASE UpdBegin(p)
  BY <1>1 DEF UpdBegin
<1>2. CASE UpdDiscover(p) \/ UpdFetch(p) \/ UpdVerify(p)
  BY <1>2 DEF UpdDiscover, UpdFetch, UpdVerify, UpdStart
<1>3. CASE UpdRemoveOld(p) \/ UpdMoveAside(p) \/ UpdRename(p) \/ UpdRestore(p)
  BY <1>3 DEF UpdRemoveOld, UpdMoveAside, UpdRename, UpdRestore, UpdFileSteps
<1>4. CASE UpdCreate(p) \/ UpdWrite(p) \/ UpdReport(p) \/ UpdDiscard(p)
  BY <1>4 DEF UpdCreate, UpdWrite, UpdReport, UpdDiscard
<1>5. CASE UpdFails(p) \/ UpdKill(p)
  BY <1>5 DEF UpdFails, UpdKill
<1>. QED
  BY <1>1, <1>2, <1>3, <1>4, <1>5 DEF UpdStep

(* What the four steps do; they leave what runs alone.                       *)
LEMMA UpdMoves ==
  ASSUME NEW p \in Updaters, UpdFileSteps(p), UpdPlacesOK
  PROVE  /\ updPc[p] \in UpdLive
         /\ \/ UNCHANGED <<updTarget, updOld>>
            \/ ~Locked(updOld) /\ updOld' = NoProgram /\ updTarget' = updTarget
            \/ /\ ~Locked(updOld) /\ updOld' = updTarget /\ updTarget' = NoProgram
               /\ updTarget # NoProgram
            \/ /\ ~Locked(updTarget) /\ updOld' = updOld
               /\ updTarget' = Program(updTag[p], updBytes[p], p)
            \/ ~Locked(updTarget) /\ updTarget' = updOld /\ updOld' = NoProgram
BY DEF UpdFileSteps, UpdRemoveOld, UpdMoveAside, UpdRename, UpdRestore, UpdLive, UpdGap

LEMMA UpdRunningStep ==
  ASSUME UpdTyped, UpdRunning, NEW p \in Updaters, UpdStep(p) PROVE UpdRunning'
<1> SUFFICES ASSUME NEW q \in Updaters
             PROVE  /\ updPc'[q] \in {"remove", "aside", "restore"} => updSystem' = "windows"
                    /\ updPc'[q] \in UpdLive => updRuns'[q] # NoProgram
                    /\ updPc'[q] \in UpdLive /\ updSystem' = "windows" =>
                           updRuns'[q] \in {updTarget', updOld'}
  BY DEF UpdRunning
<1>0. UNCHANGED updSystem
  BY UpdGivenStays
<1>1. CASE q = p /\ UpdBegin(p)
  BY <1>0, <1>1 DEF UpdBegin, UpdTo, UpdTyped, UpdPlacesOK, UpdFilesOK, updFiles
<1>2. CASE ~(q = p /\ UpdBegin(p))
  <2>1. /\ updPc'[q] \in UpdLive => updPc[q] \in UpdLive /\ updRuns'[q] = updRuns[q]
        /\ updPc'[q] \in {"remove", "aside", "restore"} => updSystem = "windows"
    <3>1. CASE q = p
      BY <1>2, <3>1, UpdOwnStep DEF UpdTyped, UpdRunning
    <3>2. CASE q # p
      BY <3>2, UpdOthers DEF UpdTyped, UpdRunning
    <3>. QED
      BY <3>1, <3>2
  <2>2. ASSUME updPc[q] \in UpdLive, updSystem = "windows"
        PROVE  updRuns[q] \in {updTarget', updOld'}
    <3>1. updRuns[q] \in {updTarget, updOld} /\ updRuns[q] # NoProgram
      BY <2>2 DEF UpdRunning
    <3>2. Locked(updRuns[q])
      BY <2>2, <3>1 DEF Locked, Runs
    <3>3. CASE UpdFileSteps(p)
      BY <3>1, <3>2, <3>3, UpdMoves DEF UpdTyped
    <3>4. CASE ~UpdFileSteps(p)
      BY <3>1, <3>4, UpdElsewhere
    <3>. QED
      BY <3>3, <3>4
  <2>. QED
    BY <1>0, <2>1, <2>2 DEF UpdRunning
<1>. QED
  BY <1>1, <1>2

LEMMA UpdBrokenStays ==
  ASSUME NEW p \in Updaters, UpdStep(p) PROVE updBroken \subseteq updBroken'
BY DEF UpdStep, UpdBegin, UpdDiscover, UpdFetch, UpdVerify, UpdRemoveOld, UpdMoveAside,
   UpdCreate, UpdWrite, UpdRename, UpdReport, UpdDiscard, UpdRestore, UpdFails, UpdKill

LEMMA UpdRemainsStep ==
  ASSUME UpdTyped, UpdRunning, ExecutableRemains, NEW p \in Updaters, UpdStep(p)
  PROVE  ExecutableRemains'
<1>0. UNCHANGED updSystem /\ updBroken \subseteq updBroken'
  BY UpdGivenStays, UpdBrokenStays
<1>1. CASE UpdRemoveOld(p)
  <2>1. /\ updPc[p] = "remove" /\ updPc' = [updPc EXCEPT ![p] = "aside"]
        /\ updTarget' = updTarget
        /\ updOld' = updOld \/ ~Locked(updOld)
    BY <1>1 DEF UpdRemoveOld, UpdTo
  <2>2. ASSUME updTarget = NoProgram PROVE Locked(updOld)
    <3>1. updPc[p] \in UpdLive /\ updSystem = "windows"
      BY <2>1, <2>2 DEF UpdLive, UpdGap, ExecutableRemains
    <3>2. updRuns[p] # NoProgram /\ updRuns[p] = updOld
      BY <2>2, <3>1 DEF UpdRunning
    <3>. QED
      BY <3>1, <3>2 DEF Locked, Runs
  <2>3. \A q \in Updaters : updPc[q] \in UpdGap => updPc'[q] \in UpdGap
    BY <2>1 DEF UpdTyped, UpdPlacesOK, UpdGap
  <2>. QED
    BY <1>0, <2>1, <2>2, <2>3 DEF ExecutableRemains
<1>2. CASE UpdMoveAside(p)
  <2>1. CASE updTarget # NoProgram /\ ~Locked(updOld)
    <3>1. updOld' = updTarget /\ updPc' = [updPc EXCEPT ![p] = "create"]
      BY <1>2, <2>1 DEF UpdMoveAside, UpdTo
    <3>2. updPc'[p] \in UpdGap
      BY <3>1 DEF UpdTyped, UpdPlacesOK, UpdGap
    <3>3. updSystem = "windows"
      BY <1>2 DEF UpdMoveAside, UpdRunning
    <3>. QED
      BY <1>0, <2>1, <3>1, <3>2, <3>3 DEF ExecutableRemains
  <2>2. CASE ~(updTarget # NoProgram /\ ~Locked(updOld))
    <3>1. UNCHANGED <<updTarget, updOld>> /\ updPc[p] = "aside"
          /\ updPc' = [updPc EXCEPT ![p] = "done"]
      BY <1>2, <2>2 DEF UpdMoveAside, UpdEnd
    <3>2. \A q \in Updaters : updPc[q] \in UpdGap => updPc'[q] \in UpdGap
      BY <3>1 DEF UpdTyped, UpdPlacesOK, UpdGap
    <3>. QED
      BY <1>0, <3>1, <3>2 DEF ExecutableRemains
  <2>. QED
    BY <2>1, <2>2
<1>3. CASE UpdRename(p)
  <2>1. CASE ~Locked(updTarget)
    BY <1>3, <2>1, UpdIsProgram DEF UpdRename, ExecutableRemains
  <2>2. CASE Locked(updTarget)
    BY <1>3, <2>2 DEF UpdRename, Locked, ExecutableRemains
  <2>. QED
    BY <2>1, <2>2
<1>4. CASE UpdRestore(p)
  <2>1. CASE updTarget # NoProgram
    BY <1>4, <2>1 DEF UpdRestore, ExecutableRemains
  <2>2. CASE updTarget = NoProgram
    <3>1. updOld # NoProgram /\ updSystem = "windows" /\ ~Locked(updTarget)
      BY <2>2 DEF ExecutableRemains, Locked
    <3>2. \/ updTarget' = updOld
          \/ updBroken' = updBroken \cup {p} /\ UNCHANGED <<updTarget, updOld>>
      BY <1>4, <3>1 DEF UpdRestore
    <3>. QED
      BY <1>0, <3>1, <3>2 DEF ExecutableRemains
  <2>. QED
    BY <2>1, <2>2
<1>5. CASE ~UpdFileSteps(p)
  <2>1. UNCHANGED <<updTarget, updOld>>
    BY <1>5, UpdElsewhere
  <2>2. ASSUME NEW q \in Updaters, updPc[q] \in UpdGap, updSystem = "windows"
        PROVE  updPc'[q] \in UpdGap \/ q \in updBroken'
    <3>1. CASE q = p
      BY <1>5, <2>2, <3>1, UpdOwnStep DEF UpdTyped
    <3>2. CASE q # p
      BY <2>2, <3>2, UpdOthers DEF UpdTyped
    <3>. QED
      BY <3>1, <3>2
  <2>. QED
    BY <1>0, <2>1, <2>2 DEF ExecutableRemains
<1>. QED
  BY <1>1, <1>2, <1>3, <1>4, <1>5 DEF UpdFileSteps

LEMMA UpdRemainsNext == UpdTyped /\ UpdRemains /\ [UpdNext]_updVars => UpdRemains'
<1> SUFFICES ASSUME UpdTyped, UpdRemains, [UpdNext]_updVars PROVE UpdRemains'
  OBVIOUS
<1>1. ASSUME NEW p \in Updaters, UpdStep(p) PROVE UpdRemains'
  BY <1>1, UpdRunningStep, UpdRemainsStep DEF UpdRemains
<1>2. CASE UpdPublish \/ UNCHANGED updVars
  BY <1>2 DEF UpdPublish, updVars, updFiles, updGiven, UpdRemains, UpdRunning,
     ExecutableRemains
<1>. QED
  BY <1>1, <1>2 DEF UpdNext

LEMMA UpdRemainsAlways == UpdSpec => []UpdRemains
<1>. QED
  BY UpdRemainsInit, UpdRemainsNext, UpdTypedAlways, PTL DEF UpdSpec

(* The executable is never lost, however many updaters run, fail and are     *)
(* killed: while its path is empty, it lies beside it.                       *)
THEOREM ExecutableAlwaysRemains == UpdSpec => []ExecutableRemains
<1>1. UpdRemains => ExecutableRemains
  BY DEF UpdRemains
<1>. QED
  BY <1>1, UpdRemainsAlways, PTL

-----------------------------------------------------------------------------
(* What an updater goes on with it has selected and, later, verified.        *)

UpdWanted(p) ==
    updAsk[p] = updTag[p] \/ (updAsk[p] = Newest /\ IsNewer(Current(p), updTag[p]))

UpdChose ==
    \A p \in Updaters :
        /\ updPc[p] \in UpdLive \ {"discover"} => UpdWanted(p)
        /\ updPc[p] \in UpdLive \ {"discover", "fetch", "verify"} =>
               <<updTag[p], updBytes[p]>> \in updVerified

UpdPlaced ==
    \A program \in {updTarget, updOld} :
        program.by # NoUpdater => updPc[program.by] # "idle" /\ Selected(program)

UpdAllVerified == UpdChose /\ UpdPlaced

LEMMA UpdVerifiedInit == UpdInit => UpdAllVerified
BY DEF UpdInit, UpdAllVerified, UpdChose, UpdPlaced, UpdLive, UpdGap, NoProgram, Program

LEMMA UpdVerifiedStays ==
  ASSUME NEW p \in Updaters, UpdStep(p) PROVE updVerified \subseteq updVerified'
BY DEF UpdStep, UpdBegin, UpdDiscover, UpdFetch, UpdVerify, UpdRemoveOld, UpdMoveAside,
   UpdCreate, UpdWrite, UpdRename, UpdReport, UpdDiscard, UpdRestore, UpdFails, UpdKill

(* Selecting and verifying.                                                  *)
LEMMA UpdChoseOwn ==
  ASSUME UpdTyped, UpdChose, NEW p \in Updaters, UpdStep(p)
  PROVE  /\ updPc'[p] \in UpdLive \ {"discover"} => UpdWanted(p)'
         /\ updPc'[p] \in UpdLive \ {"discover", "fetch", "verify"} =>
                <<updTag'[p], updBytes'[p]>> \in updVerified'
<1>. USE DEF UpdTyped, UpdPlacesOK, UpdFilesOK, UpdChosenOK, UpdTo, UpdEnd, UpdLive, UpdGap,
         UpdChose, UpdWanted, Current, updChosen, updGiven
<1>1. CASE UpdBegin(p)
  BY <1>1 DEF UpdBegin
<1>2. CASE UpdDiscover(p)
  <2>1. updTag'[p] = IF updAsk[p] = Newest THEN updLatest ELSE updAsk[p]
    BY <1>2 DEF UpdDiscover
  <2>2. UNCHANGED <<updAsk, updRuns>>
    BY <1>2 DEF UpdDiscover
  <2>3. \/ updPc'[p] = "done"
        \/ /\ updPc'[p] = "fetch"
           /\ ~(updAsk[p] = Newest /\ ~IsNewer(Current(p), updTag'[p]))
    BY <1>2, <2>1 DEF UpdDiscover
  <2>. QED
    BY <2>1, <2>2, <2>3
<1>3. CASE UpdFetch(p)
  BY <1>3 DEF UpdFetch
<1>4. CASE UpdVerify(p)
  BY <1>4 DEF UpdVerify
<1>5. CASE UpdRemoveOld(p) \/ UpdMoveAside(p) \/ UpdCreate(p)
  BY <1>5 DEF UpdRemoveOld, UpdMoveAside, UpdCreate
<1>6. CASE UpdWrite(p) \/ UpdRename(p) \/ UpdReport(p)
  BY <1>6 DEF UpdWrite, UpdRename, UpdReport
<1>7. CASE UpdDiscard(p) \/ UpdRestore(p) \/ UpdFails(p) \/ UpdKill(p)
  BY <1>7 DEF UpdDiscard, UpdRestore, UpdFails, UpdKill
<1>. QED
  BY <1>1, <1>2, <1>3, <1>4, <1>5, <1>6, <1>7 DEF UpdStep

LEMMA UpdChoseStep ==
  ASSUME UpdTyped, UpdChose, NEW p \in Updaters, UpdStep(p) PROVE UpdChose'
<1> SUFFICES ASSUME NEW q \in Updaters
             PROVE  /\ updPc'[q] \in UpdLive \ {"discover"} => UpdWanted(q)'
                    /\ updPc'[q] \in UpdLive \ {"discover", "fetch", "verify"} =>
                           <<updTag'[q], updBytes'[q]>> \in updVerified'
  BY DEF UpdChose
<1>1. CASE q = p
  BY <1>1, UpdChoseOwn
<1>2. CASE q # p
  <2>1. /\ updPc'[q] = updPc[q] /\ updRuns'[q] = updRuns[q]
        /\ updTag'[q] = updTag[q] /\ updBytes'[q] = updBytes[q]
    BY <1>2, UpdOthers DEF UpdTyped
  <2>. QED
    BY <2>1, UpdGivenStays, UpdVerifiedStays DEF UpdChose, UpdWanted, Current
<1>. QED
  BY <1>1, <1>2

(* A program that was put in its place stays what it was.                    *)
LEMMA UpdSelectedStays ==
  ASSUME UpdTyped, NEW p \in Updaters, UpdStep(p), NEW program \in Programs,
         program.by # NoUpdater, updPc[program.by] # "idle", Selected(program)
  PROVE  updPc'[program.by] # "idle" /\ Selected(program)'
<1>1. program.by \in Updaters
  BY DEF Programs
<1>2. updPc'[program.by] # "idle" /\ updRuns'[program.by] = updRuns[program.by]
  <2>1. CASE program.by = p
    BY <1>1, <2>1, UpdOwnStep DEF UpdTyped, UpdBegin
  <2>2. CASE program.by # p
    BY <1>1, <2>2, UpdOthers DEF UpdTyped
  <2>. QED
    BY <2>1, <2>2
<1>. QED
  BY <1>2, UpdGivenStays, UpdVerifiedStays DEF Selected, Current

LEMMA UpdPlacedStep ==
  ASSUME UpdTyped, UpdChose, UpdPlaced, NEW p \in Updaters, UpdStep(p) PROVE UpdPlaced'
<1> SUFFICES ASSUME NEW program \in {updTarget', updOld'}, program.by # NoUpdater
             PROVE  updPc'[program.by] # "idle" /\ Selected(program)'
  BY DEF UpdPlaced
<1>1. CASE program \in {updTarget, updOld}
  <2>1. program \in Programs
    BY <1>1 DEF UpdTyped, UpdFilesOK
  <2>. QED
    BY <1>1, <2>1, UpdSelectedStays DEF UpdPlaced
<1>2. CASE program = NoProgram
  BY <1>2 DEF NoProgram, Program
<1>3. CASE program = Program(updTag[p], updBytes[p], p) /\ UpdRename(p)
  <2>1. program.tag = updTag[p] /\ program.bytes = updBytes[p] /\ program.by = p
    BY <1>3 DEF Program
  <2>2. updPc[p] = "rename" /\ UNCHANGED <<updVerified, updAsk, updRuns>>
    BY <1>3 DEF UpdRename, updGiven
  <2>3. updPc'[p] # "idle"
    BY <1>3 DEF UpdRename, UpdTo, UpdTyped, UpdPlacesOK
  <2>4. UpdWanted(p) /\ <<updTag[p], updBytes[p]>> \in updVerified
    BY <2>2 DEF UpdChose, UpdLive, UpdGap
  <2>. QED
    BY <2>1, <2>2, <2>3, <2>4 DEF Selected, UpdWanted, Current
<1>4. program \in {updTarget, updOld, NoProgram} \/ (/\ program = Program(updTag[p], updBytes[p], p)
                                                   /\ UpdRename(p))
  <2>1. CASE UpdFileSteps(p)
    BY <2>1 DEF UpdFileSteps, UpdRemoveOld, UpdMoveAside, UpdRename, UpdRestore
  <2>2. CASE ~UpdFileSteps(p)
    BY <2>2, UpdElsewhere
  <2>. QED
    BY <2>1, <2>2
<1>. QED
  BY <1>1, <1>2, <1>3, <1>4

LEMMA UpdVerifiedNext == UpdTyped /\ UpdAllVerified /\ [UpdNext]_updVars => UpdAllVerified'
<1> SUFFICES ASSUME UpdTyped, UpdAllVerified, [UpdNext]_updVars PROVE UpdAllVerified'
  OBVIOUS
<1>1. ASSUME NEW p \in Updaters, UpdStep(p) PROVE UpdAllVerified'
  BY <1>1, UpdChoseStep, UpdPlacedStep DEF UpdAllVerified
<1>2. CASE UpdPublish \/ UNCHANGED updVars
  BY <1>2 DEF UpdPublish, updVars, updFiles, updGiven, updChosen, UpdAllVerified, UpdChose,
     UpdPlaced, UpdWanted, Selected, Current
<1>. QED
  BY <1>1, <1>2 DEF UpdNext

(* Whatever lies at the path, or beside it, an updater put there selected    *)
(* and with bytes that the release's manifest covered.                       *)
THEOREM UpdateAlwaysVerified == UpdSpec => []UpdateIsVerified
<1>1. UpdAllVerified => UpdateIsVerified
  BY DEF UpdAllVerified, UpdPlaced, UpdateIsVerified
<1>. QED
  BY <1>1, UpdVerifiedInit, UpdVerifiedNext, UpdTypedAlways, PTL DEF UpdSpec

-----------------------------------------------------------------------------
(* Writing an installation medium.                                           *)
USE DEF Chunk, Content, Uses, States, Steps, Closed, devices, command, Go, Fail, World

-----------------------------------------------------------------------------
(* Every variable keeps to its set.                                          *)

LEMMA TypeInit == Init => TypeOK
<1> SUFFICES ASSUME Init PROVE TypeOK
  OBVIOUS
<1>1. DevicesOK
  BY DEF Init, DevicesOK
<1>2. CommandOK
  BY ChunksAssumption DEF Init, CommandOK
<1>3. FlagsOK /\ HistoryOK
  BY DEF Init, FlagsOK, HistoryOK
<1>. QED
  BY <1>1, <1>2, <1>3 DEF TypeOK

LEMMA FlagsNext == FlagsOK /\ Next => FlagsOK'
<1> SUFFICES ASSUME FlagsOK, Next PROVE FlagsOK'
  OBVIOUS
<1>. USE DEF FlagsOK
<1>1. CASE Plan
  BY <1>1 DEF Plan
<1>2. CASE Begin
  BY <1>2 DEF Begin
<1>3. CASE FirstInspection
  BY <1>3 DEF FirstInspection
<1>4. CASE Unmount
  BY <1>4 DEF Unmount
<1>5. CASE FinalInspection
  BY <1>5 DEF FinalInspection
<1>6. CASE OpenWrite
  BY <1>6 DEF OpenWrite, Opens
<1>7. CASE InspectOpened
  BY <1>7 DEF InspectOpened
<1>8. CASE Copy
  BY <1>8 DEF Copy
<1>9. CASE CheckSource
  BY <1>9 DEF CheckSource
<1>10. CASE Sync
  BY <1>10 DEF Sync
<1>11. CASE Close
  BY <1>11 DEF Close
<1>12. CASE BeforeReadBack
  BY <1>12 DEF BeforeReadBack
<1>13. CASE OpenRead
  BY <1>13 DEF OpenRead, Opens
<1>14. CASE InspectReopened
  BY <1>14 DEF InspectReopened
<1>15. CASE ReadBack
  BY <1>15 DEF ReadBack
<1>16. CASE Compare
  BY <1>16 DEF Compare
<1>17. CASE LastInspection
  BY <1>17 DEF LastInspection
<1>18. CASE Eject
  BY <1>18 DEF Eject
<1>19. CASE Unplug
  BY <1>19 DEF Unplug
<1>20. CASE Plug
  BY <1>20 DEF Plug
<1>21. CASE Reuse
  BY <1>21 DEF Reuse
<1>22. CASE Edit
  BY <1>22 DEF Edit
<1>23. CASE EditSource
  BY <1>23 DEF EditSource
<1>. QED
  BY <1>1, <1>2, <1>3, <1>4, <1>5, <1>6, <1>7, <1>8, <1>9, <1>10, <1>11,
     <1>12, <1>13, <1>14, <1>15, <1>16, <1>17, <1>18, <1>19, <1>20, <1>21,
     <1>22, <1>23
     DEF Next, Write, Verify, Environment

LEMMA HistoryNext == DevicesOK /\ CommandOK /\ HistoryOK /\ Next => HistoryOK'
<1> SUFFICES ASSUME DevicesOK, CommandOK, HistoryOK, Next PROVE HistoryOK'
  OBVIOUS
<1>1. CASE Copy
  <2>1. /\ wrote' \subseteq wrote \cup {handle.dev}
        /\ wrote' # wrote => handle.dev # NoDevice
        /\ UNCHANGED <<late, runs, edits>>
    BY <1>1 DEF Copy, Put, Alive
  <2>. QED
    BY <2>1 DEF HistoryOK, CommandOK
<1>2. CASE ReadBack
  BY <1>2 DEF ReadBack, HistoryOK
<1>3. CASE Edit
  <2>1. slot \in Devices
    BY <1>3 DEF Edit, DevicesOK
  <2>. QED
    BY <1>3, <2>1 DEF Edit, HistoryOK
<1>4. CASE Plan \/ Begin
  BY <1>4 DEF Plan, Begin, HistoryOK
<1>5. CASE ~(Copy \/ ReadBack \/ Edit \/ Plan \/ Begin)
  <2>. UNCHANGED <<wrote, late, runs, edits>>
    BY <1>5 DEF Next, Write, Verify, Environment, FirstInspection, Unmount,
       FinalInspection, OpenWrite, InspectOpened, CheckSource, Sync, Close,
       BeforeReadBack, OpenRead, InspectReopened, Compare, LastInspection, Eject,
       Unplug, Plug, Reuse, EditSource
  <2>. QED
    BY DEF HistoryOK
<1>. QED
  BY <1>1, <1>2, <1>3, <1>4, <1>5

(* Only these steps change what a device holds.                              *)
LEMMA Elsewhere ==
  ASSUME Next, ~(Copy \/ Sync \/ Close \/ Unplug \/ Edit)
  PROVE  UNCHANGED <<durable, cache>>
BY DEF Next, Write, Verify, Environment, Plan, Begin, FirstInspection, Unmount,
   FinalInspection, OpenWrite, InspectOpened, CheckSource, BeforeReadBack, OpenRead,
   InspectReopened, ReadBack, Compare, LastInspection, Eject, Plug, Reuse, EditSource

Holdings == [Devices -> [Chunk -> Content]]

(* One device is exchanged, or one chunk of it.                              *)
LEMMA OneDevice ==
  ASSUME NEW f \in Holdings, NEW d \in Devices, NEW g \in [Chunk -> Content]
  PROVE  [f EXCEPT ![d] = g] \in Holdings
BY DEF Holdings

LEMMA OneChunk ==
  ASSUME NEW f \in Holdings, NEW h, NEW d \in Devices, NEW c \in Chunk, NEW v \in Content,
         h = [f EXCEPT ![d][c] = v]
  PROVE  h \in Holdings
<1>. DEFINE g == [f[d] EXCEPT ![c] = v]
<1>. HIDE DEF Chunk, Content
<1>1. g \in [Chunk -> Content]
  <2>1. f[d] \in [Chunk -> Content]
    BY DEF Holdings
  <2>. QED
    BY <2>1
<1>2. h = [f EXCEPT ![d] = g]
  OBVIOUS
<1>. HIDE DEF g
<1>3. [f EXCEPT ![d] = g] \in Holdings
  BY <1>1 DEF Holdings
<1>. QED
  BY <1>2, <1>3

LEMMA DevicesNext == DevicesOK /\ CommandOK /\ Next => DevicesOK'
<1> SUFFICES ASSUME DevicesOK, CommandOK, Next PROVE DevicesOK'
  OBVIOUS
<1>. durable \in Holdings /\ cache \in Holdings
  BY DEF DevicesOK, Holdings
<1>1. CASE Copy
  <2>1. pc = "copy" /\ done + 1 \in Chunk
    BY <1>1, ChunksAssumption DEF Copy, Remains, CommandOK
  <2>2. handle.dev # NoDevice => handle.dev \in Devices
    BY DEF CommandOK
  <2>3. \/ cache' = cache
        \/ \E v \in Content :
              handle.dev \in Devices /\ cache' = [cache EXCEPT ![handle.dev][done + 1] = v]
    BY <1>1, <2>2 DEF Copy, Put, Alive, Read
  <2>4. cache' \in Holdings
    <3>1. CASE cache' = cache
      BY <3>1
    <3>2. ASSUME NEW v \in Content, handle.dev \in Devices,
                 cache' = [cache EXCEPT ![handle.dev][done + 1] = v]
          PROVE  cache' \in Holdings
      <4>1. handle.dev \in Devices /\ done + 1 \in Chunk
        BY <2>1, <3>2
      <4>. HIDE DEF Chunk, Content
      <4>. QED
        BY <3>2, <4>1, OneChunk
    <3>. QED
      BY <2>3, <3>1, <3>2
  <2>5. UNCHANGED <<slot, plugs, use, durable, source>>
    BY <1>1 DEF Copy
  <2>. QED
    BY <2>4, <2>5 DEF DevicesOK, Holdings
<1>2. CASE Sync
  <2>1. handle.dev # NoDevice => handle.dev \in Devices
    BY DEF CommandOK
  <2>2. handle.dev \in Devices => cache[handle.dev] \in [Chunk -> Content]
    BY DEF DevicesOK
  <2>3. handle.dev \in Devices => Flushed \subseteq [Chunk -> Content]
    BY <2>2 DEF Flushed
  <2>4. \/ durable' = durable
        \/ /\ handle.dev \in Devices
           /\ \E f \in Flushed : durable' = [durable EXCEPT ![handle.dev] = f]
    BY <1>2, <2>1 DEF Sync, Alive
  <2>5. durable' \in Holdings
    BY <2>3, <2>4, OneDevice
  <2>6. UNCHANGED <<slot, plugs, use, cache, source>>
    BY <1>2 DEF Sync
  <2>. QED
    BY <2>5, <2>6 DEF DevicesOK, Holdings
<1>3. CASE Close
  BY <1>3 DEF Close, DevicesOK
<1>4. CASE Unplug
  <2>1. slot \in Devices
    BY <1>4 DEF Unplug, DevicesOK
  <2>2. cache[slot] \in [Chunk -> Content] /\ durable[slot] \in [Chunk -> Content]
    BY <2>1 DEF DevicesOK
  <2>3. PICK kept \in SUBSET Chunk :
           LET left == [c \in Chunk |-> IF c \in kept THEN cache[slot][c]
                                                     ELSE durable[slot][c]]
           IN durable' = [durable EXCEPT ![slot] = left] /\ cache' = [cache EXCEPT ![slot] = left]
    BY <1>4 DEF Unplug
  <2>. DEFINE left == [c \in Chunk |-> IF c \in kept THEN cache[slot][c] ELSE durable[slot][c]]
  <2>4. left \in [Chunk -> Content]
    BY <2>2
  <2>5. durable' = [durable EXCEPT ![slot] = left] /\ cache' = [cache EXCEPT ![slot] = left]
    BY <2>3
  <2>. HIDE DEF left
  <2>6. durable' \in Holdings /\ cache' \in Holdings
    BY <2>1, <2>4, <2>5, OneDevice
  <2>7. slot' = NoDevice /\ UNCHANGED <<plugs, use, source>>
    BY <1>4 DEF Unplug
  <2>. QED
    BY <2>6, <2>7 DEF DevicesOK, Holdings
<1>5. CASE Edit
  <2>1. slot \in Devices
    BY <1>5 DEF Edit, DevicesOK
  <2>2. durable' \in Holdings /\ cache' \in Holdings
    <3>1. PICK c \in Chunk : /\ durable' = [durable EXCEPT ![slot][c] = "foreign"]
                             /\ cache' = [cache EXCEPT ![slot][c] = "foreign"]
      BY <1>5 DEF Edit
    <3>2. "foreign" \in Content
      OBVIOUS
    <3>. HIDE DEF Chunk, Content
    <3>. QED
      BY <2>1, <3>1, <3>2, OneChunk
  <2>3. UNCHANGED <<slot, plugs, use, source>>
    BY <1>5 DEF Edit
  <2>. QED
    BY <2>2, <2>3 DEF DevicesOK, Holdings
<1>6. CASE ~(Copy \/ Sync \/ Close \/ Unplug \/ Edit)
  <2>1. UNCHANGED <<durable, cache>>
    BY <1>6, Elsewhere
  <2>2. \/ UNCHANGED <<slot, plugs, use, source>>
        \/ slot' \in Devices \cup {NoDevice} /\ plugs' \in Nat
           /\ use' \in [Devices -> Uses] /\ source' \in {"planned", "changed"}
    <3>1. CASE Unmount
      BY <3>1 DEF Unmount, DevicesOK
    <3>2. CASE Eject
      BY <3>2 DEF Eject, DevicesOK
    <3>3. CASE Plug
      BY <3>3 DEF Plug, DevicesOK
    <3>4. CASE Reuse
      BY <3>4 DEF Reuse, DevicesOK
    <3>5. CASE EditSource
      BY <3>5 DEF EditSource, DevicesOK
    <3>6. CASE ~(Unmount \/ Eject \/ Plug \/ Reuse \/ EditSource)
      BY <1>6, <3>6 DEF Next, Write, Verify, Environment, Plan, Begin, FirstInspection,
         FinalInspection, OpenWrite, InspectOpened, CheckSource, BeforeReadBack,
         OpenRead, InspectReopened, ReadBack, Compare, LastInspection
    <3>. QED
      BY <3>1, <3>2, <3>3, <3>4, <3>5, <3>6
  <2>. QED
    BY <2>1, <2>2 DEF DevicesOK
<1>. QED
  BY <1>1, <1>2, <1>3, <1>4, <1>5, <1>6

LEMMA CommandNext == DevicesOK /\ CommandOK /\ Next => CommandOK'
<1> SUFFICES ASSUME DevicesOK, CommandOK, Next PROVE CommandOK'
  OBVIOUS
<1>. USE ChunksAssumption DEF CommandOK, DevicesOK
<1>1. CASE Environment
  BY <1>1 DEF Environment, Unplug, Plug, Reuse, Edit, EditSource
<1>2. CASE Plan
  <2>1. slot \in Devices
    BY <1>2 DEF Plan, Usable
  <2>. QED
    BY <1>2, <2>1 DEF Plan
<1>3. CASE Begin \/ FirstInspection \/ Unmount \/ FinalInspection
  BY <1>3 DEF Begin, FirstInspection, Unmount, FinalInspection
<1>4. CASE OpenWrite \/ OpenRead
  BY <1>4 DEF OpenWrite, OpenRead, Opens
<1>5. CASE InspectOpened \/ CheckSource \/ Sync \/ Close
  BY <1>5 DEF InspectOpened, CheckSource, Sync, Close
<1>6. CASE Copy
  <2>1. \/ /\ done' = done + 1 /\ done < Chunks
           /\ UNCHANGED <<pc, plan, handle, reads, state>>
        \/ /\ pc' = "idle" /\ state' \in {state, "writing"} /\ handle' = Closed
           /\ UNCHANGED <<plan, done, reads>>
    BY <1>6 DEF Copy, Remains, Mutated
  <2>2. done' \in 0..Chunks
    BY <2>1
  <2>. QED
    BY <2>1, <2>2
<1>7. CASE BeforeReadBack \/ InspectReopened \/ Compare \/ LastInspection \/ Eject
  BY <1>7 DEF BeforeReadBack, InspectReopened, Compare, LastInspection, Eject
<1>8. CASE ReadBack
  BY <1>8 DEF ReadBack, Remains
<1>. QED
  BY <1>1, <1>2, <1>3, <1>4, <1>5, <1>6, <1>7, <1>8 DEF Next, Write, Verify

LEMMA TypeNext == TypeOK /\ [Next]_vars => TypeOK'
<1>1. CASE UNCHANGED vars
  BY <1>1 DEF vars, TypeOK, DevicesOK, CommandOK, FlagsOK, HistoryOK
<1>2. CASE Next
  BY <1>2, FlagsNext, HistoryNext, DevicesNext, CommandNext DEF TypeOK
<1>. QED
  BY <1>1, <1>2

(* Every variable keeps to its set, and no loop runs past the image's end.   *)
THEOREM TypeCorrect == Spec => []TypeOK
<1>. QED
  BY TypeInit, TypeNext, PTL DEF Spec

-----------------------------------------------------------------------------
(* Only a planned device is written to.  A handle was opened no later than   *)
(* the device now plugged in came, so a dead one stays dead; and the opened  *)
(* device has been inspected before the first chunk.                         *)

Writing == {"copy", "sync", "close"}

HandleOld == handle.plug <= plugs

HandlePlanned == pc \in Writing /\ Alive => Fingerprint[slot] \in plan

PlannedInv == HandleOld /\ HandlePlanned /\ OnlyPlannedWritten

(* A receipt is of the stage the execution has reached.                      *)
Earlier == {"first", "unmount", "final", "open", "opened"}
Later == {"before", "reopen", "reopened", "read", "last", "eject"}

Silent == {"not-started", "dry-run", "prepared"}
Done == {"written", "verifying", "verified", "complete"}

StageOK ==
    /\ pc \in Earlier \cup Writing \cup {"planned"} => state \in Silent
    /\ pc \in Later => state \in Done
    /\ pc \in {"last", "eject"} => state \in {"verifying", "verified"}
    /\ state \in {"verified", "complete"} => pc \in {"eject", "idle"}

CleanOK ==
    /\ pc \in Earlier \cup {"planned"} => wrote = {}
    /\ pc = "copy" => wrote = {} \/ done > 0

ToldInv == StageOK /\ CleanOK /\ NothingUntold

(* What has been copied is in the cache of the inspected device, what has    *)
(* been flushed in the device, and stays.                                    *)
CountsOK ==
    /\ pc \in Earlier => done = 0
    /\ pc = "sync" => done = Chunks /\ intact
    /\ pc \in Earlier \cup Writing \cup {"before", "reopen", "reopened"} => reads = 0

CopiedOK ==
    pc \in {"copy", "sync"} /\ Alive /\ intact =>
        \A c \in 1..done : cache[slot][c] \in {"image", "foreign"}

Settled(d) == \A c \in Chunk : /\ durable[d][c] \notin {"old", "bad"}
                               /\ cache[d][c] \notin {"old", "bad"}

SettledOK ==
    pc = "close" \/ state \in Done =>
        \E d \in Devices : Fingerprint[d] \in plan /\ Settled(d)

FlushedInv == CountsOK /\ CopiedOK /\ SettledOK

(* Outside the write, what is read is what is held.                          *)
Same == \A d \in Devices : cache[d] = durable[d]

CacheOK ==
    /\ \A d \in Devices : d # slot => cache[d] = durable[d]
    /\ pc \in {"opened"} \cup Writing /\ ~Alive => Same
    /\ pc \in Later \/ state \in {"verified", "complete"} => Same

Kept(d, c) == durable[d][c] = "image" \/ <<d, c>> \in late

ReadOK ==
    pc = "read" /\ (Alive \/ reads > 0) =>
        /\ handle.dev \in Devices /\ Fingerprint[handle.dev] \in plan
        /\ good => \A c \in 1..reads : Kept(handle.dev, c)

KeptOK ==
    pc \in {"last", "eject"} \/ state \in {"verified", "complete"} =>
        \E d \in Devices : Fingerprint[d] \in plan /\ \A c \in Chunk : Kept(d, c)

ReadInv == CacheOK /\ ReadOK /\ KeptOK

-----------------------------------------------------------------------------
LEMMA PlannedInit == Init => PlannedInv
BY DEF Init, PlannedInv, HandleOld, HandlePlanned, OnlyPlannedWritten, Writing

(* A write that goes on is on the device it was on, or on none.              *)
LEMMA WritingGoesOn ==
  ASSUME TypeOK, HandleOld, Next, pc' \in Writing, Alive'
  PROVE  /\ slot' = slot /\ plan' = plan
         /\ (pc \in Writing /\ Alive) \/ (InspectOpened /\ Fingerprint[slot] \in plan)
<1>1. pc \in Writing \/ pc = "opened"
  BY DEF Next, Write, Verify, Environment, Plan, Begin, FirstInspection, Unmount,
     FinalInspection, OpenWrite, InspectOpened, Copy, CheckSource, Sync, Close,
     BeforeReadBack, OpenRead, InspectReopened, ReadBack, Compare, LastInspection, Eject,
     Unplug, Plug, Reuse, Edit, EditSource, Opens, Writing
<1>2. CASE Environment
  <2>1. pc' = pc /\ handle' = handle /\ plan' = plan
    BY <1>2 DEF Environment, Unplug, Plug, Reuse, Edit, EditSource
  <2>2. \/ slot' = slot /\ plugs' = plugs
        \/ slot' = NoDevice
        \/ plugs' = plugs + 1
    BY <1>2 DEF Environment, Unplug, Plug, Reuse, Edit, EditSource
  <2>3. handle.plug <= plugs /\ plugs \in Nat /\ handle.plug \in Nat
    BY DEF HandleOld, TypeOK, DevicesOK, CommandOK
  <2>4. slot' # NoDevice /\ plugs' # plugs + 1
    BY <2>1, <2>3 DEF Alive
  <2>. QED
    BY <2>1, <2>2, <2>4 DEF Alive, Writing
<1>3. CASE InspectOpened
  BY <1>3 DEF InspectOpened, Suits, Writing
<1>4. CASE Copy \/ CheckSource \/ Sync
  <2>1. UNCHANGED <<slot, plugs, plan>> /\ pc \in Writing /\ handle' = handle
    BY <1>4 DEF Copy, CheckSource, Sync, Writing
  <2>. QED
    BY <2>1 DEF Alive
<1>. QED
  BY <1>1, <1>2, <1>3, <1>4
     DEF Next, Write, Verify, Plan, Begin, FirstInspection, Unmount,
     FinalInspection, OpenWrite, Close, BeforeReadBack, OpenRead, InspectReopened,
     ReadBack, Compare, LastInspection, Eject, Opens, Writing

LEMMA PlannedNext == TypeOK /\ PlannedInv /\ Next => PlannedInv'
<1> SUFFICES ASSUME TypeOK, PlannedInv, Next PROVE PlannedInv'
  OBVIOUS
<1>. USE DEF PlannedInv
<1>1. HandleOld'
  <2>1. plugs \in Nat /\ plugs' \in {plugs, plugs + 1} /\ handle.plug \in Nat
    BY DEF TypeOK, DevicesOK, CommandOK, Next, Write, Verify, Environment, Plan, Begin,
       FirstInspection, Unmount, FinalInspection, OpenWrite, InspectOpened, Copy,
       CheckSource, Sync, Close, BeforeReadBack, OpenRead, InspectReopened, ReadBack,
       Compare, LastInspection, Eject, Unplug, Plug, Reuse, Edit, EditSource
  <2>2. handle' \in {handle, Closed, [dev |-> slot, plug |-> plugs]}
    BY DEF Next, Write, Verify, Environment, Plan, Begin, Opens,
       FirstInspection, Unmount, FinalInspection, OpenWrite, InspectOpened, Copy,
       CheckSource, Sync, Close, BeforeReadBack, OpenRead, InspectReopened, ReadBack,
       Compare, LastInspection, Eject, Unplug, Plug, Reuse, Edit, EditSource
  <2>. QED
    BY <2>1, <2>2 DEF HandleOld
<1>2. HandlePlanned'
  BY WritingGoesOn DEF HandlePlanned
<1>3. OnlyPlannedWritten'
  <2>1. CASE Copy
    <3>1. wrote' = wrote \/ (Alive /\ wrote' = wrote \cup {handle.dev})
      BY <2>1 DEF Copy, Put
    <3>2. Alive => handle.dev = slot /\ Fingerprint[slot] \in plan
      BY <2>1 DEF Copy, HandlePlanned, Writing, Alive
    <3>3. plan' = plan
      BY <2>1 DEF Copy
    <3>. QED
      BY <3>1, <3>2, <3>3 DEF OnlyPlannedWritten
  <2>2. CASE ~Copy
    <3>1. wrote' = {} \/ (wrote' = wrote /\ plan' = plan)
      BY <2>2 DEF Next, Write, Verify, Environment, Plan, Begin, Opens,
         FirstInspection, Unmount, FinalInspection, OpenWrite, InspectOpened,
         CheckSource, Sync, Close, BeforeReadBack, OpenRead, InspectReopened, ReadBack,
         Compare, LastInspection, Eject, Unplug, Plug, Reuse, Edit, EditSource
    <3>. QED
      BY <3>1 DEF OnlyPlannedWritten
  <2>. QED
    BY <2>1, <2>2
<1>. QED
  BY <1>1, <1>2, <1>3

LEMMA PlannedStep == TypeOK /\ PlannedInv /\ [Next]_vars => PlannedInv'
<1>1. CASE UNCHANGED vars
  BY <1>1 DEF vars, PlannedInv, HandleOld, HandlePlanned, OnlyPlannedWritten, Alive
<1>. QED
  BY <1>1, PlannedNext

(* Only a device with the fingerprint the operator confirmed is written to,  *)
(* however often devices are exchanged behind the path.                      *)
THEOREM OnlyPlannedAlwaysWritten == Spec => []OnlyPlannedWritten
<1>1. PlannedInv => OnlyPlannedWritten
  BY DEF PlannedInv
<1>. QED
  BY <1>1, TypeCorrect, PlannedInit, PlannedStep, PTL DEF Spec

-----------------------------------------------------------------------------
LEMMA ToldInit == Init => ToldInv
BY DEF Init, ToldInv, StageOK, CleanOK, NothingUntold, Earlier, Writing, Later

LEMMA StageNext == StageOK /\ Next => StageOK'
<1> SUFFICES ASSUME StageOK, Next PROVE StageOK'
  OBVIOUS
<1>. USE DEF StageOK, Earlier, Writing, Later, Silent, Done
<1>1. CASE Environment
  BY <1>1 DEF Environment, Unplug, Plug, Reuse, Edit, EditSource
<1>2. CASE Plan \/ Begin \/ FirstInspection \/ Unmount \/ FinalInspection
  BY <1>2 DEF Plan, Begin, FirstInspection, Unmount, FinalInspection
<1>3. CASE OpenWrite \/ InspectOpened \/ CheckSource \/ Sync \/ Close
  BY <1>3 DEF OpenWrite, Opens, InspectOpened, CheckSource, Sync, Close
<1>4. CASE Copy
  BY <1>4 DEF Copy, Mutated
<1>5. CASE BeforeReadBack \/ OpenRead \/ InspectReopened \/ ReadBack
  BY <1>5 DEF BeforeReadBack, OpenRead, Opens, InspectReopened, ReadBack
<1>6. CASE Compare \/ LastInspection \/ Eject
  BY <1>6 DEF Compare, LastInspection, Eject
<1>. QED
  BY <1>1, <1>2, <1>3, <1>4, <1>5, <1>6 DEF Next, Write, Verify

(* Nothing is written before the first chunk, and then the count tells.      *)
LEMMA CleanNext ==
  CommandOK /\ StageOK /\ CleanOK /\ NothingUntold /\ Next => CleanOK' /\ NothingUntold'
<1> SUFFICES ASSUME CommandOK, StageOK, CleanOK, NothingUntold, Next
             PROVE  CleanOK' /\ NothingUntold'
  OBVIOUS
<1>. USE DEF CleanOK, NothingUntold, Earlier, Silent
<1>1. CASE Environment
  BY <1>1 DEF Environment, Unplug, Plug, Reuse, Edit, EditSource
<1>2. CASE Plan \/ Begin \/ FirstInspection \/ Unmount \/ FinalInspection
  BY <1>2 DEF Plan, Begin, FirstInspection, Unmount, FinalInspection
<1>3. CASE OpenWrite \/ InspectOpened \/ CheckSource \/ Sync \/ Close
  BY <1>3 DEF OpenWrite, Opens, InspectOpened, CheckSource, Sync, Close
<1>4. CASE Copy
  <2>1. pc = "copy" /\ done \in Nat
    BY <1>4 DEF Copy, CommandOK
  <2>2. \/ pc' = "copy" /\ done' = done + 1
        \/ pc' = "idle" /\ state' = Mutated(TRUE)
        \/ pc' = "idle" /\ state' = Mutated(FALSE) /\ wrote' = wrote
    BY <1>4, <2>1 DEF Copy
  <2>3. Mutated(TRUE) = "writing" /\ (done > 0 => Mutated(FALSE) = "writing")
    BY DEF Mutated
  <2>4. done + 1 > 0
    BY <2>1
  <2>. QED
    BY <2>1, <2>2, <2>3, <2>4
<1>5. CASE Verify
  <2>1. pc \in Later /\ state \in Done
    BY <1>5 DEF Verify, BeforeReadBack, OpenRead, InspectReopened, ReadBack, Compare,
       LastInspection, Eject, StageOK, Later
  <2>2. pc' \in Later \cup {"idle"} /\ state' \in Done
    BY <1>5, <2>1 DEF Verify, BeforeReadBack, OpenRead, Opens, InspectReopened, ReadBack,
       Compare, LastInspection, Eject, Later, Done
  <2>. QED
    BY <2>2 DEF Later, Done
<1>. QED
  BY <1>1, <1>2, <1>3, <1>4, <1>5 DEF Next, Write

LEMMA ToldStep == TypeOK /\ ToldInv /\ [Next]_vars => ToldInv'
<1>1. CASE UNCHANGED vars
  BY <1>1 DEF vars, ToldInv, StageOK, CleanOK, NothingUntold
<1>2. CASE Next
  BY <1>2, StageNext, CleanNext DEF ToldInv, TypeOK
<1>. QED
  BY <1>1, <1>2

LEMMA ToldAlways == Spec => []ToldInv
BY TypeCorrect, ToldInit, ToldStep, PTL DEF Spec

(* A receipt that tells of no write stands for a device nothing was written  *)
(* to.                                                                       *)
THEOREM NothingEverUntold == Spec => []NothingUntold
<1>1. ToldInv => NothingUntold
  BY DEF ToldInv
<1>. QED
  BY <1>1, ToldAlways, PTL

-----------------------------------------------------------------------------
LEMMA FlushedInit == Init => FlushedInv
<1> SUFFICES ASSUME Init PROVE FlushedInv
  OBVIOUS
<1>. QED
  BY DEF Init, FlushedInv, CountsOK, CopiedOK, SettledOK, Earlier, Writing, Done

LEMMA CountsNext == CommandOK /\ CountsOK /\ Next => CountsOK'
<1> SUFFICES ASSUME CommandOK, CountsOK, Next PROVE CountsOK'
  OBVIOUS
<1>. USE DEF CountsOK, Earlier, Writing
<1>1. CASE Environment
  BY <1>1 DEF Environment, Unplug, Plug, Reuse, Edit, EditSource
<1>2. CASE Plan \/ Begin \/ FirstInspection \/ Unmount \/ FinalInspection
  BY <1>2 DEF Plan, Begin, FirstInspection, Unmount, FinalInspection
<1>3. CASE OpenWrite \/ InspectOpened \/ Sync \/ Close
  BY <1>3 DEF OpenWrite, Opens, InspectOpened, Sync, Close
<1>4. CASE Copy
  <2>1. pc' \in {"copy", "idle"} /\ pc = "copy" /\ reads' = reads
    BY <1>4 DEF Copy
  <2>. QED
    BY <2>1
<1>5. CASE CheckSource
  <2>1. done = Chunks
    BY <1>5, ChunksAssumption DEF CheckSource, Remains, CommandOK
  <2>2. /\ pc = "copy" /\ pc' \in {"sync", "idle"} /\ reads' = reads
        /\ pc' = "sync" => done' = done /\ intact' = intact /\ intact
    BY <1>5 DEF CheckSource
  <2>. QED
    BY <2>1, <2>2
<1>6. CASE Verify
  BY <1>6 DEF Verify, BeforeReadBack, OpenRead, Opens, InspectReopened, ReadBack, Compare,
     LastInspection, Eject
<1>. QED
  BY <1>1, <1>2, <1>3, <1>4, <1>5, <1>6 DEF Next, Write

LEMMA CopiedNext == TypeOK /\ HandleOld /\ CountsOK /\ CopiedOK /\ Next => CopiedOK'
<1> SUFFICES ASSUME TypeOK, HandleOld, CountsOK, CopiedOK, Next,
                    pc' \in {"copy", "sync"}, Alive', intact',
                    NEW c \in 1..done'
             PROVE  cache'[slot'][c] \in {"image", "foreign"}
  BY DEF CopiedOK
<1>1. /\ slot' = slot /\ slot # NoDevice /\ slot \in Devices
      /\ (pc \in Writing /\ Alive) \/ InspectOpened
  BY WritingGoesOn DEF Writing, Alive, TypeOK, DevicesOK
<1>2. done \in Nat /\ cache[slot] \in [Chunk -> Content]
  BY <1>1 DEF TypeOK, DevicesOK, CommandOK
<1>3. CASE InspectOpened
  <2>1. done' = 0
    BY <1>3 DEF InspectOpened, CountsOK, Earlier
  <2>. QED
    BY <2>1
<1>4. CASE Copy /\ Alive
  <2>1. PICK v \in Read : /\ Put(done + 1, v) /\ done' = done + 1
                          /\ intact' = (intact /\ v = "image")
    BY <1>4 DEF Copy
  <2>2. intact /\ v = "image" /\ pc = "copy"
    BY <1>4, <2>1 DEF Copy
  <2>3. handle.dev = slot /\ done + 1 \in Chunk
    BY <1>4, <1>2, ChunksAssumption DEF Alive, Copy, Remains
  <2>4. cache' = [cache EXCEPT ![slot][done + 1] = "image"]
    <3>1. cache' = [cache EXCEPT ![handle.dev][done + 1] = v]
      BY <2>1 DEF Put
    <3>. QED
      BY <2>2, <2>3, <3>1
  <2>5. cache'[slot] = [cache[slot] EXCEPT ![done + 1] = "image"]
    BY <2>4, <1>1 DEF TypeOK, DevicesOK
  <2>6. c \in 1..(done + 1)
    BY <2>1
  <2>7. CASE c = done + 1
    BY <1>1, <1>2, <2>3, <2>5, <2>7
  <2>8. CASE c # done + 1
    <3>1. c \in 1..done
      BY <1>2, <2>6, <2>8
    <3>2. cache[slot][c] \in {"image", "foreign"}
      BY <3>1, <2>2, <1>4 DEF CopiedOK
    <3>3. c \in Chunk
      BY <3>1, <1>2, <2>3, ChunksAssumption
    <3>. HIDE DEF Chunk
    <3>4. cache'[slot][c] = cache[slot][c]
      BY <1>2, <2>5, <2>8, <3>3
    <3>. QED
      BY <1>1, <3>2, <3>4
  <2>. QED
    BY <2>7, <2>8
<1>5. CASE CheckSource /\ Alive
  BY <1>1, <1>5 DEF CheckSource, CopiedOK
<1>6. CASE Environment /\ Alive
  <2>1. pc' = pc /\ done' = done /\ intact' = intact
    BY <1>6 DEF Environment, Unplug, Plug, Reuse, Edit, EditSource
  <2>2. cache[slot][c] \in {"image", "foreign"}
    BY <1>6, <2>1 DEF CopiedOK
  <2>3. CASE Edit
    <3>1. PICK b \in Chunk : cache' = [cache EXCEPT ![slot][b] = "foreign"]
      BY <2>3 DEF Edit
    <3>2. cache'[slot] = [cache[slot] EXCEPT ![b] = "foreign"]
      BY <1>1, <3>1 DEF TypeOK, DevicesOK
    <3>3. c \in Chunk
      <4>1. done' = done /\ done \in 0..Chunks
        BY <2>1 DEF TypeOK, CommandOK
      <4>. QED
        BY <4>1, ChunksAssumption
    <3>. HIDE DEF Chunk
    <3>. QED
      BY <1>1, <1>2, <2>2, <3>2, <3>3
  <2>4. CASE ~Edit
    <3>1. cache' = cache
      BY <1>1, <1>6, <2>4 DEF Environment, Unplug, Plug, Reuse, EditSource
    <3>. QED
      BY <1>1, <2>2, <3>1
  <2>. QED
    BY <2>3, <2>4
<1>. QED
  BY <1>1, <1>3, <1>4, <1>5, <1>6 DEF Next, Write, Verify, Plan, Begin, FirstInspection,
     Unmount, FinalInspection, OpenWrite, Sync, Close, Opens,
     BeforeReadBack, OpenRead, InspectReopened, ReadBack, Compare, LastInspection, Eject,
     Writing

(* What has been settled stays so when the cache is dropped, when a device   *)
(* is unplugged and when somebody else writes.                               *)
LEMMA SettledStays ==
  ASSUME TypeOK, Close \/ Unplug \/ Edit, NEW d \in Devices, Settled(d)
  PROVE  Settled(d)'
<1> SUFFICES ASSUME NEW c \in Chunk
             PROVE  durable'[d][c] \notin {"old", "bad"} /\ cache'[d][c] \notin {"old", "bad"}
  BY DEF Settled
<1>. HIDE DEF Chunk
<1>1. durable[d][c] \notin {"old", "bad"} /\ cache[d][c] \notin {"old", "bad"}
  BY DEF Settled
<1>2. durable \in [Devices -> [Chunk -> Content]] /\ cache \in [Devices -> [Chunk -> Content]]
  BY DEF TypeOK, DevicesOK
<1>3. CASE Close
  BY <1>1, <1>2, <1>3 DEF Close
<1>4. CASE Unplug
  <2>1. PICK kept \in SUBSET Chunk :
           LET left == [e \in Chunk |-> IF e \in kept THEN cache[slot][e]
                                                     ELSE durable[slot][e]]
           IN durable' = [durable EXCEPT ![slot] = left] /\ cache' = [cache EXCEPT ![slot] = left]
    BY <1>4 DEF Unplug
  <2>. DEFINE left == [e \in Chunk |-> IF e \in kept THEN cache[slot][e] ELSE durable[slot][e]]
  <2>2. durable' = [durable EXCEPT ![slot] = left] /\ cache' = [cache EXCEPT ![slot] = left]
    BY <2>1
  <2>3. left[c] \in {cache[slot][c], durable[slot][c]}
    OBVIOUS
  <2>. HIDE DEF left
  <2>. QED
    BY <1>1, <1>2, <2>2, <2>3
<1>5. CASE Edit
  <2>1. PICK b \in Chunk : /\ durable' = [durable EXCEPT ![slot][b] = "foreign"]
                           /\ cache' = [cache EXCEPT ![slot][b] = "foreign"]
    BY <1>5 DEF Edit
  <2>2. durable'[d][c] \in {durable[d][c], "foreign"}
    BY <1>2, <2>1
  <2>3. cache'[d][c] \in {cache[d][c], "foreign"}
    BY <1>2, <2>1
  <2>. QED
    BY <1>1, <2>2, <2>3
<1>. QED
  BY <1>3, <1>4, <1>5

(* A flush settles the device that has been copied to.                       *)
LEMMA SyncSettles ==
  ASSUME TypeOK, HandlePlanned, CountsOK, CopiedOK, Sync, pc' = "close"
  PROVE  \E d \in Devices : Fingerprint[d] \in plan' /\ Settled(d)'
<1>1. pc = "sync" /\ Alive /\ \E f \in Flushed : durable' = [durable EXCEPT ![handle.dev] = f]
  BY DEF Sync
<1>2. cache' = cache /\ plan' = plan
  BY <1>1 DEF Sync
<1>3. handle.dev = slot /\ slot \in Devices
  BY <1>1 DEF Alive, TypeOK, DevicesOK
<1>4. Fingerprint[slot] \in plan
  BY <1>1 DEF HandlePlanned, Writing
<1>5. \A c \in Chunk : cache[slot][c] \in {"image", "foreign"}
  BY <1>1 DEF CountsOK, CopiedOK
<1>6. PICK f \in Flushed : durable' = [durable EXCEPT ![slot] = f]
  BY <1>1, <1>3
<1>. HIDE DEF Chunk
<1>7. durable'[slot] = f
  BY <1>3, <1>6 DEF TypeOK, DevicesOK
<1>8. \A c \in Chunk : f[c] \in {"image", "foreign", "corrupt"}
  <2>1. cache[slot] \in [Chunk -> Content]
    BY <1>3 DEF TypeOK, DevicesOK
  <2>. QED
    BY <1>3, <1>5, <2>1 DEF Flushed
<1>9. \A d \in Devices : d = slot => Settled(d)'
  BY <1>2, <1>5, <1>7, <1>8 DEF Settled
<1>. QED
  BY <1>2, <1>3, <1>4, <1>9

LEMMA SettledNext ==
  TypeOK /\ HandlePlanned /\ StageOK /\ CountsOK /\ CopiedOK /\ SettledOK /\ Next => SettledOK'
<1> SUFFICES ASSUME TypeOK, HandlePlanned, StageOK, CountsOK, CopiedOK, SettledOK, Next,
                    pc' = "close" \/ state' \in Done
             PROVE  \E d \in Devices : Fingerprint[d] \in plan' /\ Settled(d)'
  BY DEF SettledOK
<1>1. CASE Sync /\ pc' = "close"
  BY <1>1, SyncSettles
<1>2. CASE ~(Sync /\ pc' = "close")
  <2>1. pc = "close" \/ state \in Done
    <3>1. CASE Environment
      BY <3>1 DEF Environment, Unplug, Plug, Reuse, Edit, EditSource
    <3>2. CASE Plan \/ Begin \/ FirstInspection \/ Unmount \/ FinalInspection
      BY <3>2 DEF Plan, Begin, FirstInspection, Unmount, FinalInspection, Done
    <3>3. CASE OpenWrite \/ InspectOpened \/ Copy \/ CheckSource \/ Sync \/ Close
      BY <1>2, <3>3 DEF OpenWrite, Opens, InspectOpened, Copy, Mutated, CheckSource, Sync,
         Close, Done
    <3>4. CASE Verify
      BY <3>4 DEF Verify, BeforeReadBack, OpenRead, InspectReopened, ReadBack, Compare,
         LastInspection, Eject, StageOK, Later
    <3>. QED
      BY <3>1, <3>2, <3>3, <3>4 DEF Next, Write
  <2>2. PICK d \in Devices : Fingerprint[d] \in plan /\ Settled(d)
    BY <2>1 DEF SettledOK
  <2>3. plan' = plan
    BY DEF Next, Write, Verify, Environment, Plan, Begin, FirstInspection, Unmount,
       FinalInspection, OpenWrite, Opens, InspectOpened, Copy, CheckSource, Sync, Close,
       BeforeReadBack, OpenRead, InspectReopened, ReadBack, Compare, LastInspection, Eject,
       Unplug, Plug, Reuse, Edit, EditSource, Done
  <2>4. ~Copy /\ ~Sync
    <3>1. ~Copy
      <4>1. Copy => pc = "copy" /\ pc' # "close" /\ state' \in {state, "writing"}
        BY DEF Copy, Mutated
      <4>. QED
        BY <4>1 DEF StageOK, Writing, Silent, Done
    <3>2. ~Sync
      BY <1>2 DEF Sync, StageOK, Writing, Silent, Done
    <3>. QED
      BY <3>1, <3>2
  <2>5. CASE Close \/ Unplug \/ Edit
    BY <2>2, <2>3, <2>5, SettledStays
  <2>6. CASE ~(Close \/ Unplug \/ Edit)
    <3>1. UNCHANGED <<durable, cache>>
      BY <2>4, <2>6, Elsewhere
    <3>. QED
      BY <2>2, <2>3, <3>1 DEF Settled
  <2>. QED
    BY <2>5, <2>6
<1>. QED
  BY <1>1, <1>2

LEMMA FlushedStep ==
  TypeOK /\ PlannedInv /\ ToldInv /\ FlushedInv /\ [Next]_vars => FlushedInv'
<1>1. CASE UNCHANGED vars
  BY <1>1 DEF vars, FlushedInv, CountsOK, CopiedOK, SettledOK, Settled, Alive
<1>2. CASE Next
  BY <1>2, CountsNext, CopiedNext, SettledNext DEF TypeOK, PlannedInv, ToldInv, FlushedInv
<1>. QED
  BY <1>1, <1>2

LEMMA PlannedAlways == Spec => []PlannedInv
BY TypeCorrect, PlannedInit, PlannedStep, PTL DEF Spec

LEMMA FlushedAlways == Spec => []FlushedInv
BY TypeCorrect, PlannedAlways, ToldAlways, FlushedInit, FlushedStep, PTL DEF Spec

(* Once the receipt says written, no chunk of some planned device still has  *)
(* its former content or a half-written one, whatever was lost or exchanged. *)
THEOREM WrittenAlwaysFlushed == Spec => []WrittenIsFlushed
<1>1. FlushedInv => WrittenIsFlushed
  BY DEF FlushedInv, SettledOK, Settled, WrittenIsFlushed, Done
<1>. QED
  BY <1>1, FlushedAlways, PTL

-----------------------------------------------------------------------------
LEMMA ReadInit == Init => ReadInv
BY DEF Init, ReadInv, CacheOK, Same, ReadOK, KeptOK, Writing, Later

(* These leave nothing behind that is not also on the device.                *)
LEMMA Settling ==
  ASSUME TypeOK, CacheOK, Close \/ Unplug \/ Plug \/ Eject
  PROVE  Same'
<1>1. CASE Close
  <2>1. Alive => handle.dev = slot
    BY DEF Alive
  <2>2. UNCHANGED durable /\ pc = "close"
        /\ cache' = IF Alive THEN [cache EXCEPT ![handle.dev] = durable[handle.dev]] ELSE cache
    BY <1>1 DEF Close
  <2>. QED
    BY <2>1, <2>2 DEF CacheOK, Same, Writing, TypeOK, DevicesOK
<1>2. CASE Unplug
  <2>1. PICK kept \in SUBSET Chunk :
           LET left == [e \in Chunk |-> IF e \in kept THEN cache[slot][e]
                                                     ELSE durable[slot][e]]
           IN durable' = [durable EXCEPT ![slot] = left] /\ cache' = [cache EXCEPT ![slot] = left]
    BY <1>2 DEF Unplug
  <2>. DEFINE left == [e \in Chunk |-> IF e \in kept THEN cache[slot][e] ELSE durable[slot][e]]
  <2>2. durable' = [durable EXCEPT ![slot] = left] /\ cache' = [cache EXCEPT ![slot] = left]
    BY <2>1
  <2>. HIDE DEF left
  <2>. QED
    BY <2>2 DEF CacheOK, Same, TypeOK, DevicesOK
<1>3. CASE Plug
  BY <1>3, DevicesAssumption DEF Plug, CacheOK, Same
<1>4. CASE Eject
  BY <1>4 DEF Eject, CacheOK, Same, Later
<1>. QED
  BY <1>1, <1>2, <1>3, <1>4

LEMMA EditSame ==
  ASSUME TypeOK, Edit
  PROVE  \A d \in Devices : cache[d] = durable[d] => cache'[d] = durable'[d]
<1>1. PICK b \in Chunk : /\ durable' = [durable EXCEPT ![slot][b] = "foreign"]
                         /\ cache' = [cache EXCEPT ![slot][b] = "foreign"]
  BY DEF Edit
<1>. HIDE DEF Chunk
<1>. QED
  BY <1>1 DEF TypeOK, DevicesOK

LEMMA CacheNext == TypeOK /\ StageOK /\ CacheOK /\ Next => CacheOK'
<1> SUFFICES ASSUME TypeOK, StageOK, CacheOK, Next PROVE CacheOK'
  OBVIOUS
<1>1. CASE Close \/ Unplug \/ Plug \/ Eject
  <2>1. Same'
    BY <1>1, Settling
  <2>. QED
    BY <2>1 DEF CacheOK, Same
<1>2. CASE Copy \/ Sync
  <2>1. /\ UNCHANGED <<slot, plugs>> /\ pc \in Writing /\ pc' \in {"copy", "close", "idle"}
        /\ state' \in {state, "writing"} /\ handle' \in {handle, Closed}
        /\ pc' \in Writing => handle' = handle /\ Alive
    BY <1>2 DEF Copy, Sync, Put, Writing, Mutated
  <2>2. pc' \in Writing => Alive'
    BY <2>1 DEF Alive
  <2>3. state' \notin {"verified", "complete"}
    BY <2>1 DEF StageOK, Silent
  <2>4. \A d \in Devices : d # slot => cache'[d] = cache[d] /\ durable'[d] = durable[d]
    <3>1. cache \in [Devices -> [Chunk -> Content]] /\ durable \in [Devices -> [Chunk -> Content]]
      BY DEF TypeOK, DevicesOK
    <3>. HIDE DEF Chunk, Content
    <3>2. CASE Copy
      <4>1. \/ cache' = cache
            \/ \E c, v : Alive /\ cache' = [cache EXCEPT ![handle.dev][c] = v]
        BY <3>2 DEF Copy, Put
      <4>2. durable' = durable
        BY <3>2 DEF Copy
      <4>3. Alive => handle.dev = slot
        BY DEF Alive
      <4>. QED
        BY <3>1, <4>1, <4>2, <4>3
    <3>3. CASE Sync
      <4>1. \/ durable' = durable
            \/ \E f : Alive /\ durable' = [durable EXCEPT ![handle.dev] = f]
        BY <3>3 DEF Sync
      <4>2. cache' = cache
        BY <3>3 DEF Sync
      <4>3. Alive => handle.dev = slot
        BY DEF Alive
      <4>. QED
        BY <3>1, <4>1, <4>2, <4>3
    <3>. QED
      BY <1>2, <3>2, <3>3
  <2>. QED
    BY <2>1, <2>2, <2>3, <2>4 DEF CacheOK, Later, Writing
<1>3. CASE Edit
  <2>1. UNCHANGED <<slot, plugs, handle, pc, state>>
    BY <1>3 DEF Edit
  <2>2. Alive' = Alive
    BY <2>1 DEF Alive
  <2>3. \A d \in Devices : cache[d] = durable[d] => cache'[d] = durable'[d]
    BY <1>3, EditSame
  <2>. QED
    BY <2>1, <2>2, <2>3 DEF CacheOK, Same
<1>4. CASE ~(Close \/ Unplug \/ Plug \/ Eject \/ Copy \/ Sync \/ Edit)
  <2>1. UNCHANGED <<slot, plugs>>
    BY <1>4 DEF Next, Write, Verify, Environment, Plan, Begin, FirstInspection, Unmount,
       FinalInspection, OpenWrite, InspectOpened, CheckSource, BeforeReadBack, OpenRead,
       InspectReopened, ReadBack, Compare, LastInspection, Reuse, EditSource
  <2>2. UNCHANGED <<durable, cache>>
    BY <1>4, Elsewhere
  <2>3. pc' \in Later \/ state' \in {"verified", "complete"} =>
           pc \in Later \/ state \in {"verified", "complete"}
    BY <1>4 DEF Next, Write, Verify, Environment, Plan, Begin, FirstInspection, Unmount,
       FinalInspection, OpenWrite, InspectOpened, CheckSource, BeforeReadBack, OpenRead,
       Opens, InspectReopened, ReadBack, Compare, LastInspection, Reuse, EditSource,
       Later, Writing
  <2>4. \/ pc' \notin {"opened"} \cup Writing
        \/ pc \in {"opened"} \cup Writing /\ handle' = handle
        \/ handle' = [dev |-> slot, plug |-> plugs] /\ slot # NoDevice
    BY <1>4 DEF Next, Write, Verify, Environment, Plan, Begin, FirstInspection, Unmount,
       FinalInspection, OpenWrite, InspectOpened, CheckSource, BeforeReadBack, OpenRead,
       Opens, InspectReopened, ReadBack, Compare, LastInspection, Reuse, EditSource,
       Writing
  <2>5. pc' \in {"opened"} \cup Writing /\ ~Alive' => pc \in {"opened"} \cup Writing /\ ~Alive
    BY <2>1, <2>4 DEF Alive
  <2>. QED
    BY <2>1, <2>2, <2>3, <2>5 DEF CacheOK, Same
<1>. QED
  BY <1>1, <1>2, <1>3, <1>4

(* What has been read back stays, except where somebody else writes.         *)
LEMMA KeptStays ==
  ASSUME TypeOK, Same, Environment, NEW d \in Devices, NEW c \in Chunk, Kept(d, c)
  PROVE  Kept(d, c)'
<1>. HIDE DEF Chunk
<1>1. durable \in [Devices -> [Chunk -> Content]] /\ cache \in [Devices -> [Chunk -> Content]]
  BY DEF TypeOK, DevicesOK
<1>2. CASE Unplug
  <2>1. PICK kept \in SUBSET Chunk :
           LET left == [e \in Chunk |-> IF e \in kept THEN cache[slot][e]
                                                     ELSE durable[slot][e]]
           IN durable' = [durable EXCEPT ![slot] = left] /\ cache' = [cache EXCEPT ![slot] = left]
    BY <1>2 DEF Unplug
  <2>. DEFINE left == [e \in Chunk |-> IF e \in kept THEN cache[slot][e] ELSE durable[slot][e]]
  <2>2. durable' = [durable EXCEPT ![slot] = left]
    BY <2>1
  <2>3. slot \in Devices
    BY <1>2 DEF Unplug, TypeOK, DevicesOK
  <2>4. left[c] = durable[slot][c]
    BY <2>3 DEF Same
  <2>. HIDE DEF left
  <2>5. durable'[d][c] = durable[d][c] /\ late' = late
    BY <1>1, <1>2, <2>2, <2>4 DEF Unplug
  <2>. QED
    BY <2>5 DEF Kept
<1>3. CASE Edit
  <2>1. PICK b \in Chunk : /\ durable' = [durable EXCEPT ![slot][b] = "foreign"]
                           /\ late' = late \cup {<<slot, b>>}
    BY <1>3 DEF Edit
  <2>2. durable'[d][c] = durable[d][c] \/ <<d, c>> = <<slot, b>>
    BY <1>1, <2>1
  <2>. QED
    BY <2>1, <2>2 DEF Kept
<1>4. CASE Plug \/ Reuse \/ EditSource
  BY <1>4 DEF Plug, Reuse, EditSource, Kept
<1>. QED
  BY <1>2, <1>3, <1>4 DEF Environment

LEMMA ReadNext ==
  TypeOK /\ HandleOld /\ CountsOK /\ CacheOK /\ ReadOK /\ Next => ReadOK'
<1> SUFFICES ASSUME TypeOK, HandleOld, CountsOK, CacheOK, ReadOK, Next,
                    pc' = "read", Alive' \/ reads' > 0
             PROVE  /\ handle'.dev \in Devices /\ Fingerprint[handle'.dev] \in plan'
                    /\ good' => \A c \in 1..reads' : Kept(handle.dev, c)'
  BY DEF ReadOK
<1>1. CASE InspectReopened
  <2>1. /\ reads = 0 /\ reads' = reads /\ UNCHANGED <<slot, plugs, handle, plan>>
        /\ slot # NoDevice /\ Fingerprint[slot] \in plan
    BY <1>1 DEF InspectReopened, Suits, Usable, CountsOK
  <2>2. Alive
    BY <2>1 DEF Alive
  <2>3. handle.dev = slot /\ slot \in Devices
    BY <2>1, <2>2 DEF Alive, TypeOK, DevicesOK
  <2>. QED
    BY <2>1, <2>3
<1>2. CASE ReadBack
  <2>1. /\ pc = "read" /\ Alive /\ reads' = reads + 1 /\ UNCHANGED <<handle, plan, durable>>
        /\ late' = late \ {<<handle.dev, reads + 1>>}
    BY <1>2 DEF ReadBack
  <2>2. good' => good /\ cache[handle.dev][reads + 1] = "image"
    BY <1>2, <2>1 DEF ReadBack
  <2>3. /\ handle.dev \in Devices /\ Fingerprint[handle.dev] \in plan
        /\ good => \A c \in 1..reads : Kept(handle.dev, c)
    BY <2>1 DEF ReadOK
  <2>4. cache[handle.dev] = durable[handle.dev]
    BY <2>1, <2>3 DEF CacheOK, Same, Later
  <2>5. ASSUME good', NEW c \in 1..reads' PROVE Kept(handle.dev, c)'
    <3>1. reads \in Nat
      BY DEF TypeOK, CommandOK
    <3>2. CASE c = reads + 1
      BY <2>1, <2>2, <2>4, <2>5, <3>2 DEF Kept
    <3>3. CASE c # reads + 1
      <4>1. c \in 1..reads
        BY <2>1, <2>5, <3>1, <3>3
      <4>2. Kept(handle.dev, c)
        BY <2>2, <2>3, <2>5, <4>1
      <4>3. <<handle.dev, c>> \in late => <<handle.dev, c>> \in late'
        BY <2>1, <3>3
      <4>. QED
        BY <2>1, <4>2, <4>3 DEF Kept
    <3>. QED
      BY <3>2, <3>3
  <2>. QED
    BY <2>1, <2>3, <2>5
<1>3. CASE Environment
  <2>1. UNCHANGED <<pc, handle, plan, reads, good>>
    BY <1>3 DEF Environment, Unplug, Plug, Reuse, Edit, EditSource
  <2>2. Alive \/ reads > 0
    <3>1. \/ slot' = slot /\ plugs' = plugs
          \/ slot' = NoDevice
          \/ plugs' = plugs + 1
      BY <1>3 DEF Environment, Unplug, Plug, Reuse, Edit, EditSource
    <3>2. handle.plug <= plugs /\ plugs \in Nat /\ handle.plug \in Nat
      BY DEF HandleOld, TypeOK, DevicesOK, CommandOK
    <3>3. Alive' => slot' # NoDevice /\ plugs' # plugs + 1
      BY <2>1, <3>2 DEF Alive
    <3>4. Alive' => Alive
      BY <2>1, <3>1, <3>3 DEF Alive
    <3>. QED
      BY <2>1, <3>4
  <2>3. /\ handle.dev \in Devices /\ Fingerprint[handle.dev] \in plan
        /\ good => \A c \in 1..reads : Kept(handle.dev, c)
    BY <2>1, <2>2 DEF ReadOK
  <2>4. Same
    BY <2>1 DEF CacheOK, Later
  <2>5. ASSUME good, NEW c \in 1..reads PROVE Kept(handle.dev, c)'
    <3>1. c \in Chunk
      BY ChunksAssumption DEF TypeOK, CommandOK
    <3>2. Kept(handle.dev, c)
      BY <2>3, <2>5
    <3>3. \A d \in Devices : Kept(d, c) => Kept(d, c)'
      BY <1>3, <2>4, <3>1, KeptStays
    <3>. QED
      BY <2>1, <2>3, <3>2, <3>3 DEF Kept
  <2>. QED
    BY <2>1, <2>3, <2>5
<1>. QED
  BY <1>1, <1>2, <1>3 DEF Next, Write, Verify, Plan, Begin, FirstInspection, Unmount,
     FinalInspection, OpenWrite, Opens, InspectOpened, Copy, CheckSource, Sync, Close,
     BeforeReadBack, OpenRead, Compare, LastInspection, Eject

LEMMA KeptNext ==
  TypeOK /\ StageOK /\ CacheOK /\ ReadOK /\ KeptOK /\ Next => KeptOK'
<1> SUFFICES ASSUME TypeOK, StageOK, CacheOK, ReadOK, KeptOK, Next,
                    pc' \in {"last", "eject"} \/ state' \in {"verified", "complete"}
             PROVE  \E d \in Devices : Fingerprint[d] \in plan' /\ \A c \in Chunk : Kept(d, c)'
  BY DEF KeptOK
<1>1. CASE Compare
  <2>1. pc = "read" /\ good /\ UNCHANGED <<plan, durable, late>>
    BY <1>1 DEF Compare, Matches
  <2>2. reads = Chunks /\ reads > 0
    BY <1>1, ChunksAssumption DEF Compare, Remains, TypeOK, CommandOK
  <2>3. /\ handle.dev \in Devices /\ Fingerprint[handle.dev] \in plan
        /\ \A c \in Chunk : Kept(handle.dev, c)
    BY <2>1, <2>2 DEF ReadOK
  <2>. QED
    BY <2>1, <2>3 DEF Kept
<1>2. CASE ~Compare
  <2>1. pc \in {"last", "eject"} \/ state \in {"verified", "complete"}
    BY <1>2 DEF Next, Write, Verify, Environment, Plan, Begin, FirstInspection, Unmount,
       FinalInspection, OpenWrite, Opens, InspectOpened, Copy, CheckSource, Sync, Close,
       BeforeReadBack, OpenRead, InspectReopened, ReadBack, LastInspection, Eject,
       Unplug, Plug, Reuse, Edit, EditSource, Mutated
  <2>2. PICK d \in Devices : Fingerprint[d] \in plan /\ \A c \in Chunk : Kept(d, c)
    BY <2>1 DEF KeptOK
  <2>3. Same
    BY <2>1 DEF CacheOK, Later
  <2>4. CASE Environment
    <3>1. plan' = plan
      BY <2>4 DEF Environment, Unplug, Plug, Reuse, Edit, EditSource
    <3>. QED
      BY <2>2, <2>3, <2>4, <3>1, KeptStays
  <2>5. CASE ~Environment
    <3>1. LastInspection \/ Eject
      BY <1>2, <2>1, <2>5
         DEF Next, Write, Verify, Plan, Begin, FirstInspection, Unmount,
         FinalInspection, OpenWrite, InspectOpened, Copy, CheckSource, Sync, Close,
         BeforeReadBack, OpenRead, InspectReopened, ReadBack, StageOK
    <3>2. UNCHANGED <<plan, durable, late>>
      BY <3>1 DEF LastInspection, Eject
    <3>. QED
      BY <2>2, <3>2 DEF Kept
  <2>. QED
    BY <2>4, <2>5
<1>. QED
  BY <1>1, <1>2

LEMMA ReadStep ==
  TypeOK /\ PlannedInv /\ ToldInv /\ FlushedInv /\ ReadInv /\ [Next]_vars => ReadInv'
<1>1. CASE UNCHANGED vars
  BY <1>1 DEF vars, ReadInv, CacheOK, ReadOK, KeptOK, Same, Kept, Alive
<1>2. CASE Next
  BY <1>2, CacheNext, ReadNext, KeptNext DEF PlannedInv, ToldInv, FlushedInv, ReadInv
<1>. QED
  BY <1>1, <1>2

(* A verified device holds the image, except where somebody else has written *)
(* since it was read back: no cache and no exchanged device stands in for    *)
(* it.                                                                       *)
THEOREM VerifiedAlwaysDurable == Spec => []VerifiedIsDurable
<1>1. ReadInv => VerifiedIsDurable
  BY DEF ReadInv, KeptOK, Kept, VerifiedIsDurable
<1>. QED
  BY <1>1, TypeCorrect, PlannedAlways, ToldAlways, FlushedAlways, ReadInit, ReadStep, PTL DEF Spec
=============================================================================
