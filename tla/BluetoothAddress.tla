-------------------------- MODULE BluetoothAddress --------------------------
(* The private Bluetooth address, given to the built-in radio through the    *)
(* kernel's management channel when the system starts (internal/             *)
(* bluetoothmgmt): the radio is looked for in the kernel's inventory, a      *)
(* request is sent to its index over a socket of its own, and all of it is   *)
(* tried again until a controller says that it took the address.             *)
(*                                                                           *)
(* Meanwhile radios are enumerated under other indexes or disappear, the     *)
(* kernel carries a request out when its reply is no longer waited for, and  *)
(* the caller may give up.                                                   *)
EXTENDS Naturals

CONSTANTS Radios, BuiltIn,              \* all radios, and the built-in one's
          BtIndexes, Unlisted,          \* where one may be enumerated, or not
          BtAttempts,                   \* the attempts of one call
          MaxBtMoves, MaxBtFaults       \* bounds

ASSUME BluetoothAssumption ==
    /\ BuiltIn \subseteq Radios /\ BtIndexes \subseteq Nat /\ Unlisted \notin BtIndexes
    /\ BtAttempts \in Nat \ {0}
    /\ MaxBtMoves \in Nat /\ MaxBtFaults \in Nat

VARIABLES btAt,         \* the index of each radio
          btGiven,      \* every time a radio was given the address
          btRequests,   \* requests the kernel has not carried out
          btReply,      \* what the present socket can read
          btPc, btAnswer,
          btAttempt,    \* the attempts made
          btSince,      \* what had moved when the present one began
          btPending, btFound,   \* the inventory being read, its matches
          btIndex,      \* the index selected
          btExpired,    \* the deadline of this attempt's reply has passed
          btCancelled,  \* the caller has given up
          btMoves, btFaults

btKernel == <<btAt, btGiven, btRequests>>
btSearch == <<btPending, btFound, btIndex>>
btCall   == <<btAttempt, btSince>>
btVars == <<btKernel, btReply, btPc, btAnswer, btCall, btSearch, btExpired,
            btCancelled, btMoves, btFaults>>

BtPcs == {"idle", "attempt", "delay", "scan", "probe", "poll", "send", "read", "done"}
BtAnswers == {"none", "set", "not accepted", "cancelled", "no reply", "absent",
              "ambiguous", "failed", "refused"}

BtInit ==
    /\ btAt \in [Radios -> BtIndexes \cup {Unlisted}]
    /\ \A r, s \in Radios : r # s /\ btAt[r] # Unlisted => btAt[r] # btAt[s]
    /\ btGiven = {} /\ btRequests = {} /\ btReply = "none"
    /\ btPc = "idle" /\ btAnswer = "none"
    /\ btAttempt = 0 /\ btSince = 0
    /\ btPending = {} /\ btFound = {} /\ btIndex = Unlisted
    /\ btExpired = FALSE /\ btCancelled = FALSE
    /\ btMoves = 0 /\ btFaults = 0

-----------------------------------------------------------------------------
BtTo(next) == btPc' = next /\ UNCHANGED btAnswer
BtEnd(answer) == btPc' = "done" /\ btAnswer' = answer

BtFault == btFaults < MaxBtFaults /\ btFaults' = btFaults + 1

(* Bounds out of range, or an address no radio may have, end the call.       *)
BtBegin ==
    /\ btPc = "idle"
    /\ BtTo("attempt") \/ BtEnd("refused")
    /\ UNCHANGED <<btKernel, btReply, btCall, btSearch, btExpired, btCancelled,
                   btMoves, btFaults>>

(* The loop over the attempts.  The first begins at once, the others after a *)
(* delay that the caller may cut short.                                      *)
BtNextAttempt ==
    /\ btPc = "attempt"
    /\ btSince' = btMoves
    /\ \/ btAttempt = BtAttempts /\ BtEnd("not accepted")
       \/ btAttempt < BtAttempts /\ btCancelled /\ BtEnd("cancelled")
       \/ /\ btAttempt < BtAttempts /\ ~btCancelled
          /\ BtTo(IF btAttempt = 0 THEN "scan" ELSE "delay")
    /\ UNCHANGED <<btKernel, btReply, btAttempt, btSearch, btExpired, btCancelled,
                   btMoves, btFaults>>

(* Slip: the index selected before is used again.                            *)
MutantBtDelay ==
    /\ btPc = "delay"
    /\ BtTo("send") \/ (btCancelled /\ BtEnd("cancelled"))
    /\ UNCHANGED <<btKernel, btReply, btCall, btSearch, btExpired, btCancelled,
                   btMoves, btFaults>>

BtDelay ==
    /\ btPc = "delay"
    /\ BtTo("scan") \/ (btCancelled /\ BtEnd("cancelled"))
    /\ UNCHANGED <<btKernel, btReply, btCall, btSearch, btExpired, btCancelled,
                   btMoves, btFaults>>

(* selectController lists the inventory ...                                  *)
Listed == {btAt[r] : r \in Radios} \ {Unlisted}

BtScan ==
    /\ btPc = "scan" /\ BtTo("probe")
    /\ btPending' = Listed /\ btFound' = {}
    /\ UNCHANGED <<btKernel, btReply, btCall, btIndex, btExpired, btCancelled,
                   btMoves, btFaults>>

(* ... and reads, of one entry after the other, whether the radio that now   *)
(* has the index is the built-in one.                                        *)
IsBuiltIn(i) == \E r \in BuiltIn : btAt[r] = i

BtProbe ==
    /\ btPc = "probe" /\ btPending # {}
    /\ \E i \in btPending :
          /\ \A j \in btPending : i <= j
          /\ btPending' = btPending \ {i}
          /\ btFound' = IF IsBuiltIn(i) THEN btFound \cup {i} ELSE btFound
    /\ UNCHANGED <<btKernel, btReply, btPc, btAnswer, btCall, btIndex, btExpired,
                   btCancelled, btMoves, btFaults>>

(* Exactly one entry must match; without one the search is repeated.         *)
BtSelect ==
    /\ btPc = "probe" /\ btPending = {}
    /\ \/ \E i \in btFound : btFound = {i} /\ BtTo("send") /\ btIndex' = i
       \/ btFound = {} /\ BtTo("poll") /\ UNCHANGED btIndex
       \/ /\ \E i, j \in btFound : i # j
          /\ BtEnd("ambiguous") /\ UNCHANGED btIndex
    /\ UNCHANGED <<btKernel, btReply, btCall, btPending, btFound, btExpired,
                   btCancelled, btMoves, btFaults>>

(* The inventory cannot be read.                                             *)
BtSearchFails ==
    /\ btPc \in {"scan", "probe"} /\ BtFault /\ BtEnd("failed")
    /\ UNCHANGED <<btKernel, btReply, btCall, btSearch, btExpired, btCancelled, btMoves>>

(* The wait for a controller has a deadline of its own.                      *)
BtPoll ==
    /\ btPc = "poll"
    /\ BtTo("scan") \/ BtEnd("absent") \/ (btCancelled /\ BtEnd("cancelled"))
    /\ UNCHANGED <<btKernel, btReply, btCall, btSearch, btExpired, btCancelled,
                   btMoves, btFaults>>

(* An attempt fails, and its socket is closed.                               *)
BtFailAttempt == btAttempt' = btAttempt + 1 /\ btReply' = "none" /\ BtTo("attempt")

(* attemptSet.  A fresh socket is opened and bound, and the request written. *)
BtSend ==
    /\ btPc = "send" /\ BtTo("read")
    /\ btRequests' = btRequests \cup
          {[index |-> btIndex, attempt |-> btAttempt, since |-> btSince]}
    /\ btReply' = "none" /\ btExpired' = FALSE
    /\ UNCHANGED <<btAt, btGiven, btCall, btSearch, btCancelled, btMoves, btFaults>>

BtSendFails ==
    /\ btPc = "send" /\ BtFault /\ BtFailAttempt
    /\ UNCHANGED <<btKernel, btSince, btSearch, btExpired, btCancelled, btMoves>>

(* The reply to this request is read, unless its deadline is seen to have    *)
(* passed before.                                                            *)
BtReadReply ==
    /\ btPc = "read" /\ btReply # "none"
    /\ \/ btReply = "success" /\ BtEnd("set") /\ UNCHANGED <<btAttempt, btReply>>
       \/ btReply = "failure" /\ BtFailAttempt
       \/ (btExpired \/ btCancelled) /\ BtFailAttempt
    /\ UNCHANGED <<btKernel, btSince, btSearch, btExpired, btCancelled, btMoves, btFaults>>

(* An event about something else; the deadline is looked at again.           *)
BtReadOther ==
    /\ btPc = "read" /\ (btExpired \/ btCancelled) /\ BtFailAttempt
    /\ UNCHANGED <<btKernel, btSince, btSearch, btExpired, btCancelled, btMoves, btFaults>>

(* Nothing arrives in time.  If the deadline is over as well, and not only   *)
(* the socket's timeout, this ends the call.                                 *)
BtReadNothing ==
    /\ btPc = "read" /\ btReply = "none"
    /\ \/ btCancelled /\ BtEnd("cancelled") /\ UNCHANGED <<btAttempt, btReply>>
       \/ /\ btExpired /\ ~btCancelled
          /\ BtEnd("no reply") /\ UNCHANGED <<btAttempt, btReply>>
       \/ ~btExpired /\ ~btCancelled /\ BtFailAttempt
    /\ UNCHANGED <<btKernel, btSince, btSearch, btExpired, btCancelled, btMoves, btFaults>>

-----------------------------------------------------------------------------
(* The kernel carries a request out, or refuses to, whoever has the index by *)
(* then; the reply is lost if its socket is closed.                          *)
BtRadio(i) == {r \in Radios : btAt[r] = i}

BtCarryOut ==
    \E q \in btRequests, status \in {"success", "failure"} :
       /\ status = "success" => BtRadio(q.index) # {}
       /\ btRequests' = btRequests \ {q}
       /\ btGiven' = IF status = "failure" THEN btGiven
             ELSE btGiven \cup {[radio |-> r, attempt |-> q.attempt,
                                 moved |-> btMoves > q.since] : r \in BtRadio(q.index)}
       /\ btReply' = IF btPc = "read" /\ q.attempt = btAttempt THEN status ELSE btReply
       /\ UNCHANGED <<btAt, btPc, btAnswer, btCall, btSearch, btExpired, btCancelled,
                      btMoves, btFaults>>

(* A radio is enumerated anew, appears or disappears.                        *)
BtMove ==
    /\ btMoves < MaxBtMoves /\ btMoves' = btMoves + 1
    /\ \E r \in Radios, i \in BtIndexes \cup {Unlisted} :
          /\ i # btAt[r] /\ (i # Unlisted => BtRadio(i) = {})
          /\ btAt' = [btAt EXCEPT ![r] = i]
    /\ UNCHANGED <<btGiven, btRequests, btReply, btPc, btAnswer, btCall, btSearch,
                   btExpired, btCancelled, btFaults>>

BtDeadline ==
    /\ btPc = "read" /\ ~btExpired /\ btExpired' = TRUE
    /\ UNCHANGED <<btKernel, btReply, btPc, btAnswer, btCall, btSearch, btCancelled,
                   btMoves, btFaults>>

BtCancel ==
    /\ btPc # "done" /\ ~btCancelled /\ btCancelled' = TRUE
    /\ UNCHANGED <<btKernel, btReply, btPc, btAnswer, btCall, btSearch, btExpired,
                   btMoves, btFaults>>

BtNext ==
    \/ BtBegin \/ BtNextAttempt \/ BtDelay \/ BtScan \/ BtProbe \/ BtSelect
    \/ BtSearchFails \/ BtPoll \/ BtSend \/ BtSendFails \/ BtReadReply
    \/ BtReadOther \/ BtReadNothing \/ BtCarryOut \/ BtMove \/ BtDeadline \/ BtCancel

BtSpec == BtInit /\ [][BtNext]_btVars

-----------------------------------------------------------------------------
BtGifts == [radio : Radios, attempt : Nat, moved : BOOLEAN]

BtTypeOK ==
    /\ btAt \in [Radios -> BtIndexes \cup {Unlisted}]
    /\ btGiven \subseteq BtGifts
    /\ btRequests \subseteq [index : BtIndexes \cup {Unlisted}, attempt : Nat, since : Nat]
    /\ btReply \in {"none", "success", "failure"}
    /\ btPc \in BtPcs /\ btAnswer \in BtAnswers
    /\ btAttempt \in 0 .. BtAttempts /\ btSince \in Nat
    /\ btPending \subseteq BtIndexes /\ btFound \subseteq BtIndexes
    /\ btIndex \in BtIndexes \cup {Unlisted}
    /\ btExpired \in BOOLEAN /\ btCancelled \in BOOLEAN
    /\ btMoves \in Nat /\ btFaults \in Nat

(* The private address is given to no radio but the built-in one, on however *)
(* many attempts and with whatever replies, unless radios moved after the    *)
(* attempt that sent it began to look for the radio.                         *)
AddressStaysPrivate == \A g \in btGiven : g.radio \in BuiltIn \/ g.moved

(* The call says that the address is set only when the request of its last   *)
(* attempt was carried out, not an earlier one or another's; and it says the *)
(* address was never accepted only after every attempt.                      *)
AddressAnswerTells ==
    /\ btAnswer = "set" => \E g \in btGiven : g.attempt = btAttempt
    /\ btAnswer = "not accepted" => btAttempt = BtAttempts
    /\ btAnswer = "ambiguous" => btMoves > 0 \/ \E r, s \in BuiltIn : r # s
=============================================================================
