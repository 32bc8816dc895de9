------------------------------- MODULE MCLocal -------------------------------
(* What is done on one machine: an installation medium is written, the radio *)
(* of the running system gets its address, the camera is captured from, and  *)
(* the program updates itself.  A behaviour follows one of these stages.     *)
EXTENDS MediaWrite, BluetoothAddress, CameraCapture, SelfUpdate, TLC

CONSTANTS a, b, b1, d1, r1, r2

(* Two sticks that can be told apart, behind one path.                       *)
MCFingerprint == [d \in {a, b} |-> IF d = a THEN "first" ELSE "second"]

(* One radio that is built in, and one in a dongle.                          *)
MCRadios  == {b1, d1}
MCBuiltIn == {b1}

(* Of the two, both capture, or both update.                                 *)
MCUsers  == {r1, r2}
Symmetry == Permutations(MCUsers)

VARIABLE stage

LocalInit ==
    /\ stage \in {"media", "radio", "capture", "update"}
    /\ Init
    /\ stage # "media" => slot = NoDevice /\ use = [d \in Devices |-> "free"]
    /\ BtInit /\ (stage # "radio" => btAt = [r \in Radios |-> Unlisted])
    /\ CapInit
    /\ stage # "capture" =>
           capGraph = Nil /\ capFile = [f \in CapFiles |-> File(Nil, Nil)]
    /\ UpdInit
    /\ stage # "update" =>
           /\ updSystem = "unix" /\ updTarget.tag = 1 /\ updLatest = 1
           /\ updAsk = [p \in Updaters |-> Newest] /\ updSums = updAsset

LocalNext ==
    /\ UNCHANGED stage
    /\ \/ stage = "media" /\ Next /\ UNCHANGED <<btVars, capVars, updVars>>
       \/ stage = "radio" /\ BtNext /\ UNCHANGED <<vars, capVars, updVars>>
       \/ stage = "capture" /\ CapNext /\ UNCHANGED <<vars, btVars, updVars>>
       \/ stage = "update" /\ UpdNext /\ UNCHANGED <<vars, btVars, capVars>>

LocalVars == <<stage, vars, btVars, capVars, updVars>>

LocalSpec == LocalInit /\ [][LocalNext]_LocalVars
=============================================================================
