------------------------------- MODULE MCRooms -------------------------------
(***************************************************************************)
(* Small instances of the doors: the hotspot's slots, the online room, the *)
(* accounts, and the devices, PINs and links that are enrolled.  They      *)
(* share no state, so a behaviour is one component's, chosen at the start, *)
(* and the run explores the sum of their states, not the product.          *)
(***************************************************************************)
EXTENDS SlotWarden, CloudRoom, Accounts, Enrolment, TLC

CONSTANT ann

\* Two spellings of one student's number, and a request that carries none
Spellings == ("ANN " :> ann) @@ ("ann" :> ann) @@ ("" :> Blank)

VARIABLE focus

roomsVars == <<focus, vars, cloudVars, accountVars, enrolVars>>

RoomsInit ==
    /\ focus \in {"slots", "cloud", "accounts", "enrolment"}
    /\ Init /\ CloudInit /\ AccountsInit /\ EnrolInit
    /\ focus # "accounts" => acct = Unborn
    /\ focus # "enrolment" => part = "device"

RoomsNext ==
    /\ UNCHANGED focus
    /\ \/ focus = "slots" /\ Next /\ UNCHANGED <<cloudVars, accountVars, enrolVars>>
       \/ focus = "cloud" /\ CloudNext /\ UNCHANGED <<vars, accountVars, enrolVars>>
       \/ focus = "accounts" /\ AccountsNext /\ UNCHANGED <<vars, cloudVars, enrolVars>>
       \/ focus = "enrolment" /\ EnrolNext /\ UNCHANGED <<vars, cloudVars, accountVars>>

RoomsSpec == RoomsInit /\ [][RoomsNext]_roomsVars

\* A client of the hotspot and a request to the gateway stand for each other
Interchangeable == Permutations(Student) \cup Permutations(Request)

=============================================================================
