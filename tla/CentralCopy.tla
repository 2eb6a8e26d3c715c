---------------------------- MODULE CentralCopy ----------------------------
(***************************************************************************)
(* What the central database promises about the copy that it keeps of one  *)
(* session, without saying how the copy gets there: it has nothing that no *)
(* attempt to upload carried, it loses nothing that it has, and an attempt *)
(* is told that it is done only when all it carries is there.  An attempt  *)
(* may end half-way, and others may start before it ends.                  *)
(*                                                                         *)
(* Module SyncReceiver is shown to implement it; module HubSession, whose  *)
(* uploads are single steps, relies on no more than this.                  *)
(***************************************************************************)

CONSTANTS Attempts, Row

VARIABLES sent,     \* sent[a]: the rows that attempt a carries
          copy,     \* the rows that are there
          told      \* the attempts that were acknowledged

copyVars == <<sent, copy, told>>

CopyInit == sent = [a \in Attempts |-> {}] /\ copy = {} /\ told = {}

\* An attempt starts; what it carries is sealed, and stays as it is.
Send(a) ==
    /\ sent[a] = {} /\ a \notin told
    /\ \E rows \in SUBSET Row : sent' = [sent EXCEPT ![a] = rows]
    /\ UNCHANGED <<copy, told>>

\* Something of what the attempt carries arrives.
Take(a) ==
    /\ \E rows \in SUBSET sent[a] : copy' = copy \cup rows
    /\ UNCHANGED <<sent, told>>

\* All of it is there, and the attempt is told.
Tell(a) ==
    /\ sent[a] \subseteq copy
    /\ told' = told \cup {a}
    /\ UNCHANGED <<sent, copy>>

CopyNext == \E a \in Attempts : Send(a) \/ Take(a) \/ Tell(a)

CopySpec == CopyInit /\ [][CopyNext]_copyVars

=============================================================================
