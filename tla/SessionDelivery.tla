-------------------------- MODULE SessionDelivery --------------------------
(***************************************************************************)
(* What the coordinator phone promises about the way of a session's rows   *)
(* from its own ledger to the central database: nothing leaves the phone   *)
(* before the session is closed, nothing arrives that is not in the        *)
(* session's own ledger, nothing that arrived is taken back, and a session *)
(* counts as delivered only while all that it held when it was closed is   *)
(* there.  How often the phone tries, who closes, and what dies in between *)
(* is not said; module HubSession is shown to implement it.                *)
(***************************************************************************)

CONSTANTS Students, Sessions

VARIABLES ledger,       \* ledger[s]: the students recorded on the phone
          closed,       \* the sessions that were closed
          held,         \* held[s]: the ledger when s was closed
          copy,         \* copy[s]: the students in the central database
          delivered     \* the sessions that the phone takes as delivered

deliveryVars == <<ledger, closed, held, copy, delivered>>

DeliveryInit ==
    /\ ledger = [s \in Sessions |-> {}]
    /\ held = [s \in Sessions |-> {}]
    /\ copy = [s \in Sessions |-> {}]
    /\ closed = {}
    /\ delivered = {}

\* A student is recorded; a check-in that is under way may outlive the closing.
Record(s) ==
    /\ \E st \in Students : ledger' = [ledger EXCEPT ![s] = @ \cup {st}]
    /\ UNCHANGED <<closed, held, copy, delivered>>

\* A session is closed once.
Close(s) ==
    /\ s \notin closed
    /\ closed' = closed \cup {s}
    /\ held' = [held EXCEPT ![s] = ledger[s]]
    /\ UNCHANGED <<ledger, copy, delivered>>

\* Rows of a closed session arrive, perhaps none.  The phone may hear of it or
\* not; it takes the session as delivered only if all that it held is there.
Deliver(s) ==
    /\ s \in closed
    /\ \E rows \in SUBSET ledger[s] : copy' = [copy EXCEPT ![s] = @ \cup rows]
    /\ \/ delivered' = delivered \ {s}
       \/ held[s] \subseteq copy'[s] /\ delivered' = delivered \cup {s}
    /\ UNCHANGED <<ledger, closed, held>>

DeliveryNext == \E s \in Sessions : Record(s) \/ Close(s) \/ Deliver(s)

DeliverySpec == DeliveryInit /\ [][DeliveryNext]_deliveryVars

=============================================================================
