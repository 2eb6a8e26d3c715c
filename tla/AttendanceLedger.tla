-------------------------- MODULE AttendanceLedger --------------------------
(***************************************************************************)
(* What the coordinator phone promises about a session's attendance        *)
(* ledger, without saying how: a ledger only grows, by one row at a time,  *)
(* a student appears in it at most once, and the rows are numbered         *)
(* 1, 2, 3, ... in the order in which they were recorded.  This is the     *)
(* "append-only ordering the sealed session package is built on" of        *)
(* CheckinValidator.kt; module Checkin is shown to implement it.           *)
(***************************************************************************)
EXTENDS Integers

CONSTANTS Students, Devices, Sessions

VARIABLE ledger     \* ledger[s]: the attendance rows of session s

\* An AttendanceRecord: the columns that identify it and order it.
Row == [student : Students, device : Devices, seq : Nat \ {0}]

Present(s) == {row.student : row \in ledger[s]}

LedgerInit == ledger = [s \in Sessions |-> {}]

\* One new row, for a student who is not there yet, numbered one more than
\* the rows there are, which are numbered from 1 without a gap.
Record(s) ==
    \E row \in ledger'[s] :
        /\ row \in Row
        /\ row.student \notin Present(s)
        /\ {x.seq : x \in ledger[s]} = 1 .. (row.seq - 1)
        /\ ledger' = [ledger EXCEPT ![s] = @ \cup {row}]

LedgerNext == \E s \in Sessions : Record(s)

LedgerSpec == LedgerInit /\ [][LedgerNext]_ledger

=============================================================================
