----------------------------- MODULE TrafficLedger -----------------------------
(*****************************************************************************)
(* What the backend promises about the traffic it has seen, table by table:  *)
(* an entry (a frame counted under a protocol) is pending from the moment it *)
(* is booked, it is stored at most once and then for good, and it disappears *)
(* without being stored only when something fails.                           *)
(*****************************************************************************)
EXTENDS Integers

CONSTANTS
    Entries,    \* everything that can be booked
    Tables      \* the tables every entry is to be stored in

VARIABLES
    pending,    \* for each table, the entries still to be stored
    stored,     \* for each table, the entries stored
    faults      \* number of failures so far

vars == <<pending, stored, faults>>

Init ==
    /\ pending = [t \in Tables |-> {}]
    /\ stored = [t \in Tables |-> {}]
    /\ faults = 0

(* Written over what a step adds and removes, so that TLC need not try every *)
(* set of entries.                                                           *)
Added(t) == pending'[t] \ pending[t]
Removed(t) == pending[t] \ pending'[t]

Book ==
    /\ DOMAIN pending' = Tables
    /\ \A t \in Tables :
           /\ pending[t] \subseteq pending'[t]
           /\ pending'[t] \subseteq Entries
           /\ Added(t) \cap stored[t] = {}
           /\ \A u \in Tables : Added(t) = Added(u)
    /\ UNCHANGED <<stored, faults>>

Store(t) ==
    /\ pending' = [pending EXCEPT ![t] = @ \ Removed(t)]
    /\ stored' = [stored EXCEPT ![t] = @ \cup Removed(t)]
    /\ UNCHANGED faults

Fail ==
    /\ faults' = faults + 1
    /\ DOMAIN pending' = Tables
    /\ \A t \in Tables : pending'[t] \subseteq pending[t]
    /\ UNCHANGED stored

Next == Book \/ Fail \/ \E t \in Tables : Store(t)

Spec == Init /\ [][Next]_vars

=============================================================================
