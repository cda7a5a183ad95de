-------------------------------- MODULE SumTable --------------------------------
(*****************************************************************************)
(* The schedule of the summary tables (sum_table in katalyzer.c).            *)
(*                                                                           *)
(* Each flush calls sum_table once.  It counts the call in interval,         *)
(* allocates one int, and for each of the four levels of summary tables that *)
(* is due stores the level in that int and starts a cronovanie thread on it. *)
(* The thread reads the level and frees the int.  All the threads of one     *)
(* call would share the one int.                                             *)
(*                                                                           *)
(* A level is its position in the arrays of sum_table: 1 sums five rows of   *)
(* the 1 minute tables, 2 six rows of level 1, 3 four rows of level 2, 4     *)
(* twelve rows of level 3.  What a thread does with the tables is left out.  *)
(*****************************************************************************)
EXTENDS Integers

CONSTANTS
    MaxInterval,    \* bound: calls of sum_table in one life of the process
    MaxDelay        \* bound: calls that may pass before a thread starts

ASSUME SumTableAssumption ==
    /\ MaxInterval \in Nat
    /\ MaxDelay \in Nat

VARIABLES
    interval,   \* calls of sum_table since the process started
    i,          \* the level the loop looks at; 0 outside sum_table
    heap,       \* the ints that are allocated and reachable, by call
    pending,    \* threads that have not started: <<call, level wanted>>
    requested   \* history: how often each level was due

vars == <<interval, i, heap, pending, requested>>

Levels == 1 .. 4

casy == <<5, 30, 2, 1>>
modu == <<5, 30, 120, 1440>>
\* faulty: the half hours are summed one call later
rozdShifted == <<1, 6, 30, 120>>
\* faulty: the half hours are summed on the half hour
rozdAligned == <<1, 0, 30, 120>>
rozd == <<1, 5, 30, 120>>

\* How many rows of the level below one row of level l sums.
Below == <<5, 6, 4, 12>>

Fires(n, l) == n % modu[l] = rozd[l] /\ n # rozd[l]

Init ==
    /\ interval = 0
    /\ i = 0
    /\ heap = <<>>
    /\ pending = {}
    /\ requested = [l \in Levels |-> 0]

-----------------------------------------------------------------------------
(* The int of the current call receives a level, if it is still allocated.   *)
Store(l) == [c \in DOMAIN heap |-> IF c = interval THEN casy[l] ELSE heap[c]]

(* The ints that remain when those outside cells are freed or unreachable.   *)
Only(cells) == [c \in DOMAIN heap \cap cells |-> heap[c]]

\* faulty: the call is not counted
NotCounted == interval
Counted == interval + 1

Call ==
    /\ i = 0
    /\ interval < MaxInterval
    /\ \A th \in pending : interval - th[1] < MaxDelay
    /\ interval' = Counted
    /\ heap' = [c \in DOMAIN heap \cup {Counted} |->
                    IF c = Counted THEN 0 ELSE heap[c]]
    /\ i' = 1
    /\ UNCHANGED <<pending, requested>>

NotDue ==
    /\ i \in Levels
    /\ ~Fires(interval, i)
    /\ i' = i + 1
    /\ UNCHANGED <<interval, heap, pending, requested>>

Create ==
    /\ i \in Levels
    /\ Fires(interval, i)
    /\ heap' = Store(i)
    /\ pending' = pending \cup {<<interval, casy[i]>>}
    /\ requested' = [requested EXCEPT ![i] = @ + 1]
    /\ i' = i + 1
    /\ UNCHANGED interval

(* pthread_create fails: the level is not summed this time.                  *)
CreateFails ==
    /\ i \in Levels
    /\ Fires(interval, i)
    /\ heap' = Store(i)
    /\ requested' = [requested EXCEPT ![i] = @ + 1]
    /\ i' = i + 1
    /\ UNCHANGED <<interval, pending>>

(* sum_table returns; an int no thread was started on is never freed.        *)
Return ==
    /\ i = 5
    /\ i' = 0
    /\ heap' = Only({th[1] : th \in pending})
    /\ UNCHANGED <<interval, pending, requested>>

(* The first two lines of cronovanie: read the level, free the int.          *)
CronStart(th) ==
    /\ pending' = pending \ {th}
    /\ heap' = Only(DOMAIN heap \ {th[1]})
    /\ UNCHANGED <<interval, i, requested>>

(* The process is stopped and started again.                                 *)
Restart ==
    /\ i = 0
    /\ interval' = 0
    /\ heap' = <<>>
    /\ pending' = {}
    /\ requested' = [l \in Levels |-> 0]
    /\ UNCHANGED i

Next ==
    \/ Call
    \/ NotDue
    \/ Create
    \/ CreateFails
    \/ Return
    \/ \E th \in pending : CronStart(th)
    \/ Restart

Spec == Init /\ [][Next]_vars

-----------------------------------------------------------------------------
(* Types: the loop index and the counters stay in range, and a thread is     *)
(* only ever started for a level that exists.                                *)
TypeOK ==
    /\ interval \in 0 .. MaxInterval
    /\ i \in 0 .. 5
    /\ DOMAIN heap \subseteq 1 .. interval
    /\ pending \subseteq (1 .. interval) \X {casy[l] : l \in Levels}
    /\ requested \in [Levels -> 0 .. interval]

(* Every thread that has not started finds its int allocated and holding the *)
(* level the thread was created for: no other level of the same call wrote   *)
(* over it, and no other thread of the same call freed it.                   *)
LevelIsIntact ==
    \A th \in pending : th[1] \in DOMAIN heap /\ heap[th[1]] = th[2]

(* A level is only summed when every row it sums has been asked of the level *)
(* below it: the k-th half hour starts after exactly 6 * k five minutes, and *)
(* so on; level 1 needs 5 flushes per row.                                   *)
RowsBelow(l) == IF l = 1 THEN interval - 1 ELSE requested[l - 1]

SummedAfterBelow ==
    [][\A l \in Levels : requested'[l] > requested[l] =>
           RowsBelow(l) = Below[l] * requested'[l]]_vars

=============================================================================
