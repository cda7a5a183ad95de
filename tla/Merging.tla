---------------------------------- MODULE Merging ----------------------------------
(*****************************************************************************)
(* cronovanie: the rows of pairs of a window merged into the rows of the     *)
(* table above (src/backend/cronovanie.c, the IP_SD and the MAC_SD table).   *)
(*                                                                           *)
(* IP and MAC rows are summed by the database, GROUP BY address.  Pairs are  *)
(* not, as the same two ends may come in either order: the rows are read     *)
(* into a list and merged in it, as processingl merges records.  The list    *)
(* has an element before the first row is read.                              *)
(*                                                                           *)
(* The loops of the two tables are the same text.  In the IPv6 tables the    *)
(* list is compared by ip_s and ip_d, which that branch never sets: the keys *)
(* are then any values.  Bytes and packets are added at the same places: one *)
(* number stands for both.  Which rows a window selects is the matter of     *)
(* Cronovanie.                                                               *)
(*****************************************************************************)
EXTENDS Naturals, Sequences, FiniteSetsExt

CONSTANTS
    Ends,       \* the addresses of the layer
    Junk        \* what an element of the list holds before it is written

VARIABLES
    selected,       \* the rows of the SELECT (not in the code: for properties)
    sd,             \* the list SD_T
    sd_spracovany,  \* its marks
    sd_ta,          \* the element of the outer loop, 0: no table at work
    sd_rows,        \* rows in the INSERT; at: the element that gave the row
    is_ipv6         \* of the table at work

merging_vars == <<selected, sd, sd_spracovany, sd_ta, sd_rows, is_ipv6>>

PairRows == [one : Ends, two : Ends, there : Nat, back : Nat]

MergingInit ==
    /\ selected = <<>>
    /\ sd = <<>>
    /\ sd_spracovany = <<>>
    /\ sd_ta = 0
    /\ sd_rows = {}
    /\ is_ipv6 = FALSE

-----------------------------------------------------------------------------
\* The first element when no row came: nothing of it was written.
Unwritten == <<[one |-> Junk, two |-> Junk, there |-> 0, back |-> 0]>>

\* The list has the rows in order; with IPv6 the keys x and y are not theirs.
Keyed(rows, v6, x, y) ==
    IF v6 THEN [n \in DOMAIN rows |-> [rows[n] EXCEPT !.one = x[n], !.two = y[n]]]
          ELSE rows

Select(rows, v6) ==
    /\ sd_ta = 0
    /\ selected' = rows
    /\ is_ipv6' = v6
    /\ \E x, y \in [DOMAIN rows -> IF v6 THEN Ends ELSE {Junk}] :
          sd' = IF rows = <<>> THEN Unwritten ELSE Keyed(rows, v6, x, y)
    /\ IF rows = <<>>
       THEN \E m \in 0 .. 1 : sd_spracovany' = <<m>>
       ELSE sd_spracovany' = [n \in DOMAIN rows |-> 0]
    /\ sd_ta' = 1
    /\ sd_rows' = {}

-----------------------------------------------------------------------------
Behind == {n \in DOMAIN sd : n > sd_ta}
Same == {n \in Behind : sd[n].one = sd[sd_ta].one /\ sd[n].two = sd[sd_ta].two}
Turned == {n \in Behind \ Same : sd[n].one = sd[sd_ta].two /\ sd[n].two = sd[sd_ta].one}

ThereOf(list, N) == SumFunctionOnSet([n \in DOMAIN list |-> list[n].there], N)
BackOf(list, N) == SumFunctionOnSet([n \in DOMAIN list |-> list[n].back], N)
There(N) == ThereOf(sd, N)
Back(N) == BackOf(sd, N)

\* faulty: a turned row is added as it stands
AddedAsItStands ==
    [at |-> sd_ta, one |-> sd[sd_ta].one, two |-> sd[sd_ta].two,
     there |-> There({sd_ta} \cup Same \cup Turned),
     back |-> Back({sd_ta} \cup Same \cup Turned)]

MergedRow ==
    [at |-> sd_ta, one |-> sd[sd_ta].one, two |-> sd[sd_ta].two,
     there |-> There({sd_ta} \cup Same) + Back(Turned),
     back |-> Back({sd_ta} \cup Same) + There(Turned)]

\* faulty: only rows of the same order are marked
MarkedSame ==
    [n \in DOMAIN sd |-> IF n \in {sd_ta} \cup Same THEN 1 ELSE sd_spracovany[n]]

MarkedMerged ==
    [n \in DOMAIN sd |-> IF n \in {sd_ta} \cup Same \cup Turned THEN 1 ELSE sd_spracovany[n]]

MergeTurn ==
    /\ sd_ta \in DOMAIN sd
    /\ IF sd_spracovany[sd_ta] = 0
       THEN /\ sd_rows' = sd_rows \cup {MergedRow}
            /\ sd_spracovany' = MarkedMerged
       ELSE UNCHANGED <<sd_rows, sd_spracovany>>
    /\ sd_ta' = sd_ta + 1
    /\ UNCHANGED <<selected, sd, is_ipv6>>

Merged == sd_ta = Len(sd) + 1 /\ sd # <<>>

\* The INSERT is executed, if it has a row, and the list freed.
InsertMerged ==
    /\ Merged
    /\ selected' = <<>>
    /\ sd' = <<>>
    /\ sd_spracovany' = <<>>
    /\ sd_ta' = 0
    /\ sd_rows' = {}
    /\ is_ipv6' = FALSE

MergingNext ==
    \/ MergeTurn
    \/ InsertMerged
    \/ \E rows \in Seq(PairRows), v6 \in BOOLEAN : Select(rows, v6)

MergingSpec == MergingInit /\ [][MergingNext]_merging_vars

-----------------------------------------------------------------------------
(* Properties.                                                               *)

Between(a, b) == {n \in DOMAIN selected : selected[n].one = a /\ selected[n].two = b}
SentThere(N) == ThereOf(selected, N)
SentBack(N) == BackOf(selected, N)

(* Every two ends of the selected rows get one merged row, in whichever      *)
(* order the minutes had them, and it holds what each sent to the other over *)
(* the whole window (cronovanie.c 572-588).  Only for the IPv4 and the MAC   *)
(* tables; and not for an empty window, which may give a row of nothing      *)
(* (cronovanie.c:477: the first element is written only by a row).           *)
MergedRowsAreTotals ==
    Merged /\ ~is_ipv6 /\ selected # <<>> =>
        /\ \A n \in DOMAIN selected :
              \E r \in sd_rows : {r.one, r.two} = {selected[n].one, selected[n].two}
        /\ \A q, r \in sd_rows : {q.one, q.two} = {r.one, r.two} => q = r
        /\ \A r \in sd_rows : r.one # r.two =>
              /\ r.there = SentThere(Between(r.one, r.two)) + SentBack(Between(r.two, r.one))
              /\ r.back = SentBack(Between(r.one, r.two)) + SentThere(Between(r.two, r.one))

(* Whatever the keys hold, also in the IPv6 tables where they are garbage,   *)
(* each selected row is added to one merged row and to no other: no traffic  *)
(* is lost or doubled by the merging.                                        *)
NothingLostInMerging ==
    Merged =>
        SumFunction([r \in sd_rows |-> r.there + r.back])
            = SentThere(DOMAIN selected) + SentBack(DOMAIN selected)
=============================================================================
