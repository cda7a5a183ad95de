---------------------------------- MODULE Records ----------------------------------
(*****************************************************************************)
(* The way of a frame to the summary tables: Frames, Aggregation and Merging *)
(* put together.  database() hands the lists of an interval to a thread of   *)
(* zapis_do_DB_protokoly, which runs processingl on each protocol; later     *)
(* cronovanie reads rows of the minute table and merges them.                *)
(*                                                                           *)
(* The three work on data of their own: what is handed over is not touched   *)
(* by the giver any more.  So one protocol, `followed', stands for all, and  *)
(* a thread at work is run to its end before the next one starts.  Threads   *)
(* that overtake each other are the matter of Pipeline, and which rows a     *)
(* window selects that of Cronovanie: here it is any run of rows.            *)
(*****************************************************************************)
EXTENDS Frames, Aggregation, Merging, SequencesExt

CONSTANTS
    Setups,         \* a build, and the protocol followed: name and version
    MaxFrames       \* bound: frames captured

VARIABLES
    followed,
    minute,         \* the table <followed>_IP_SD_1: rows, in the order of ids
    intervals       \* flushed intervals: the frames of `followed', and whether
                    \* the INSERT into minute succeeded (history)

ASSUME RecordsAssumption == \A s \in Setups : s[2][2] \in BOOLEAN

vars == <<frames_vars, aggregation_vars, merging_vars, followed, minute, intervals>>

Init ==
    /\ FramesInit /\ AggregationInit /\ MergingInit
    /\ \E s \in Setups : build = s[1] /\ followed = s[2]
    /\ minute = <<>>
    /\ intervals = <<>>

Quiet == table = Idle /\ sd_ta = 0

FramesSoFar == Len(captured) + FoldSeq(LAMBDA i, n : i.all + n, 0, intervals)

CaptureFrame ==
    /\ Quiet
    /\ FramesSoFar < MaxFrames
    /\ \E f \in FrameKinds : Capture(f)
    /\ UNCHANGED <<aggregation_vars, merging_vars, followed, minute, intervals>>

FollowedList == ListOf(z_protokoly, followed[1], followed[2])
FollowedFrames ==
    Restrict(captured, {k \in DOMAIN captured :
                          followed[1] \in captured[k].names /\ followed[2] = captured[k].v6})

\* database(), called for a frame; when it is due is Dispatcher's matter.
Flush ==
    /\ Quiet
    /\ captured # <<>>
    /\ FlushFrames
    /\ IF FollowedList = {} THEN UNCHANGED aggregation_vars
                            ELSE Begin(z_protokoly[Min(FollowedList)].zoznam)
    /\ intervals' = Append(intervals,
          [all |-> Len(captured), frames |-> FollowedFrames, stored |-> FALSE])
    /\ UNCHANGED <<merging_vars, followed, minute>>

Aggregate ==
    /\ Turn
    /\ UNCHANGED <<frames_vars, merging_vars, followed, minute, intervals>>

\* The rows of the INSERT in the order of the turns that added them.
InOrder(rows) ==
    {s \in [1 .. Cardinality(rows) -> rows] :
        /\ Range(s) = rows
        /\ \A j, k \in DOMAIN s : j < k => s[j].at[1] < s[k].at[1]}

Stored(r) == [one |-> r.one, two |-> r.two, there |-> r.there, back |-> r.back,
              n |-> Len(intervals)]

\* An INSERT may fail alone: its error is printed and the next one is made.
InsertRows ==
    /\ Insert
    /\ IF table = "IP_SD"
       THEN \E ok \in BOOLEAN, s \in InOrder(prikaz) :
              /\ minute' = IF ok THEN minute \o [k \in DOMAIN s |-> Stored(s[k])] ELSE minute
              /\ intervals' = [intervals EXCEPT ![Len(intervals)].stored = ok]
       ELSE UNCHANGED <<minute, intervals>>
    /\ UNCHANGED <<frames_vars, merging_vars, followed>>

SelectRows ==
    /\ Quiet
    /\ \E i \in 1 .. Len(minute) + 1, j \in 0 .. Len(minute) :
          Select(SubSeq(minute, i, j), followed[2])
    /\ UNCHANGED <<frames_vars, aggregation_vars, followed, minute, intervals>>

MergeRows ==
    /\ MergeTurn \/ InsertMerged
    /\ UNCHANGED <<frames_vars, aggregation_vars, followed, minute, intervals>>

Next ==
    CaptureFrame \/ Flush \/ Aggregate \/ InsertRows \/ SelectRows \/ MergeRows

Spec == Init /\ [][Next]_vars

-----------------------------------------------------------------------------
(* Properties.                                                               *)

\* Frames of interval n from a to b.
Sent(n, a, b) ==
    LET F == intervals[n].frames
    IN  Cardinality({k \in DOMAIN F : F[k].ip = <<a, b>>})

RowsOf(n) == {k \in DOMAIN minute : minute[k].n = n}

\* What the other end answered; an end has no answers for itself.
Answered(n, a, b) == IF a = b THEN 0 ELSE Sent(n, b, a)

(* For IPv4, an interval whose INSERT succeeded is in the minute table as    *)
(* the wire had it: one row for every two ends with a frame of the protocol, *)
(* and in the row the frames that each of them sent to the other.            *)
MinuteIsTheWire ==
    ~followed[2] => \A n \in DOMAIN intervals : intervals[n].stored =>
        /\ \A k \in RowsOf(n) : LET r == minute[k] IN
              /\ r.there = Sent(n, r.one, r.two)
              /\ r.back = Answered(n, r.one, r.two)
        /\ \A k \in DOMAIN intervals[n].frames :
              Cardinality({m \in RowsOf(n) : {minute[m].one, minute[m].two}
                  = {intervals[n].frames[k].ip[1], intervals[n].frames[k].ip[2]}}) = 1

\* Of a set N of intervals.
SentIn(N, a, b) == SumFunction([n \in N |-> Sent(n, a, b)])

Whole(N) == \A n \in N : RowsOf(n) \subseteq {k \in DOMAIN minute :
               \E m \in DOMAIN selected : selected[m] = minute[k]}

(* And a merged row of a window of whole intervals is the wire's traffic of  *)
(* these intervals, whatever the order of the ends in the minutes.           *)
WindowIsTheWire ==
    LET N == {selected[m].n : m \in DOMAIN selected}
    IN  Merged /\ ~followed[2] /\ N # {} /\ Whole(N) =>
            \A r \in sd_rows :
                /\ r.there = SentIn(N, r.one, r.two)
                /\ r.back = IF r.one = r.two THEN 0 ELSE SentIn(N, r.two, r.one)
=============================================================================
