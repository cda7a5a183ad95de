------------------------------- MODULE Cronovanie -------------------------------
(*****************************************************************************)
(* One level of the summary tables (cronovanie.c): a thread that sums the    *)
(* rows of the finer tables ("nl", the 1 minute tables for the first level)  *)
(* into the coarser ones ("mhd", 5 minutes).                                 *)
(*                                                                           *)
(* On the first level the flush that starts the thread has started a writer  *)
(* just before, so the thread reads the 1 minute tables while the rows of    *)
(* the latest stamp are on their way.  The tables the other levels read were *)
(* filled by the level below some flushes earlier.  The thread's local       *)
(* variables are used for one protocol after the other, so a value a query   *)
(* did not deliver is the one of the protocol before, or whatever was on the *)
(* stack.                                                                    *)
(*                                                                           *)
(* The database keeps up: writer and summary thread of a flush have finished *)
(* before the next flush (Pipeline has the case in which they have not).     *)
(* Only the thread uses the coarser tables, so its statements on them are    *)
(* merged with the statement on the finer tables beside them.  One table of  *)
(* rows stands for the four, and one row for the rows of an INSERT.          *)
(*****************************************************************************)
EXTENDS Integers, Sequences, FiniteSetsExt

CONSTANTS
    ProtocolList,   \* the protocols in the order of SHOW TABLES
    Levels,         \* the levels, or what stands for them
    Layouts         \* sets of ints that may lie behind the arrays of ids: the
                    \* first ones of test_time and mhd_time, or padding

Protocols == {ProtocolList[k] : k \in DOMAIN ProtocolList}
Nobody == "nobody"
Cells == {"test_nl", "test_mhd", "mhd_time"}

\* step: seconds between the stamps of the finer table; group: how many of them
\* a window has; konst: its seconds, less ten; margin: the age of the last window
\* that makes a new one due; raced: the flush that starts the thread also adds to
\* the finer table; kinds: the sets of protocols one flush may have; junk: what an
\* int on the stack may hold at first; flushes and restarts: bounds.
LevelRecord(l) ==
    /\ DOMAIN l = {"step", "group", "konst", "margin", "raced", "kinds", "junk",
                   "flushes", "restarts"}
    /\ l.step \in Nat \ {0} /\ l.group \in Nat \ {0} /\ l.konst \in Nat \ {0}
    /\ l.margin \in Nat /\ l.margin <= l.konst
    /\ (l.group - 1) * l.step <= l.konst /\ l.konst < l.group * l.step
    /\ l.raced \in BOOLEAN /\ (l.raced => l.margin = l.konst)
    /\ l.kinds \subseteq (SUBSET Protocols) \ {{}}
    /\ l.junk \subseteq Nat
    /\ l.flushes \in Nat /\ l.restarts \in Nat

ASSUME CronovanieAssumption ==
    /\ ProtocolList \in Seq(STRING) /\ Nobody \notin Protocols
    /\ \A j, k \in DOMAIN ProtocolList : ProtocolList[j] = ProtocolList[k] => j = k
    /\ \A l \in Levels : LevelRecord(l)
    /\ Layouts \subseteq SUBSET {"test_nl", "mhd_time"}

VARIABLES
    level,      \* the level this thread sums
    layout,     \* the locals that lie behind the arrays in this build
    restarts,   \* restarts so far
    interval,   \* flushes of this process that added to the finer tables
    clock,      \* stamp of the latest flush
    tables,     \* protocols whose tables exist
    to_write,   \* the writer: protocols of the latest flush it has yet to reach
    at_work,    \* the writer: protocol whose stamp is in but not its rows
    nl_time,    \* each protocol's finer time table: stamps and first ids
    nl_rows,    \* each protocol's rows: the stamp they were measured under
    cron,       \* the summary thread: where it is, and which protocol it is at
    local,      \* its ints of Cells
    IP_id,      \* its range of ids
    mhd_time,   \* each protocol's coarser time table: the stamps
    sums        \* history: what each thread summed for each protocol

database == <<nl_time, nl_rows, mhd_time, sums, tables>>
program == <<level, layout, restarts, interval, clock>>
writer == <<to_write, at_work>>
thread == <<cron, local, IP_id>>
vars == <<program, writer, thread, database>>

Asleep == [pc |-> "asleep", k |-> 0]
All(x) == [cell \in Cells |-> x]
NoIds == [from |-> 0, to |-> 0]

Times(p) == {r.time : r \in nl_time[p]}
IdOf(p, t) == CHOOSE id \in {r.id : r \in nl_time[p]} : [time |-> t, id |-> id] \in nl_time[p]
Protocol == ProtocolList[cron.k]

\* The protocols of SHOW TABLES that follow.
After(k) == {n \in DOMAIN ProtocolList : n > k /\ ProtocolList[n] \in tables}
\* faulty: the ids of the protocol before are kept
IdsKept == IP_id
IdsCleared == NoIds
\* The next of them, with its ids cleared, or the end of the thread.
Proceed(locals) ==
    /\ IP_id' = IdsCleared
    /\ IF After(cron.k) = {}
       THEN cron' = Asleep /\ local' = All(0)
       ELSE cron' = [pc |-> "test", k |-> Min(After(cron.k))] /\ local' = locals
GoTo(pc) == cron' = [cron EXCEPT !.pc = pc]

Init ==
    /\ level \in Levels
    /\ layout \in Layouts
    /\ restarts = 0
    /\ interval = 0
    /\ clock = 0
    /\ tables = {}
    /\ to_write = {}
    /\ at_work = Nobody
    /\ nl_time = [p \in Protocols |-> {}]
    /\ nl_rows = [p \in Protocols |-> <<>>]
    /\ cron = Asleep
    /\ local = All(0)
    /\ IP_id = NoIds
    /\ mhd_time = [p \in Protocols |-> {}]
    /\ sums = [p \in Protocols |-> {}]

-----------------------------------------------------------------------------
(* A flush: create_db makes the tables, the writer starts, and every group   *)
(* flushes sum_table starts a summary thread: on the first level with the    *)
(* flush that follows the group, on the others when the group is complete.   *)
\* faulty: the thread of an upper level starts one flush late
WakesLate(n) == n % level.group = 1 % level.group /\ n # 1
Wakes(n) == IF level.raced THEN n % level.group = 1 % level.group /\ n # 1
                           ELSE n % level.group = 0

WriterDone == to_write = {} /\ at_work = Nobody

Flush(kind) ==
    /\ WriterDone /\ cron.pc = "asleep"
    /\ clock < level.flushes * level.step
    /\ interval' = interval + 1
    /\ clock' = clock + level.step
    /\ tables' = tables \cup kind
    /\ to_write' = kind
    /\ IF Wakes(interval + 1)
       THEN GoTo("show") /\ local' \in [Cells -> level.junk]
       ELSE UNCHANGED <<cron, local>>
    /\ UNCHANGED <<level, layout, restarts, at_work, IP_id, nl_time, nl_rows, mhd_time, sums>>

(* processingl, or the thread of the level below: the stamp with the id that *)
(* comes next, then the rows.                                                *)
WriteTime(p) ==
    /\ at_work = Nobody /\ p \in to_write
    /\ nl_time' = [nl_time EXCEPT ![p] = @ \cup {[time |-> clock, id |-> Len(nl_rows[p]) + 1]}]
    /\ to_write' = to_write \ {p}
    /\ at_work' = p
    /\ UNCHANGED <<program, tables, nl_rows, thread, mhd_time, sums>>

WriteRows ==
    /\ at_work # Nobody
    /\ nl_rows' = [nl_rows EXCEPT ![at_work] = Append(@, clock)]
    /\ at_work' = Nobody
    /\ UNCHANGED <<program, tables, to_write, nl_time, thread, mhd_time, sums>>

(* The process ends, by itself or not, and is started again.                 *)
Restart ==
    /\ restarts < level.restarts
    /\ restarts' = restarts + 1
    /\ interval' = 0
    /\ to_write' = {}
    /\ at_work' = Nobody
    /\ cron' = Asleep
    /\ local' = All(0)
    /\ IP_id' = NoIds
    /\ UNCHANGED <<level, layout, clock, database>>

-----------------------------------------------------------------------------
(* The summary thread.  Its statements read the finer tables one by one.     *)

OthersStay == UNCHANGED <<program, writer, tables, nl_time, nl_rows>>

ShowTables ==
    /\ cron.pc = "show"
    /\ level.raced \/ WriterDone
    /\ Proceed(local)
    /\ OthersStay
    /\ UNCHANGED <<mhd_time, sums>>

(* The arrays of ids are cleared, and with them the int behind each; then    *)
(* the latest stamps are compared.  An empty table delivers NULL, which      *)
(* leaves the variable as it was.                                            *)
Cleared(cell) == IF cell \in layout THEN 0 ELSE local[cell]
Newest(times, old) == IF times = {} THEN old ELSE Max(times)

LocalsAfterTest == [cell \in Cells |->
    CASE cell = "test_nl" -> Newest(Times(Protocol), Cleared(cell))
      [] cell = "test_mhd" -> Newest(mhd_time[Protocol], Cleared(cell))
      [] OTHER -> Cleared(cell)]

Compare ==
    /\ cron.pc = "test"
    /\ IF LocalsAfterTest["test_nl"] < LocalsAfterTest["test_mhd"] + level.margin
       THEN Proceed(LocalsAfterTest)
       ELSE GoTo("time") /\ local' = LocalsAfterTest /\ UNCHANGED IP_id
    /\ OthersStay
    /\ UNCHANGED <<mhd_time, sums>>

(* The stamp of the new window: the first one after the last window, if      *)
(* there is one; else the end of that window.                                *)
\* faulty: the length of the window is not added
SinceLast(p) == Max(mhd_time[p])
EndOfLast(p) == Max(mhd_time[p]) + level.konst

Later(p, t) == {s \in Times(p) : s > t}

Begin(p) ==
    IF mhd_time[p] # {}
    THEN IF Later(p, EndOfLast(p)) = {} THEN EndOfLast(p) ELSE Min(Later(p, EndOfLast(p)))
    ELSE IF Times(p) = {} THEN local["mhd_time"] ELSE Min(Times(p))

InsertTime ==
    /\ cron.pc = "time"
    /\ mhd_time' = [mhd_time EXCEPT ![Protocol] = @ \cup {Begin(Protocol)}]
    /\ local' = [local EXCEPT !["mhd_time"] = Begin(Protocol)]
    /\ GoTo("od")
    /\ OthersStay
    /\ UNCHANGED <<IP_id, sums>>

(* OD: the first id of the window is taken one too low.                      *)
\* faulty: the first id is not looked up
FromStart(p, t) == 0
FirstId(p, t) ==
    IF Later(p, t - 1) = {} THEN 0 ELSE IdOf(p, Min(Later(p, t - 1))) - 1

SelectFrom ==
    /\ cron.pc = "od"
    /\ IP_id' = [IP_id EXCEPT !.from = FirstId(Protocol, local["mhd_time"])]
    /\ GoTo("do")
    /\ OthersStay
    /\ UNCHANGED <<local, mhd_time, sums>>

(* DO: the id at which the window ends is stored as its begin.               *)
SelectTo ==
    /\ cron.pc = "do"
    /\ LET beyond == Later(Protocol, local["mhd_time"] + level.konst)
       IN IF beyond = {}
          THEN GoTo("max") /\ UNCHANGED IP_id
          ELSE GoTo("sum") /\ IP_id' = [from |-> IdOf(Protocol, Min(beyond)), to |-> IP_id.to - 1]
    /\ OthersStay
    /\ UNCHANGED <<local, mhd_time, sums>>

(* When no stamp is beyond the window, it ends with the table.               *)
SelectMax ==
    /\ cron.pc = "max"
    /\ IP_id' = [IP_id EXCEPT !.to = Len(nl_rows[Protocol])]
    /\ GoTo("sum")
    /\ OthersStay
    /\ UNCHANGED <<local, mhd_time, sums>>

Sum ==
    /\ cron.pc = "sum"
    /\ sums' = [sums EXCEPT ![Protocol] =
           @ \cup {[time |-> local["mhd_time"],
                    ids |-> (IP_id.from .. IP_id.to) \cap DOMAIN nl_rows[Protocol]]}]
    /\ Proceed(local)
    /\ OthersStay
    /\ UNCHANGED mhd_time

-----------------------------------------------------------------------------
Cron == \/ ShowTables \/ Compare \/ InsertTime \/ SelectFrom \/ SelectTo
        \/ SelectMax \/ Sum

(* Flushes are over (the bound).                                             *)
Quiet ==
    /\ clock = level.flushes * level.step
    /\ WriterDone /\ cron.pc = "asleep"
    /\ UNCHANGED vars

Next ==
    \/ \E kind \in level.kinds : Flush(kind)
    \/ \E p \in Protocols : WriteTime(p)
    \/ WriteRows
    \/ Cron
    \/ Restart
    \/ Quiet

Spec == Init /\ [][Next]_vars

-----------------------------------------------------------------------------
(* Types.                                                                    *)
TypeOK ==
    /\ to_write \subseteq tables
    /\ at_work \in tables \cup {Nobody}
    /\ cron.k \in 0 .. Len(ProtocolList)
    /\ local \in [Cells -> Nat]
    /\ IP_id.from \in Nat /\ IP_id.to \in Nat \cup {-1}
    /\ \A p \in Protocols : /\ mhd_time[p] \subseteq Nat
                            /\ \A r \in nl_time[p] : r.time <= clock

(* Windows do not overlap in time: two stamps of the coarser table are at    *)
(* least a window apart, whatever was on the stack and wherever a thread was *)
(* interrupted.                                                              *)
WindowsApart ==
    \A p \in Protocols : \A s, t \in mhd_time[p] : s < t => t - s >= level.konst

(* Every level is compared with the 290 s of the first one (cronovanie.c     *)
(* 233).  Above the first level, a protocol that falls silent may get a      *)
(* window past its last stamp, and into it the sum of all its rows.          *)
NoWindowPastTheStamps == level.margin = level.konst \/ level.kinds = {Protocols}

(* Readers take the sums of a window for the traffic from its stamp on.  At  *)
(* most one older interval is mixed into them, unless the window is past the *)
(* stamps, and at most one that is past the window.                          *)
Outside(p, w) == {id \in w.ids : nl_rows[p][id] \notin w.time .. w.time + level.konst}

NearlyInWindow ==
    \A p \in Protocols : \A w \in sums[p] :
        /\ NoWindowPastTheStamps =>
              Cardinality({id \in Outside(p, w) : nl_rows[p][id] < w.time}) <= 1
        /\ Cardinality({id \in Outside(p, w) : nl_rows[p][id] > w.time}) <= 1

(* No interval is summed into more windows than its own and one on each      *)
(* side, not counting a window begun at a stamp whose rows were never        *)
(* written: before the protocol had one, or at an INSERT that was the last   *)
(* of its process.                                                           *)
Measured(p) == {nl_rows[p][id] : id \in DOMAIN nl_rows[p]}

SummedThriceAtMost ==
    NoWindowPastTheStamps => \A p \in Protocols : \A id \in DOMAIN nl_rows[p] :
        Cardinality({w \in sums[p] : id \in w.ids /\ w.time \in Measured(p)}) <= 3

(* "ZISTENIE ROZSAHOV SPRACOVAVANYCH IDciek" (finding the ranges of the ids  *)
(* to process), from OD to DO: the sums of a window cover the rows that were *)
(* measured in it.                                                           *)
WindowIsCovered ==
    \A p \in Protocols : \A w \in sums[p] :
        \A id \in DOMAIN nl_rows[p] :
            nl_rows[p][id] \in w.time .. w.time + level.konst
                => \E v \in sums[p] : id \in v.ids

(* On the levels above the first, nothing is added to the finer tables while *)
(* they are summed; there, windows are covered as long as every protocol is  *)
(* seen in every interval, the process lives, and no thread is led to skip   *)
(* its first window by a number on the stack.                                *)
UpperWindowsAreCovered ==
    ~level.raced /\ level.kinds = {Protocols} /\ level.junk = {0} /\ restarts = 0
        => WindowIsCovered

(* "KONTROLA, CI JE VOBEC CO SPRACOVAVAT" (check whether there is anything   *)
(* to process at all): a window is begun where there is a stamp to process,  *)
(* at its begin or after.                                                    *)
WindowNeedsStamps ==
    \A p \in Protocols : \A t \in mhd_time[p] : \E s \in Times(p) : s >= t

=============================================================================
