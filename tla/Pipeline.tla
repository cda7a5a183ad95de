-------------------------------- MODULE Pipeline --------------------------------
(*****************************************************************************)
(* From the capture thread to the tables (katalyzer.c, processing.c).        *)
(*                                                                           *)
(* The capture thread books frames in z_protokoly, one list per protocol.    *)
(* When an interval is over, database() puts the stamp of the interval into  *)
(* the global processing_time, creates the tables of the protocols on the    *)
(* list, hands the list to a new writer thread and starts an empty one.  The *)
(* writer runs processingl for each protocol: on a connection of its own it  *)
(* asks for the greatest id of each of its tables, inserts one row into the  *)
(* protocol's _1m_time table with the stamp and the ids that come next, and  *)
(* then the rows of those tables.  Readers find the rows of a stamp by these *)
(* ids alone.                                                                *)
(*                                                                           *)
(* Nothing waits for a writer.  Several may run at once, and they share the  *)
(* tables and processing_time with each other and the capture thread.        *)
(*                                                                           *)
(* The rows one INSERT adds are abstracted to one row; when an interval ends *)
(* is decided by Dispatcher, so here any frame may end it and the stamps are *)
(* simply counted.                                                           *)
(*****************************************************************************)
EXTENDS Integers, Sequences

CONSTANTS
    Protocols,      \* the <protocol> of the <protocol>_1m_ tables
    ReadOrder,      \* a protocol's tables as processingl asks for their ids
    InsertOrder,    \* the same tables as processingl fills them
    Kinds,          \* sets of protocols that one frame is booked under
    SlowDb,         \* may a flush find the previous writer still running?
    MaxFrames,      \* bound: frames captured
    MaxFlushes,     \* bound: flushes
    MaxFaults       \* bound: failures

ASSUME PipelineAssumption ==
    /\ ReadOrder \in Seq(STRING) /\ ReadOrder # <<>>
    /\ InsertOrder \in Seq({ReadOrder[k] : k \in DOMAIN ReadOrder})
    /\ Len(InsertOrder) = Len(ReadOrder)
    /\ \A k, l \in DOMAIN InsertOrder : InsertOrder[k] = InsertOrder[l] => k = l
    /\ Kinds \subseteq SUBSET Protocols
    /\ SlowDb \subseteq BOOLEAN
    /\ MaxFrames \in Nat /\ MaxFlushes \in Nat /\ MaxFaults \in Nat

VARIABLES
    slow,               \* TRUE: the database may fall behind
    fate,               \* "running", or how the process ended
    main,               \* where the capture thread is
    frames,             \* frames captured so far
    z_protokoly,        \* frames booked under each protocol
    stamp,              \* flushes so far: the time of the latest flush
    processing_time,    \* the stamp the writers read
    tables,             \* protocols whose tables exist
    batch,              \* the list handed over by each flush
    writer,             \* the writer thread of each flush
    time_rows,          \* each protocol's _1m_time table
    rows,               \* each protocol's other tables: the flush of each row
    faults              \* failures so far

capture == <<frames, z_protokoly>>
flushing == <<main, stamp, processing_time, tables, batch>>
stored == <<time_rows, rows>>
vars == <<slow, fate, faults, capture, flushing, writer, stored>>

Tables == {ReadOrder[k] : k \in DOMAIN ReadOrder}
Last == Len(ReadOrder)

Flushes == 1 .. MaxFlushes
NoFrames == [p \in Protocols |-> {}]
NoIds == [t \in Tables |-> 0]
NoProtocol == "none"
Idle == [pc |-> "idle", left |-> {}, prot |-> NoProtocol, k |-> 0, ids |-> NoIds]
Gone == [Idle EXCEPT !.pc = "gone"]
Between(left) == [pc |-> "next", left |-> left, prot |-> NoProtocol, k |-> 0, ids |-> NoIds]
Begins(p, left) == [pc |-> "read", left |-> left, prot |-> p, k |-> 1, ids |-> NoIds]

Running(b) == writer[b].pc \notin {"idle", "gone"}
OnList(list) == {p \in Protocols : list[p] # {}}

Init ==
    /\ slow \in SlowDb
    /\ fate = "running"
    /\ main = "loop"
    /\ frames = 0
    /\ z_protokoly = NoFrames
    /\ stamp = 0
    /\ processing_time = 0
    /\ tables = {}
    /\ batch = [b \in Flushes |-> NoFrames]
    /\ writer = [b \in Flushes |-> Idle]
    /\ time_rows = [p \in Protocols |-> {}]
    /\ rows = [p \in Protocols |-> [t \in Tables |-> <<>>]]
    /\ faults = 0

-----------------------------------------------------------------------------
(* The process ends: every thread stops and what is in memory is lost.       *)
MayFail == fate = "running" /\ faults < MaxFaults

End(how) ==
    /\ fate' = how
    /\ main' = "loop"
    /\ z_protokoly' = NoFrames
    /\ writer' = [b \in Flushes |-> IF Running(b) THEN Gone ELSE writer[b]]
    /\ faults' = faults + 1
    /\ UNCHANGED <<slow, frames, stamp, processing_time, tables, batch, stored>>

Kill == MayFail /\ End("killed")

Restart ==
    /\ fate # "running"
    /\ fate' = "running"
    /\ processing_time' = 0
    /\ UNCHANGED <<slow, faults, capture, main, stamp, tables, batch, writer, stored>>

-----------------------------------------------------------------------------
(* The capture thread.                                                       *)

(* dispatcher_handler books the frame and then decides whether it ends the   *)
(* interval.  A database that keeps up has finished the previous batch then. *)
Capture(kind, due) ==
    /\ fate = "running" /\ main = "loop"
    /\ frames < MaxFrames
    /\ due => stamp < MaxFlushes /\ (slow \/ \A b \in Flushes : ~Running(b))
    /\ frames' = frames + 1
    /\ z_protokoly' = [p \in Protocols |->
           IF p \in kind THEN z_protokoly[p] \cup {frames + 1} ELSE z_protokoly[p]]
    /\ main' = IF due THEN "set_time" ELSE "loop"
    /\ UNCHANGED <<slow, fate, faults, stamp, processing_time, tables, batch,
                   writer, stored>>

SetTime ==
    /\ fate = "running" /\ main = "set_time"
    /\ stamp' = stamp + 1
    /\ processing_time' = stamp + 1
    /\ main' = "create_db"
    /\ UNCHANGED <<slow, fate, faults, capture, tables, batch, writer, stored>>

(* Frames are over (the bound): pcap_loop waits for more.                    *)
LinkIsQuiet ==
    /\ fate = "running" /\ main = "loop" /\ frames = MaxFrames
    /\ \A b \in Flushes : ~Running(b)
    /\ UNCHANGED vars

(* create_db: one query per protocol on the list makes its tables if they do *)
(* not exist; an error there or in connect_to_db ends the process.           *)
\* faulty: tables are made only while there are none
MissingAtFirst == IF tables = {} THEN OnList(z_protokoly) ELSE {}
Missing == OnList(z_protokoly) \ tables

CreateTables(p) ==
    /\ fate = "running" /\ main = "create_db" /\ p \in Missing
    /\ tables' = tables \cup {p}
    /\ UNCHANGED <<slow, fate, faults, capture, main, stamp, processing_time, batch,
                   writer, stored>>

CreateDbFails ==
    /\ MayFail /\ main = "create_db"
    /\ End("exit")

TablesDone ==
    /\ fate = "running" /\ main = "create_db" /\ Missing = {}
    /\ main' = "flush"
    /\ UNCHANGED <<slow, fate, faults, capture, stamp, processing_time, tables, batch,
                   writer, stored>>

(* flush_data_into_db: move the list to the writer; when no thread can be    *)
(* created the list is neither put back nor freed.                           *)
\* faulty: the capture thread goes on with the list it handed over
NotTakenOff == z_protokoly
TakenOff == NoFrames

NewWriter == Between(OnList(z_protokoly))

HandOver(thread) ==
    /\ fate = "running" /\ main = "flush"
    /\ batch' = [batch EXCEPT ![stamp] = z_protokoly]
    /\ z_protokoly' = TakenOff
    /\ writer' = [writer EXCEPT ![stamp] = thread]
    /\ main' = "loop"
    /\ UNCHANGED <<slow, fate, frames, stamp, processing_time, tables, stored>>

FlushData == HandOver(NewWriter) /\ UNCHANGED faults

NoThread ==
    /\ MayFail
    /\ HandOver(Gone)
    /\ faults' = faults + 1

-----------------------------------------------------------------------------
(* The writer threads: zapis_do_DB_protokoly calls processingl for every     *)
(* protocol of its batch, in the order of the list (any order is possible).  *)

\* faulty: a writer waits while it is not the latest
AtIfLatest(b, pc) == fate = "running" /\ writer[b].pc = pc /\ processing_time = b
At(b, pc) == fate = "running" /\ writer[b].pc = pc

Becomes(b, w) == writer' = [writer EXCEPT ![b] = w]
KeepMain == UNCHANGED <<slow, capture, flushing>>

StartProtocol(b, p) ==
    /\ At(b, "next") /\ p \in writer[b].left
    /\ Becomes(b, Begins(p, writer[b].left \ {p}))
    /\ KeepMain /\ UNCHANGED <<fate, faults, stored>>

(* No connection: processingl ends the process.                              *)
ConnectFails(b) ==
    /\ MayFail /\ At(b, "next") /\ writer[b].left # {}
    /\ End("exit")

(* SELECT MAX(id) of one table (which must exist); the next id is one more.  *)
\* faulty: the id is counted up twice
NextIdTwice(p, t) == Len(rows[p][t]) + 2
\* faulty: the greatest id itself, not the next one
GreatestId(p, t) == Len(rows[p][t])
\* faulty: an empty table, whose greatest id is NULL, yields -1
IdOfNull(p, t) == IF rows[p][t] = <<>> THEN -1 ELSE Len(rows[p][t]) + 1
NextId(p, t) == Len(rows[p][t]) + 1

ReadMax(b) ==
    /\ At(b, "read")
    /\ LET t == ReadOrder[writer[b].k] IN
       Becomes(b, [writer[b] EXCEPT
                      !.ids[t] = NextId(writer[b].prot, t),
                      !.pc = IF writer[b].k = Last THEN "time" ELSE "read",
                      !.k = IF writer[b].k = Last THEN 1 ELSE @ + 1])
    /\ KeepMain /\ UNCHANGED <<fate, faults, stored>>

(* The SELECT fails: there is no result to fetch a row from, and the row is  *)
(* used without a test.                                                      *)
ReadFails(b) ==
    /\ MayFail /\ At(b, "read")
    /\ End("segv")

(* The row of the stamp.  Its key is the time: if it is taken the INSERT is  *)
(* refused, the error is printed, and the rows follow all the same.          *)
InsertTime(b) ==
    /\ At(b, "time")
    /\ LET p == writer[b].prot
           taken == \E r \in time_rows[p] : r.time = processing_time
       IN  time_rows' = IF taken THEN time_rows
                        ELSE [time_rows EXCEPT ![p] =
                                 @ \cup {[time |-> processing_time, ids |-> writer[b].ids]}]
    /\ Becomes(b, [writer[b] EXCEPT !.pc = "insert"])
    /\ KeepMain /\ UNCHANGED <<fate, faults, rows>>

InsertRows(b) ==
    /\ At(b, "insert")
    /\ rows' = [rows EXCEPT ![writer[b].prot][InsertOrder[writer[b].k]] = Append(@, b)]
    /\ Becomes(b, IF writer[b].k = Last
                  THEN Between(writer[b].left)
                  ELSE [writer[b] EXCEPT !.k = @ + 1])
    /\ KeepMain /\ UNCHANGED <<fate, faults, time_rows>>

(* The connection is lost: the statements that remain for this protocol fail *)
(* one by one and are only reported.                                         *)
ConnectionLost(b) ==
    /\ MayFail /\ writer[b].pc \in {"time", "insert"}
    /\ Becomes(b, Between(writer[b].left))
    /\ faults' = faults + 1
    /\ KeepMain /\ UNCHANGED <<fate, stored>>

(* All protocols are written.  The list of a batch says it is not empty even *)
(* when it is; free_protokoly then follows a null pointer.                   *)
Finish(b) ==
    /\ At(b, "next") /\ writer[b].left = {} /\ OnList(batch[b]) # {}
    /\ Becomes(b, Gone)
    /\ KeepMain /\ UNCHANGED <<fate, faults, stored>>

FinishEmpty(b) ==
    /\ At(b, "next") /\ OnList(batch[b]) = {}
    /\ End("segv")

-----------------------------------------------------------------------------
Main ==
    \/ \E kind \in Kinds, due \in BOOLEAN : Capture(kind, due)
    \/ SetTime
    \/ \E p \in Protocols : CreateTables(p)
    \/ CreateDbFails
    \/ TablesDone
    \/ FlushData
    \/ LinkIsQuiet
    \/ NoThread

Writer(b) ==
    \/ \E p \in Protocols : StartProtocol(b, p)
    \/ ReadMax(b)
    \/ InsertTime(b)
    \/ InsertRows(b)
    \/ Finish(b)
    \/ FinishEmpty(b)

WriterFails(b) == ConnectFails(b) \/ ReadFails(b) \/ ConnectionLost(b)

Next ==
    \/ Main
    \/ \E b \in Flushes : Writer(b) \/ WriterFails(b)
    \/ Kill
    \/ Restart

Spec == Init /\ [][Next]_vars

(* The operating system runs every thread, and MySQL answers every statement *)
(* sooner or later.                                                          *)
FairSpec == Spec /\ \A b \in Flushes : WF_vars(Writer(b))

-----------------------------------------------------------------------------
(* Types.                                                                    *)
WriterStates ==
    [pc : {"idle", "next", "read", "time", "insert", "gone"},
     left : SUBSET Protocols,
     prot : Protocols \cup {NoProtocol},
     k : 0 .. Last,
     ids : [Tables -> Nat]]

TimeRows == [time : 0 .. MaxFlushes, ids : [Tables -> Nat]]

TypeOK ==
    /\ slow \in BOOLEAN
    /\ fate \in {"running", "killed", "exit", "segv"}
    /\ main \in {"loop", "set_time", "create_db", "flush"}
    /\ frames \in 0 .. MaxFrames
    /\ z_protokoly \in [Protocols -> SUBSET (1 .. MaxFrames)]
    /\ stamp \in 0 .. MaxFlushes
    /\ processing_time \in 0 .. MaxFlushes
    /\ tables \subseteq Protocols
    /\ batch \in [Flushes -> [Protocols -> SUBSET (1 .. MaxFrames)]]
    /\ writer \in [Flushes -> WriterStates]
    /\ DOMAIN time_rows = Protocols
    /\ \A p \in Protocols : \A r \in time_rows[p] : r \in TimeRows
    /\ rows \in [Protocols -> [Tables -> Seq(Flushes)]]
    /\ faults \in Nat

(* A writer only asks for and fills tables that exist: create_db has made    *)
(* them before the batch reaches it, for every protocol of the batch.        *)
TablesExist ==
    \A b \in Flushes : writer[b].pc \in {"read", "time", "insert"} =>
        writer[b].prot \in tables

(* However many writers run, a frame is counted at most once in each table:  *)
(* the lists that capture thread and writers work on have no frame in common *)
(* and no list is written twice.                                             *)
CountedOnce ==
    \A p \in Protocols, t \in Tables :
        \A j, l \in 1 .. Len(rows[p][t]) :
            j # l => batch[rows[p][t][j]][p] \cap batch[rows[p][t][l]][p] = {}

(* How a reader finds rows: the row with an id belongs to the stamp whose id *)
(* range it lies in, from the id stored with the stamp up to the one stored  *)
(* with the next stamp.                                                      *)
Belongs(p, t, id, r) ==
    /\ r.ids[t] <= id
    /\ \A next \in time_rows[p] :
           /\ next.time > r.time
           /\ \A other \in time_rows[p] : other.time > r.time => other.time >= next.time
           => id < next.ids[t]

(* No traffic is shown under a time before its interval, even when the       *)
(* database falls behind and writers overtake each other.                    *)
NeverBackdated ==
    \A p \in Protocols, t \in Tables : \A id \in 1 .. Len(rows[p][t]) :
        \A r \in time_rows[p] : Belongs(p, t, id, r) => r.time >= rows[p][t][id]

(* When the database keeps up, every row is found under the stamp of its own *)
(* interval and under no other, through all crashes and lost connections.    *)
FoundUnderItsStamp ==
    ~slow => \A p \in Protocols, t \in Tables : \A id \in 1 .. Len(rows[p][t]) :
        /\ \E r \in time_rows[p] : Belongs(p, t, id, r)
        /\ \A r \in time_rows[p] : Belongs(p, t, id, r) => r.time = rows[p][t][id]

(* Every writer comes to an end: no batch is kept for ever.                  *)
WriterEnds == \A b \in Flushes : Running(b) ~> ~Running(b)

(* The promise of TrafficLedger.  An entry is pending while it is on the     *)
(* capture thread's list, or in a batch whose writer has yet to reach it.    *)
Entries == (1 .. MaxFrames) \X Protocols

NotYet(b, t) ==
    LET w == writer[b] IN
    IF ~Running(b) THEN {}
    ELSE w.left \cup IF w.pc \in {"read", "time"} \/
                        (w.pc = "insert" /\ t \in {InsertOrder[j] : j \in w.k .. Last})
                     THEN {w.prot} ELSE {}

PendingIn(t) ==
    {e \in Entries : \/ e[1] \in z_protokoly[e[2]]
                     \/ \E b \in Flushes : e[2] \in NotYet(b, t) /\ e[1] \in batch[b][e[2]]}

StoredIn(t) ==
    {e \in Entries : \E j \in 1 .. Len(rows[e[2]][t]) : e[1] \in batch[rows[e[2]][t][j]][e[2]]}

Ledger == INSTANCE TrafficLedger WITH
              Entries <- Entries, Tables <- Tables,
              pending <- [t \in Tables |-> PendingIn(t)],
              stored <- [t \in Tables |-> StoredIn(t)],
              faults <- faults

KeepsLedger == Ledger!Spec

(* The comment at the assignment p_zac->empty = 1 is "set the structure is    *)
(* empty", and every user of a list tests that flag first: the process never  *)
(* follows the null pointer of an empty list.  Setting PROTOCOL_ETH and the   *)
(* like to 0 only switches graphs off.                                        *)
EmptyListIsMarked ==
    \A b \in Flushes :
        writer[b].pc = "next" => OnList(batch[b]) # {}

=============================================================================
