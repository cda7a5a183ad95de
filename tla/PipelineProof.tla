----------------------------- MODULE PipelineProof -----------------------------
(*****************************************************************************)
(* Proofs about Pipeline, for any number of frames, protocols, flushes,      *)
(* concurrent writers and failures: the types, that writers find their       *)
(* tables, that no table counts a frame twice, under which times a reader    *)
(* finds the rows, and that Pipeline implements TrafficLedger.               *)
(*                                                                           *)
(* CountedOnce is not inductive.  It rests on the lists: the capture         *)
(* thread's list and all the batches hold different frames (Apart), a batch  *)
(* is filled once, while its writer is idle (Unused), and a writer that has  *)
(* yet to fill a table has no row in it (NotFilledYet).  What readers find   *)
(* has an invariant of its own, StampInv, and a stronger one, Steady, for a  *)
(* database that keeps up; both come after the first theorems.               *)
(*****************************************************************************)
EXTENDS Pipeline, FiniteSetTheorems, WellFoundedInduction, TLAPS

Working == {"read", "time", "insert"}

(* What a writer works on: tables that exist, each protocol once.            *)
WriterOK ==
    \A b \in Flushes :
        /\ writer[b].left \subseteq tables
        /\ ~Running(b) => writer[b].left = {}
        /\ writer[b].pc \in Working =>
               /\ writer[b].prot \in Protocols
               /\ writer[b].prot \in tables
               /\ writer[b].prot \notin writer[b].left
               /\ writer[b].k \in 1 .. Last

(* Where the capture thread is between the frame that ends an interval and   *)
(* the handing over of the list.                                             *)
FlushOK ==
    /\ main = "set_time" => stamp < MaxFlushes
    /\ main \in {"create_db", "flush"} => stamp \in Flushes
    /\ main = "flush" => OnList(z_protokoly) \subseteq tables

(* A flush that has not handed over its list has an idle writer, and an idle *)
(* writer has neither a batch nor rows.                                      *)
Unused ==
    /\ \A b \in Flushes :
           (b > stamp \/ (b = stamp /\ main \in {"create_db", "flush"})) =>
               writer[b].pc = "idle"
    /\ \A b \in Flushes : writer[b].pc = "idle" =>
           /\ batch[b] = NoFrames
           /\ \A p \in Protocols, t \in Tables : \A j \in 1 .. Len(rows[p][t]) :
                  rows[p][t][j] # b

(* No frame is on two lists.                                                 *)
Apart ==
    \A p \in Protocols :
        /\ z_protokoly[p] \subseteq 1 .. frames
        /\ \A b \in Flushes :
               /\ batch[b][p] \subseteq 1 .. frames
               /\ batch[b][p] \cap z_protokoly[p] = {}
               /\ \A c \in Flushes : b # c => batch[b][p] \cap batch[c][p] = {}

(* A writer has no row in a table it has yet to fill, and never two.         *)
NotFilledYet ==
    \A b \in Flushes, t \in Tables : \A p \in NotYet(b, t) :
        \A j \in 1 .. Len(rows[p][t]) : rows[p][t][j] # b

FilledOnce ==
    \A p \in Protocols, t \in Tables : \A j, l \in 1 .. Len(rows[p][t]) :
        j # l => rows[p][t][j] # rows[p][t][l]

Support == WriterOK /\ FlushOK
History == Unused /\ Apart /\ NotFilledYet /\ FilledOnce
IInv == TypeOK /\ Support /\ History

-----------------------------------------------------------------------------
(* The constants and the two records a writer starts and ends with.          *)
LEMMA Records ==
    /\ Last \in Nat \ {0}
    /\ DOMAIN InsertOrder = 1 .. Last
    /\ Idle \in WriterStates
    /\ Gone \in WriterStates
    /\ NoFrames \in [Protocols -> SUBSET (1 .. MaxFrames)]
    /\ NoIds \in [Tables -> Nat]
    /\ \A k \in 1 .. Last : InsertOrder[k] \in Tables
    /\ \A left \in SUBSET Protocols :
           /\ Between(left) \in WriterStates
           /\ \A p \in Protocols : Begins(p, left) \in WriterStates
<1>1. Last \in Nat \ {0} /\ DOMAIN InsertOrder = 1 .. Last
  BY PipelineAssumption DEF PipelineAssumption, Last
<1>4. \A k \in 1 .. Last : InsertOrder[k] \in Tables
  BY <1>1, PipelineAssumption DEF PipelineAssumption, Tables
<1>2. NoIds \in [Tables -> Nat]
  BY DEF NoIds
<1>3. NoFrames \in [Protocols -> SUBSET (1 .. MaxFrames)]
  BY DEF NoFrames
<1> QED BY <1>1, <1>2, <1>3, <1>4 DEF Idle, Gone, Between, Begins, WriterStates

(* The program starts with its variables in range.                           *)
LEMMA TypeInit == Init => TypeOK
BY Records, PipelineAssumption DEF PipelineAssumption, Init, TypeOK, Flushes

(* Every way the process ends keeps the types.                               *)
LEMMA TypeEnd ==
    ASSUME TypeOK, NEW how \in {"killed", "exit", "segv"}, End(how)
    PROVE  TypeOK'
BY Records DEF TypeOK, End, stored

(* The list handed over is on record and the capture thread goes on.         *)
LEMMA TypeHandOver ==
    ASSUME TypeOK, NEW thread \in WriterStates, HandOver(thread), faults' \in Nat
    PROVE  TypeOK'
BY Records DEF TypeOK, HandOver, stored, TakenOff

(* The steps of the capture thread keep the types.                           *)
LEMMA TypeMain ==
    ASSUME TypeOK, FlushOK, Main
    PROVE  TypeOK'
<1> USE DEF capture, stored
<1>1. ASSUME NEW kind \in Kinds, NEW due \in BOOLEAN, Capture(kind, due)
      PROVE  TypeOK'
  BY <1>1, PipelineAssumption DEF PipelineAssumption, TypeOK, Capture
<1>2. ASSUME SetTime PROVE TypeOK'
  BY <1>2, PipelineAssumption DEF PipelineAssumption, TypeOK, FlushOK, SetTime
<1>3. ASSUME NEW p \in Protocols, CreateTables(p) PROVE TypeOK'
  BY <1>3 DEF TypeOK, CreateTables
<1>4. ASSUME CreateDbFails PROVE TypeOK'
  BY <1>4, TypeEnd DEF CreateDbFails
<1>5. ASSUME TablesDone PROVE TypeOK'
  BY <1>5 DEF TypeOK, TablesDone
<1>6. NewWriter \in WriterStates
  BY Records DEF NewWriter, OnList
<1>7. ASSUME FlushData PROVE TypeOK'
  BY <1>6, <1>7, TypeHandOver DEF FlushData, TypeOK
<1>8. ASSUME NoThread PROVE TypeOK'
  <2>1. faults' \in Nat
    BY <1>8 DEF NoThread, TypeOK
  <2> QED BY <1>8, <2>1, Records, TypeHandOver DEF NoThread
<1>9. ASSUME LinkIsQuiet PROVE TypeOK'
  BY <1>9 DEF LinkIsQuiet, vars, flushing, TypeOK
<1> QED BY <1>1, <1>2, <1>3, <1>4, <1>5, <1>7, <1>8, <1>9 DEF Main

(* A step of a writer that only moves it on keeps the types.                 *)
LEMMA TypeBecomes ==
    ASSUME TypeOK, NEW b \in Flushes, NEW w \in WriterStates, Becomes(b, w), KeepMain,
           fate' = fate, faults' \in Nat, UNCHANGED stored
    PROVE  TypeOK'
BY DEF TypeOK, Becomes, KeepMain, capture, flushing, stored

(* The steps of a writer, and its failures, keep the types.                  *)
LEMMA TypeWriter ==
    ASSUME TypeOK, WriterOK, NEW b \in Flushes, Writer(b) \/ WriterFails(b)
    PROVE  TypeOK'
<1>0. writer[b] \in WriterStates
  BY DEF TypeOK
<1>8. writer[b].k \in 0 .. Last /\ Last \in Nat \ {0}
  BY <1>0, Records DEF WriterStates
<1>1. ASSUME NEW p \in Protocols, StartProtocol(b, p) PROVE TypeOK'
  <2>1. Begins(p, writer[b].left \ {p}) \in WriterStates
    BY <1>0, Records DEF WriterStates
  <2> QED BY <1>1, <2>1, TypeBecomes DEF StartProtocol, TypeOK
<1>2. ASSUME ReadMax(b) PROVE TypeOK'
  <2> DEFINE t == ReadOrder[writer[b].k]
             w == [writer[b] EXCEPT
                      !.ids[t] = NextId(writer[b].prot, t),
                      !.pc = IF writer[b].k = Last THEN "time" ELSE "read",
                      !.k = IF writer[b].k = Last THEN 1 ELSE @ + 1]
  <2>1. t \in Tables => NextId(writer[b].prot, t) \in Nat
    <3>1. writer[b].prot \in Protocols
      BY <1>2 DEF WriterOK, Working, ReadMax, At
    <3>2. t \in Tables => rows[writer[b].prot][t] \in Seq(Flushes)
      BY <3>1 DEF TypeOK
    <3> HIDE DEF t
    <3> QED BY <3>2 DEF NextId
  <2>2. w.ids \in [Tables -> Nat]
    <3> HIDE DEF t
    <3> QED BY <1>0, <2>1 DEF WriterStates
  <2>3. w.k \in 0 .. Last
    <3>1. w.k = IF writer[b].k = Last THEN 1 ELSE writer[b].k + 1
      BY <1>0 DEF WriterStates
    <3> HIDE DEF w
    <3> QED BY <1>8, <3>1
  <2>4. w \in WriterStates
    <3> HIDE DEF t
    <3> QED BY <1>0, <2>2, <2>3 DEF WriterStates
  <2>5. Becomes(b, w) /\ KeepMain /\ UNCHANGED <<fate, faults, stored>>
    BY <1>2 DEF ReadMax
  <2> HIDE DEF w
  <2> QED BY <2>4, <2>5, TypeBecomes DEF TypeOK
<1>3. ASSUME InsertTime(b) PROVE TypeOK'
  <2> DEFINE p == writer[b].prot
             row == [time |-> processing_time, ids |-> writer[b].ids]
             w == [writer[b] EXCEPT !.pc = "insert"]
  <2>1. w \in WriterStates /\ row \in TimeRows
    BY <1>0 DEF WriterStates, TimeRows, TypeOK
  <2>2. \/ time_rows' = time_rows
        \/ time_rows' = [time_rows EXCEPT ![p] = @ \cup {row}]
    BY <1>3 DEF InsertTime
  <2>3. Becomes(b, w) /\ KeepMain /\ UNCHANGED <<fate, faults, rows>>
    BY <1>3 DEF InsertTime
  <2> HIDE DEF p, row, w
  <2> QED BY <2>1, <2>2, <2>3 DEF TypeOK, Becomes, KeepMain, capture, flushing
<1>4. ASSUME InsertRows(b) PROVE TypeOK'
  <2> DEFINE p == writer[b].prot
             t == InsertOrder[writer[b].k]
             w == IF writer[b].k = Last
                  THEN Between(writer[b].left)
                  ELSE [writer[b] EXCEPT !.k = @ + 1]
  <2>1. w \in WriterStates
    <3>1. CASE writer[b].k = Last
      BY <1>0, <3>1, Records DEF WriterStates
    <3>2. CASE writer[b].k # Last
      <4>1. writer[b].k + 1 \in 0 .. Last
        BY <1>8, <3>2
      <4>2. [writer[b] EXCEPT !.k = @ + 1] \in WriterStates
        BY <1>0, <4>1 DEF WriterStates
      <4> QED BY <3>2, <4>2
    <3> QED BY <3>1, <3>2
  <2>2. rows' = [rows EXCEPT ![p][t] = Append(@, b)]
    BY <1>4 DEF InsertRows
  <2>3. Becomes(b, w) /\ KeepMain /\ UNCHANGED <<fate, faults, time_rows>>
    BY <1>4 DEF InsertRows
  <2>5. p \in Protocols /\ t \in Tables
    BY <1>4, Records DEF WriterOK, Working, InsertRows, At
  <2> HIDE DEF p, t, w
  <2>4. rows' \in [Protocols -> [Tables -> Seq(Flushes)]]
    <3>1. rows[p][t] \in Seq(Flushes)
      BY <2>5 DEF TypeOK
    <3>2. Append(rows[p][t], b) \in Seq(Flushes)
      BY <3>1
    <3> QED BY <2>2, <2>5, <3>2 DEF TypeOK
  <2> QED BY <2>1, <2>3, <2>4 DEF TypeOK, Becomes, KeepMain, capture, flushing
<1>5. ASSUME Finish(b) PROVE TypeOK'
  BY <1>5, Records, TypeBecomes DEF Finish, TypeOK
<1>6. ASSUME FinishEmpty(b) \/ ConnectFails(b) \/ ReadFails(b) PROVE TypeOK'
  BY <1>6, TypeEnd DEF FinishEmpty, ConnectFails, ReadFails
<1>7. ASSUME ConnectionLost(b) PROVE TypeOK'
  <2>1. Between(writer[b].left) \in WriterStates
    BY <1>0, Records DEF WriterStates
  <2>2. faults' \in Nat
    BY <1>7 DEF ConnectionLost, TypeOK
  <2> QED BY <1>7, <2>1, <2>2, TypeBecomes DEF ConnectionLost
<1> QED BY <1>1, <1>2, <1>3, <1>4, <1>5, <1>6, <1>7 DEF Writer, WriterFails

-----------------------------------------------------------------------------
(* Writers find what they work on: Support is inductive.                     *)

(* Nothing is running when the program starts.                               *)
LEMMA SupportInit == Init => Support
BY DEF Init, Support, WriterOK, FlushOK, Working, Running, Idle

(* A process that ends leaves no writer running.                             *)
LEMMA SupportEnd ==
    ASSUME TypeOK, Support, NEW how, End(how)
    PROVE  Support'
<1>1. \A b \in Flushes : writer'[b] = IF Running(b) THEN Gone ELSE writer[b]
  BY DEF End
<1>2. WriterOK'
  BY <1>1 DEF Support, WriterOK, Working, Running, Gone, Idle, End
<1>3. FlushOK'
  BY DEF FlushOK, End
<1> QED BY <1>2, <1>3 DEF Support

(* Tables are made before the list that needs them is handed over.           *)
LEMMA SupportMain ==
    ASSUME TypeOK, Support, Main
    PROVE  Support'
<1> USE DEF Support, capture
<1>1. ASSUME NEW kind \in Kinds, NEW due \in BOOLEAN, Capture(kind, due)
      PROVE  Support'
  <2>1. WriterOK'
    BY <1>1 DEF Capture, WriterOK, Running
  <2>2. FlushOK'
    BY <1>1, PipelineAssumption DEF PipelineAssumption, Capture, FlushOK
  <2> QED BY <2>1, <2>2
<1>2. ASSUME SetTime PROVE Support'
  <2>1. WriterOK'
    BY <1>2 DEF SetTime, WriterOK, Running
  <2>2. FlushOK'
    BY <1>2, PipelineAssumption DEF PipelineAssumption, SetTime, FlushOK, TypeOK, Flushes
  <2> QED BY <2>1, <2>2
<1>3. ASSUME NEW p \in Protocols, CreateTables(p) PROVE Support'
  <2>1. WriterOK'
    BY <1>3 DEF CreateTables, WriterOK, Running
  <2>2. FlushOK'
    BY <1>3 DEF CreateTables, FlushOK
  <2> QED BY <2>1, <2>2
<1>4. ASSUME CreateDbFails PROVE Support'
  BY <1>4, SupportEnd DEF CreateDbFails
<1>5. ASSUME TablesDone PROVE Support'
  <2>1. WriterOK'
    BY <1>5 DEF TablesDone, WriterOK, Running
  <2>2. FlushOK'
    BY <1>5 DEF TablesDone, FlushOK, Missing, OnList
  <2> QED BY <2>1, <2>2
<1>6. ASSUME NEW thread, HandOver(thread), thread = NewWriter \/ thread = Gone
      PROVE  Support'
  <2>1. \A b \in Flushes : writer'[b] = IF b = stamp THEN thread ELSE writer[b]
    BY <1>6 DEF HandOver, TypeOK
  <2>2. WriterOK'
    BY <1>6, <2>1 DEF HandOver, FlushOK, WriterOK, Running, Working, NewWriter,
       Between, Gone, Idle
  <2>3. FlushOK'
    BY <1>6 DEF HandOver, FlushOK
  <2> QED BY <2>2, <2>3
<1>7. ASSUME FlushData \/ NoThread PROVE Support'
  BY <1>6, <1>7 DEF FlushData, NoThread
<1>8. ASSUME LinkIsQuiet PROVE Support'
  BY <1>8 DEF LinkIsQuiet, vars, flushing, FlushOK, WriterOK, Running, OnList
<1> QED BY <1>1, <1>2, <1>3, <1>4, <1>5, <1>7, <1>8 DEF Main

(* A writer takes protocols off what is left, and steps within its tables.   *)
LEMMA SupportWriter ==
    ASSUME TypeOK, Support, NEW b \in Flushes, Writer(b) \/ WriterFails(b)
    PROVE  Support'
<1> USE DEF Support, capture, flushing, KeepMain, At
<1>1. ASSUME NEW w, Becomes(b, w), KeepMain,
             w.left \subseteq writer[b].left,
             w.pc \in {"idle", "gone"} => w.left = {},
             w.pc \in Working => w.prot \in Protocols /\ w.prot \in tables
                               /\ w.prot \notin w.left /\ w.k \in 1 .. Last
      PROVE  Support'
  <2>1. \A c \in Flushes : writer'[c] = IF c = b THEN w ELSE writer[c]
    BY <1>1 DEF Becomes, TypeOK
  <2>2. WriterOK'
    BY <1>1, <2>1 DEF WriterOK, Running
  <2>3. FlushOK'
    BY <1>1 DEF FlushOK, OnList
  <2> QED BY <2>2, <2>3
<1>2. ASSUME NEW p \in Protocols, StartProtocol(b, p) PROVE Support'
  <2> DEFINE w == Begins(p, writer[b].left \ {p})
  <2>1. w.left \subseteq writer[b].left /\ w.pc = "read" /\ w.prot = p /\ w.k = 1
    BY DEF Begins
  <2>2. p \in tables /\ p \notin w.left
    BY <1>2 DEF StartProtocol, WriterOK, Begins
  <2>3. Becomes(b, w) /\ KeepMain
    BY <1>2 DEF StartProtocol
  <2> HIDE DEF w
  <2> QED BY <1>1, <2>1, <2>2, <2>3, Records
<1>3. writer[b] \in WriterStates
  BY DEF TypeOK
<1>4. ASSUME ReadMax(b) PROVE Support'
  <2> DEFINE w == [writer[b] EXCEPT
                      !.ids[ReadOrder[writer[b].k]] =
                          NextId(writer[b].prot, ReadOrder[writer[b].k]),
                      !.pc = IF writer[b].k = Last THEN "time" ELSE "read",
                      !.k = IF writer[b].k = Last THEN 1 ELSE @ + 1]
  <2>1. w.left = writer[b].left /\ w.pc \in {"read", "time"} /\ w.prot = writer[b].prot
    BY <1>3 DEF WriterStates
  <2>2. w.k \in 1 .. Last
    BY <1>3, <1>4, Records DEF WriterStates, WriterOK, Working, ReadMax
  <2>3. Becomes(b, w) /\ KeepMain
    BY <1>4 DEF ReadMax
  <2>4. writer[b].pc = "read"
    BY <1>4 DEF ReadMax
  <2> HIDE DEF w
  <2> QED BY <1>1, <2>1, <2>2, <2>3, <2>4 DEF WriterOK, Working
<1>5. ASSUME InsertTime(b) PROVE Support'
  <2> DEFINE w == [writer[b] EXCEPT !.pc = "insert"]
  <2>1. w.left = writer[b].left /\ w.pc = "insert" /\ w.prot = writer[b].prot
        /\ w.k = writer[b].k
    BY <1>3 DEF WriterStates
  <2>2. Becomes(b, w) /\ KeepMain /\ writer[b].pc = "time"
    BY <1>5 DEF InsertTime
  <2> HIDE DEF w
  <2> QED BY <1>1, <2>1, <2>2 DEF WriterOK, Working
<1>6. ASSUME InsertRows(b) PROVE Support'
  <2>1. CASE writer[b].k = Last
    BY <1>1, <1>6, <2>1 DEF InsertRows, Between, Working
  <2>2. CASE writer[b].k # Last
    <3> DEFINE w == [writer[b] EXCEPT !.k = @ + 1]
    <3>1. w.left = writer[b].left /\ w.pc = "insert" /\ w.prot = writer[b].prot
          /\ w.k = writer[b].k + 1
      BY <1>3, <1>6 DEF WriterStates, InsertRows
    <3>2. Becomes(b, w) /\ KeepMain /\ writer[b].pc = "insert"
      BY <1>6, <2>2 DEF InsertRows
    <3>3. writer[b].k + 1 \in 1 .. Last
      BY <2>2, <3>2, Records DEF WriterOK, Working
    <3> HIDE DEF w
    <3> QED BY <1>1, <3>1, <3>2, <3>3 DEF WriterOK, Working
  <2> QED BY <2>1, <2>2
<1>7. ASSUME Finish(b) PROVE Support'
  BY <1>1, <1>7 DEF Finish, Gone, Idle, Working
<1>8. ASSUME FinishEmpty(b) \/ ConnectFails(b) \/ ReadFails(b) PROVE Support'
  BY <1>8, SupportEnd DEF FinishEmpty, ConnectFails, ReadFails
<1>9. ASSUME ConnectionLost(b) PROVE Support'
  BY <1>1, <1>9 DEF ConnectionLost, Between, Working
<1> QED BY <1>2, <1>4, <1>5, <1>6, <1>7, <1>8, <1>9 DEF Writer, WriterFails

-----------------------------------------------------------------------------
(* Frames and rows: History is inductive.                                    *)

(* Nothing is booked or stored when the program starts for the first time.   *)
LEMMA HistoryInit == Init => History
<1> SUFFICES ASSUME Init PROVE History
  OBVIOUS
<1>1. \A b \in Flushes : writer[b].pc = "idle" /\ batch[b] = NoFrames
  BY DEF Init, Idle
<1>2. \A p \in Protocols, t \in Tables : rows[p][t] = <<>>
  BY DEF Init
<1>3. Unused
  BY <1>1, <1>2 DEF Unused
<1>4. Apart
  BY <1>1 DEF Apart, Init, NoFrames
<1>5. NotFilledYet
  BY <1>1 DEF NotFilledYet, NotYet, Running
<1>6. FilledOnce
  BY <1>2 DEF FilledOnce
<1> QED BY <1>3, <1>4, <1>5, <1>6 DEF History

(* A process that ends takes its lists with it and leaves the tables.        *)
LEMMA HistoryEnd ==
    ASSUME TypeOK, History, NEW how, End(how)
    PROVE  History'
<1> USE DEF History, stored
<1>1. \A b \in Flushes : writer'[b] = IF Running(b) THEN Gone ELSE writer[b]
  BY DEF End
<1>2. \A b \in Flushes : Running(b)' = FALSE
  BY <1>1 DEF Running, Gone, Idle
<1>3. \A b \in Flushes : (writer[b].pc = "idle")' <=> writer[b].pc = "idle"
  BY <1>1 DEF Running, Gone, Idle
<1>4. Unused'
  BY <1>3 DEF Unused, End
<1>5. Apart'
  BY DEF Apart, End, NoFrames
<1>6. NotFilledYet'
  BY <1>2 DEF NotFilledYet, NotYet
<1>7. FilledOnce'
  BY DEF FilledOnce, End
<1> QED BY <1>4, <1>5, <1>6, <1>7

(* A step that touches neither writers, batches nor rows keeps what is said  *)
(* of them.                                                                  *)
LEMMA HistoryKept ==
    ASSUME History, UNCHANGED <<writer, batch, rows>>,
           \A b \in Flushes :
               (b > stamp \/ (b = stamp /\ main \in {"create_db", "flush"}))' =>
                   writer[b].pc = "idle",
           Apart'
    PROVE  History'
<1> USE DEF History
<1>1. Unused'
  BY DEF Unused
<1>2. NotFilledYet'
  BY DEF NotFilledYet, NotYet, Running
<1>3. FilledOnce'
  BY DEF FilledOnce
<1> QED BY <1>1, <1>2, <1>3

(* The list moves from the capture thread to a batch that was not in use.    *)
LEMMA HistoryHandOver ==
    ASSUME TypeOK, Support, History, NEW thread, HandOver(thread),
           thread = NewWriter \/ thread = Gone
    PROVE  History'
<1> USE DEF History, stored
<1>0. stamp \in Flushes /\ writer[stamp].pc = "idle" /\ main' = "loop" /\ stamp' = stamp
  BY DEF HandOver, Support, FlushOK, Unused
<1>1. \A b \in Flushes : writer'[b] = IF b = stamp THEN thread ELSE writer[b]
  BY DEF HandOver, TypeOK
<1>2. \A b \in Flushes : batch'[b] = IF b = stamp THEN z_protokoly ELSE batch[b]
  BY DEF HandOver, TypeOK
<1>3. thread.pc # "idle"
  BY DEF NewWriter, Between, Gone, Idle
<1>4. Unused'
  <2>1. \A b \in Flushes : b > stamp => b # stamp
    BY <1>0, PipelineAssumption DEF PipelineAssumption, Flushes
  <2>2. UNCHANGED rows
    BY DEF HandOver
  <2> QED BY <1>0, <1>1, <1>2, <1>3, <2>1, <2>2 DEF Unused
<1>5. Apart'
  <2>1. \A p \in Protocols : z_protokoly'[p] = {} /\ frames' = frames
    BY DEF HandOver, TakenOff, NoFrames
  <2>2. ASSUME NEW p \in Protocols, NEW b \in Flushes
        PROVE  /\ batch'[b][p] \subseteq 1 .. frames
               /\ \A c \in Flushes : b # c => batch'[b][p] \cap batch'[c][p] = {}
    <3>1. batch[b][p] \subseteq 1 .. frames /\ z_protokoly[p] \subseteq 1 .. frames
      BY DEF Apart
    <3>2. \A c \in Flushes : /\ batch[c][p] \cap z_protokoly[p] = {}
                             /\ b # c => batch[b][p] \cap batch[c][p] = {}
      BY DEF Apart
    <3> QED BY <1>2, <3>1, <3>2
  <2> QED BY <2>1, <2>2 DEF Apart
<1>6. NotFilledYet'
  <2> SUFFICES ASSUME NEW b \in Flushes, NEW t \in Tables, NEW p \in NotYet(b, t)'
               PROVE  \A j \in 1 .. Len(rows[p][t]) : rows[p][t][j] # b
    BY DEF NotFilledYet, HandOver
  <2>1. CASE b = stamp
    <3>1. p \in Protocols
      BY <1>1, <2>1 DEF NotYet, Running, NewWriter, Between, OnList, Gone, Idle
    <3> QED BY <1>0, <2>1, <3>1 DEF Unused
  <2>2. CASE b # stamp
    BY <1>1, <2>2 DEF NotYet, Running, NotFilledYet
  <2> QED BY <2>1, <2>2
<1>7. FilledOnce'
  BY DEF FilledOnce, HandOver
<1> QED BY <1>4, <1>5, <1>6, <1>7

(* The capture thread books each frame once and never touches a row.         *)
LEMMA HistoryMain ==
    ASSUME TypeOK, Support, History, Main
    PROVE  History'
<1> USE DEF capture, stored
<1>1. ASSUME NEW kind \in Kinds, NEW due \in BOOLEAN, Capture(kind, due)
      PROVE  History'
  <2>1. frames' = frames + 1 /\ frames \in Nat
    BY <1>1, PipelineAssumption DEF PipelineAssumption, Capture, TypeOK
  <2>2. \A p \in Protocols : z_protokoly'[p] \subseteq z_protokoly[p] \cup {frames + 1}
    BY <1>1 DEF Capture
  <2>3. batch' = batch
    BY <1>1 DEF Capture
  <2>4. Apart'
    <3> SUFFICES ASSUME NEW p \in Protocols
                 PROVE  /\ z_protokoly'[p] \subseteq 1 .. frames'
                        /\ \A b \in Flushes :
                               /\ batch[b][p] \subseteq 1 .. frames'
                               /\ batch[b][p] \cap z_protokoly'[p] = {}
                               /\ \A c \in Flushes :
                                      b # c => batch[b][p] \cap batch[c][p] = {}
      BY <2>3 DEF Apart
    <3>1. 1 .. frames \subseteq 1 .. frames' /\ frames + 1 \in 1 .. frames'
          /\ frames + 1 \notin 1 .. frames
      BY <2>1
    <3> QED BY <2>2, <3>1 DEF History, Apart
  <2> QED BY <1>1, <2>4, HistoryKept DEF Capture, History, Unused
<1>2. ASSUME SetTime PROVE History'
  <2>1. Apart'
    BY <1>2 DEF SetTime, History, Apart
  <2>2. \A b \in Flushes : b >= stamp + 1 => b > stamp
    BY PipelineAssumption DEF PipelineAssumption, TypeOK, Flushes
  <2>3. \A b \in Flushes : b > stamp' \/ b = stamp' => b >= stamp + 1
    BY <1>2, PipelineAssumption DEF PipelineAssumption, SetTime, TypeOK, Flushes
  <2> QED BY <1>2, <2>1, <2>2, <2>3, HistoryKept DEF SetTime, History, Unused
<1>3. ASSUME NEW p \in Protocols, CreateTables(p) PROVE History'
  <2>1. Apart'
    BY <1>3 DEF CreateTables, History, Apart
  <2> QED BY <1>3, <2>1, HistoryKept DEF CreateTables, History, Unused
<1>4. ASSUME CreateDbFails PROVE History'
  BY <1>4, HistoryEnd DEF CreateDbFails
<1>5. ASSUME TablesDone PROVE History'
  <2>1. Apart'
    BY <1>5 DEF TablesDone, History, Apart
  <2> QED BY <1>5, <2>1, HistoryKept DEF TablesDone, History, Unused
<1>6. ASSUME FlushData \/ NoThread PROVE History'
  BY <1>6, HistoryHandOver DEF FlushData, NoThread
<1>7. ASSUME LinkIsQuiet PROVE History'
  <2>1. Apart'
    BY <1>7 DEF LinkIsQuiet, vars, History, Apart, flushing
  <2> QED BY <1>7, <2>1, HistoryKept DEF LinkIsQuiet, vars, flushing, History, Unused
<1> QED BY <1>1, <1>2, <1>3, <1>4, <1>5, <1>6, <1>7 DEF Main

(* A writer that moves on without inserting has no more to do than before.   *)
LEMMA HistoryBecomes ==
    ASSUME TypeOK, History, NEW b \in Flushes, NEW w, Becomes(b, w), KeepMain,
           UNCHANGED rows, Running(b), w.pc # "idle",
           \A t \in Tables : NotYet(b, t)' \subseteq NotYet(b, t)
    PROVE  History'
<1> USE DEF History, KeepMain, capture, flushing
<1>1. \A c \in Flushes : writer'[c] = IF c = b THEN w ELSE writer[c]
  BY DEF Becomes, TypeOK
<1>2. Unused'
  BY <1>1 DEF Unused, Running
<1>3. Apart'
  BY DEF Apart
<1>4. NotFilledYet'
  <2> SUFFICES ASSUME NEW c \in Flushes, NEW t \in Tables, NEW p \in NotYet(c, t)'
               PROVE  \A j \in 1 .. Len(rows[p][t]) : rows[p][t][j] # c
    BY DEF NotFilledYet
  <2>1. p \in NotYet(c, t)
    <3>1. CASE c = b
      BY <3>1
    <3>2. CASE c # b
      BY <1>1, <3>2 DEF NotYet, Running
    <3> QED BY <3>1, <3>2
  <2> QED BY <2>1 DEF NotFilledYet
<1>5. FilledOnce'
  BY DEF FilledOnce
<1> QED BY <1>2, <1>3, <1>4, <1>5

(* What a sequence holds after one element more.                             *)
LEMMA Appended ==
    ASSUME NEW S, NEW s \in Seq(S), NEW e \in S, NEW j \in 1 .. Len(Append(s, e))
    PROVE  \/ j \in 1 .. Len(s) /\ Append(s, e)[j] = s[j]
           \/ j = Len(s) + 1 /\ Append(s, e)[j] = e
OBVIOUS

(* The rows of one INSERT go to a table the writer had no row in.            *)
LEMMA HistoryInsert ==
    ASSUME TypeOK, Support, History, NEW b \in Flushes, InsertRows(b)
    PROVE  History'
<1> USE DEF History, KeepMain, capture, flushing, At
<1>0. PICK p \in Protocols, t \in Tables :
           p = writer[b].prot /\ t = InsertOrder[writer[b].k]
  BY Records DEF InsertRows, Support, WriterOK, Working
<1> DEFINE old == rows[p][t]
<1>1. /\ p = writer[b].prot /\ t = InsertOrder[writer[b].k]
      /\ p \notin writer[b].left
      /\ writer[b].k \in 1 .. Last
      /\ writer[b].pc = "insert"
  BY <1>0 DEF InsertRows, Support, WriterOK, Working
<1>2. p \in NotYet(b, t)
  BY <1>1, Records DEF NotYet, Running
<1>3. \A j \in 1 .. Len(old) : old[j] # b
  BY <1>1, <1>2 DEF NotFilledYet
<1>4. old \in Seq(Flushes)
  BY <1>1 DEF TypeOK
<1>5. \A q \in Protocols, u \in Tables :
          rows'[q][u] = IF q = p /\ u = t THEN Append(old, b) ELSE rows[q][u]
  BY <1>1 DEF InsertRows, TypeOK
<1>6. \A q \in Protocols, u \in Tables : \A j \in 1 .. Len(rows'[q][u]) :
          \/ j \in 1 .. Len(rows[q][u]) /\ rows'[q][u][j] = rows[q][u][j]
          \/ q = p /\ u = t /\ j = Len(old) + 1 /\ rows'[q][u][j] = b
  <2> SUFFICES ASSUME NEW q \in Protocols, NEW u \in Tables,
                      NEW j \in 1 .. Len(rows'[q][u])
               PROVE  \/ j \in 1 .. Len(rows[q][u]) /\ rows'[q][u][j] = rows[q][u][j]
                      \/ q = p /\ u = t /\ j = Len(old) + 1 /\ rows'[q][u][j] = b
    OBVIOUS
  <2>1. CASE q = p /\ u = t
    <3>1. rows'[q][u] = Append(old, b) /\ rows[q][u] = old
      BY <1>5, <2>1
    <3> HIDE DEF old
    <3> QED BY <1>4, <2>1, <3>1, Appended
  <2>2. CASE ~(q = p /\ u = t)
    <3>1. rows'[q][u] = rows[q][u]
      BY <1>5, <2>2
    <3> QED BY <3>1
  <2> QED BY <2>1, <2>2
<1>7. PICK w : /\ Becomes(b, w)
               /\ w.pc # "idle" /\ w.left = writer[b].left
               /\ \/ w.pc = "next"
                  \/ w.pc = "insert" /\ w.prot = p /\ w.k = writer[b].k + 1
  <2>1. CASE writer[b].k = Last
    BY <2>1 DEF InsertRows, Between
  <2>2. CASE writer[b].k # Last
    <3>1. writer[b] \in WriterStates
      BY DEF TypeOK
    <3>2. Becomes(b, [writer[b] EXCEPT !.k = @ + 1])
      BY <2>2 DEF InsertRows
    <3> QED BY <1>1, <3>1, <3>2 DEF WriterStates
  <2> QED BY <2>1, <2>2
<1>8. \A c \in Flushes : writer'[c] = IF c = b THEN w ELSE writer[c]
  BY <1>7 DEF Becomes, TypeOK
<1> HIDE DEF old
<1>9. Unused'
  <2>1. \A c \in Flushes : writer'[c].pc = "idle" => writer[c].pc = "idle" /\ c # b
    BY <1>7, <1>8
  <2>2. \A c \in Flushes : writer[c].pc = "idle" => writer'[c].pc = "idle"
    BY <1>1, <1>8
  <2>3. UNCHANGED <<stamp, main, batch>>
    BY DEF InsertRows
  <2>4. \A c \in Flushes : writer'[c].pc = "idle" =>
            \A q \in Protocols, u \in Tables : \A j \in 1 .. Len(rows'[q][u]) :
                rows'[q][u][j] # c
    BY <1>6, <2>1 DEF Unused
  <2> QED BY <2>1, <2>2, <2>3, <2>4 DEF Unused
<1>10. Apart'
  BY DEF Apart, InsertRows
<1>11. \A u \in Tables : NotYet(b, u)' \subseteq NotYet(b, u)
  <2> SUFFICES ASSUME NEW u \in Tables, NEW q \in NotYet(b, u)'
               PROVE  q \in NotYet(b, u)
    OBVIOUS
  <2>1. CASE q \in writer[b].left
    BY <1>1, <2>1 DEF NotYet, Running
  <2>2. CASE q \notin writer[b].left
    <3>1. w.pc = "insert" /\ w.prot = p /\ w.k = writer[b].k + 1
      BY <1>7, <1>8, <2>2 DEF NotYet, Running
    <3>2. q = p /\ u \in {InsertOrder[j] : j \in writer[b].k + 1 .. Last}
      BY <1>7, <1>8, <2>2, <3>1 DEF NotYet, Running
    <3>3. u \in {InsertOrder[j] : j \in writer[b].k .. Last}
      BY <1>1, <3>2, Records
    <3> QED BY <1>1, <3>2, <3>3 DEF NotYet, Running
  <2> QED BY <2>1, <2>2
<1>12. p \notin NotYet(b, t)'
  <2> SUFFICES ASSUME p \in NotYet(b, t)' PROVE FALSE
    OBVIOUS
  <2>0. writer'[b] = w /\ p \notin w.left
    BY <1>1, <1>7, <1>8
  <2>1. w.pc = "insert" /\ w.k = writer[b].k + 1
    BY <1>7, <2>0 DEF NotYet, Running
  <2>2. t \in {InsertOrder[j] : j \in w.k .. Last}
    BY <2>0, <2>1 DEF NotYet, Running
  <2>3. PICK j \in writer[b].k + 1 .. Last : t = InsertOrder[j]
    BY <2>1, <2>2
  <2>4. j \in DOMAIN InsertOrder /\ writer[b].k \in DOMAIN InsertOrder /\ j # writer[b].k
    BY <1>1, Records
  <2> QED BY <1>1, <2>3, <2>4, PipelineAssumption DEF PipelineAssumption
<1>13. NotFilledYet'
  <2> SUFFICES ASSUME NEW c \in Flushes, NEW u \in Tables, NEW q \in NotYet(c, u)',
                      NEW j \in 1 .. Len(rows'[q][u])
               PROVE  rows'[q][u][j] # c
    BY DEF NotFilledYet
  <2>1. q \in NotYet(c, u)
    <3>1. CASE c = b
      BY <1>11, <3>1
    <3>2. CASE c # b
      BY <1>8, <3>2 DEF NotYet, Running
    <3> QED BY <3>1, <3>2
  <2>2. q \in Protocols
    BY <2>1 DEF NotYet, Running, Support, WriterOK, Working, TypeOK
  <2>3. CASE j \in 1 .. Len(rows[q][u]) /\ rows'[q][u][j] = rows[q][u][j]
    BY <2>1, <2>3 DEF NotFilledYet
  <2>4. CASE q = p /\ u = t /\ rows'[q][u][j] = b
    BY <1>12, <2>4 DEF NotYet, Running
  <2> QED BY <1>6, <2>2, <2>3, <2>4
<1>14. FilledOnce'
  <2> SUFFICES ASSUME NEW q \in Protocols, NEW u \in Tables,
                      NEW j \in 1 .. Len(rows'[q][u]), NEW l \in 1 .. Len(rows'[q][u]),
                      j # l
               PROVE  rows'[q][u][j] # rows'[q][u][l]
    BY DEF FilledOnce
  <2>1. \/ j \in 1 .. Len(rows[q][u]) /\ rows'[q][u][j] = rows[q][u][j]
        \/ q = p /\ u = t /\ j = Len(old) + 1 /\ rows'[q][u][j] = b
    BY <1>6
  <2>2. \/ l \in 1 .. Len(rows[q][u]) /\ rows'[q][u][l] = rows[q][u][l]
        \/ q = p /\ u = t /\ l = Len(old) + 1 /\ rows'[q][u][l] = b
    BY <1>6
  <2> QED BY <1>3, <2>1, <2>2 DEF FilledOnce, old
<1> QED BY <1>9, <1>10, <1>13, <1>14

(* The steps of a writer keep the history.                                   *)
LEMMA HistoryWriter ==
    ASSUME TypeOK, Support, History, NEW b \in Flushes, Writer(b) \/ WriterFails(b)
    PROVE  History'
<1> USE DEF At
<1>0. writer[b] \in WriterStates
  BY DEF TypeOK
<1>1. ASSUME NEW w, Becomes(b, w), KeepMain, UNCHANGED rows, Running(b), w.pc # "idle",
             w.pc \in {"next", "gone"}, w.left \subseteq writer[b].left
      PROVE  History'
  <2>1. writer'[b] = w
    BY <1>1 DEF Becomes, TypeOK
  <2>2. \A t \in Tables : NotYet(b, t)' \subseteq NotYet(b, t)
    BY <1>1, <2>1 DEF NotYet, Running
  <2> QED BY <1>1, <2>2, HistoryBecomes
<1>2. ASSUME NEW p \in Protocols, StartProtocol(b, p) PROVE History'
  <2> DEFINE w == Begins(p, writer[b].left \ {p})
  <2>1. w.pc = "read" /\ w.prot = p /\ w.left = writer[b].left \ {p}
    BY DEF Begins
  <2>2. Becomes(b, w) /\ KeepMain /\ UNCHANGED rows /\ Running(b) /\ p \in writer[b].left
    BY <1>2 DEF StartProtocol, stored, Running
  <2> HIDE DEF w
  <2>3. writer'[b] = w
    BY <2>2 DEF Becomes, TypeOK
  <2>4. \A t \in Tables : NotYet(b, t)' \subseteq NotYet(b, t)
    BY <2>1, <2>2, <2>3 DEF NotYet, Running
  <2> QED BY <2>1, <2>2, <2>4, HistoryBecomes
<1>3. ASSUME NEW w, Becomes(b, w), KeepMain, UNCHANGED rows,
             writer[b].pc \in {"read", "time"}, w.pc \in Working,
             w.left = writer[b].left, w.prot = writer[b].prot
      PROVE  History'
  <2>1. writer'[b] = w
    BY <1>3 DEF Becomes, TypeOK
  <2>2. \A t \in Tables : NotYet(b, t)' \subseteq NotYet(b, t)
    BY <1>3, <2>1 DEF NotYet, Running, Working
  <2> QED BY <1>3, <2>2, HistoryBecomes DEF Running, Working
<1>4. ASSUME ReadMax(b) PROVE History'
  <2> DEFINE w == [writer[b] EXCEPT
                      !.ids[ReadOrder[writer[b].k]] =
                          NextId(writer[b].prot, ReadOrder[writer[b].k]),
                      !.pc = IF writer[b].k = Last THEN "time" ELSE "read",
                      !.k = IF writer[b].k = Last THEN 1 ELSE @ + 1]
  <2>1. w.left = writer[b].left /\ w.pc \in Working /\ w.prot = writer[b].prot
    BY <1>0 DEF WriterStates, Working
  <2>2. Becomes(b, w) /\ KeepMain /\ UNCHANGED rows /\ writer[b].pc = "read"
    BY <1>4 DEF ReadMax, stored
  <2> HIDE DEF w
  <2> QED BY <1>3, <2>1, <2>2
<1>5. ASSUME InsertTime(b) PROVE History'
  <2> DEFINE w == [writer[b] EXCEPT !.pc = "insert"]
  <2>1. w.left = writer[b].left /\ w.pc \in Working /\ w.prot = writer[b].prot
    BY <1>0 DEF WriterStates, Working
  <2>2. Becomes(b, w) /\ KeepMain /\ UNCHANGED rows /\ writer[b].pc = "time"
    BY <1>5 DEF InsertTime
  <2> HIDE DEF w
  <2> QED BY <1>3, <2>1, <2>2
<1>6. ASSUME InsertRows(b) PROVE History'
  BY <1>6, HistoryInsert
<1>7. ASSUME Finish(b) PROVE History'
  BY <1>1, <1>7 DEF Finish, Gone, Idle, stored, Running
<1>8. ASSUME FinishEmpty(b) \/ ConnectFails(b) \/ ReadFails(b) PROVE History'
  BY <1>8, HistoryEnd DEF FinishEmpty, ConnectFails, ReadFails
<1>9. ASSUME ConnectionLost(b) PROVE History'
  BY <1>1, <1>9 DEF ConnectionLost, Between, stored, Running
<1> QED BY <1>2, <1>4, <1>5, <1>6, <1>7, <1>8, <1>9 DEF Writer, WriterFails

-----------------------------------------------------------------------------
(* The inductive invariant holds at the start and every step keeps it.       *)
LEMMA InvNext == IInv /\ [Next]_vars => IInv'
<1> SUFFICES ASSUME IInv, [Next]_vars PROVE IInv'
  OBVIOUS
<1> USE DEF IInv
<1>1. CASE Main
  BY <1>1, TypeMain, SupportMain, HistoryMain DEF Support
<1>2. ASSUME NEW b \in Flushes, Writer(b) \/ WriterFails(b) PROVE IInv'
  BY <1>2, TypeWriter, SupportWriter, HistoryWriter DEF Support
<1>3. CASE Kill
  BY <1>3, TypeEnd, SupportEnd, HistoryEnd DEF Kill
<1>4. CASE Restart
  <2>1. TypeOK'
    BY <1>4, PipelineAssumption DEF PipelineAssumption, Restart, TypeOK, capture, stored
  <2>2. Support'
    BY <1>4 DEF Restart, Support, WriterOK, FlushOK, Running, capture
  <2>3. Apart'
    BY <1>4 DEF Restart, History, Apart, capture
  <2>4. History'
    BY <1>4, <2>3, HistoryKept DEF Restart, stored, History, Unused
  <2> QED BY <2>1, <2>2, <2>4
<1>5. CASE UNCHANGED vars
  <2>1. TypeOK'
    BY <1>5 DEF vars, TypeOK, capture, flushing, stored
  <2>2. Support'
    BY <1>5 DEF vars, Support, WriterOK, FlushOK, Running, capture, flushing
  <2>3. Apart'
    BY <1>5 DEF vars, History, Apart, capture, flushing
  <2>4. History'
    BY <1>5, <2>3, HistoryKept DEF vars, capture, flushing, stored, History, Unused
  <2> QED BY <2>1, <2>2, <2>4
<1> QED BY <1>1, <1>2, <1>3, <1>4, <1>5 DEF Next

(* Every reachable state satisfies the inductive invariant.                  *)
THEOREM Invariant == Spec => []IInv
<1>1. Init => IInv
  BY TypeInit, SupportInit, HistoryInit DEF IInv
<1> QED BY <1>1, InvNext, PTL DEF Spec

(* The variables of capture thread, writers and tables keep their types,     *)
(* through every failure and restart.                                        *)
THEOREM TypesKept == Spec => []TypeOK
<1>1. IInv => TypeOK
  BY DEF IInv
<1> QED BY <1>1, Invariant, PTL

(* No writer ever asks for or fills a table that create_db has not made.     *)
THEOREM WritersFindTables == Spec => []TablesExist
<1>1. IInv => TablesExist
  BY DEF IInv, Support, WriterOK, Working, TablesExist
<1> QED BY <1>1, Invariant, PTL

(* Whatever fails and however many writers run at once, no frame is counted  *)
(* twice in a table.                                                         *)
THEOREM FramesCountedOnce == Spec => []CountedOnce
<1>1. ASSUME IInv PROVE CountedOnce
  <2> SUFFICES ASSUME NEW p \in Protocols, NEW t \in Tables,
                      NEW j \in 1 .. Len(rows[p][t]), NEW l \in 1 .. Len(rows[p][t]),
                      j # l
               PROVE  batch[rows[p][t][j]][p] \cap batch[rows[p][t][l]][p] = {}
    BY DEF CountedOnce
  <2>1. rows[p][t][j] # rows[p][t][l]
    BY <1>1 DEF IInv, History, FilledOnce
  <2>2. rows[p][t] \in Seq(Flushes)
    BY <1>1 DEF IInv, TypeOK
  <2>3. rows[p][t][j] \in Flushes /\ rows[p][t][l] \in Flushes
    BY <2>2
  <2> QED BY <1>1, <2>1, <2>3 DEF IInv, History, Apart
<1> QED BY <1>1, Invariant, PTL

-----------------------------------------------------------------------------
(* What a reader finds under a stamp.                                        *)

(* The flush of a writer at work has set processing_time, and since then     *)
(* only later flushes have.                                                  *)
Clock ==
    /\ main \in {"create_db", "flush"} => fate = "running" /\ processing_time = stamp
    /\ \A b \in Flushes : Running(b) =>
           fate = "running" /\ processing_time = stamp /\ b <= stamp

(* No stamp is ahead of the latest flush, and no id of a stamp, or read for  *)
(* one, is beyond the next row.                                              *)
IdsExist ==
    /\ \A p \in Protocols : \A r \in time_rows[p] :
           r.time <= stamp /\ \A t \in Tables : r.ids[t] <= Len(rows[p][t]) + 1
    /\ \A b \in Flushes : writer[b].pc \in {"read", "time"} =>
           \A t \in Tables : writer[b].ids[t] <= Len(rows[writer[b].prot][t]) + 1

(* A writer fills tables after a stamp that is not before its own flush.     *)
HasStamp ==
    \A b \in Flushes : writer[b].pc = "insert" =>
        \E r \in time_rows[writer[b].prot] : r.time >= b

(* A row of flush b has a stamp not before b; no stamp up to that one has an *)
(* id beyond the row.                                                        *)
ClosedBy(p, t, id, b) ==
    \E r \in time_rows[p] :
        /\ r.time >= b
        /\ \A s \in time_rows[p] : s.time <= r.time => s.ids[t] <= id

RowsClosed ==
    \A p \in Protocols, t \in Tables : \A id \in 1 .. Len(rows[p][t]) :
        ClosedBy(p, t, id, rows[p][t][id])

StampInv == Clock /\ IdsExist /\ HasStamp /\ RowsClosed

(* A database that keeps up: one writer at a time, that of the latest flush, *)
(* which has put no stamp yet for the protocols it has to come to.           *)
OneWriter ==
    /\ main # "loop" => \A b \in Flushes : ~Running(b)
    /\ \A b \in Flushes : Running(b) => b = stamp

ToStamp(b) ==
    writer[b].left \cup IF writer[b].pc \in {"read", "time"} THEN {writer[b].prot} ELSE {}

StampIsNew ==
    /\ main \in {"create_db", "flush"} =>
           \A p \in Protocols : \A r \in time_rows[p] : r.time # stamp
    /\ \A b \in Flushes : \A p \in ToStamp(b) : \A r \in time_rows[p] : r.time # b

(* Its ids, and those of its stamp, are those of the rows that come next.    *)
NextIds(b, w) ==
    /\ w.pc = "read" => \A j \in 1 .. w.k - 1 :
           w.ids[ReadOrder[j]] = Len(rows[w.prot][ReadOrder[j]]) + 1
    /\ w.pc = "time" => \A t \in Tables : w.ids[t] = Len(rows[w.prot][t]) + 1
    /\ w.pc = "insert" =>
           /\ \E r \in time_rows[w.prot] : r.time = b
           /\ \A r \in time_rows[w.prot] : r.time = b => \A j \in w.k .. Last :
                  r.ids[InsertOrder[j]] = Len(rows[w.prot][InsertOrder[j]]) + 1

IdsAreNext == \A b \in Flushes : NextIds(b, writer[b])

(* The ids of the stamps before and after that of a row are on the two sides *)
(* of the row, and that of its own is the row.                               *)
OwnStamp(p, t, id, b) ==
    /\ \E r \in time_rows[p] : r.time = b
    /\ \A s \in time_rows[p] :
           /\ s.time < b => s.ids[t] <= id
           /\ s.time = b => s.ids[t] = id
           /\ s.time > b => s.ids[t] > id

RowsOwned ==
    \A p \in Protocols, t \in Tables : \A id \in 1 .. Len(rows[p][t]) :
        OwnStamp(p, t, id, rows[p][t][id])

Steady == OneWriter /\ StampIsNew /\ IdsAreNext /\ RowsOwned
SteadyInv == ~slow => Steady

(* The numbers stamps, ids and tables are made of.                           *)
LEMMA StampTypes ==
    ASSUME TypeOK
    PROVE  /\ stamp \in Nat
           /\ \A p \in Protocols : \A r \in time_rows[p] :
                  r.time \in Nat /\ \A t \in Tables : r.ids[t] \in Nat
           /\ \A p \in Protocols, t \in Tables :
                  /\ Len(rows[p][t]) \in Nat
                  /\ \A id \in 1 .. Len(rows[p][t]) : rows[p][t][id] \in Nat
           /\ \A b \in Flushes :
                  /\ b \in Nat /\ writer[b] \in WriterStates
                  /\ \A t \in Tables : writer[b].ids[t] \in Nat
<1>1. stamp \in Nat
  BY PipelineAssumption DEF PipelineAssumption, TypeOK
<1>2. \A p \in Protocols : \A r \in time_rows[p] :
          r.time \in Nat /\ \A t \in Tables : r.ids[t] \in Nat
  BY DEF TypeOK, TimeRows
<1>3. \A p \in Protocols, t \in Tables :
          /\ Len(rows[p][t]) \in Nat
          /\ \A id \in 1 .. Len(rows[p][t]) : rows[p][t][id] \in Nat
  <2>1. \A p \in Protocols, t \in Tables : rows[p][t] \in Seq(Flushes)
    BY DEF TypeOK
  <2>2. ASSUME NEW s \in Seq(Flushes)
        PROVE  Len(s) \in Nat /\ \A id \in 1 .. Len(s) : s[id] \in Flushes
    BY <2>2
  <2>3. Flushes \subseteq Nat
    BY DEF Flushes
  <2> QED BY <2>1, <2>2, <2>3
<1>4. \A b \in Flushes :
          /\ b \in Nat /\ writer[b] \in WriterStates
          /\ \A t \in Tables : writer[b].ids[t] \in Nat
  BY DEF TypeOK, WriterStates, Flushes
<1> QED BY <1>1, <1>2, <1>3, <1>4

(* Nothing is stored, and a writer that goes on has no protocol at hand.     *)
LEMMA StampKept ==
    ASSUME TypeOK, IdsExist, HasStamp, RowsClosed, UNCHANGED stored,
           stamp \in Nat, stamp' \in Nat, stamp <= stamp',
           \A b \in Flushes :
               writer'[b] = writer[b] \/ writer'[b].pc \notin Working
    PROVE  IdsExist' /\ HasStamp' /\ RowsClosed'
<1>1. time_rows' = time_rows /\ rows' = rows
  BY DEF stored
<1>2. \A p \in Protocols : \A r \in time_rows[p] : r.time \in Nat
  BY DEF TypeOK, TimeRows
<1>3. IdsExist'
  <2>1. \A p \in Protocols : \A r \in time_rows[p] :
            r.time <= stamp' /\ \A t \in Tables : r.ids[t] <= Len(rows[p][t]) + 1
    BY <1>2 DEF IdsExist
  <2>2. \A b \in Flushes : writer'[b].pc \in {"read", "time"} => writer'[b] = writer[b]
    BY DEF Working
  <2> QED BY <1>1, <2>1, <2>2 DEF IdsExist
<1>4. HasStamp'
  BY <1>1 DEF HasStamp, Working
<1>5. RowsClosed'
  BY <1>1 DEF RowsClosed, ClosedBy
<1> QED BY <1>3, <1>4, <1>5

(* Every way the process ends stops all writers.                             *)
LEMMA StampEnd ==
    ASSUME TypeOK, StampInv, NEW how, End(how)
    PROVE  StampInv'
<1>1. \A b \in Flushes : writer'[b] = IF Running(b) THEN Gone ELSE writer[b]
  BY DEF End
<1>2. \A b \in Flushes : writer'[b].pc \notin Working /\ ~Running(b)'
  BY <1>1 DEF Gone, Idle, Running, Working
<1>3. Clock'
  BY <1>2 DEF End, Clock
<1>4. IdsExist' /\ HasStamp' /\ RowsClosed'
  <2>1. stamp \in Nat
    BY PipelineAssumption DEF PipelineAssumption, TypeOK
  <2> QED BY <1>2, <2>1, StampKept DEF End, StampInv
<1> QED BY <1>3, <1>4 DEF StampInv

(* The capture thread stores nothing; it goes on to later stamps.            *)
LEMMA StampMain ==
    ASSUME TypeOK, FlushOK, StampInv, Main
    PROVE  StampInv'
<1> USE DEF capture
<1>2. stamp \in Nat
  BY PipelineAssumption DEF PipelineAssumption, TypeOK
<1>1. ASSUME UNCHANGED <<stored, writer>>, stamp' \in Nat, stamp <= stamp', Clock'
      PROVE  StampInv'
  BY <1>1, <1>2, StampKept DEF StampInv
<1>3. ASSUME NEW kind \in Kinds, NEW due \in BOOLEAN, Capture(kind, due)
      PROVE  StampInv'
  <2>1. Clock'
    BY <1>3 DEF Capture, StampInv, Clock, Running
  <2> QED BY <1>1, <1>2, <1>3, <2>1 DEF Capture
<1>4. ASSUME SetTime PROVE StampInv'
  <2>1. Clock'
    BY <1>2, <1>4 DEF SetTime, StampInv, Clock, Running, Flushes
  <2> QED BY <1>1, <1>2, <1>4, <2>1 DEF SetTime
<1>5. ASSUME NEW p \in Protocols, CreateTables(p) PROVE StampInv'
  <2>1. Clock'
    BY <1>5 DEF CreateTables, StampInv, Clock, Running
  <2> QED BY <1>1, <1>2, <1>5, <2>1 DEF CreateTables
<1>6. ASSUME TablesDone PROVE StampInv'
  <2>1. Clock'
    BY <1>6 DEF TablesDone, StampInv, Clock, Running
  <2> QED BY <1>1, <1>2, <1>6, <2>1 DEF TablesDone
<1>7. ASSUME LinkIsQuiet PROVE StampInv'
  <2>1. Clock'
    BY <1>7 DEF LinkIsQuiet, vars, flushing, StampInv, Clock, Running
  <2> QED BY <1>1, <1>2, <1>7, <2>1 DEF LinkIsQuiet, vars, flushing, stored
<1>8. ASSUME NEW thread, HandOver(thread), thread.pc \notin Working PROVE StampInv'
  <2>1. \A b \in Flushes : writer'[b] = IF b = stamp THEN thread ELSE writer[b]
    BY <1>8 DEF HandOver, TypeOK
  <2>2. Clock'
    BY <1>2, <1>8, <2>1 DEF HandOver, StampInv, Clock, Running
  <2> QED BY <1>2, <1>8, <2>1, <2>2, StampKept DEF HandOver, StampInv
<1>9. ASSUME FlushData \/ NoThread PROVE StampInv'
  BY <1>8, <1>9 DEF FlushData, NoThread, NewWriter, Between, Gone, Idle, Working
<1>10. ASSUME CreateDbFails PROVE StampInv'
  BY <1>10, StampEnd DEF CreateDbFails
<1> QED BY <1>3, <1>4, <1>5, <1>6, <1>7, <1>9, <1>10 DEF Main

(* A running writer goes on: the clock stays what it is for all of them.     *)
LEMMA ClockKept ==
    ASSUME TypeOK, Clock, NEW b \in Flushes, NEW w, Becomes(b, w), KeepMain,
           fate' = fate, Running(b)
    PROVE  Clock'
BY DEF TypeOK, Clock, Becomes, KeepMain, flushing, Running

(* Asking for ids: none is beyond the next row, and no table shrinks.        *)
LEMMA StampRead ==
    ASSUME IInv, StampInv, NEW b \in Flushes,
           (\E p \in Protocols : StartProtocol(b, p)) \/ ReadMax(b)
    PROVE  StampInv'
<1> USE DEF At
<1>1. UNCHANGED <<time_rows, rows, stamp>>
  BY DEF StartProtocol, ReadMax, KeepMain, flushing, stored
<1>2. Clock'
  BY ClockKept DEF IInv, StampInv, StartProtocol, ReadMax, Running
<1>3. \A c \in Flushes \ {b} : writer'[c] = writer[c]
  BY DEF StartProtocol, ReadMax, Becomes, IInv, TypeOK
<1>4. writer'[b].pc \in {"read", "time"}
  <2>1. ASSUME NEW p \in Protocols, StartProtocol(b, p) PROVE writer'[b].pc = "read"
    BY <2>1 DEF StartProtocol, Becomes, Begins, IInv, TypeOK
  <2>2. CASE ReadMax(b)
    BY <2>2 DEF ReadMax, Becomes, IInv, TypeOK, WriterStates
  <2> QED BY <2>1, <2>2
<1>5. \A t \in Tables : writer'[b].ids[t] <= Len(rows[writer'[b].prot][t]) + 1
  <2>1. CASE \E p \in Protocols : StartProtocol(b, p)
    <3>1. PICK p \in Protocols : writer'[b] = Begins(p, writer[b].left \ {p})
      BY <2>1 DEF StartProtocol, Becomes, IInv, TypeOK
    <3> QED BY <3>1 DEF Begins, NoIds, IInv, TypeOK
  <2>2. CASE ReadMax(b)
    <3> DEFINE u == ReadOrder[writer[b].k]
               p == writer[b].prot
    <3>1. writer[b] \in WriterStates /\ writer[b].pc = "read" /\ p \in Protocols
      BY <2>2 DEF ReadMax, IInv, TypeOK, Support, WriterOK, Working
    <3>2. /\ writer'[b].prot = p
          /\ \A t \in Tables : writer'[b].ids[t] = IF t = u THEN NextId(p, t) ELSE writer[b].ids[t]
      BY <2>2, <3>1 DEF ReadMax, Becomes, IInv, TypeOK, WriterStates
    <3>3. \A t \in Tables : writer[b].ids[t] <= Len(rows[p][t]) + 1
      BY <3>1 DEF StampInv, IdsExist
    <3>4. \A t \in Tables : Len(rows[p][t]) \in Nat
      BY <3>1 DEF IInv, TypeOK
    <3> QED BY <3>2, <3>3, <3>4 DEF NextId
  <2> QED BY <2>1, <2>2
<1>6. IdsExist'
  BY <1>1, <1>3, <1>4, <1>5 DEF StampInv, IdsExist
<1>7. HasStamp'
  BY <1>1, <1>3, <1>4 DEF StampInv, HasStamp
<1>8. RowsClosed'
  BY <1>1 DEF StampInv, RowsClosed, ClosedBy
<1> QED BY <1>2, <1>6, <1>7, <1>8 DEF StampInv

(* The stamp: unless it is there already it is the latest of all.            *)
LEMMA StampTime ==
    ASSUME IInv, StampInv, NEW b \in Flushes, InsertTime(b)
    PROVE  StampInv'
<1> DEFINE p == writer[b].prot
<1>1. /\ writer[b] \in WriterStates /\ writer[b].pc = "time" /\ p \in Protocols
      /\ stamp \in Nat /\ b \in Nat
  BY StampTypes DEF InsertTime, At, IInv, Support, WriterOK, Working
<1>2. processing_time = stamp /\ b <= stamp /\ fate = "running"
  BY <1>1 DEF StampInv, Clock, Running
<1>3. UNCHANGED <<rows, stamp>> /\ writer' = [writer EXCEPT ![b] = [@ EXCEPT !.pc = "insert"]]
  BY DEF InsertTime, KeepMain, flushing, Becomes
<1>4. /\ \A c \in Flushes \ {b} : writer'[c] = writer[c]
      /\ writer'[b].pc = "insert" /\ writer'[b].prot = p
  BY <1>1, <1>3 DEF IInv, TypeOK, WriterStates
<1>5. \A q \in Protocols : \A r \in time_rows[q] : r.time \in Nat /\ r.time <= stamp
  BY StampTypes DEF IInv, StampInv, IdsExist
<1>6. PICK new :
          /\ new.time = stamp /\ new.ids = writer[b].ids
          /\ \A q \in Protocols \ {p} : time_rows'[q] = time_rows[q]
          /\ \/ time_rows'[p] = time_rows[p] /\ \E r \in time_rows[p] : r.time = stamp
             \/ time_rows'[p] = time_rows[p] \cup {new} /\ \A r \in time_rows[p] : r.time # stamp
  <2> DEFINE n == [time |-> processing_time, ids |-> writer[b].ids]
  <2>1. n.time = stamp /\ n.ids = writer[b].ids
    BY <1>2
  <2>2. CASE \E r \in time_rows[p] : r.time = stamp
    <3>1. time_rows' = time_rows
      BY <1>2, <2>2 DEF InsertTime
    <3> QED BY <2>1, <2>2, <3>1
  <2>3. CASE \A r \in time_rows[p] : r.time # stamp
    <3>1. time_rows' = [time_rows EXCEPT ![p] = @ \cup {n}]
      BY <1>2, <2>3 DEF InsertTime
    <3> HIDE DEF n
    <3>2. time_rows'[p] = time_rows[p] \cup {n} /\ \A q \in Protocols \ {p} : time_rows'[q] = time_rows[q]
      BY <1>1, <3>1 DEF IInv, TypeOK
    <3> QED BY <2>1, <2>3, <3>2
  <2> QED BY <2>2, <2>3
<1>7. \A q \in Protocols : \A r \in time_rows'[q] : r \in time_rows[q] \/ (q = p /\ r = new)
  BY <1>6
<1>8. \A q \in Protocols : time_rows[q] \subseteq time_rows'[q]
  BY <1>6
<1>9. \A t \in Tables : new.ids[t] <= Len(rows[p][t]) + 1
  BY <1>1, <1>6 DEF StampInv, IdsExist
<1>10. Clock'
  <2>1. Becomes(b, [writer[b] EXCEPT !.pc = "insert"]) /\ KeepMain /\ fate' = fate /\ Running(b)
    BY <1>1 DEF InsertTime, Running
  <2> QED BY <2>1, ClockKept DEF IInv, StampInv
<1>11. IdsExist'
  <2>1. \A q \in Protocols : \A r \in time_rows'[q] : r.time <= stamp
    BY <1>1, <1>5, <1>6, <1>7
  <2>2. \A q \in Protocols : \A r \in time_rows'[q] :
            \A t \in Tables : r.ids[t] <= Len(rows[q][t]) + 1
    BY <1>7, <1>9 DEF StampInv, IdsExist
  <2>3. \A c \in Flushes : writer'[c].pc \in {"read", "time"} => writer'[c] = writer[c]
    BY <1>4
  <2> QED BY <1>3, <2>1, <2>2, <2>3 DEF StampInv, IdsExist
<1>12. HasStamp'
  <2>1. \E r \in time_rows'[p] : r.time = stamp
    BY <1>6
  <2>2. \A c \in Flushes : writer[c].pc = "insert" => writer[c].prot \in Protocols
    BY DEF IInv, Support, WriterOK, Working
  <2> QED BY <1>1, <1>2, <1>4, <1>8, <2>1, <2>2 DEF StampInv, HasStamp
<1>13. RowsClosed'
  <2> SUFFICES ASSUME NEW q \in Protocols, NEW t \in Tables, NEW id \in 1 .. Len(rows[q][t])
               PROVE  \E r \in time_rows'[q] :
                          /\ r.time >= rows[q][t][id]
                          /\ \A s \in time_rows'[q] : s.time <= r.time => s.ids[t] <= id
    BY <1>3 DEF RowsClosed, ClosedBy
  <2>1. PICK r \in time_rows[q] :
            /\ r.time >= rows[q][t][id]
            /\ \A s \in time_rows[q] : s.time <= r.time => s.ids[t] <= id
    BY DEF StampInv, RowsClosed, ClosedBy
  <2>2. r \in time_rows'[q] /\ r.time \in Nat /\ r.time <= stamp
    BY <1>5, <1>8
  <2>3. CASE q = p /\ new \notin time_rows[p] /\ r.time # stamp
    BY <1>1, <1>6, <1>7, <2>1, <2>2, <2>3
  <2>4. CASE time_rows'[q] = time_rows[q]
    BY <2>1, <2>4
  <2> QED BY <1>6, <2>3, <2>4
<1> QED BY <1>10, <1>11, <1>12, <1>13 DEF StampInv

(* What InsertRows does to the tables: one row at the end of one of them.    *)
RowAdded(b, p, t) ==
    /\ p = writer[b].prot /\ t = InsertOrder[writer[b].k] /\ writer[b].k \in 1 .. Last
    /\ Len(rows'[p][t]) = Len(rows[p][t]) + 1
    /\ rows'[p][t][Len(rows[p][t]) + 1] = b
    /\ \A q \in Protocols, u \in Tables :
           /\ ~(q = p /\ u = t) => rows'[q][u] = rows[q][u]
           /\ \A id \in 1 .. Len(rows[q][u]) : rows'[q][u][id] = rows[q][u][id]

(* It does that.                                                            *)
LEMMA RowAppended ==
    ASSUME IInv, NEW b \in Flushes, InsertRows(b)
    PROVE  \E p \in Protocols, t \in Tables : RowAdded(b, p, t)
<1> DEFINE p == writer[b].prot
           t == InsertOrder[writer[b].k]
<1>1. p \in Protocols /\ writer[b].k \in 1 .. Last
  BY DEF InsertRows, At, IInv, Support, WriterOK, Working
<1>2. t \in Tables
  BY <1>1, Records
<1>3. rows \in [Protocols -> [Tables -> Seq(Flushes)]] /\ rows[p][t] \in Seq(Flushes)
  BY <1>1, <1>2 DEF IInv, TypeOK
<1>4. rows' = [rows EXCEPT ![p][t] = Append(rows[p][t], b)]
  BY DEF InsertRows
<1>5. rows'[p][t] = Append(rows[p][t], b)
  BY <1>1, <1>2, <1>3, <1>4
<1>6. \A q \in Protocols, u \in Tables : ~(q = p /\ u = t) => rows'[q][u] = rows[q][u]
  BY <1>1, <1>2, <1>3, <1>4
<1>7. /\ Len(rows'[p][t]) = Len(rows[p][t]) + 1
      /\ rows'[p][t][Len(rows[p][t]) + 1] = b
      /\ \A id \in 1 .. Len(rows[p][t]) : rows'[p][t][id] = rows[p][t][id]
  <2> DEFINE s == rows[p][t]
  <2>1. s \in Seq(Flushes) /\ rows'[p][t] = Append(s, b)
    BY <1>3, <1>5
  <2> HIDE DEF s, p, t
  <2>2. /\ Len(Append(s, b)) = Len(s) + 1 /\ Append(s, b)[Len(s) + 1] = b
        /\ \A id \in 1 .. Len(s) : Append(s, b)[id] = s[id]
    BY <2>1
  <2> USE DEF s
  <2> QED BY <2>1, <2>2
<1>8. \A q \in Protocols, u \in Tables : \A id \in 1 .. Len(rows[q][u]) :
          rows'[q][u][id] = rows[q][u][id]
  BY <1>6, <1>7
<1> QED BY <1>1, <1>2, <1>6, <1>7, <1>8 DEF RowAdded

(* A row: all ids of stamps there are were at most the id it gets.           *)
LEMMA StampRow ==
    ASSUME IInv, StampInv, NEW b \in Flushes, InsertRows(b)
    PROVE  StampInv'
<1>1. PICK p \in Protocols, t \in Tables : RowAdded(b, p, t)
  BY RowAppended
<1>place. p = writer[b].prot /\ t = InsertOrder[writer[b].k] /\ writer[b].k \in 1 .. Last
  BY <1>1 DEF RowAdded
<1>new. Len(rows'[p][t]) = Len(rows[p][t]) + 1 /\ rows'[p][t][Len(rows[p][t]) + 1] = b
  BY <1>1 DEF RowAdded
<1>others. \A q \in Protocols, u \in Tables : ~(q = p /\ u = t) => rows'[q][u] = rows[q][u]
  BY <1>1 DEF RowAdded
<1>old. \A q \in Protocols, u \in Tables : \A id \in 1 .. Len(rows[q][u]) :
           rows'[q][u][id] = rows[q][u][id]
  BY <1>1 DEF RowAdded
<1>2. writer[b].pc = "insert" /\ UNCHANGED <<time_rows, stamp>>
  BY DEF InsertRows, At, KeepMain, flushing
<1>3. /\ \A c \in Flushes \ {b} : writer'[c] = writer[c]
      /\ writer'[b].pc \in {"next", "insert"} /\ (writer'[b].pc = "insert" => writer'[b].prot = p)
  <2>1. writer[b] \in WriterStates
    BY StampTypes DEF IInv
  <2> QED BY <1>place, <1>2, <2>1 DEF InsertRows, Becomes, Between, IInv, TypeOK, WriterStates
<1>4. \A q \in Protocols, u \in Tables :
          /\ Len(rows[q][u]) \in Nat
          /\ Len(rows'[q][u]) = IF q = p /\ u = t THEN Len(rows[q][u]) + 1 ELSE Len(rows[q][u])
  BY <1>new, <1>others, StampTypes DEF IInv
<1>5. Clock'
  <2>1. Running(b) /\ KeepMain /\ fate' = fate
    BY <1>2 DEF InsertRows, Running
  <2> QED BY <2>1, ClockKept DEF InsertRows, IInv, StampInv
<1>6. \A q \in Protocols : \A r \in time_rows[q] :
          /\ r.time \in Nat /\ r.time <= stamp
          /\ \A u \in Tables : r.ids[u] \in Nat /\ r.ids[u] <= Len(rows[q][u]) + 1
  BY StampTypes DEF IInv, StampInv, IdsExist
<1>7. IdsExist'
  <2>0. \A q \in Protocols, u \in Tables, n \in Nat :
            n <= Len(rows[q][u]) + 1 => n <= Len(rows'[q][u]) + 1
    <3> TAKE q \in Protocols, u \in Tables, n \in Nat
    <3>1. CASE q = p /\ u = t
      BY <1>4, <3>1
    <3>2. CASE ~(q = p /\ u = t)
      BY <1>4, <3>2
    <3> QED BY <3>1, <3>2
  <2>1. \A q \in Protocols : \A r \in time_rows[q] :
            r.time <= stamp /\ \A u \in Tables : r.ids[u] <= Len(rows'[q][u]) + 1
    BY <1>6, <2>0
  <2>2. ASSUME NEW c \in Flushes, writer'[c].pc \in {"read", "time"}, NEW u \in Tables
        PROVE  writer'[c].ids[u] <= Len(rows'[writer'[c].prot][u]) + 1
    <3>1. c # b /\ writer'[c] = writer[c]
      BY <1>3, <2>2
    <3>2. writer[c].prot \in Protocols /\ writer[c].ids[u] \in Nat
      BY <2>2, <3>1, StampTypes DEF IInv, Support, WriterOK, Working
    <3>3. writer[c].ids[u] <= Len(rows[writer[c].prot][u]) + 1
      BY <2>2, <3>1 DEF StampInv, IdsExist
    <3> QED BY <2>0, <3>1, <3>2, <3>3
  <2> QED BY <1>2, <2>1, <2>2 DEF IdsExist
<1>8. HasStamp'
  BY <1>place, <1>2, <1>3 DEF StampInv, HasStamp
<1>9. RowsClosed'
  <2> SUFFICES ASSUME NEW q \in Protocols, NEW u \in Tables, NEW id \in 1 .. Len(rows'[q][u])
               PROVE  \E r \in time_rows[q] :
                          /\ r.time >= rows'[q][u][id]
                          /\ \A s \in time_rows[q] : s.time <= r.time => s.ids[u] <= id
    BY <1>2 DEF RowsClosed, ClosedBy
  <2>1. CASE id \in 1 .. Len(rows[q][u])
    BY <1>old, <2>1 DEF StampInv, RowsClosed, ClosedBy
  <2>2. CASE q = p /\ u = t /\ id = Len(rows[p][t]) + 1
    <3>1. \E r \in time_rows[p] : r.time >= b
      BY <1>place, <1>2 DEF StampInv, HasStamp
    <3>2. \A s \in time_rows[p] : s.ids[t] <= id
      BY <1>6, <2>2
    <3> QED BY <1>new, <2>2, <3>1, <3>2
  <2> QED BY <1>4, <2>1, <2>2
<1> QED BY <1>5, <1>7, <1>8, <1>9 DEF StampInv

(* The steps of a writer keep what its stamps and rows say.                  *)
LEMMA StampWriter ==
    ASSUME IInv, StampInv, NEW b \in Flushes, Writer(b) \/ WriterFails(b)
    PROVE  StampInv'
<1>1. CASE (\E p \in Protocols : StartProtocol(b, p)) \/ ReadMax(b)
  BY <1>1, StampRead
<1>2. CASE InsertTime(b)
  BY <1>2, StampTime
<1>3. CASE InsertRows(b)
  BY <1>3, StampRow
<1>4. CASE Finish(b) \/ ConnectionLost(b)
  <2>1. UNCHANGED <<stored, stamp>>
    BY <1>4 DEF Finish, ConnectionLost, KeepMain, flushing
  <2>2. \A c \in Flushes : writer'[c] = writer[c] \/ writer'[c].pc \notin Working
    BY <1>4 DEF Finish, ConnectionLost, Becomes, Gone, Idle, Between, Working, IInv, TypeOK
  <2>3. Clock'
    BY <1>4, ClockKept DEF Finish, ConnectionLost, At, Running, IInv, StampInv
  <2> QED BY <2>1, <2>2, <2>3, StampKept, StampTypes DEF IInv, StampInv
<1>5. CASE FinishEmpty(b) \/ ConnectFails(b) \/ ReadFails(b)
  BY <1>5, StampEnd DEF FinishEmpty, ConnectFails, ReadFails, IInv
<1> QED BY <1>1, <1>2, <1>3, <1>4, <1>5 DEF Writer, WriterFails

(* Before the first frame there is no stamp and no row.                      *)
LEMMA StampInit == Init => StampInv
<1> SUFFICES ASSUME Init PROVE StampInv
  OBVIOUS
<1>1. \A b \in Flushes : writer[b].pc = "idle"
  BY DEF Init, Idle
<1>2. \A p \in Protocols : time_rows[p] = {} /\ \A t \in Tables : Len(rows[p][t]) = 0
  BY DEF Init
<1>3. main = "loop"
  BY DEF Init
<1> QED
  BY <1>1, <1>2, <1>3 DEF StampInv, Clock, IdsExist, HasStamp, RowsClosed, Running

(* Every step keeps it.                                                      *)
LEMMA StampNext == IInv /\ StampInv /\ [Next]_vars => StampInv'
<1> SUFFICES ASSUME IInv, StampInv, [Next]_vars PROVE StampInv'
  OBVIOUS
<1>1. CASE Main
  BY <1>1, StampMain DEF IInv, Support
<1>2. ASSUME NEW b \in Flushes, Writer(b) \/ WriterFails(b) PROVE StampInv'
  BY <1>2, StampWriter
<1>3. CASE Kill
  BY <1>3, StampEnd DEF Kill, IInv
<1>4. CASE Restart
  <2>1. Clock'
    BY <1>4 DEF Restart, StampInv, Clock, Running
  <2> QED BY <1>4, <2>1, StampKept, StampTypes DEF Restart, IInv, StampInv
<1>5. CASE UNCHANGED vars
  <2>1. Clock'
    BY <1>5 DEF vars, flushing, StampInv, Clock, Running
  <2> QED BY <1>5, <2>1, StampKept, StampTypes DEF vars, flushing, IInv, StampInv
<1> QED BY <1>1, <1>2, <1>3, <1>4, <1>5 DEF Next

(* A set of numbers with a number above n has a least one above n.           *)
LEMMA NextAbove ==
    ASSUME NEW S \in SUBSET Nat, NEW n \in Nat, NEW m \in S, n < m
    PROVE  \E l \in S : n < l /\ \A k \in S : n < k => l <= k
<1> DEFINE R == OpToRel(<, Nat)
           T == {k \in S : n < k}
<1>1. \A a, b \in Nat : a < b => <<a, b>> \in R
  BY DEF OpToRel
<1>2. IsWellFoundedOn(R, Nat)
  BY NatLessThanWellFounded
<1> HIDE DEF R
<1>3. PICK l \in T : \A k \in T : <<k, l>> \notin R
  BY <1>2, WFMin
<1>4. l \in S /\ n < l
  OBVIOUS
<1>5. ASSUME NEW k \in S, n < k PROVE l <= k
  <2>1. ~(k < l)
    BY <1>1, <1>3, <1>5
  <2> QED BY <1>4, <2>1
<1> QED
  BY <1>4, <1>5

(* A row is shown under no time before its interval, however far behind the  *)
(* database is: the stamp that would have to follow such a time has an id    *)
(* at most that of the row, so the row is not before it.                     *)
THEOREM TrafficIsNotBackdated == Spec => []NeverBackdated
<1>1. ASSUME IInv, StampInv PROVE NeverBackdated
  <2> SUFFICES ASSUME NEW p \in Protocols, NEW t \in Tables, NEW id \in 1 .. Len(rows[p][t]),
                      NEW r \in time_rows[p], Belongs(p, t, id, r), r.time < rows[p][t][id]
               PROVE  FALSE
    BY <1>1, StampTypes DEF IInv, NeverBackdated
  <2>1. PICK c \in time_rows[p] :
            /\ c.time >= rows[p][t][id]
            /\ \A s \in time_rows[p] : s.time <= c.time => s.ids[t] <= id
    BY <1>1 DEF StampInv, RowsClosed, ClosedBy
  <2> DEFINE Times == {s.time : s \in time_rows[p]}
  <2>2. Times \in SUBSET Nat /\ r.time \in Nat /\ c.time \in Times /\ c.time \in Nat /\ rows[p][t][id] \in Nat
    BY <1>1, StampTypes DEF IInv
  <2>3. r.time < c.time
    BY <2>1, <2>2
  <2>4. PICK l \in Times : r.time < l /\ \A k \in Times : r.time < k => l <= k
    BY <2>2, <2>3, NextAbove
  <2>5. PICK next \in time_rows[p] : next.time = l
    OBVIOUS
  <2>6. next.time <= c.time /\ next.ids[t] <= id /\ next.ids[t] \in Nat
    BY <1>1, <2>1, <2>2, <2>3, <2>4, <2>5, StampTypes DEF IInv
  <2>7. \A other \in time_rows[p] : other.time > r.time => other.time >= next.time
    BY <2>2, <2>4, <2>5
  <2>8. id < next.ids[t]
    BY <2>2, <2>4, <2>5, <2>7 DEF Belongs
  <2> QED BY <2>6, <2>8
<1>2. Init => StampInv
  BY StampInit
<1> QED BY <1>1, <1>2, Invariant, StampNext, PTL DEF Spec

-----------------------------------------------------------------------------
(* A database that keeps up.  Nothing is stored, and a writer that goes on   *)
(* has no protocol at hand.                                                  *)
LEMMA SteadyKept ==
    ASSUME IdsAreNext, RowsOwned, UNCHANGED stored,
           \A b \in Flushes :
               writer'[b] = writer[b] \/ writer'[b].pc \notin Working
    PROVE  IdsAreNext' /\ RowsOwned'
<1>1. time_rows' = time_rows /\ rows' = rows
  BY DEF stored
<1>2. ASSUME NEW b \in Flushes PROVE NextIds(b, writer[b])'
  <2>1. CASE writer'[b] = writer[b]
    BY <1>1, <2>1 DEF IdsAreNext, NextIds
  <2>2. CASE writer'[b].pc \notin Working
    BY <2>2 DEF NextIds, Working
  <2> QED BY <2>1, <2>2
<1>4. IdsAreNext'
  BY <1>2 DEF IdsAreNext
<1>3. RowsOwned'
  BY <1>1 DEF RowsOwned, OwnStamp
<1> QED BY <1>3, <1>4

(* When the process ends nobody is left to write.                            *)
LEMMA SteadyEnd ==
    ASSUME TypeOK, WriterOK, Steady, NEW how, End(how)
    PROVE  Steady'
<1>1. \A b \in Flushes : writer'[b] = IF Running(b) THEN Gone ELSE writer[b]
  BY DEF End
<1>2. \A b \in Flushes :
          /\ ~Running(b)' /\ writer'[b].left = {} /\ writer'[b].pc \notin Working
  BY <1>1 DEF Gone, Idle, Running, Working, WriterOK
<1>3. IdsAreNext' /\ RowsOwned'
  BY <1>2, SteadyKept DEF End, Steady
<1>4. OneWriter' /\ StampIsNew'
  BY <1>2 DEF End, OneWriter, StampIsNew, ToStamp, Working
<1> QED BY <1>3, <1>4 DEF Steady

(* The capture thread ends an interval when no writer is at work, and the    *)
(* stamp of the next one has not been put anywhere.                          *)
LEMMA SteadyMain ==
    ASSUME TypeOK, WriterOK, StampInv, Steady, ~slow, Main
    PROVE  Steady'
<1> USE DEF capture
<1>1. ASSUME UNCHANGED <<stored, writer>>, OneWriter', StampIsNew' PROVE Steady'
  BY <1>1, SteadyKept DEF Steady
<1>2. ASSUME NEW kind \in Kinds, NEW due \in BOOLEAN, Capture(kind, due)
      PROVE  Steady'
  <2>1. UNCHANGED <<stored, writer, stamp>>
    BY <1>2 DEF Capture
  <2>2. OneWriter'
    BY <1>2 DEF Capture, Steady, OneWriter, Running
  <2>3. StampIsNew'
    BY <1>2 DEF Capture, Steady, StampIsNew, ToStamp, stored
  <2> QED BY <1>1, <2>1, <2>2, <2>3
<1>3. ASSUME SetTime PROVE Steady'
  <2>1. UNCHANGED <<stored, writer>>
    BY <1>3 DEF SetTime
  <2>2. OneWriter'
    BY <1>3 DEF SetTime, Steady, OneWriter, Running
  <2>3. \A p \in Protocols : \A r \in time_rows[p] : r.time # stamp'
    BY <1>3, StampTypes DEF SetTime, StampInv, IdsExist
  <2>4. StampIsNew'
    BY <2>1, <2>3 DEF Steady, StampIsNew, ToStamp, stored
  <2> QED BY <1>1, <2>1, <2>2, <2>4
<1>4. ASSUME UNCHANGED <<stored, writer, stamp>>,
             main # "loop", main' # "loop", main \in {"create_db", "flush"}
      PROVE  Steady'
  <2>1. OneWriter'
    BY <1>4 DEF Steady, OneWriter, Running
  <2>2. StampIsNew'
    BY <1>4 DEF Steady, StampIsNew, ToStamp, stored
  <2> QED BY <1>1, <1>4, <2>1, <2>2
<1>5. ASSUME NEW p \in Protocols, CreateTables(p) PROVE Steady'
  BY <1>4, <1>5 DEF CreateTables
<1>6. ASSUME TablesDone PROVE Steady'
  BY <1>4, <1>6 DEF TablesDone
<1>7. ASSUME LinkIsQuiet PROVE Steady'
  <2>1. OneWriter' /\ StampIsNew' /\ UNCHANGED <<stored, writer>>
    BY <1>7 DEF LinkIsQuiet, vars, flushing, stored, Steady, OneWriter, StampIsNew, ToStamp,
                Running
  <2> QED BY <1>1, <2>1
<1>8. ASSUME NEW thread, HandOver(thread), thread.pc \notin Working,
             thread.left \subseteq Protocols
      PROVE  Steady'
  <2>1. /\ \A b \in Flushes : writer'[b] = IF b = stamp THEN thread ELSE writer[b]
        /\ main = "flush" /\ main' = "loop" /\ UNCHANGED <<stored, stamp>>
    BY <1>8 DEF HandOver, TypeOK
  <2>2. OneWriter'
    BY <2>1 DEF Steady, OneWriter, Running
  <2>3. StampIsNew'
    <3> SUFFICES ASSUME NEW b \in Flushes, NEW p \in ToStamp(b)', NEW r \in time_rows[p]
                 PROVE  r.time # b
      BY <2>1 DEF StampIsNew, stored
    <3>1. CASE b = stamp
      <4>1. p \in Protocols
        BY <1>8, <2>1, <3>1 DEF ToStamp, Working
      <4> QED BY <2>1, <3>1, <4>1 DEF Steady, StampIsNew
    <3>2. CASE b # stamp
      BY <2>1, <3>2 DEF Steady, StampIsNew, ToStamp
    <3> QED BY <3>1, <3>2
  <2>4. IdsAreNext' /\ RowsOwned'
    BY <1>8, <2>1, SteadyKept DEF Steady
  <2> QED BY <2>2, <2>3, <2>4 DEF Steady
<1>9. ASSUME FlushData \/ NoThread PROVE Steady'
  BY <1>8, <1>9 DEF FlushData, NoThread, NewWriter, Between, OnList, Gone, Idle, Working
<1>10. ASSUME CreateDbFails PROVE Steady'
  BY <1>10, SteadyEnd DEF CreateDbFails
<1> QED BY <1>2, <1>3, <1>5, <1>6, <1>7, <1>9, <1>10 DEF Main

(* The writer at work: no other is, and all before it in time is.            *)
LEMMA OnlyWriter ==
    ASSUME IInv, StampInv, Steady, NEW b \in Flushes, Running(b)
    PROVE  /\ b = stamp /\ main = "loop"
           /\ \A c \in Flushes \ {b} : ~Running(c) /\ ToStamp(c) = {}
<1>1. b = stamp /\ main = "loop" /\ \A c \in Flushes \ {b} : ~Running(c)
  BY DEF Steady, OneWriter
<1>2. \A c \in Flushes \ {b} : writer[c].left = {} /\ writer[c].pc \notin Working
  BY <1>1 DEF IInv, Support, WriterOK, Running, Working
<1>3. \A c \in Flushes \ {b} : ToStamp(c) = {}
  BY <1>2 DEF ToStamp, Working
<1> QED BY <1>1, <1>3

(* What it does to itself: it stays the only one.                            *)
LEMMA OnlyWriterGoesOn ==
    ASSUME IInv, StampInv, Steady, NEW b \in Flushes, Running(b), NEW w, Becomes(b, w),
           KeepMain,
           \A p \in ToStamp(b)' : p \in ToStamp(b) /\ time_rows'[p] = time_rows[p]
    PROVE  /\ OneWriter' /\ StampIsNew'
           /\ writer'[b] = w /\ b = stamp /\ b \in Nat
           /\ \A c \in Flushes \ {b} : writer'[c] = writer[c] /\ writer'[c].pc \notin Working
<1>1. /\ b = stamp /\ main = "loop" /\ UNCHANGED <<stamp, main>>
      /\ \A c \in Flushes \ {b} : ~Running(c) /\ ToStamp(c) = {}
  BY OnlyWriter DEF KeepMain, flushing
<1>2. writer'[b] = w /\ \A c \in Flushes \ {b} : writer'[c] = writer[c]
  BY DEF Becomes, IInv, TypeOK
<1>3. OneWriter'
  BY <1>1, <1>2 DEF OneWriter, Running
<1>4. \A c \in Flushes \ {b} : ToStamp(c)' = {}
  BY <1>1, <1>2 DEF ToStamp
<1>5. StampIsNew'
  BY <1>1, <1>4 DEF Steady, StampIsNew
<1>6. \A c \in Flushes \ {b} : writer'[c].pc \notin Working
  BY <1>1, <1>2 DEF Running, Working
<1> QED BY <1>1, <1>2, <1>3, <1>5, <1>6, StampTypes DEF IInv

(* A writer that is not at work has no ids to speak of.                      *)
LEMMA IdsOfOne ==
    ASSUME NEW b \in Flushes, NextIds(b, writer[b])',
           \A c \in Flushes \ {b} : writer'[c].pc \notin Working
    PROVE  IdsAreNext'
<1>1. ASSUME NEW c \in Flushes, c # b PROVE NextIds(c, writer[c])'
  <2>1. writer'[c].pc \notin Working
    BY <1>1
  <2> QED BY <2>1 DEF NextIds, Working
<1> QED BY <1>1 DEF IdsAreNext

(* Asking for ids: tables do not grow while the only writer asks.            *)
LEMMA SteadyRead ==
    ASSUME IInv, StampInv, Steady, NEW b \in Flushes,
           (\E p \in Protocols : StartProtocol(b, p)) \/ ReadMax(b)
    PROVE  Steady'
<1> USE DEF At
<1>1. ASSUME NEW p \in Protocols, StartProtocol(b, p) PROVE Steady'
  <2> DEFINE w == Begins(p, writer[b].left \ {p})
  <2>1. /\ Becomes(b, w) /\ KeepMain /\ UNCHANGED stored /\ Running(b)
        /\ writer[b].pc = "next" /\ p \in writer[b].left
    BY <1>1 DEF StartProtocol, Running
  <2>2. w.pc = "read" /\ w.k = 1 /\ w.prot = p /\ w.left = writer[b].left \ {p}
    BY DEF Begins
  <2> HIDE DEF w
  <2>3. \A q \in ToStamp(b)' : q \in ToStamp(b) /\ time_rows'[q] = time_rows[q]
    BY <2>1, <2>2 DEF Becomes, ToStamp, IInv, TypeOK, stored
  <2>4. /\ OneWriter' /\ StampIsNew' /\ writer'[b] = w
        /\ \A c \in Flushes \ {b} : writer'[c].pc \notin Working
    BY <2>1, <2>3, OnlyWriterGoesOn
  <2>5. IdsAreNext'
    BY <2>2, <2>4 DEF IdsAreNext, NextIds, Working
  <2>6. RowsOwned'
    BY <2>1 DEF Steady, RowsOwned, OwnStamp, stored
  <2> QED BY <2>4, <2>5, <2>6 DEF Steady
<1>2. ASSUME ReadMax(b) PROVE Steady'
  <2> DEFINE u == ReadOrder[writer[b].k]
             p == writer[b].prot
             w == [writer[b] EXCEPT
                      !.ids[u] = NextId(p, u),
                      !.pc = IF writer[b].k = Last THEN "time" ELSE "read",
                      !.k = IF writer[b].k = Last THEN 1 ELSE @ + 1]
  <2>1. /\ Becomes(b, w) /\ KeepMain /\ UNCHANGED stored /\ Running(b) /\ writer[b].pc = "read"
    BY <1>2 DEF ReadMax, Running
  <2>2. writer[b] \in WriterStates /\ writer[b].k \in 1 .. Last /\ Last \in Nat
    BY <2>1, StampTypes, Records DEF IInv, Support, WriterOK, Working
  <2>3. /\ w.left = writer[b].left /\ w.prot = p
        /\ w.pc = (IF writer[b].k = Last THEN "time" ELSE "read")
        /\ w.k = (IF writer[b].k = Last THEN 1 ELSE writer[b].k + 1)
        /\ \A t \in Tables : w.ids[t] = IF t = u THEN NextId(p, u) ELSE writer[b].ids[t]
    BY <2>2 DEF WriterStates
  <2> HIDE DEF w
  <2>4. \A q \in ToStamp(b)' : q \in ToStamp(b) /\ time_rows'[q] = time_rows[q]
    BY <2>1, <2>3 DEF Becomes, ToStamp, IInv, TypeOK, stored
  <2>5. /\ OneWriter' /\ StampIsNew' /\ writer'[b] = w
        /\ \A c \in Flushes \ {b} : writer'[c].pc \notin Working
    BY <2>1, <2>4, OnlyWriterGoesOn
  <2>6. \A j \in 1 .. writer[b].k : ReadOrder[j] \in Tables
    BY <2>2 DEF Tables, Last
  <2>7. \A j \in 1 .. writer[b].k - 1 : writer[b].ids[ReadOrder[j]] = Len(rows[p][ReadOrder[j]]) + 1
    BY <2>1 DEF Steady, IdsAreNext, NextIds
  <2>8. \A j \in 1 .. writer[b].k : w.ids[ReadOrder[j]] = Len(rows[p][ReadOrder[j]]) + 1
    <3> TAKE j \in 1 .. writer[b].k
    <3>1. CASE ReadOrder[j] = u
      BY <2>3, <2>6, <3>1 DEF NextId
    <3>2. CASE ReadOrder[j] # u
      <4>1. j \in 1 .. writer[b].k - 1
        BY <2>2, <3>2
      <4> QED BY <2>3, <2>6, <2>7, <3>2, <4>1
    <3> QED BY <3>1, <3>2
  <2>9. CASE writer[b].k = Last
    <3>1. \A t \in Tables : w.ids[t] = Len(rows[p][t]) + 1
      BY <2>2, <2>8, <2>9 DEF Tables, Last
    <3>2. IdsAreNext'
      BY <2>1, <2>3, <2>5, <2>9, <3>1 DEF IdsAreNext, NextIds, Working, stored
    <3> QED BY <2>1, <2>5, <3>2 DEF Steady, RowsOwned, OwnStamp, stored
  <2>10. CASE writer[b].k # Last
    <3>1. w.k - 1 = writer[b].k /\ w.pc = "read"
      BY <2>2, <2>3, <2>10
    <3>2. NextIds(b, writer[b])'
      BY <2>1, <2>3, <2>5, <2>8, <3>1 DEF NextIds, stored
    <3>3. IdsAreNext'
      BY <2>5, <3>2, IdsOfOne
    <3> QED BY <2>1, <2>5, <3>3 DEF Steady, RowsOwned, OwnStamp, stored
  <2> QED BY <2>9, <2>10
<1> QED BY <1>1, <1>2

(* The stamp is put, for it is not there, and is after those of all rows.    *)
LEMMA SteadyTime ==
    ASSUME IInv, StampInv, Steady, NEW b \in Flushes, InsertTime(b)
    PROVE  Steady'
<1> DEFINE p == writer[b].prot
           w == [writer[b] EXCEPT !.pc = "insert"]
           n == [time |-> processing_time, ids |-> writer[b].ids]
<1>1. /\ writer[b] \in WriterStates /\ writer[b].pc = "time" /\ Running(b)
      /\ p \in Protocols /\ p \notin writer[b].left /\ writer[b].k \in 1 .. Last
      /\ b = stamp /\ b = processing_time /\ b \in Nat
  <2>1. writer[b].pc = "time" /\ Running(b)
    BY DEF InsertTime, At, Running
  <2> QED BY <2>1, StampTypes, OnlyWriter DEF IInv, Support, WriterOK, Working, StampInv, Clock
<1>2. /\ w.pc = "insert" /\ w.left = writer[b].left /\ w.prot = p /\ w.k = writer[b].k
      /\ n.time = b /\ n.ids = writer[b].ids
  BY <1>1 DEF WriterStates
<1>3. \A r \in time_rows[p] : r.time # b
  BY <1>1 DEF Steady, StampIsNew, ToStamp
<1>4. Becomes(b, w) /\ KeepMain /\ UNCHANGED rows /\ time_rows' = [time_rows EXCEPT ![p] = @ \cup {n}]
  BY <1>1, <1>3 DEF InsertTime
<1> HIDE DEF w, n
<1>5. time_rows'[p] = time_rows[p] \cup {n} /\ \A q \in Protocols \ {p} : time_rows'[q] = time_rows[q]
  BY <1>1, <1>4 DEF IInv, TypeOK
<1>6. \A q \in ToStamp(b)' : q \in ToStamp(b) /\ time_rows'[q] = time_rows[q]
  <2>1. writer'[b] = w
    BY <1>4 DEF Becomes, IInv, TypeOK
  <2>2. ToStamp(b)' = writer[b].left
    BY <1>2, <2>1 DEF ToStamp
  <2>3. writer[b].left \subseteq Protocols
    BY <1>1 DEF WriterStates
  <2> QED BY <1>1, <1>5, <2>2, <2>3 DEF ToStamp
<1>7. /\ OneWriter' /\ StampIsNew' /\ writer'[b] = w
      /\ \A c \in Flushes \ {b} : writer'[c].pc \notin Working
  BY <1>1, <1>4, <1>6, OnlyWriterGoesOn
<1>8. \A t \in Tables : n.ids[t] = Len(rows[p][t]) + 1
  BY <1>1, <1>2 DEF Steady, IdsAreNext, NextIds
<1>9. IdsAreNext'
  <2>1. (\E r \in time_rows'[p] : r.time = b) /\ \A r \in time_rows'[p] : r.time = b => r = n
    BY <1>2, <1>3, <1>5
  <2>2. \A j \in w.k .. Last : InsertOrder[j] \in Tables
    BY <1>1, <1>2, Records
  <2>3. \A r \in time_rows'[p] : r.time = b => \A j \in w.k .. Last :
            r.ids[InsertOrder[j]] = Len(rows[p][InsertOrder[j]]) + 1
    BY <1>8, <2>1, <2>2
  <2>4. NextIds(b, writer[b])'
    BY <1>2, <1>4, <1>7, <2>1, <2>3 DEF NextIds
  <2> QED BY <1>7, <2>4, IdsOfOne
<1>10. RowsOwned'
  <2> SUFFICES ASSUME NEW q \in Protocols, NEW t \in Tables, NEW id \in 1 .. Len(rows[q][t])
               PROVE  OwnStamp(q, t, id, rows[q][t][id])'
    BY <1>4 DEF RowsOwned
  <2> DEFINE d == rows[q][t][id]
  <2>1. OwnStamp(q, t, id, d)
    BY DEF Steady, RowsOwned
  <2>2. CASE q # p
    BY <1>4, <1>5, <2>1, <2>2 DEF OwnStamp
  <2>3. CASE q = p
    <3>1. d \in Flushes /\ d \in Nat
      <4>1. rows[q][t] \in Seq(Flushes)
        BY DEF IInv, TypeOK
      <4>2. d \in Flushes
        BY <4>1
      <4> QED BY <4>2 DEF Flushes
    <3>2. d # b
      BY <1>1, <2>3 DEF IInv, History, NotFilledYet, NotYet
    <3>3. writer[d].pc # "idle"
      BY <3>1 DEF IInv, History, Unused
    <3>4. d <= stamp
      BY <1>1, <3>1, <3>3 DEF IInv, History, Unused
    <3>5. d < b
      BY <1>1, <3>1, <3>2, <3>4
    <3>6. n.ids[t] > id
      BY <1>8, <2>3, StampTypes DEF IInv
    <3>7. \A s \in time_rows'[q] : s \in time_rows[q] \/ s = n
      BY <1>5, <2>3
    <3>8. \E r \in time_rows'[q] : r.time = d
      BY <1>5, <2>1, <2>3 DEF OwnStamp
    <3>9. \A s \in time_rows'[q] :
              /\ s.time < d => s.ids[t] <= id
              /\ s.time = d => s.ids[t] = id
              /\ s.time > d => s.ids[t] > id
      <4> TAKE s \in time_rows'[q]
      <4>1. CASE s \in time_rows[q]
        BY <2>1, <4>1 DEF OwnStamp
      <4>2. CASE s = n
        BY <1>1, <1>2, <3>1, <3>5, <3>6, <4>2
      <4> QED BY <3>7, <4>1, <4>2
    <3> QED BY <1>4, <3>8, <3>9 DEF OwnStamp
  <2> QED BY <2>2, <2>3
<1> QED BY <1>7, <1>9, <1>10 DEF Steady

(* The row gets the id that its stamp has.                                   *)
LEMMA SteadyRow ==
    ASSUME IInv, StampInv, Steady, NEW b \in Flushes, InsertRows(b)
    PROVE  Steady'
<1>1. PICK p \in Protocols, t \in Tables : RowAdded(b, p, t)
  BY RowAppended
<1>place. p = writer[b].prot /\ t = InsertOrder[writer[b].k] /\ writer[b].k \in 1 .. Last
  BY <1>1 DEF RowAdded
<1>new. Len(rows'[p][t]) = Len(rows[p][t]) + 1 /\ rows'[p][t][Len(rows[p][t]) + 1] = b
  BY <1>1 DEF RowAdded
<1>others. \A q \in Protocols, u \in Tables : ~(q = p /\ u = t) => rows'[q][u] = rows[q][u]
  BY <1>1 DEF RowAdded
<1>old. \A q \in Protocols, u \in Tables : \A id \in 1 .. Len(rows[q][u]) :
           rows'[q][u][id] = rows[q][u][id]
  BY <1>1 DEF RowAdded
<1> DEFINE k == writer[b].k
           w == IF k = Last THEN Between(writer[b].left) ELSE [writer[b] EXCEPT !.k = @ + 1]
<1>2. /\ Becomes(b, w) /\ KeepMain /\ UNCHANGED time_rows /\ Running(b)
      /\ writer[b].pc = "insert" /\ writer[b] \in WriterStates /\ Last \in Nat
  BY StampTypes, Records DEF InsertRows, At, Running, IInv
<1>3. /\ w.left = writer[b].left
      /\ w.pc = "next" \/ (w.pc = "insert" /\ w.prot = p /\ w.k = k + 1 /\ k # Last)
  BY <1>place, <1>2 DEF Between, WriterStates
<1> HIDE DEF w
<1>4. \A q \in ToStamp(b)' : q \in ToStamp(b) /\ time_rows'[q] = time_rows[q]
  BY <1>2, <1>3 DEF Becomes, ToStamp, IInv, TypeOK
<1>5. /\ OneWriter' /\ StampIsNew' /\ writer'[b] = w /\ b = stamp
      /\ \A c \in Flushes \ {b} : writer'[c].pc \notin Working
  BY <1>2, <1>4, OnlyWriterGoesOn
<1>6. /\ \E r \in time_rows[p] : r.time = b
      /\ \A r \in time_rows[p] : r.time = b => \A j \in k .. Last :
             r.ids[InsertOrder[j]] = Len(rows[p][InsertOrder[j]]) + 1
  BY <1>place, <1>2 DEF Steady, IdsAreNext, NextIds
<1>7. NextIds(b, writer[b])'
  <2>1. CASE w.pc = "next"
    BY <1>5, <2>1 DEF NextIds
  <2>2. CASE w.pc = "insert"
    <3>1. ASSUME NEW j \in k + 1 .. Last
          PROVE  j \in k .. Last /\ rows'[p][InsertOrder[j]] = rows[p][InsertOrder[j]]
      <4>1. j \in 1 .. Last /\ j # k /\ j \in k .. Last
        BY <1>place, <1>2, <3>1
      <4>2. InsertOrder[j] \in Tables /\ InsertOrder[j] # t
        BY <1>place, <4>1, Records, PipelineAssumption DEF PipelineAssumption
      <4> QED BY <1>others, <4>1, <4>2
    <3>2. \A r \in time_rows[p] : r.time = b => \A j \in k + 1 .. Last :
              r.ids[InsertOrder[j]] = Len(rows'[p][InsertOrder[j]]) + 1
      BY <1>6, <3>1
    <3> QED BY <1>2, <1>3, <1>5, <1>6, <2>2, <3>2 DEF NextIds
  <2> QED BY <1>3, <2>1, <2>2
<1>8. IdsAreNext'
  BY <1>5, <1>7, IdsOfOne
<1>9. RowsOwned'
  <2> SUFFICES ASSUME NEW q \in Protocols, NEW u \in Tables, NEW id \in 1 .. Len(rows'[q][u])
               PROVE  OwnStamp(q, u, id, rows[q][u][id])'
    BY DEF RowsOwned
  <2>1. CASE id \in 1 .. Len(rows[q][u])
    BY <1>old, <1>2, <2>1 DEF Steady, RowsOwned, OwnStamp
  <2>2. CASE q = p /\ u = t /\ id = Len(rows[p][t]) + 1
    <3>1. \A s \in time_rows[p] : s.time = b => s.ids[t] = id
      <4>1. k \in k .. Last /\ InsertOrder[k] = t
        BY <1>place, <1>2
      <4> QED BY <1>6, <2>2, <4>1
    <3>2. \A s \in time_rows[p] : s.ids[t] <= id /\ ~(s.time > b)
      BY <1>5, <2>2, StampTypes DEF StampInv, IdsExist, IInv
    <3>3. rows'[q][u][id] = b /\ time_rows'[q] = time_rows[p]
      BY <1>new, <1>2, <2>2
    <3>4. \A s \in time_rows[p] :
              /\ s.time < b => s.ids[t] <= id
              /\ s.time = b => s.ids[t] = id
              /\ s.time > b => s.ids[t] > id
      BY <3>1, <3>2
    <3> QED BY <1>6, <2>2, <3>3, <3>4 DEF OwnStamp
  <2>3. id \in 1 .. Len(rows[q][u]) \/ (q = p /\ u = t /\ id = Len(rows[p][t]) + 1)
    <3>1. Len(rows[q][u]) \in Nat
      BY StampTypes DEF IInv
    <3>2. CASE q = p /\ u = t
      <4>1. Len(rows'[q][u]) = Len(rows[q][u]) + 1
        BY <1>new, <3>2
      <4> QED BY <3>1, <3>2, <4>1
    <3>3. CASE ~(q = p /\ u = t)
      BY <1>others, <3>3
    <3> QED BY <3>2, <3>3
  <2> QED BY <2>1, <2>2, <2>3
<1> QED BY <1>5, <1>8, <1>9 DEF Steady

(* The steps of the writer.                                                  *)
LEMMA SteadyWriter ==
    ASSUME IInv, StampInv, Steady, NEW b \in Flushes, Writer(b) \/ WriterFails(b)
    PROVE  Steady'
<1>1. CASE (\E p \in Protocols : StartProtocol(b, p)) \/ ReadMax(b)
  BY <1>1, SteadyRead
<1>2. CASE InsertTime(b)
  BY <1>2, SteadyTime
<1>3. CASE InsertRows(b)
  BY <1>3, SteadyRow
<1>4. CASE Finish(b) \/ ConnectionLost(b)
  <2>1. PICK w : /\ Becomes(b, w) /\ KeepMain /\ UNCHANGED stored /\ Running(b)
                 /\ w.pc \notin Working /\ w.left \subseteq writer[b].left
    BY <1>4 DEF Finish, ConnectionLost, At, Gone, Idle, Between, Running, Working
  <2>2. \A p \in ToStamp(b)' : p \in ToStamp(b) /\ time_rows'[p] = time_rows[p]
    BY <2>1 DEF Becomes, ToStamp, Working, IInv, TypeOK, stored
  <2>3. /\ OneWriter' /\ StampIsNew' /\ writer'[b] = w
        /\ \A c \in Flushes \ {b} : writer'[c].pc \notin Working
    BY <2>1, <2>2, OnlyWriterGoesOn
  <2>4. IdsAreNext' /\ RowsOwned'
    BY <2>1, <2>3, SteadyKept DEF Steady
  <2> QED BY <2>3, <2>4 DEF Steady
<1>5. CASE FinishEmpty(b) \/ ConnectFails(b) \/ ReadFails(b)
  BY <1>5, SteadyEnd DEF FinishEmpty, ConnectFails, ReadFails, IInv, Support
<1> QED BY <1>1, <1>2, <1>3, <1>4, <1>5 DEF Writer, WriterFails

(* A database keeps up from the start or not at all.                         *)
LEMMA SlowKept == IInv /\ [Next]_vars => slow' = slow
BY DEF Next, Main, Writer, WriterFails, Capture, SetTime, CreateTables, CreateDbFails, TablesDone,
       FlushData, LinkIsQuiet, NoThread, HandOver, StartProtocol, ReadMax, InsertTime, InsertRows,
       Finish, FinishEmpty, ConnectFails, ReadFails, ConnectionLost, Kill, Restart, End, KeepMain,
       vars

(* The invariant at the start,                                               *)
LEMMA SteadyInit == Init => Steady
<1> SUFFICES ASSUME Init PROVE Steady
  OBVIOUS
<1>1. \A b \in Flushes : writer[b].pc = "idle" /\ writer[b].left = {}
  BY DEF Init, Idle
<1>2. main = "loop" /\ \A p \in Protocols, t \in Tables : Len(rows[p][t]) = 0
  BY DEF Init
<1> QED
  BY <1>1, <1>2 DEF Steady, OneWriter, StampIsNew, ToStamp, IdsAreNext, NextIds, RowsOwned, Running

(* and after every step.                                                     *)
LEMMA SteadyNext == IInv /\ StampInv /\ SteadyInv /\ [Next]_vars => SteadyInv'
<1> SUFFICES ASSUME IInv, StampInv, Steady, ~slow, [Next]_vars PROVE Steady'
  BY SlowKept DEF SteadyInv
<1>1. CASE Main
  BY <1>1, SteadyMain DEF IInv, Support
<1>2. ASSUME NEW b \in Flushes, Writer(b) \/ WriterFails(b) PROVE Steady'
  BY <1>2, SteadyWriter
<1>3. CASE Kill
  BY <1>3, SteadyEnd DEF Kill, IInv, Support
<1>4. CASE Restart \/ UNCHANGED vars
  <2>1. UNCHANGED <<stored, writer, main, stamp>>
    BY <1>4 DEF Restart, vars, flushing
  <2>2. OneWriter'
    BY <2>1 DEF Steady, OneWriter, Running
  <2>3. StampIsNew'
    BY <2>1 DEF Steady, StampIsNew, ToStamp, stored
  <2> QED BY <2>1, <2>2, <2>3, SteadyKept DEF Steady
<1> QED BY <1>1, <1>2, <1>3, <1>4 DEF Next

(* When the database keeps up, a reader finds each row under the time of its *)
(* interval and under no other, whatever was killed or lost before or since. *)
THEOREM RowsFoundUnderTheirStamp == Spec => []FoundUnderItsStamp
<1>1. ASSUME IInv, StampInv, SteadyInv PROVE FoundUnderItsStamp
  <2> SUFFICES ASSUME ~slow, NEW p \in Protocols, NEW t \in Tables, NEW id \in 1 .. Len(rows[p][t])
               PROVE  /\ \E r \in time_rows[p] : Belongs(p, t, id, r)
                      /\ \A r \in time_rows[p] : Belongs(p, t, id, r) => r.time = rows[p][t][id]
    BY DEF FoundUnderItsStamp
  <2> DEFINE b == rows[p][t][id]
             Times == {s.time : s \in time_rows[p]}
  <2>1. PICK own \in time_rows[p] : own.time = b
    BY <1>1 DEF SteadyInv, Steady, RowsOwned, OwnStamp
  <2>2. \A s \in time_rows[p] :
            /\ s.time < b => s.ids[t] <= id
            /\ s.time = b => s.ids[t] = id
            /\ s.time > b => s.ids[t] > id
    BY <1>1 DEF SteadyInv, Steady, RowsOwned, OwnStamp
  <2>3. /\ b \in Nat /\ Times \in SUBSET Nat /\ own.time \in Times
        /\ \A s \in time_rows[p] : s.time \in Nat /\ s.ids[t] \in Nat
    BY <1>1, StampTypes DEF IInv
  <2> HIDE DEF b
  <2>4. Belongs(p, t, id, own)
    BY <2>1, <2>2, <2>3 DEF Belongs
  <2>5. ASSUME NEW r \in time_rows[p], Belongs(p, t, id, r) PROVE r.time = b
    <3>1. ~(r.time > b)
      BY <2>2, <2>3, <2>5 DEF Belongs
    <3>2. ~(r.time < b)
      <4> SUFFICES ASSUME r.time < b PROVE FALSE
        OBVIOUS
      <4>1. PICK l \in Times : r.time < l /\ \A m \in Times : r.time < m => l <= m
        BY <2>1, <2>3, NextAbove
      <4>2. PICK next \in time_rows[p] : next.time = l
        OBVIOUS
      <4>3. next.time <= b /\ next.ids[t] <= id
        BY <2>1, <2>2, <2>3, <4>1, <4>2
      <4>4. \A other \in time_rows[p] : other.time > r.time => other.time >= next.time
        BY <2>3, <4>1, <4>2
      <4>5. id < next.ids[t]
        BY <2>3, <2>5, <4>1, <4>2, <4>4 DEF Belongs
      <4> QED BY <2>3, <4>3, <4>5
    <3> QED BY <2>3, <3>1, <3>2
  <2> QED BY <2>4, <2>5 DEF b
<1>2. Init => StampInv /\ SteadyInv
  BY StampInit, SteadyInit DEF SteadyInv
<1> QED BY <1>1, <1>2, Invariant, StampNext, SteadyNext, PTL DEF Spec

-----------------------------------------------------------------------------
(* Pipeline implements TrafficLedger.                                        *)

(* processingl comes to the INSERTs with the first of the tables.            *)
FromTheFirst == \A b \in Flushes : writer[b].pc = "time" => writer[b].k = 1

(* It does at the start and after every step.                                *)
LEMMA FirstNext ==
    /\ Init => FromTheFirst
    /\ IInv /\ FromTheFirst /\ [Next]_vars => FromTheFirst'
<1>1. Init => FromTheFirst
  BY DEF Init, Idle, FromTheFirst
<1> SUFFICES ASSUME IInv, FromTheFirst, [Next]_vars PROVE FromTheFirst'
  BY <1>1
<1>2. ASSUME NEW b \in Flushes, NEW w, Becomes(b, w), w.pc = "time" => w.k = 1
      PROVE  FromTheFirst'
  BY <1>2 DEF Becomes, FromTheFirst, IInv, TypeOK
<1>3. ASSUME NEW how, End(how) PROVE FromTheFirst'
  BY <1>3 DEF End, Gone, Idle, FromTheFirst
<1>4. ASSUME writer' = writer PROVE FromTheFirst'
  BY <1>4 DEF FromTheFirst
<1>5. ASSUME NEW thread, HandOver(thread), thread.pc # "time" PROVE FromTheFirst'
  BY <1>5 DEF HandOver, FromTheFirst, IInv, TypeOK
<1>6. CASE Main
  <2>1. CASE FlushData \/ NoThread
    BY <1>5, <2>1 DEF FlushData, NoThread, NewWriter, Between, Gone, Idle
  <2>2. CASE CreateDbFails
    BY <1>3, <2>2 DEF CreateDbFails
  <2> QED BY <1>4, <1>6, <2>1, <2>2
          DEF Main, Capture, SetTime, CreateTables, TablesDone, LinkIsQuiet, vars
<1>7. ASSUME NEW b \in Flushes, Writer(b) \/ WriterFails(b) PROVE FromTheFirst'
  <2>0. writer[b] \in WriterStates
    BY DEF IInv, TypeOK
  <2>1. CASE (\E p \in Protocols : StartProtocol(b, p)) \/ Finish(b) \/ ConnectionLost(b)
    BY <1>2, <2>1 DEF StartProtocol, Finish, ConnectionLost, Begins, Gone, Idle, Between
  <2>2. CASE ReadMax(b)
    <3> DEFINE w == [writer[b] EXCEPT
                        !.ids[ReadOrder[writer[b].k]] =
                            NextId(writer[b].prot, ReadOrder[writer[b].k]),
                        !.pc = IF writer[b].k = Last THEN "time" ELSE "read",
                        !.k = IF writer[b].k = Last THEN 1 ELSE @ + 1]
    <3>1. Becomes(b, w)
      BY <2>2 DEF ReadMax
    <3>2. w.pc = "time" => w.k = 1
      BY <2>0 DEF WriterStates
    <3> HIDE DEF w
    <3> QED BY <1>2, <3>1, <3>2
  <2>3. CASE InsertTime(b)
    BY <1>2, <2>0, <2>3 DEF InsertTime, WriterStates
  <2>4. CASE InsertRows(b)
    BY <1>2, <2>0, <2>4 DEF InsertRows, At, Between, WriterStates
  <2>5. CASE FinishEmpty(b) \/ ConnectFails(b) \/ ReadFails(b)
    BY <1>3, <2>5 DEF FinishEmpty, ConnectFails, ReadFails
  <2> QED BY <1>7, <2>1, <2>2, <2>3, <2>4, <2>5 DEF Writer, WriterFails
<1> QED BY <1>3, <1>4, <1>6, <1>7 DEF Next, Kill, Restart, vars

(* As many tables are filled as are read, none twice: so all of them are.    *)
LEMMA AllAreFilled == \A t \in Tables : \E j \in 1 .. Last : InsertOrder[j] = t
<1>1. /\ Last \in Nat /\ DOMAIN ReadOrder = 1 .. Last /\ DOMAIN InsertOrder = 1 .. Last
      /\ \A k \in 1 .. Last : InsertOrder[k] \in Tables
      /\ ReadOrder \in [1 .. Last -> Tables] /\ InsertOrder \in [1 .. Last -> Tables]
  BY Records, PipelineAssumption DEF PipelineAssumption, Last, Tables
<1>2. ReadOrder \in Surjection(1 .. Last, Tables)
  BY <1>1 DEF Surjection, Tables
<1>3. InsertOrder \in Injection(1 .. Last, Tables)
  BY <1>1, PipelineAssumption DEF PipelineAssumption, Injection, IsInjective
<1>4. IsFiniteSet(1 .. Last) /\ Cardinality(1 .. Last) = Last
  BY <1>1, FS_Interval
<1>5. IsFiniteSet(Tables) /\ Cardinality(Tables) <= Last /\ Cardinality(Tables) \in Nat
  BY <1>2, <1>4, FS_Surjection, FS_CardinalityType
<1>6. Last <= Cardinality(Tables)
        /\ (Last = Cardinality(Tables) <=> InsertOrder \in Surjection(1 .. Last, Tables))
  BY <1>3, <1>4, <1>5, FS_Injection
<1>7. InsertOrder \in Surjection(1 .. Last, Tables)
  BY <1>1, <1>5, <1>6
<1> QED BY <1>7 DEF Surjection

(* What a step does to the promise, table by table.                          *)
Promised == /\ \A t \in Tables : PendingIn(t)' = PendingIn(t) /\ StoredIn(t)' = StoredIn(t)
            /\ faults' = faults

(* Nothing of it changes.                                                    *)
LEMMA NothingChanges ==
    ASSUME Promised
    PROVE  UNCHANGED Ledger!vars
BY DEF Promised, Ledger!vars

Booked(N) ==
    /\ \A t \in Tables :
           /\ PendingIn(t)' = PendingIn(t) \cup N
           /\ N \cap (PendingIn(t) \cup StoredIn(t)) = {}
           /\ StoredIn(t)' = StoredIn(t)
    /\ faults' = faults

(* The same entries become pending in all tables.                            *)
LEMMA BookIsBook ==
    ASSUME NEW N \in SUBSET Entries, Booked(N)
    PROVE  Ledger!Book
<1>1. \A t \in Tables : PendingIn(t)' \ PendingIn(t) = N
  BY DEF Booked
<1>2. \A t \in Tables : PendingIn(t)' \subseteq Entries
  BY DEF Booked, PendingIn
<1> QED BY <1>1, <1>2 DEF Booked, Ledger!Book, Ledger!Added

Dropped ==
    /\ \A t \in Tables : PendingIn(t)' \subseteq PendingIn(t) /\ StoredIn(t)' = StoredIn(t)
    /\ faults' = faults + 1

(* Something fails, and what was pending may be gone.                        *)
LEMMA DropIsFail ==
    ASSUME Dropped
    PROVE  Ledger!Fail
BY DEF Dropped, Ledger!Fail

Moved(t, N) ==
    /\ PendingIn(t)' = PendingIn(t) \ N
    /\ N \subseteq PendingIn(t)
    /\ StoredIn(t)' = StoredIn(t) \cup N
    /\ \A u \in Tables \ {t} : PendingIn(u)' = PendingIn(u) /\ StoredIn(u)' = StoredIn(u)
    /\ faults' = faults

(* Entries go from pending to stored in one table.                           *)
LEMMA MoveIsStore ==
    ASSUME NEW t \in Tables, NEW N, Moved(t, N)
    PROVE  Ledger!Store(t)
<1> DEFINE pend == [u \in Tables |-> PendingIn(u)]
           store == [u \in Tables |-> StoredIn(u)]
<1>1. pend[t] \ pend'[t] = N
  BY DEF Moved
<1>2. pend' = [pend EXCEPT ![t] = @ \ N]
  BY DEF Moved
<1>3. store' = [store EXCEPT ![t] = @ \cup N]
  BY DEF Moved
<1> QED BY <1>1, <1>2, <1>3 DEF Moved, Ledger!Store, Ledger!Removed

(* Nothing is handed over or stored: what is pending is what is on the list  *)
(* and what the writers have still to come to.                               *)
LEMMA SamePromise ==
    ASSUME UNCHANGED <<batch, rows, faults, z_protokoly>>,
           \A b \in Flushes, t \in Tables : NotYet(b, t)' = NotYet(b, t)
    PROVE  Promised
BY DEF Promised, PendingIn, StoredIn

(* The end of the process: all that is pending is dropped.                   *)
LEMMA EndDrops ==
    ASSUME TypeOK, NEW how, End(how)
    PROVE  Dropped
<1>1. \A b \in Flushes : writer'[b] = IF Running(b) THEN Gone ELSE writer[b]
  BY DEF End
<1>2. \A b \in Flushes, t \in Tables : NotYet(b, t)' = {}
  BY <1>1 DEF NotYet, Running, Gone, Idle
<1>3. \A p \in Protocols : z_protokoly'[p] = {}
  BY DEF End, NoFrames
<1>4. \A t \in Tables : PendingIn(t)' = {}
  BY <1>2, <1>3 DEF PendingIn, Entries
<1> QED BY <1>4 DEF End, stored, Dropped, StoredIn

(* The list handed over stays pending if there is a thread, and is dropped   *)
(* if there is none.                                                         *)
LEMMA HandOverPromise ==
    ASSUME IInv, NEW thread, HandOver(thread)
    PROVE  /\ \A t \in Tables : StoredIn(t)' = StoredIn(t)
           /\ thread = NewWriter => \A t \in Tables : PendingIn(t)' = PendingIn(t)
           /\ thread = Gone => \A t \in Tables : PendingIn(t)' \subseteq PendingIn(t)
<1>1. /\ stamp \in Flushes /\ stamp' = stamp /\ writer[stamp].pc = "idle" /\ rows' = rows
      /\ \A b \in Flushes : writer'[b] = IF b = stamp THEN thread ELSE writer[b]
      /\ \A b \in Flushes : batch'[b] = IF b = stamp THEN z_protokoly ELSE batch[b]
      /\ \A p \in Protocols : z_protokoly'[p] = {}
  BY DEF HandOver, IInv, TypeOK, Support, FlushOK, History, Unused, stored, TakenOff, NoFrames
<1>2. \A p \in Protocols, t \in Tables : \A j \in 1 .. Len(rows[p][t]) :
          rows[p][t][j] \in Flushes /\ rows[p][t][j] # stamp
  <2>1. \A p \in Protocols, t \in Tables : rows[p][t] \in Seq(Flushes)
    BY DEF IInv, TypeOK
  <2>2. \A p \in Protocols, t \in Tables : \A j \in 1 .. Len(rows[p][t]) : rows[p][t][j] \in Flushes
    BY <2>1
  <2> QED BY <1>1, <2>2 DEF IInv, History, Unused
<1>3. \A t \in Tables : StoredIn(t)' = StoredIn(t)
  BY <1>1, <1>2 DEF StoredIn, Entries
<1>4. \A b \in Flushes \ {stamp}, t \in Tables : NotYet(b, t)' = NotYet(b, t)
  BY <1>1 DEF NotYet, Running
<1>5. \A t \in Tables : NotYet(stamp, t) = {}
  BY <1>1 DEF NotYet, Running
<1>6. ASSUME thread = NewWriter PROVE \A t \in Tables : PendingIn(t)' = PendingIn(t)
  <2>1. \A t \in Tables : NotYet(stamp, t)' = OnList(z_protokoly)
    BY <1>1, <1>6 DEF NotYet, Running, NewWriter, Between
  <2>2. ASSUME NEW t \in Tables, NEW e \in Entries PROVE e \in PendingIn(t)' <=> e \in PendingIn(t)
    <3>1. e[2] \in Protocols
      BY DEF Entries
    <3>2. e \in PendingIn(t)' <=> \E b \in Flushes : e[2] \in NotYet(b, t)' /\ e[1] \in batch'[b][e[2]]
      BY <1>1, <3>1 DEF PendingIn
    <3>3. e \in PendingIn(t)' <=>
              \/ e[2] \in OnList(z_protokoly) /\ e[1] \in z_protokoly[e[2]]
              \/ \E b \in Flushes \ {stamp} : e[2] \in NotYet(b, t) /\ e[1] \in batch[b][e[2]]
      BY <1>1, <1>4, <2>1, <3>2
    <3>4. e[2] \in OnList(z_protokoly) /\ e[1] \in z_protokoly[e[2]] <=> e[1] \in z_protokoly[e[2]]
      BY <3>1 DEF OnList
    <3> QED BY <1>5, <3>3, <3>4 DEF PendingIn
  <2> QED BY <2>2 DEF PendingIn
<1>7. ASSUME thread = Gone PROVE \A t \in Tables : PendingIn(t)' \subseteq PendingIn(t)
  <2>1. \A t \in Tables : NotYet(stamp, t)' = {}
    BY <1>1, <1>7 DEF NotYet, Running, Gone, Idle
  <2>2. ASSUME NEW t \in Tables, NEW e \in PendingIn(t)' PROVE e \in PendingIn(t)
    <3>1. e \in Entries /\ e[2] \in Protocols
      BY DEF Entries, PendingIn
    <3>2. PICK b \in Flushes : e[2] \in NotYet(b, t)' /\ e[1] \in batch'[b][e[2]]
      BY <1>1, <3>1 DEF PendingIn
    <3>3. b # stamp /\ e[2] \in NotYet(b, t) /\ e[1] \in batch[b][e[2]]
      BY <1>1, <1>4, <2>1, <3>2
    <3> QED BY <3>1, <3>3 DEF PendingIn
  <2> QED BY <2>2
<1> QED BY <1>3, <1>6, <1>7

(* A frame: the same entries are new in all tables.                          *)
LEMMA CaptureBooks ==
    ASSUME IInv, NEW kind \in Kinds, NEW due \in BOOLEAN, Capture(kind, due)
    PROVE  Booked({frames + 1} \X kind)
<1> DEFINE N == {frames + 1} \X kind
<1>1. /\ kind \subseteq Protocols /\ frames \in Nat /\ frames + 1 \in 1 .. MaxFrames
      /\ UNCHANGED <<batch, rows, writer, faults>>
      /\ \A p \in Protocols : z_protokoly'[p] =
             IF p \in kind THEN z_protokoly[p] \cup {frames + 1} ELSE z_protokoly[p]
  BY PipelineAssumption DEF PipelineAssumption, Capture, stored, IInv, TypeOK
<1>2. \A b \in Flushes, t \in Tables : NotYet(b, t)' = NotYet(b, t)
  BY <1>1 DEF NotYet, Running
<1>3. ASSUME NEW t \in Tables, NEW e \in Entries PROVE e \in PendingIn(t)' <=> e \in PendingIn(t) \cup N
  <2>1. e[2] \in Protocols /\ e = <<e[1], e[2]>>
    BY DEF Entries
  <2>2. e[1] \in z_protokoly'[e[2]] <=> e[1] \in z_protokoly[e[2]] \/ e \in N
    BY <1>1, <2>1
  <2> QED BY <1>1, <1>2, <2>2 DEF PendingIn
<1>4. N \subseteq Entries
  BY <1>1 DEF Entries
<1>5. \A t \in Tables : PendingIn(t)' = PendingIn(t) \cup N
  BY <1>3, <1>4 DEF PendingIn
<1>6. \A t \in Tables : StoredIn(t)' = StoredIn(t)
  BY <1>1 DEF StoredIn
<1>7. ASSUME NEW t \in Tables, NEW e \in N PROVE e \notin PendingIn(t) /\ e \notin StoredIn(t)
  <2>1. e[1] = frames + 1 /\ e[2] \in Protocols
    BY <1>1
  <2>2. \A b \in Flushes : e[1] \notin batch[b][e[2]]
    BY <1>1, <2>1 DEF IInv, History, Apart
  <2>3. e[1] \notin z_protokoly[e[2]]
    BY <1>1, <2>1 DEF IInv, History, Apart
  <2>4. \A j \in 1 .. Len(rows[e[2]][t]) : rows[e[2]][t][j] \in Flushes
    <3>1. rows[e[2]][t] \in Seq(Flushes)
      BY <2>1 DEF IInv, TypeOK
    <3> QED BY <3>1
  <2> QED BY <2>2, <2>3, <2>4 DEF PendingIn, StoredIn
<1> QED BY <1>1, <1>5, <1>6, <1>7 DEF Booked

(* A row: what the batch has of the protocol goes from pending to stored, in *)
(* the table filled and no other.                                            *)
LEMMA RowMoves ==
    ASSUME IInv, NEW b \in Flushes, InsertRows(b)
    PROVE  \E t \in Tables, p \in Protocols : Moved(t, batch[b][p] \X {p})
<1>1. PICK p \in Protocols, t \in Tables : RowAdded(b, p, t)
  BY RowAppended
<1>2. p = writer[b].prot /\ t = InsertOrder[writer[b].k] /\ writer[b].k \in 1 .. Last
  BY <1>1 DEF RowAdded
<1>3. Len(rows'[p][t]) = Len(rows[p][t]) + 1 /\ rows'[p][t][Len(rows[p][t]) + 1] = b
  BY <1>1 DEF RowAdded
<1>4. \A q \in Protocols, u \in Tables : ~(q = p /\ u = t) => rows'[q][u] = rows[q][u]
  BY <1>1 DEF RowAdded
<1>5. \A q \in Protocols, u \in Tables : \A id \in 1 .. Len(rows[q][u]) :
          rows'[q][u][id] = rows[q][u][id]
  BY <1>1 DEF RowAdded
<1> DEFINE k == writer[b].k
           left == writer[b].left
           w == IF k = Last THEN Between(left) ELSE [writer[b] EXCEPT !.k = @ + 1]
           N == batch[b][p] \X {p}
<1>6. /\ Becomes(b, w) /\ UNCHANGED <<batch, z_protokoly, faults>> /\ writer[b].pc = "insert"
      /\ writer[b] \in WriterStates /\ Last \in Nat /\ p \notin left
  BY <1>2, StampTypes, Records
  DEF InsertRows, At, KeepMain, flushing, capture, IInv, Support, WriterOK, Working
<1>7. /\ w.left = left
      /\ \/ k = Last /\ w.pc = "next"
         \/ k # Last /\ w.pc = "insert" /\ w.prot = p /\ w.k = k + 1
  BY <1>2, <1>6 DEF Between, WriterStates
<1> HIDE DEF w
<1>8. writer'[b] = w /\ \A c \in Flushes \ {b} : writer'[c] = writer[c]
  BY <1>6 DEF Becomes, IInv, TypeOK
<1>9. \A c \in Flushes \ {b}, u \in Tables : NotYet(c, u)' = NotYet(c, u)
  BY <1>8 DEF NotYet, Running
<1>10. ASSUME NEW u \in Tables
       PROVE  NotYet(b, u) = left \cup IF \E j \in k .. Last : InsertOrder[j] = u THEN {p} ELSE {}
  BY <1>2, <1>6 DEF NotYet, Running
<1>11. ASSUME NEW u \in Tables
       PROVE  NotYet(b, u)' =
                  left \cup IF \E j \in k + 1 .. Last : InsertOrder[j] = u THEN {p} ELSE {}
  <2>1. CASE k = Last
    BY <1>2, <1>6, <1>7, <1>8, <2>1 DEF NotYet, Running
  <2>2. CASE k # Last
    BY <1>7, <1>8, <2>2 DEF NotYet, Running
  <2> QED BY <2>1, <2>2
<1>12. ASSUME NEW u \in Tables, u # t PROVE NotYet(b, u)' = NotYet(b, u)
  <2>1. \A j \in k .. Last : InsertOrder[j] = u => j \in k + 1 .. Last
    BY <1>2, <1>6, <1>12
  <2>2. k + 1 .. Last \subseteq k .. Last
    BY <1>2, <1>6
  <2> QED BY <1>10, <1>11, <2>1, <2>2
<1>13. NotYet(b, t) = left \cup {p} /\ NotYet(b, t)' = left
  <2>1. k \in k .. Last
    BY <1>2, <1>6
  <2>2. \A j \in k + 1 .. Last : InsertOrder[j] # t
    <3> TAKE j \in k + 1 .. Last
    <3>1. j \in 1 .. Last /\ j # k
      BY <1>2, <1>6
    <3> QED BY <1>2, <3>1, Records, PipelineAssumption DEF PipelineAssumption
  <2> QED BY <1>2, <1>10, <1>11, <2>1, <2>2
<1>14. N \subseteq Entries
  BY DEF IInv, TypeOK, Entries
<1>15. ASSUME NEW u \in Tables, u # t PROVE PendingIn(u)' = PendingIn(u)
  BY <1>6, <1>9, <1>12, <1>15 DEF PendingIn
<1>16. N \subseteq PendingIn(t)
  <2> SUFFICES ASSUME NEW e \in N PROVE e \in PendingIn(t)
    OBVIOUS
  <2>1. e \in Entries /\ e[2] = p /\ e[1] \in batch[b][p]
    BY <1>14
  <2> QED BY <1>13, <2>1 DEF PendingIn
<1>17. PendingIn(t)' = PendingIn(t) \ N
  <2> SUFFICES ASSUME NEW e \in Entries PROVE e \in PendingIn(t)' <=> e \in PendingIn(t) \ N
    BY DEF PendingIn
  <2>1. e = <<e[1], e[2]>> /\ e[2] \in Protocols
    BY DEF Entries
  <2>2. e \in N <=> e[2] = p /\ e[1] \in batch[b][p]
    BY <2>1
  <2>3. e \in PendingIn(t)' <=>
            \/ e[1] \in z_protokoly[e[2]]
            \/ \E c \in Flushes \ {b} : e[2] \in NotYet(c, t) /\ e[1] \in batch[c][e[2]]
            \/ e[2] \in left /\ e[1] \in batch[b][e[2]]
    BY <1>6, <1>9, <1>13 DEF PendingIn
  <2>4. e \in PendingIn(t) <=>
            \/ e[1] \in z_protokoly[e[2]]
            \/ \E c \in Flushes \ {b} : e[2] \in NotYet(c, t) /\ e[1] \in batch[c][e[2]]
            \/ e[2] \in left \cup {p} /\ e[1] \in batch[b][e[2]]
    BY <1>13 DEF PendingIn
  <2>5. e \in N => /\ e[1] \notin z_protokoly[e[2]]
                   /\ \A c \in Flushes \ {b} : e[1] \notin batch[c][e[2]]
                   /\ e[2] \notin left
    BY <1>6, <2>1, <2>2 DEF IInv, History, Apart
  <2> QED BY <2>2, <2>3, <2>4, <2>5
<1>18. ASSUME NEW u \in Tables, u # t PROVE StoredIn(u)' = StoredIn(u)
  <2>1. \A q \in Protocols : rows'[q][u] = rows[q][u]
    BY <1>4, <1>18
  <2> QED BY <1>6, <2>1 DEF StoredIn, Entries
<1>19. StoredIn(t)' = StoredIn(t) \cup N
  <2> SUFFICES ASSUME NEW e \in Entries PROVE e \in StoredIn(t)' <=> e \in StoredIn(t) \/ e \in N
    BY <1>14 DEF StoredIn
  <2>1. e = <<e[1], e[2]>> /\ e[2] \in Protocols
    BY DEF Entries
  <2>2. e \in N <=> e[2] = p /\ e[1] \in batch[b][p]
    BY <2>1
  <2>3. CASE e[2] # p
    BY <1>4, <1>6, <2>1, <2>2, <2>3 DEF StoredIn
  <2>4. CASE e[2] = p
    <3>1. Len(rows[p][t]) \in Nat
      BY StampTypes DEF IInv
    <3>2. e \in StoredIn(t)' <=> \E j \in 1 .. Len(rows[p][t]) + 1 : e[1] \in batch[rows'[p][t][j]][p]
      BY <1>3, <1>6, <2>4 DEF StoredIn
    <3>3. 1 .. Len(rows[p][t]) + 1 = (1 .. Len(rows[p][t])) \cup {Len(rows[p][t]) + 1}
      BY <3>1
    <3>4. e \in StoredIn(t)' <=>
              \/ \E j \in 1 .. Len(rows[p][t]) : e[1] \in batch[rows[p][t][j]][p]
              \/ e[1] \in batch[b][p]
      BY <1>3, <1>5, <3>2, <3>3
    <3> QED BY <2>2, <2>4, <3>4 DEF StoredIn
  <2> QED BY <2>3, <2>4
<1>20. Moved(t, N)
  BY <1>6, <1>15, <1>16, <1>17, <1>18, <1>19 DEF Moved
<1> QED BY <1>20

(* The other steps of a writer.                                              *)
LEMMA WriterPromise ==
    ASSUME IInv, FromTheFirst, NEW b \in Flushes, Writer(b) \/ WriterFails(b)
    PROVE  Promised \/ Dropped \/ \E t \in Tables : \E N : Moved(t, N)
<1>0. writer[b] \in WriterStates
  BY DEF IInv, TypeOK
<1>1. ASSUME NEW w, Becomes(b, w), KeepMain, UNCHANGED <<rows, faults>>,
             \A t \in Tables : NotYet(b, t)' = NotYet(b, t)
      PROVE  Promised
  <2>1. \A c \in Flushes, t \in Tables : NotYet(c, t)' = NotYet(c, t)
    <3>1. \A c \in Flushes \ {b} : writer'[c] = writer[c]
      BY <1>1 DEF Becomes, IInv, TypeOK
    <3>2. \A c \in Flushes \ {b}, t \in Tables : NotYet(c, t)' = NotYet(c, t)
      BY <3>1 DEF NotYet, Running
    <3> QED BY <1>1, <3>2
  <2> QED BY <1>1, <2>1, SamePromise DEF KeepMain, capture, flushing
<1>2. ASSUME NEW p \in Protocols, StartProtocol(b, p) PROVE Promised
  <2> DEFINE w == Begins(p, writer[b].left \ {p})
  <2>1. Becomes(b, w) /\ KeepMain /\ UNCHANGED <<rows, faults>> /\ writer[b].pc = "next"
        /\ p \in writer[b].left
    BY <1>2 DEF StartProtocol, At, stored
  <2>2. w.pc = "read" /\ w.prot = p /\ w.left = writer[b].left \ {p}
    BY DEF Begins
  <2> HIDE DEF w
  <2>3. writer'[b] = w
    BY <2>1 DEF Becomes, IInv, TypeOK
  <2>4. \A t \in Tables : NotYet(b, t)' = NotYet(b, t)
    BY <2>1, <2>2, <2>3 DEF NotYet, Running
  <2> QED BY <1>1, <2>1, <2>4
<1>3. ASSUME ReadMax(b) PROVE Promised
  <2> DEFINE w == [writer[b] EXCEPT
                      !.ids[ReadOrder[writer[b].k]] =
                          NextId(writer[b].prot, ReadOrder[writer[b].k]),
                      !.pc = IF writer[b].k = Last THEN "time" ELSE "read",
                      !.k = IF writer[b].k = Last THEN 1 ELSE @ + 1]
  <2>1. Becomes(b, w) /\ KeepMain /\ UNCHANGED <<rows, faults>> /\ writer[b].pc = "read"
    BY <1>3 DEF ReadMax, At, stored
  <2>2. w.pc \in {"read", "time"} /\ w.prot = writer[b].prot /\ w.left = writer[b].left
    BY <1>0 DEF WriterStates
  <2> HIDE DEF w
  <2>3. writer'[b] = w
    BY <2>1 DEF Becomes, IInv, TypeOK
  <2>4. \A t \in Tables : NotYet(b, t)' = NotYet(b, t)
    BY <2>1, <2>2, <2>3 DEF NotYet, Running
  <2> QED BY <1>1, <2>1, <2>4
<1>4. ASSUME InsertTime(b) PROVE Promised
  <2> DEFINE w == [writer[b] EXCEPT !.pc = "insert"]
  <2>1. Becomes(b, w) /\ KeepMain /\ UNCHANGED <<rows, faults>> /\ writer[b].pc = "time"
    BY <1>4 DEF InsertTime, At
  <2>2. w.pc = "insert" /\ w.prot = writer[b].prot /\ w.left = writer[b].left /\ w.k = 1
    BY <1>0, <2>1 DEF WriterStates, FromTheFirst
  <2> HIDE DEF w
  <2>3. writer'[b] = w
    BY <2>1 DEF Becomes, IInv, TypeOK
  <2>4. ASSUME NEW t \in Tables PROVE NotYet(b, t)' = NotYet(b, t)
    <3>1. t \in {InsertOrder[j] : j \in 1 .. Last}
      BY AllAreFilled
    <3>2. NotYet(b, t) = writer[b].left \cup {writer[b].prot}
      BY <2>1 DEF NotYet, Running
    <3>3. NotYet(b, t)' = writer[b].left \cup {writer[b].prot}
      BY <2>2, <2>3, <3>1 DEF NotYet, Running
    <3> QED BY <3>2, <3>3
  <2> QED BY <1>1, <2>1, <2>4
<1>5. CASE InsertRows(b)
  BY <1>5, RowMoves
<1>6. ASSUME Finish(b) PROVE Promised
  <2>1. Becomes(b, Gone) /\ KeepMain /\ UNCHANGED <<rows, faults>> /\ writer[b].pc = "next"
        /\ writer[b].left = {}
    BY <1>6 DEF Finish, At, stored
  <2>2. writer'[b] = Gone
    BY <2>1 DEF Becomes, IInv, TypeOK
  <2>3. \A t \in Tables : NotYet(b, t)' = NotYet(b, t)
    BY <2>1, <2>2 DEF NotYet, Running, Gone, Idle
  <2> QED BY <1>1, <2>1, <2>3
<1>7. ASSUME ConnectionLost(b) PROVE Dropped
  <2>1. /\ Becomes(b, Between(writer[b].left)) /\ writer[b].pc \in {"time", "insert"}
        /\ UNCHANGED <<batch, rows, z_protokoly>> /\ faults' = faults + 1
    BY <1>7 DEF ConnectionLost, KeepMain, capture, flushing, stored
  <2>2. writer'[b] = Between(writer[b].left) /\ \A c \in Flushes \ {b} : writer'[c] = writer[c]
    BY <2>1 DEF Becomes, IInv, TypeOK
  <2>3. \A t \in Tables : NotYet(b, t)' \subseteq NotYet(b, t)
    BY <2>1, <2>2 DEF NotYet, Running, Between
  <2>4. \A c \in Flushes, t \in Tables : NotYet(c, t)' \subseteq NotYet(c, t)
    BY <2>2, <2>3 DEF NotYet, Running
  <2>5. \A t \in Tables : PendingIn(t)' \subseteq PendingIn(t)
    BY <2>1, <2>4 DEF PendingIn
  <2> QED BY <2>1, <2>5 DEF Dropped, StoredIn
<1>8. CASE FinishEmpty(b) \/ ConnectFails(b) \/ ReadFails(b)
  BY <1>8, EndDrops DEF FinishEmpty, ConnectFails, ReadFails, IInv
<1> QED BY <1>2, <1>3, <1>4, <1>5, <1>6, <1>7, <1>8 DEF Writer, WriterFails

(* The steps of the capture thread.                                          *)
LEMMA MainPromise ==
    ASSUME IInv, Main
    PROVE  Promised \/ Dropped \/ \E N \in SUBSET Entries : Booked(N)
<1>1. ASSUME NEW kind \in Kinds, NEW due \in BOOLEAN, Capture(kind, due)
      PROVE  \E N \in SUBSET Entries : Booked(N)
  <2>1. {frames + 1} \X kind \in SUBSET Entries
    BY <1>1, PipelineAssumption DEF PipelineAssumption, Capture, Entries, IInv, TypeOK
  <2> QED BY <1>1, <2>1, CaptureBooks
<1>2. ASSUME UNCHANGED <<batch, rows, faults, z_protokoly, writer>> PROVE Promised
  BY <1>2, SamePromise DEF NotYet, Running
<1>3. CASE SetTime \/ (\E p \in Protocols : CreateTables(p)) \/ TablesDone \/ LinkIsQuiet
  BY <1>2, <1>3
  DEF SetTime, CreateTables, TablesDone, LinkIsQuiet, vars, capture, flushing, stored
<1>4. CASE FlushData
  BY <1>4, HandOverPromise DEF FlushData, Promised
<1>5. CASE NoThread
  BY <1>5, HandOverPromise DEF NoThread, Dropped
<1>6. CASE CreateDbFails
  BY <1>6, EndDrops DEF CreateDbFails, IInv
<1> QED BY <1>1, <1>3, <1>4, <1>5, <1>6 DEF Main

(* Table by table, what is booked is stored once and for good, and only a    *)
(* failure makes anything disappear: every step of Pipeline is a step of     *)
(* TrafficLedger or leaves the promise alone.                                *)
THEOREM PipelineKeepsLedger == Spec => KeepsLedger
<1>1. Init => Ledger!Init
  <2> SUFFICES ASSUME Init PROVE Ledger!Init
    OBVIOUS
  <2>1. \A b \in Flushes, t \in Tables : NotYet(b, t) = {}
    BY DEF Init, Idle, NotYet, Running
  <2>2. \A t \in Tables : PendingIn(t) = {}
    BY <2>1 DEF Init, NoFrames, PendingIn, Entries
  <2>3. \A t \in Tables : StoredIn(t) = {}
    BY DEF Init, StoredIn, Entries
  <2>4. faults = 0
    BY DEF Init
  <2> QED BY <2>2, <2>3, <2>4 DEF Ledger!Init
<1>2. IInv /\ FromTheFirst /\ [Next]_vars => [Ledger!Next]_(Ledger!vars)
  <2> SUFFICES ASSUME IInv, FromTheFirst, [Next]_vars PROVE [Ledger!Next]_(Ledger!vars)
    OBVIOUS
  <2>1. CASE Promised
    BY <2>1, NothingChanges
  <2>2. CASE Dropped
    BY <2>2, DropIsFail DEF Ledger!Next
  <2>3. ASSUME NEW N \in SUBSET Entries, Booked(N) PROVE Ledger!Next
    BY <2>3, BookIsBook DEF Ledger!Next
  <2>4. ASSUME NEW t \in Tables, NEW N, Moved(t, N) PROVE Ledger!Next
    BY <2>4, MoveIsStore DEF Ledger!Next
  <2>5. CASE Main
    BY <2>1, <2>2, <2>3, <2>5, MainPromise
  <2>6. ASSUME NEW b \in Flushes, Writer(b) \/ WriterFails(b) PROVE [Ledger!Next]_(Ledger!vars)
    BY <2>1, <2>2, <2>4, <2>6, WriterPromise
  <2>7. CASE Kill
    BY <2>2, <2>7, EndDrops DEF Kill, IInv
  <2>8. CASE Restart \/ UNCHANGED vars
    <3>1. UNCHANGED <<batch, rows, faults, z_protokoly, writer>>
      BY <2>8 DEF Restart, vars, capture, flushing, stored
    <3> QED BY <2>1, <3>1, SamePromise DEF NotYet, Running
  <2> QED BY <2>5, <2>6, <2>7, <2>8 DEF Next
<1> QED BY <1>1, <1>2, FirstNext, Invariant, PTL DEF Spec, KeepsLedger, Ledger!Spec

=================================================================================
