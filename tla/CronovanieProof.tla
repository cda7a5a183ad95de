----------------------------- MODULE CronovanieProof -----------------------------
(* Proofs about Cronovanie, for every level, list of protocols and layout of *)
(* the stack: the types and the distance of the windows; what a window       *)
(* holds; and the levels on which no window misses a row.                    *)
EXTENDS Cronovanie, SetTheorems

\* The thread is at a protocol once it has one.  The end of its range is
\* untouched until SelectTo and SelectMax.
Pcs == {"asleep", "show", "test", "time", "od", "do", "max", "sum"}
AtProtocol == cron.pc \notin {"asleep", "show"} => cron.k \in DOMAIN ProtocolList
EndUntouched == cron.pc # "sum" => IP_id.to = 0

Shapes ==
    /\ level \in Levels
    /\ clock \in Nat
    /\ tables \subseteq Protocols
    /\ nl_time \in [Protocols -> SUBSET [time : Nat, id : Nat \ {0}]]
    /\ nl_rows \in [Protocols -> Seq(Nat)]
    /\ mhd_time \in [Protocols -> SUBSET Nat]
    /\ cron \in [pc : Pcs, k : Nat]
    /\ IP_id \in [from : Nat, to : Int]

\* A coarser time table that is not empty has a latest stamp.
HasLatest ==
    \A p \in Protocols : mhd_time[p] # {} => \E m \in mhd_time[p] : \A s \in mhd_time[p] : s <= m

IInv ==
    /\ Shapes
    /\ TypeOK
    /\ AtProtocol
    /\ EndUntouched
    /\ HasLatest
    /\ WindowsApart

-----------------------------------------------------------------------------
(* What the steps of the thread compute, in any state of the invariant.      *)

(* A thread that has left SHOW TABLES is at a protocol.                      *)
LEMMA AwakeAtProtocol ==
    ASSUME IInv, cron.pc \notin {"asleep", "show"}
    PROVE  Protocol \in Protocols
  BY DEF IInv, AtProtocol, Protocol, Protocols

(* The stamps of a finer table are numbers.                                  *)
LEMMA TimesAreNumbers ==
    ASSUME IInv, NEW p \in Protocols
    PROVE  /\ Times(p) \subseteq Nat
           /\ \A t : Later(p, t) \subseteq Times(p)
  BY DEF IInv, Shapes, Times, Later

(* The next protocol, or the end of the thread: the range is empty again.    *)
LEMMA ProceedTypes ==
    ASSUME IInv, NEW locals \in [Cells -> Nat], Proceed(locals)
    PROVE  /\ cron' \in [pc : Pcs, k : Nat]
           /\ cron'.k \in 0 .. Len(ProtocolList)
           /\ cron'.pc \notin {"asleep", "show"} => cron'.k \in DOMAIN ProtocolList
           /\ local' \in [Cells -> Nat]
           /\ IP_id' = NoIds
<1>1. IP_id' = NoIds
  BY DEF Proceed, IdsCleared
<1>2. CASE After(cron.k) = {}
  BY <1>1, <1>2, CronovanieAssumption DEF Proceed, Asleep, All, Pcs
<1>3. CASE After(cron.k) # {}
  <2>1. DOMAIN ProtocolList = 1 .. Len(ProtocolList) /\ Len(ProtocolList) \in Nat
    BY CronovanieAssumption
  <2>2. After(cron.k) \subseteq 1 .. Len(ProtocolList)
    BY <2>1 DEF After
  <2>3. Min(After(cron.k)) \in 1 .. Len(ProtocolList)
    BY <1>3, <2>1, <2>2, LeastNumber
  <2> QED
    BY <1>1, <1>3, <2>1, <2>3 DEF Proceed, Pcs
<1> QED
  BY <1>2, <1>3

(* The greatest of the stamps, or the number that was there.                 *)
LEMMA NewestTypes ==
    ASSUME IInv, NEW p \in Protocols, NEW old \in Nat
    PROVE  Newest(Times(p), old) \in Nat /\ Newest(mhd_time[p], old) \in Nat
<1>1. Newest(Times(p), old) \in Nat
  <2>1. \A s \in Times(p) : s <= clock
    BY DEF IInv, TypeOK, Times
  <2>2. Times(p) # {} => Max(Times(p)) \in Times(p)
    BY <2>1, BoundedHasMax, TimesAreNumbers DEF IInv, Shapes
  <2> QED
    BY <2>2, TimesAreNumbers DEF Newest
<1>2. Newest(mhd_time[p], old) \in Nat
  <2>1. mhd_time[p] \subseteq Nat
    BY DEF IInv, Shapes
  <2>2. ASSUME mhd_time[p] # {} PROVE Max(mhd_time[p]) \in mhd_time[p]
    <3>1. PICK m \in mhd_time[p] : \A s \in mhd_time[p] : s <= m
      BY <2>2 DEF IInv, HasLatest
    <3>2. \A s \in mhd_time[p] : m >= s
      BY <2>1, <3>1
    <3> QED
      BY <3>2, GreatestNumber
  <2> QED
    BY <2>1, <2>2 DEF Newest
<1> QED
  BY <1>1, <1>2

(* The stamp of a new window is a number, and at least a window later than   *)
(* every stamp there is.                                                     *)
LEMMA BeginIsLater ==
    ASSUME IInv, NEW p \in Protocols
    PROVE  /\ Begin(p) \in Nat
           /\ \A s \in mhd_time[p] : Begin(p) >= s + level.konst
<1>1. mhd_time[p] \subseteq Nat /\ level.konst \in Nat /\ local["mhd_time"] \in Nat
  BY CronovanieAssumption DEF IInv, Shapes, TypeOK, LevelRecord, Cells
<1>2. CASE mhd_time[p] = {}
  <2>1. Times(p) # {} => Min(Times(p)) \in Times(p)
    BY LeastNumber, TimesAreNumbers
  <2> QED
    BY <1>1, <1>2, <2>1, TimesAreNumbers DEF Begin
<1>3. CASE mhd_time[p] # {}
  <2>1. PICK m \in mhd_time[p] : \A s \in mhd_time[p] : s <= m
    BY <1>3 DEF IInv, HasLatest
  <2>2. \A s \in mhd_time[p] : m >= s
    BY <1>1, <2>1
  <2>3. Max(mhd_time[p]) \in mhd_time[p] /\ \A s \in mhd_time[p] : Max(mhd_time[p]) >= s
    BY <2>2, GreatestNumber
  <2>4. EndOfLast(p) \in Nat /\ \A s \in mhd_time[p] : EndOfLast(p) >= s + level.konst
    BY <1>1, <2>3 DEF EndOfLast
  <2>5. CASE Later(p, EndOfLast(p)) = {}
    BY <1>3, <2>4, <2>5 DEF Begin
  <2>6. CASE Later(p, EndOfLast(p)) # {}
    <3>1. Min(Later(p, EndOfLast(p))) \in Later(p, EndOfLast(p))
      BY <2>6, LeastNumber, TimesAreNumbers
    <3>2. Begin(p) \in Times(p) /\ Begin(p) > EndOfLast(p)
      BY <1>3, <2>6, <3>1 DEF Begin, Later
    <3> QED
      BY <1>1, <2>4, <3>2, TimesAreNumbers
  <2> QED
    BY <2>5, <2>6
<1> QED
  BY <1>2, <1>3

(* The id of a stamp of the table is one of the ids of the table.            *)
LEMMA IdIsPositive ==
    ASSUME IInv, NEW p \in Protocols, NEW t \in Times(p)
    PROVE  IdOf(p, t) \in Nat \ {0}
<1>1. PICK r \in nl_time[p] : r.time = t
  BY DEF Times
<1>2. nl_time[p] \subseteq [time : Nat, id : Nat \ {0}]
  BY DEF IInv, Shapes
<1>3. r = [time |-> t, id |-> r.id]
  BY <1>1, <1>2
<1>4. \E id \in {q.id : q \in nl_time[p]} : [time |-> t, id |-> id] \in nl_time[p]
  BY <1>3
<1>5. IdOf(p, t) \in {q.id : q \in nl_time[p]}
  BY <1>4 DEF IdOf
<1> QED
  BY <1>2, <1>5

(* The first id of a window is not negative.                                 *)
LEMMA FirstIdIsNat ==
    ASSUME IInv, NEW p \in Protocols, NEW t \in Nat
    PROVE  FirstId(p, t) \in Nat
<1>1. CASE Later(p, t - 1) = {}
  BY <1>1 DEF FirstId
<1>2. CASE Later(p, t - 1) # {}
  <2>1. Min(Later(p, t - 1)) \in Times(p)
    BY <1>2, LeastNumber, TimesAreNumbers
  <2>2. IdOf(p, Min(Later(p, t - 1))) \in Nat \ {0}
    BY <2>1, IdIsPositive
  <2> QED
    BY <1>2, <2>2 DEF FirstId
<1> QED
  BY <1>1, <1>2

(* What the comparison of the latest stamps leaves behind are numbers.       *)
LEMMA TestedLocals ==
    ASSUME IInv, Protocol \in Protocols
    PROVE  LocalsAfterTest \in [Cells -> Nat]
<1>1. \A cell \in Cells : Cleared(cell) \in Nat
  BY DEF IInv, TypeOK, Cleared
<1>2. \A cell \in Cells : /\ Newest(Times(Protocol), Cleared(cell)) \in Nat
                          /\ Newest(mhd_time[Protocol], Cleared(cell)) \in Nat
  BY <1>1, NewestTypes
<1> QED
  BY <1>1, <1>2 DEF LocalsAfterTest

-----------------------------------------------------------------------------
(* No table has a row and no thread runs when the program starts.            *)
LEMMA InitInv == Init => IInv
<1> SUFFICES ASSUME Init PROVE IInv
  OBVIOUS
<1>1. Shapes
  BY DEF Init, Shapes, Asleep, NoIds, Pcs
<1>2. TypeOK
  BY CronovanieAssumption DEF Init, TypeOK, Asleep, NoIds, All
<1>3. AtProtocol /\ EndUntouched
  BY DEF Init, AtProtocol, EndUntouched, Asleep, NoIds
<1>4. HasLatest /\ WindowsApart
  BY DEF Init, HasLatest, WindowsApart
<1> QED
  BY <1>1, <1>2, <1>3, <1>4 DEF IInv

(* What leaves the coarser tables alone keeps their windows.                 *)
LEMMA CoarserTablesStay ==
    ASSUME IInv, level' = level, mhd_time' = mhd_time
    PROVE  HasLatest' /\ WindowsApart'
  BY DEF IInv, HasLatest, WindowsApart

(* A flush: the clock goes on, tables are added, a thread may be woken.      *)
LEMMA FlushInv ==
    ASSUME IInv, NEW kind \in level.kinds, Flush(kind)
    PROVE  IInv'
<1> USE DEF IInv
<1>1. /\ level.step \in Nat /\ kind \subseteq Protocols /\ level.junk \subseteq Nat
  BY CronovanieAssumption DEF Shapes, LevelRecord
<1>2. clock' \in Nat /\ clock' >= clock
  BY <1>1 DEF Flush, Shapes
<1>3. /\ cron' \in [pc : Pcs, k : Nat]
      /\ cron'.k = cron.k
      /\ cron'.pc \in {"asleep", "show"}
      /\ local' \in [Cells -> Nat]
  <2>1. CASE Wakes(interval + 1)
    BY <1>1, <2>1 DEF Flush, GoTo, All, Shapes, Pcs
  <2>2. CASE ~Wakes(interval + 1)
    BY <2>2 DEF Flush, Shapes, TypeOK
  <2> QED
    BY <2>1, <2>2
<1>4. Shapes'
  BY <1>1, <1>2, <1>3 DEF Flush, Shapes
<1>5. TypeOK'
  <2>1. to_write' \subseteq tables' /\ at_work' \in tables' \cup {Nobody}
    BY DEF Flush, WriterDone
  <2>2. \A p \in Protocols : \A r \in nl_time[p] : r.time <= clock'
    BY <1>2 DEF Shapes, TypeOK
  <2> QED
    BY <1>3, <2>1, <2>2 DEF Flush, TypeOK
<1>6. AtProtocol' /\ EndUntouched'
  BY <1>3 DEF Flush, AtProtocol, EndUntouched
<1>7. HasLatest' /\ WindowsApart'
  BY CoarserTablesStay DEF Flush
<1> QED
  BY <1>4, <1>5, <1>6, <1>7

(* A stamp of the finer table is never ahead of the clock.                   *)
LEMMA WriteTimeInv ==
    ASSUME IInv, NEW p \in Protocols, WriteTime(p)
    PROVE  IInv'
<1> USE DEF IInv
<1> DEFINE r == [time |-> clock, id |-> Len(nl_rows[p]) + 1]
<1>1. r \in [time : Nat, id : Nat \ {0}]
  BY DEF Shapes
<1> HIDE DEF r
<1>2. nl_time' = [nl_time EXCEPT ![p] = @ \cup {r}]
  BY DEF WriteTime, r
<1>3. Shapes'
  BY <1>1, <1>2 DEF WriteTime, Shapes, program, thread
<1>4. r.time = clock
  BY DEF r
<1>5. TypeOK'
  <2>1. to_write' \subseteq tables' /\ at_work' \in tables' \cup {Nobody}
    BY DEF WriteTime, TypeOK
  <2>2. \A q \in Protocols : \A s \in nl_time'[q] : s.time <= clock
    BY <1>2, <1>4 DEF Shapes, TypeOK
  <2> QED
    BY <2>1, <2>2 DEF WriteTime, TypeOK, program, thread
<1>6. AtProtocol' /\ EndUntouched'
  BY DEF WriteTime, AtProtocol, EndUntouched, thread
<1>7. HasLatest' /\ WindowsApart'
  BY CoarserTablesStay DEF WriteTime, program
<1> QED
  BY <1>3, <1>5, <1>6, <1>7

(* Rows are added to a finer table.                                          *)
LEMMA WriteRowsInv ==
    ASSUME IInv, WriteRows
    PROVE  IInv'
<1> USE DEF IInv
<1>1. nl_rows' \in [Protocols -> Seq(Nat)]
  <2>1. at_work \in Protocols /\ clock \in Nat
    BY DEF WriteRows, Shapes, TypeOK
  <2>2. Append(nl_rows[at_work], clock) \in Seq(Nat)
    BY <2>1 DEF Shapes
  <2> QED
    BY <2>1, <2>2 DEF WriteRows, Shapes
<1>2. Shapes'
  BY <1>1 DEF WriteRows, Shapes, program, thread
<1>3. TypeOK'
  BY DEF WriteRows, TypeOK, program, thread
<1>4. AtProtocol' /\ EndUntouched'
  BY DEF WriteRows, AtProtocol, EndUntouched, thread
<1>5. HasLatest' /\ WindowsApart'
  BY CoarserTablesStay DEF WriteRows, program
<1> QED
  BY <1>2, <1>3, <1>4, <1>5

(* The thread is gone, its tables stay.                                      *)
LEMMA RestartInv ==
    ASSUME IInv, Restart
    PROVE  IInv'
<1> USE DEF IInv
<1>1. Shapes'
  BY DEF Restart, Shapes, database, Asleep, NoIds, Pcs
<1>2. TypeOK'
  BY CronovanieAssumption DEF Restart, TypeOK, database, Asleep, NoIds, All
<1>3. AtProtocol' /\ EndUntouched'
  BY DEF Restart, AtProtocol, EndUntouched, Asleep, NoIds
<1>4. HasLatest' /\ WindowsApart'
  BY CoarserTablesStay DEF Restart, database
<1> QED
  BY <1>1, <1>2, <1>3, <1>4

-----------------------------------------------------------------------------
(* A step of the summary thread keeps the invariant when what it does to its *)
(* own variables and to the coarser tables does.                             *)
LEMMA ThreadStep ==
    ASSUME IInv, OthersStay,
           cron' \in [pc : Pcs, k : Nat], cron'.k \in 0 .. Len(ProtocolList),
           local' \in [Cells -> Nat],
           IP_id' \in [from : Nat, to : Nat \cup {-1}],
           mhd_time' \in [Protocols -> SUBSET Nat],
           AtProtocol', EndUntouched', HasLatest', WindowsApart'
    PROVE  IInv'
<1>1. Shapes'
  <2>1. IP_id' \in [from : Nat, to : Int]
    OBVIOUS
  <2> QED
    BY <2>1 DEF IInv, Shapes, OthersStay, program
<1>2. TypeOK'
  BY DEF IInv, TypeOK, OthersStay, program, writer
<1> QED
  BY <1>1, <1>2 DEF IInv

(* The same for a thread that goes on to the next protocol.                  *)
LEMMA ProceedStep ==
    ASSUME IInv, NEW locals \in [Cells -> Nat], Proceed(locals), OthersStay,
           mhd_time' = mhd_time
    PROVE  IInv'
<1>1. AtProtocol' /\ EndUntouched'
  BY ProceedTypes DEF AtProtocol, EndUntouched, NoIds
<1>2. IP_id' \in [from : Nat, to : Nat \cup {-1}]
  BY ProceedTypes DEF NoIds
<1>3. HasLatest' /\ WindowsApart'
  BY CoarserTablesStay DEF OthersStay, program
<1>4. mhd_time' \in [Protocols -> SUBSET Nat]
  BY DEF IInv, Shapes
<1> QED
  BY <1>1, <1>2, <1>3, <1>4, ProceedTypes, ThreadStep

(* The same for a thread that goes on to its next statement.                 *)
LEMMA GoToStep ==
    ASSUME IInv, NEW pc \in Pcs, GoTo(pc), cron.pc \notin {"asleep", "show"}, OthersStay,
           local' \in [Cells -> Nat],
           IP_id' \in [from : Nat, to : Nat \cup {-1}],
           pc # "sum" => IP_id'.to = 0,
           mhd_time' \in [Protocols -> SUBSET Nat], HasLatest', WindowsApart'
    PROVE  IInv'
<1>1. /\ cron' \in [pc : Pcs, k : Nat]
      /\ cron'.k = cron.k /\ cron'.pc = pc
  BY DEF GoTo, IInv, Shapes
<1>2. AtProtocol' /\ EndUntouched'
  BY <1>1 DEF IInv, AtProtocol, EndUntouched
<1> QED
  BY <1>1, <1>2, ThreadStep DEF IInv, TypeOK

(* The comparison of the latest stamps, whether a window is due or not.      *)
LEMMA CompareInv ==
    ASSUME IInv, Compare
    PROVE  IInv'
<1>1. Protocol \in Protocols
  BY AwakeAtProtocol DEF Compare
<1>2. LocalsAfterTest \in [Cells -> Nat]
  BY <1>1, TestedLocals
<1>3. CASE Proceed(LocalsAfterTest)
  BY <1>2, <1>3, ProceedStep DEF Compare
<1>4. CASE GoTo("time") /\ local' = LocalsAfterTest /\ UNCHANGED IP_id
  <2>1. HasLatest' /\ WindowsApart'
    BY CoarserTablesStay DEF Compare, OthersStay, program
  <2>2. IP_id' \in [from : Nat, to : Nat \cup {-1}] /\ IP_id'.to = 0
    BY <1>4 DEF Compare, IInv, Shapes, EndUntouched
  <2>3. mhd_time' \in [Protocols -> SUBSET Nat]
    BY DEF Compare, IInv, Shapes
  <2> QED
    BY <1>2, <1>4, <2>1, <2>2, <2>3, GoToStep DEF Compare, Pcs
<1> QED
  BY <1>3, <1>4 DEF Compare

(* The new stamp is the latest, and a window away from the others.           *)
LEMMA InsertTimeInv ==
    ASSUME IInv, InsertTime
    PROVE  IInv'
<1> DEFINE b == Begin(Protocol)
<1>1. Protocol \in Protocols
  BY AwakeAtProtocol DEF InsertTime
<1>2. b \in Nat /\ \A s \in mhd_time[Protocol] : b >= s + level.konst
  BY <1>1, BeginIsLater
<1> HIDE DEF b
<1>3. mhd_time' = [mhd_time EXCEPT ![Protocol] = @ \cup {b}]
  BY DEF InsertTime, b
<1>4. mhd_time \in [Protocols -> SUBSET Nat] /\ level.konst \in Nat /\ level' = level
  BY CronovanieAssumption DEF InsertTime, OthersStay, program, IInv, Shapes, LevelRecord
<1>5. mhd_time' \in [Protocols -> SUBSET Nat]
  BY <1>1, <1>2, <1>3, <1>4
<1>6. HasLatest'
  <2> SUFFICES ASSUME NEW p \in Protocols, mhd_time'[p] # {}
               PROVE  \E m \in mhd_time'[p] : \A s \in mhd_time'[p] : s <= m
    BY DEF HasLatest
  <2>1. CASE p = Protocol
    BY <1>1, <1>2, <1>3, <1>4, <2>1
  <2>2. CASE p # Protocol
    BY <1>1, <1>3, <1>4, <2>2 DEF IInv, HasLatest
  <2> QED
    BY <2>1, <2>2
<1>7. WindowsApart'
  <2> SUFFICES ASSUME NEW p \in Protocols, NEW s \in mhd_time'[p], NEW t \in mhd_time'[p],
                      s < t
               PROVE  t - s >= level.konst
    BY <1>4 DEF WindowsApart
  <2>1. CASE s \in mhd_time[p] /\ t \in mhd_time[p]
    BY <2>1 DEF IInv, WindowsApart
  <2>2. CASE p = Protocol /\ t = b /\ s \in mhd_time[p]
    BY <1>2, <1>4, <2>2
  <2>3. CASE p = Protocol /\ s = b /\ t \in mhd_time[p]
    BY <1>1, <1>2, <1>4, <2>3
  <2> QED
    BY <1>1, <1>2, <1>3, <1>4, <2>1, <2>2, <2>3
<1>8. local' \in [Cells -> Nat]
  BY <1>2 DEF InsertTime, b, IInv, TypeOK
<1>9. IP_id' \in [from : Nat, to : Nat \cup {-1}] /\ IP_id'.to = 0
  BY DEF InsertTime, IInv, Shapes, EndUntouched
<1> QED
  BY <1>5, <1>6, <1>7, <1>8, <1>9, GoToStep DEF InsertTime, Pcs

(* The three statements that find the range of ids.                          *)
LEMMA RangeInv ==
    ASSUME IInv, SelectFrom \/ SelectTo \/ SelectMax
    PROVE  IInv'
<1>1. Protocol \in Protocols /\ local["mhd_time"] \in Nat
  BY AwakeAtProtocol DEF SelectFrom, SelectTo, SelectMax, IInv, TypeOK, Cells
<1>2. HasLatest' /\ WindowsApart'
  BY CoarserTablesStay DEF SelectFrom, SelectTo, SelectMax, OthersStay, program
<1>3. local' \in [Cells -> Nat] /\ mhd_time' \in [Protocols -> SUBSET Nat]
  BY DEF SelectFrom, SelectTo, SelectMax, IInv, TypeOK, Shapes
<1>4. cron.pc # "sum" => IP_id \in [from : Nat, to : {0}]
  BY DEF IInv, Shapes, EndUntouched
<1>5. CASE SelectFrom
  <2>1. FirstId(Protocol, local["mhd_time"]) \in Nat
    BY <1>1, FirstIdIsNat
  <2>2. IP_id' \in [from : Nat, to : {0}]
    BY <1>4, <1>5, <2>1 DEF SelectFrom
  <2>3. IP_id' \in [from : Nat, to : Nat \cup {-1}] /\ IP_id'.to = 0
    BY <2>2
  <2> QED
    BY <1>2, <1>3, <1>5, <2>3, GoToStep DEF SelectFrom, Pcs
<1>6. CASE SelectTo
  <2> DEFINE beyond == Later(Protocol, local["mhd_time"] + level.konst)
  <2>1. CASE beyond = {}
    <3>1. IP_id' \in [from : Nat, to : Nat \cup {-1}] /\ IP_id'.to = 0
      BY <1>4, <1>6, <2>1 DEF SelectTo
    <3> QED
      BY <1>2, <1>3, <1>6, <2>1, <3>1, GoToStep DEF SelectTo, Pcs
  <2>2. CASE beyond # {}
    <3>1. Min(beyond) \in Times(Protocol)
      BY <1>1, <2>2, LeastNumber, TimesAreNumbers
    <3>2. IdOf(Protocol, Min(beyond)) \in Nat
      BY <1>1, <3>1, IdIsPositive
    <3>3. IP_id' = [from |-> IdOf(Protocol, Min(beyond)), to |-> IP_id.to - 1]
      BY <1>6, <2>2 DEF SelectTo
    <3>4. IP_id' \in [from : Nat, to : Nat \cup {-1}]
      BY <1>4, <1>6, <3>2, <3>3 DEF SelectTo
    <3> QED
      BY <1>2, <1>3, <1>6, <2>2, <3>4, GoToStep DEF SelectTo, Pcs
  <2> QED
    BY <2>1, <2>2
<1>7. CASE SelectMax
  <2>1. Len(nl_rows[Protocol]) \in Nat
    BY <1>1 DEF IInv, Shapes
  <2>2. IP_id' \in [from : Nat, to : Nat \cup {-1}]
    BY <1>4, <1>7, <2>1 DEF SelectMax
  <2> QED
    BY <1>2, <1>3, <1>7, <2>2, GoToStep DEF SelectMax, Pcs
<1> QED
  BY <1>5, <1>6, <1>7

-----------------------------------------------------------------------------
(* Every step of the specification keeps the invariant.                      *)
LEMMA StepInv == IInv /\ [Next]_vars => IInv'
<1> SUFFICES ASSUME IInv, [Next]_vars PROVE IInv'
  OBVIOUS
<1>1. ASSUME NEW kind \in level.kinds, Flush(kind) PROVE IInv'
  BY <1>1, FlushInv
<1>2. ASSUME NEW p \in Protocols, WriteTime(p) PROVE IInv'
  BY <1>2, WriteTimeInv
<1>3. CASE WriteRows
  BY <1>3, WriteRowsInv
<1>4. CASE Restart
  BY <1>4, RestartInv
<1>5. local \in [Cells -> Nat]
  BY DEF IInv, TypeOK
<1>6. CASE ShowTables
  BY <1>5, <1>6, ProceedStep DEF ShowTables
<1>7. CASE Compare
  BY <1>7, CompareInv
<1>8. CASE InsertTime
  BY <1>8, InsertTimeInv
<1>9. CASE SelectFrom \/ SelectTo \/ SelectMax
  BY <1>9, RangeInv
<1>10. CASE Sum
  BY <1>5, <1>10, ProceedStep DEF Sum
<1>11. CASE UNCHANGED vars
  BY <1>11 DEF vars, program, writer, thread, database, IInv, Shapes, TypeOK,
               AtProtocol, EndUntouched, HasLatest, WindowsApart
<1> QED
  BY <1>1, <1>2, <1>3, <1>4, <1>6, <1>7, <1>8, <1>9, <1>10, <1>11
     DEF Next, Cron, Quiet

(* The summary thread keeps its types, whatever was on the stack, wherever   *)
(* it is interrupted and however its statements interleave with the writer.  *)
THEOREM ThreadTypes == Spec => []TypeOK
<1>1. IInv => TypeOK
  BY DEF IInv
<1> QED
  BY <1>1, InitInv, StepInv, PTL DEF Spec

(* Two windows of a protocol never overlap, for every level, any number of   *)
(* protocols, flushes and restarts, and every layout of the stack.           *)
THEOREM WindowsNeverOverlap == Spec => []WindowsApart
<1>1. IInv => WindowsApart
  BY DEF IInv
<1> QED
  BY <1>1, InitInv, StepInv, PTL DEF Spec
-----------------------------------------------------------------------------
(* What is known of the finer tables.  A stamp has the id of the next row;   *)
(* rows before that id are older and the others not; every row has a stamp   *)
(* of its own.  The stamp of the latest flush comes when the writer reaches  *)
(* the protocol, and its row after it.                                       *)
Row(p, j) == [time |-> nl_rows[p][j], id |-> j]

FinerTables == \A p \in Protocols :
    /\ \A r \in nl_time[p] : r.id \in 1 .. Len(nl_rows[p]) + 1
    /\ \A r \in nl_time[p] : \A j \in DOMAIN nl_rows[p] :
          IF j < r.id THEN nl_rows[p][j] < r.time ELSE nl_rows[p][j] >= r.time
    /\ \A j \in DOMAIN nl_rows[p] : Row(p, j) \in nl_time[p]
    /\ \A q, r \in nl_time[p] : q.time = r.time => q = r

WriterState ==
    /\ \A p \in to_write : \A r \in nl_time[p] : r.time < clock
    /\ at_work \in Protocols =>
          /\ at_work \notin to_write
          /\ [time |-> clock, id |-> Len(nl_rows[at_work]) + 1] \in nl_time[at_work]

(* What is known of the sums there are.  A sum has one window of the table,  *)
(* and no row that is not there.                                             *)
SumsOfWindows == \A p \in Protocols :
    /\ \A w \in sums[p] : w.time \in mhd_time[p] /\ w.ids \subseteq DOMAIN nl_rows[p]
    /\ \A v, w \in sums[p] : v.time = w.time => v = w

\* A row past the window is of the flush in which it was summed: no stamp lies
\* between, and the next window does not begin before that row.
EndsWithAFlush(p, w) ==
    \A id \in w.ids : nl_rows[p][id] > w.time + level.konst =>
        /\ \A s \in Times(p) : s <= w.time + level.konst \/ s >= nl_rows[p][id]
        /\ \A t \in mhd_time[p] : t <= w.time \/ t >= nl_rows[p][id]

\* The range begins with the row before that of the window's stamp; or the
\* protocol had no stamp, and nothing was summed before.
BeginsAtStamp(p, w) ==
    \/ \E r \in nl_time[p] : r.time = w.time /\ \A id \in w.ids : id >= r.id - 1
    \/ /\ w.ids \subseteq {1}
       /\ \A v \in sums[p] : v.time < w.time => v.ids = {}

SumsEnd == \A p \in Protocols : \A w \in sums[p] : EndsWithAFlush(p, w)
SumsBegin ==
    NoWindowPastTheStamps => \A p \in Protocols : \A w \in sums[p] : BeginsAtStamp(p, w)

(* What is known of the thread between two statements.                       *)
Time == local["mhd_time"]
HasBegun == cron.pc \in {"od", "do", "max", "sum"}

\* The protocol had no stamp before the latest flush.
Fresh(p) == /\ \A r \in nl_time[p] : r.time = clock
            /\ \A w \in sums[p] : w.ids = {}

LatestWindow == HasBegun =>
    /\ Time \in mhd_time[Protocol]
    /\ \A s \in mhd_time[Protocol] : s <= Time
    /\ \A w \in sums[Protocol] : w.time < Time

WindowIsDue == cron.pc = "time" /\ NoWindowPastTheStamps =>
    \/ Fresh(Protocol)
    \/ \E s \in Times(Protocol) : \A m \in mhd_time[Protocol] : s >= m + level.konst

HasStampOrNothing == cron.pc = "od" /\ NoWindowPastTheStamps =>
    Fresh(Protocol) \/ Time \in Times(Protocol)

RangeBegins == cron.pc \in {"do", "max", "sum"} /\ NoWindowPastTheStamps =>
    \/ Fresh(Protocol)
    \/ \E r \in nl_time[Protocol] :
          r.time = Time /\ (IP_id.to = -1 \/ IP_id.from = r.id - 1)

RangeEnds == cron.pc = "max" \/ (cron.pc = "sum" /\ IP_id.to # -1) =>
    \A s \in Times(Protocol) : s <= Time + level.konst \/ s = clock

(* What is known of a level above the first, when no flush misses a protocol:*)
(* between two threads there is more than a window.                          *)
Everyone == ~level.raced /\ level.kinds = {Protocols}

\* The thread of the latest flush has yet to sum the protocol.
Unreached(p) ==
    /\ cron.pc # "asleep"
    /\ \E n \in DOMAIN ProtocolList :
          /\ ProtocolList[n] = p
          /\ n > cron.k \/ (n = cron.k /\ cron.pc \in {"test", "time"})

SinceThread == interval % level.group

Turns ==
    /\ cron.pc \in {"asleep", "show"} => cron.k = 0
    /\ interval \in Nat /\ restarts \in Nat
    /\ Everyone =>
        /\ cron.pc # "asleep" => interval >= 1 /\ SinceThread = 0
        /\ cron.pc \notin {"asleep", "show"} => WriterDone
        /\ \A p \in Protocols : interval >= 1 =>
              p \in tables /\ (p \in to_write \/ clock \in Times(p))

WindowsArePast == Everyone => \A p \in Protocols : \A m \in mhd_time[p] :
    IF Unreached(p) THEN m + level.group * level.step <= clock
                    ELSE m + SinceThread * level.step <= clock

(* And when the process has lived from the start: stamps are the multiples   *)
(* of the step, and windows begin with every group of them.                  *)
Unbroken == Everyone /\ level.junk = {0} /\ restarts = 0

StampsAreMultiples == Unbroken =>
    /\ clock = interval * level.step
    /\ to_write # {} => interval >= 1
    /\ \A p \in Protocols :
          /\ \A s \in Times(p) : \E i \in 1 .. interval : s = i * level.step
          /\ \A i \in 1 .. interval :
                i * level.step \in Times(p) \/ (i = interval /\ p \in to_write)

\* The flush whose thread was the last to sum the protocol; its window's stamp.
Seen(p) == IF Unreached(p) THEN interval - level.group ELSE interval - SinceThread
Stamp(n) == (n - level.group + 1) * level.step

WindowsAreGroups == Unbroken =>
    /\ \A p \in Protocols :
        IF Seen(p) = 0 THEN mhd_time[p] = {}
        ELSE /\ Seen(p) >= level.group
             /\ Stamp(Seen(p)) \in mhd_time[p]
             /\ \A m \in mhd_time[p] : m <= Stamp(Seen(p))
    /\ cron.pc # "asleep" /\ interval = level.group => local["test_mhd"] = 0

RangeIsWhole == Unbroken =>
    /\ cron.pc \in {"do", "max", "sum"} =>
          \A r \in nl_time[Protocol] : r.time = Time => IP_id.from <= r.id - 1
    /\ cron.pc = "sum" => IP_id.to = Len(nl_rows[Protocol])

SumsAreWhole == Unbroken => \A p \in Protocols : \A w \in sums[p] :
    /\ w.time + level.konst < clock + level.step
    /\ WriterDone \/ w.time + level.konst < clock
    /\ \A id \in DOMAIN nl_rows[p] :
          nl_rows[p][id] \in w.time .. w.time + level.konst => id \in w.ids
-----------------------------------------------------------------------------
(* The finer tables.                                                         *)

Finer == FinerTables /\ WriterState

(* Rows are in the order of their stamps, and none is ahead of the clock.    *)
LEMMA RowsInOrder ==
    ASSUME IInv, Finer, NEW p \in Protocols, NEW j \in DOMAIN nl_rows[p]
    PROVE  /\ nl_rows[p][j] \in Times(p) /\ nl_rows[p][j] \in Nat
           /\ nl_rows[p][j] <= clock
           /\ \A i \in DOMAIN nl_rows[p] : i < j => nl_rows[p][i] < nl_rows[p][j]
<1>1. Row(p, j) \in nl_time[p] /\ Row(p, j).time = nl_rows[p][j] /\ Row(p, j).id = j
  BY DEF Finer, FinerTables, Row
<1>2. nl_rows[p] \in Seq(Nat) /\ \A r \in nl_time[p] : r.time <= clock
  BY DEF IInv, Shapes, TypeOK
<1>3. \A i \in DOMAIN nl_rows[p] : i < j => nl_rows[p][i] < nl_rows[p][j]
  BY <1>1 DEF Finer, FinerTables
<1> QED
  BY <1>1, <1>2, <1>3 DEF Times

(* What Append does to the rows of the protocol at work.                     *)
LEMMA RowAppended ==
    ASSUME IInv, Finer, WriteRows
    PROVE  /\ at_work \in Protocols
           /\ Len(nl_rows'[at_work]) = Len(nl_rows[at_work]) + 1
           /\ DOMAIN nl_rows'[at_work] = 1 .. Len(nl_rows[at_work]) + 1
           /\ nl_rows'[at_work][Len(nl_rows[at_work]) + 1] = clock
           /\ \A j \in DOMAIN nl_rows[at_work] : nl_rows'[at_work][j] = nl_rows[at_work][j]
           /\ \A p \in Protocols : p # at_work => nl_rows'[p] = nl_rows[p]
           /\ \A p \in Protocols : DOMAIN nl_rows[p] \subseteq DOMAIN nl_rows'[p]
<1>1. at_work \in Protocols /\ clock \in Nat
  BY DEF WriteRows, IInv, Shapes, TypeOK
<1>2. nl_rows \in [Protocols -> Seq(Nat)]
      /\ nl_rows' = [nl_rows EXCEPT ![at_work] = Append(@, clock)]
  BY DEF WriteRows, IInv, Shapes
<1>3. nl_rows[at_work] \in Seq(Nat) /\ nl_rows'[at_work] = Append(nl_rows[at_work], clock)
  BY <1>1, <1>2
<1>4. /\ Len(Append(nl_rows[at_work], clock)) = Len(nl_rows[at_work]) + 1
      /\ DOMAIN Append(nl_rows[at_work], clock) = 1 .. Len(nl_rows[at_work]) + 1
      /\ Append(nl_rows[at_work], clock)[Len(nl_rows[at_work]) + 1] = clock
      /\ \A j \in DOMAIN nl_rows[at_work] :
            Append(nl_rows[at_work], clock)[j] = nl_rows[at_work][j]
      /\ DOMAIN nl_rows[at_work] = 1 .. Len(nl_rows[at_work])
      /\ Len(nl_rows[at_work]) \in Nat
  BY <1>1, <1>3
<1>5. at_work' = Nobody
  BY DEF WriteRows
<1>6. \A p \in Protocols : p # at_work => nl_rows'[p] = nl_rows[p]
  BY <1>2
<1>7. 1 .. Len(nl_rows[at_work]) \subseteq 1 .. Len(nl_rows[at_work]) + 1
  BY <1>4
<1> QED
  BY <1>1, <1>3, <1>4, <1>6, <1>7

(* The finer tables are empty at first.                                      *)
LEMMA InitFiner == Init => Finer
<1> SUFFICES ASSUME Init PROVE Finer
  OBVIOUS
<1>1. FinerTables
  BY DEF Init, FinerTables
<1>2. WriterState
  BY CronovanieAssumption DEF Init, WriterState
<1> QED
  BY <1>1, <1>2 DEF Finer

(* A new stamp is later than all others and has the id of the row to come.   *)
LEMMA WriteTimeFiner ==
    ASSUME IInv, Finer, NEW p \in Protocols, WriteTime(p)
    PROVE  Finer'
<1> DEFINE n == Len(nl_rows[p]) + 1
           new == [time |-> clock, id |-> n]
<1>1. /\ nl_time' = [nl_time EXCEPT ![p] = @ \cup {new}]
      /\ nl_rows' = nl_rows /\ clock' = clock
      /\ at_work = Nobody /\ at_work' = p /\ to_write' = to_write \ {p} /\ p \in to_write
  BY DEF WriteTime, program
<1>2. /\ nl_time \in [Protocols -> SUBSET [time : Nat, id : Nat \ {0}]]
      /\ nl_rows[p] \in Seq(Nat) /\ DOMAIN nl_rows[p] = 1 .. Len(nl_rows[p])
      /\ Len(nl_rows[p]) \in Nat /\ clock \in Nat
  BY DEF IInv, Shapes
<1>3. new.time = clock /\ new.id = n
  OBVIOUS
<1> HIDE DEF new
<1>4. /\ \A q \in Protocols : q # p => nl_time'[q] = nl_time[q]
      /\ nl_time'[p] = nl_time[p] \cup {new}
  BY <1>1, <1>2
<1>5. \A r \in nl_time[p] : r.time < clock
  BY <1>1 DEF Finer, WriterState
<1>6. \A j \in DOMAIN nl_rows[p] : nl_rows[p][j] < clock /\ j < n
  <2>1. SUFFICES ASSUME NEW j \in DOMAIN nl_rows[p] PROVE nl_rows[p][j] < clock /\ j < n
    OBVIOUS
  <2>2. Row(p, j) \in nl_time[p] /\ Row(p, j).time = nl_rows[p][j]
    BY DEF Finer, FinerTables, Row
  <2> QED
    BY <1>2, <1>5, <2>2
<1>7. FinerTables'
  <2>1. SUFFICES ASSUME NEW q \in Protocols
                 PROVE  /\ \A r \in nl_time'[q] : r.id \in 1 .. Len(nl_rows[q]) + 1
                        /\ \A r \in nl_time'[q] : \A j \in DOMAIN nl_rows[q] :
                              IF j < r.id THEN nl_rows[q][j] < r.time
                                          ELSE nl_rows[q][j] >= r.time
                        /\ \A j \in DOMAIN nl_rows[q] : Row(q, j) \in nl_time'[q]
                        /\ \A o, r \in nl_time'[q] : o.time = r.time => o = r
    BY <1>1 DEF FinerTables, Row
  <2>2. CASE q # p
    BY <1>4, <2>2 DEF Finer, FinerTables
  <2>3. CASE q = p
    <3>1. \A r \in nl_time'[p] : r.id \in 1 .. Len(nl_rows[p]) + 1
      BY <1>2, <1>3, <1>4 DEF Finer, FinerTables
    <3>2. \A r \in nl_time'[p] : \A j \in DOMAIN nl_rows[p] :
              IF j < r.id THEN nl_rows[p][j] < r.time ELSE nl_rows[p][j] >= r.time
      BY <1>3, <1>4, <1>6 DEF Finer, FinerTables
    <3>3. \A j \in DOMAIN nl_rows[p] : Row(p, j) \in nl_time'[p]
      BY <1>4 DEF Finer, FinerTables
    <3>4. \A o, r \in nl_time'[p] : o.time = r.time => o = r
      BY <1>2, <1>3, <1>4, <1>5 DEF Finer, FinerTables
    <3> QED
      BY <2>3, <3>1, <3>2, <3>3, <3>4
  <2> QED
    BY <2>2, <2>3
<1>8. WriterState'
  <2>1. \A q \in to_write' : \A r \in nl_time'[q] : r.time < clock'
    <3>1. \A q \in to_write' : q \in to_write /\ q # p /\ q \in Protocols
      BY <1>1 DEF IInv, Shapes, TypeOK
    <3> QED
      BY <1>1, <1>4, <3>1 DEF Finer, WriterState
  <2>2. [time |-> clock', id |-> Len(nl_rows'[p]) + 1] \in nl_time'[p]
    BY <1>1, <1>4 DEF new
  <2> QED
    BY <1>1, <2>1, <2>2 DEF WriterState
<1> QED
  BY <1>7, <1>8 DEF Finer

(* A new row has the stamp that was written for it.                          *)
LEMMA WriteRowsFiner ==
    ASSUME IInv, Finer, WriteRows
    PROVE  Finer'
<1> DEFINE p == at_work
           n == Len(nl_rows[p]) + 1
<1>1. /\ nl_time' = nl_time /\ clock' = clock /\ at_work' = Nobody /\ to_write' = to_write
      /\ p # Nobody
  BY DEF WriteRows, program
<1>2. p \in Protocols /\ n \in Nat /\ n > 0 /\ clock \in Nat /\ DOMAIN nl_rows[p] = 1 .. n - 1
  BY RowAppended DEF IInv, Shapes
<1>3. [time |-> clock, id |-> n] \in nl_time[p]
  BY <1>2 DEF Finer, WriterState
<1>4. \A r \in nl_time[p] : r.id \in 1 .. n /\ r.time <= clock /\ r.time \in Nat
  BY <1>2 DEF Finer, FinerTables, IInv, Shapes, TypeOK
<1>5. FinerTables'
  <2>1. SUFFICES ASSUME NEW q \in Protocols
                 PROVE  /\ \A r \in nl_time[q] : r.id \in 1 .. Len(nl_rows'[q]) + 1
                        /\ \A r \in nl_time[q] : \A j \in DOMAIN nl_rows'[q] :
                              IF j < r.id THEN nl_rows'[q][j] < r.time
                                          ELSE nl_rows'[q][j] >= r.time
                        /\ \A j \in DOMAIN nl_rows'[q] :
                              [time |-> nl_rows'[q][j], id |-> j] \in nl_time[q]
                        /\ \A o, r \in nl_time[q] : o.time = r.time => o = r
    BY <1>1 DEF FinerTables, Row
  <2>2. CASE q # p
    BY RowAppended, <2>2 DEF Finer, FinerTables, Row
  <2>3. CASE q = p
    <3>1. /\ Len(nl_rows'[p]) = n /\ DOMAIN nl_rows'[p] = 1 .. n /\ nl_rows'[p][n] = clock
          /\ \A j \in 1 .. n - 1 : nl_rows'[p][j] = nl_rows[p][j]
      BY <1>2, RowAppended
    <3>2. \A j \in DOMAIN nl_rows'[p] : j = n \/ j \in DOMAIN nl_rows[p]
      BY <1>2, <3>1
    <3>3. \A r \in nl_time[p] : r.id \in 1 .. Len(nl_rows'[p]) + 1
      BY <1>2, <1>4, <3>1
    <3>4. \A r \in nl_time[p] : \A j \in DOMAIN nl_rows'[p] :
              IF j < r.id THEN nl_rows'[p][j] < r.time ELSE nl_rows'[p][j] >= r.time
      <4>1. SUFFICES ASSUME NEW r \in nl_time[p], NEW j \in DOMAIN nl_rows'[p]
                     PROVE  IF j < r.id THEN nl_rows'[p][j] < r.time
                                        ELSE nl_rows'[p][j] >= r.time
        OBVIOUS
      <4>2. CASE j = n
        BY <1>2, <1>4, <3>1, <4>2
      <4>3. CASE j \in DOMAIN nl_rows[p]
        <5>1. nl_rows'[p][j] = nl_rows[p][j]
          BY <1>2, <3>1, <4>3
        <5>2. IF j < r.id THEN nl_rows[p][j] < r.time ELSE nl_rows[p][j] >= r.time
          BY <1>2, <4>3 DEF Finer, FinerTables
        <5> QED
          BY <5>1, <5>2
      <4> QED
        BY <3>2, <4>2, <4>3
    <3>5. \A j \in DOMAIN nl_rows'[p] : [time |-> nl_rows'[p][j], id |-> j] \in nl_time[p]
      <4>1. SUFFICES ASSUME NEW j \in DOMAIN nl_rows'[p]
                     PROVE  [time |-> nl_rows'[p][j], id |-> j] \in nl_time[p]
        OBVIOUS
      <4>2. CASE j = n
        BY <1>3, <3>1, <4>2
      <4>3. CASE j \in DOMAIN nl_rows[p]
        BY <1>2, <3>1, <4>3 DEF Finer, FinerTables, Row
      <4> QED
        BY <3>2, <4>2, <4>3
    <3>6. \A o, r \in nl_time[p] : o.time = r.time => o = r
      BY <1>2 DEF Finer, FinerTables
    <3> QED
      BY <2>3, <3>3, <3>4, <3>5, <3>6
  <2> QED
    BY <2>2, <2>3
<1>6. WriterState'
  BY <1>1, CronovanieAssumption DEF Finer, WriterState
<1> QED
  BY <1>5, <1>6 DEF Finer

(* Every step keeps the finer tables in order.                               *)
LEMMA StepFiner == IInv /\ Finer /\ [Next]_vars => Finer'
<1> SUFFICES ASSUME IInv, Finer, [Next]_vars PROVE Finer'
  OBVIOUS
<1>1. ASSUME UNCHANGED <<nl_time, nl_rows, clock, to_write, at_work>> PROVE Finer'
  <2>1. FinerTables'
    BY <1>1 DEF Finer, FinerTables, Row
  <2>2. WriterState'
    BY <1>1 DEF Finer, WriterState
  <2> QED
    BY <2>1, <2>2 DEF Finer
<1>2. ASSUME NEW kind \in level.kinds, Flush(kind) PROVE Finer'
  <2>1. level.step \in Nat \ {0} /\ clock \in Nat /\ kind \subseteq Protocols
    BY CronovanieAssumption DEF IInv, Shapes, LevelRecord
  <2>2. FinerTables'
    BY <1>2 DEF Flush, Finer, FinerTables, Row
  <2>3. clock' > clock
    BY <1>2, <2>1 DEF Flush
  <2>4. \A p \in Protocols : \A r \in nl_time[p] : r.time < clock'
    <3>1. SUFFICES ASSUME NEW p \in Protocols, NEW r \in nl_time[p] PROVE r.time < clock'
      OBVIOUS
    <3>2. r.time \in Nat /\ r.time <= clock
      BY DEF IInv, Shapes, TypeOK
    <3> QED
      BY <1>2, <2>1, <2>3, <3>2 DEF Flush
  <2>5. at_work' = Nobody /\ to_write' = kind /\ nl_time' = nl_time
    BY <1>2 DEF Flush, WriterDone
  <2>6. WriterState'
    BY <2>1, <2>4, <2>5, CronovanieAssumption DEF WriterState
  <2> QED
    BY <2>2, <2>6 DEF Finer
<1>3. ASSUME NEW p \in Protocols, WriteTime(p) PROVE Finer'
  BY <1>3, WriteTimeFiner
<1>4. CASE WriteRows
  BY <1>4, WriteRowsFiner
<1>5. CASE Restart
  <2>1. FinerTables'
    BY <1>5 DEF Restart, database, Finer, FinerTables, Row
  <2>2. WriterState'
    BY <1>5, CronovanieAssumption DEF Restart, WriterState
  <2> QED
    BY <2>1, <2>2 DEF Finer
<1>6. CASE Cron
  BY <1>1, <1>6 DEF Cron, ShowTables, Compare, InsertTime, SelectFrom, SelectTo, SelectMax,
                    Sum, OthersStay, program, writer
<1>7. CASE UNCHANGED vars
  BY <1>1, <1>7 DEF vars, program, writer, database
<1> QED
  BY <1>2, <1>3, <1>4, <1>5, <1>6, <1>7 DEF Next, Quiet

-----------------------------------------------------------------------------
(* The sums and their windows.                                               *)

SumShapes == sums \in [Protocols -> SUBSET [time : Nat, ids : SUBSET Nat]]
Summed == SumShapes /\ SumsOfWindows /\ LatestWindow /\ SumsEnd /\ RangeEnds

(* A thread that goes on with the next protocol has no window begun.         *)
LEMMA ProceedPc ==
    ASSUME NEW locals, Proceed(locals)
    PROVE  cron'.pc \in {"asleep", "test"}
  BY DEF Proceed, Asleep

(* No sums at first.                                                         *)
LEMMA InitSummed == Init => Summed
<1> SUFFICES ASSUME Init PROVE Summed
  OBVIOUS
<1>1. SumShapes /\ SumsOfWindows /\ SumsEnd
  BY DEF Init, SumShapes, SumsOfWindows, SumsEnd
<1>2. LatestWindow /\ RangeEnds
  BY DEF Init, Asleep, LatestWindow, HasBegun, RangeEnds
<1> QED
  BY <1>1, <1>2 DEF Summed

(* What leaves the tables and the sums alone leaves the past alone.          *)
LEMMA PastStays ==
    ASSUME Summed, UNCHANGED <<level, nl_time, nl_rows, mhd_time, sums>>
    PROVE  SumShapes' /\ SumsOfWindows' /\ SumsEnd'
<1>1. SumShapes' /\ SumsOfWindows'
  BY DEF Summed, SumShapes, SumsOfWindows
<1>2. SumsEnd'
  BY DEF Summed, SumsEnd, EndsWithAFlush, Times
<1> QED
  BY <1>1, <1>2

(* A step after which no window is begun has nothing to say of it.           *)
LEMMA NothingBegun ==
    ASSUME cron'.pc \notin {"od", "do", "max", "sum"}
    PROVE  LatestWindow' /\ RangeEnds'
  BY DEF LatestWindow, HasBegun, RangeEnds

(* A new stamp is past all rows, and is the clock.                           *)
LEMMA WriteTimeSummed ==
    ASSUME IInv, Finer, Summed, NEW p \in Protocols, WriteTime(p)
    PROVE  Summed'
<1> DEFINE new == [time |-> clock, id |-> Len(nl_rows[p]) + 1]
<1>1. /\ nl_time' = [nl_time EXCEPT ![p] = @ \cup {new}]
      /\ UNCHANGED <<level, clock, nl_rows, cron, local, IP_id, mhd_time, sums>>
  BY DEF WriteTime, program, thread
<1>2. nl_time \in [Protocols -> SUBSET [time : Nat, id : Nat \ {0}]]
  BY DEF IInv, Shapes
<1>3. new.time = clock
  OBVIOUS
<1> HIDE DEF new
<1>4. \A q \in Protocols : \A s \in Times(q)' : s \in Times(q) \/ s = clock
  BY <1>1, <1>2, <1>3 DEF Times
<1>5. SumShapes' /\ SumsOfWindows'
  BY <1>1 DEF Summed, SumShapes, SumsOfWindows
<1>6. SumsEnd'
  <2>1. SUFFICES ASSUME NEW q \in Protocols, NEW w \in sums[q], NEW id \in w.ids,
                        nl_rows[q][id] > w.time + level.konst
                 PROVE  /\ \A s \in Times(q)' : s <= w.time + level.konst \/ s >= nl_rows[q][id]
                        /\ \A t \in mhd_time[q] : t <= w.time \/ t >= nl_rows[q][id]
    BY <1>1 DEF SumsEnd, EndsWithAFlush
  <2>2. id \in DOMAIN nl_rows[q]
    BY <2>1 DEF Summed, SumsOfWindows
  <2>3. clock >= nl_rows[q][id]
    BY <2>2, RowsInOrder DEF IInv, Shapes
  <2>4. EndsWithAFlush(q, w)
    BY <2>1 DEF Summed, SumsEnd
  <2> QED
    BY <1>4, <2>1, <2>3, <2>4 DEF EndsWithAFlush
<1>7. LatestWindow'
  BY <1>1 DEF Summed, LatestWindow, HasBegun, Protocol, Time
<1>8. RangeEnds'
  <2>1. SUFFICES ASSUME cron.pc = "max" \/ (cron.pc = "sum" /\ IP_id.to # -1),
                        NEW s \in Times(Protocol)'
                 PROVE  s <= Time + level.konst \/ s = clock
    BY <1>1 DEF RangeEnds, Protocol, Time
  <2>2. Protocol \in Protocols /\ Protocol' = Protocol
    BY <1>1, <2>1, AwakeAtProtocol DEF Protocol
  <2>3. s \in Times(Protocol) \/ s = clock
    BY <1>4, <2>1, <2>2 DEF Times
  <2> QED
    BY <2>1, <2>3 DEF Summed, RangeEnds
<1> QED
  BY <1>5, <1>6, <1>7, <1>8 DEF Summed

(* A new row is in no sum.                                                   *)
LEMMA WriteRowsSummed ==
    ASSUME IInv, Finer, Summed, WriteRows
    PROVE  Summed'
<1>1. UNCHANGED <<level, clock, nl_time, cron, local, IP_id, mhd_time, sums>>
  BY DEF WriteRows, program, thread
<1>2. \A q \in Protocols : /\ DOMAIN nl_rows[q] \subseteq DOMAIN nl_rows'[q]
                           /\ \A j \in DOMAIN nl_rows[q] : nl_rows'[q][j] = nl_rows[q][j]
  BY RowAppended
<1>3. SumShapes' /\ SumsOfWindows'
  BY <1>1, <1>2 DEF Summed, SumShapes, SumsOfWindows
<1>4. SumsEnd'
  <2>1. SUFFICES ASSUME NEW q \in Protocols, NEW w \in sums[q], NEW id \in w.ids,
                        nl_rows'[q][id] > w.time + level.konst
                 PROVE  /\ \A s \in Times(q) : s <= w.time + level.konst \/ s >= nl_rows'[q][id]
                        /\ \A t \in mhd_time[q] : t <= w.time \/ t >= nl_rows'[q][id]
    BY <1>1 DEF SumsEnd, EndsWithAFlush, Times
  <2>2. id \in DOMAIN nl_rows[q]
    BY <2>1 DEF Summed, SumsOfWindows
  <2>3. nl_rows'[q][id] = nl_rows[q][id]
    BY <1>2, <2>2
  <2>4. EndsWithAFlush(q, w)
    BY <2>1 DEF Summed, SumsEnd
  <2> QED
    BY <2>1, <2>3, <2>4 DEF EndsWithAFlush
<1>5. LatestWindow'
  BY <1>1 DEF Summed, LatestWindow, HasBegun, Protocol, Time
<1>6. RangeEnds'
  BY <1>1 DEF Summed, RangeEnds, Protocol, Time, Times
<1> QED
  BY <1>3, <1>4, <1>5, <1>6 DEF Summed

(* The new window is later than all others, and no earlier than a row that   *)
(* came too late for the window before.                                      *)
LEMMA InsertTimeSummed ==
    ASSUME IInv, Finer, Summed, InsertTime
    PROVE  Summed'
<1> DEFINE p == Protocol
           b == Begin(p)
<1>1. p \in Protocols /\ p' = p
  BY AwakeAtProtocol DEF InsertTime, GoTo, Protocol, IInv, Shapes
<1>2. /\ b \in Nat /\ mhd_time \in [Protocols -> SUBSET Nat] /\ level.konst \in Nat \ {0}
      /\ \A s \in mhd_time[p] : b >= s + level.konst
  BY <1>1, BeginIsLater, CronovanieAssumption DEF IInv, Shapes, LevelRecord
<1>3. /\ mhd_time' = [mhd_time EXCEPT ![p] = @ \cup {b}]
      /\ local' = [local EXCEPT !["mhd_time"] = b]
      /\ cron' = [cron EXCEPT !.pc = "od"]
      /\ UNCHANGED <<level, clock, nl_time, nl_rows, sums, IP_id>>
  BY DEF InsertTime, GoTo, OthersStay, program
<1>4. cron'.pc = "od" /\ Time' = b
  BY <1>3 DEF IInv, Shapes, TypeOK, Time, Cells
<1>5. /\ \A q \in Protocols : q # p => mhd_time'[q] = mhd_time[q]
      /\ mhd_time'[p] = mhd_time[p] \cup {b}
  BY <1>1, <1>2, <1>3
<1> HIDE DEF b
<1>6. SumShapes' /\ SumsOfWindows'
  BY <1>3, <1>5 DEF Summed, SumShapes, SumsOfWindows
<1>7. LatestWindow'
  <2>1. \A w \in sums[p] : w.time < b
    <3>1. SUFFICES ASSUME NEW w \in sums[p] PROVE w.time < b
      OBVIOUS
    <3>2. w.time \in mhd_time[p]
      BY <1>1 DEF Summed, SumsOfWindows
    <3>3. w.time \in Nat /\ b >= w.time + level.konst
      BY <1>1, <1>2, <3>2
    <3> QED
      BY <1>2, <3>3
  <2>2. \A s \in mhd_time'[p] : s <= b
    <3>1. ASSUME NEW s \in mhd_time[p] PROVE s <= b
      <4>1. s \in Nat /\ b >= s + level.konst
        BY <1>1, <1>2
      <4> QED
        BY <1>2, <4>1
    <3>2. b <= b
      BY <1>2
    <3> QED
      BY <1>5, <3>1, <3>2
  <2> QED
    BY <1>1, <1>3, <1>4, <1>5, <2>1, <2>2 DEF LatestWindow
<1>8. SumsEnd'
  <2>1. SUFFICES ASSUME NEW q \in Protocols, NEW w \in sums[q], NEW id \in w.ids,
                        nl_rows[q][id] > w.time + level.konst
                 PROVE  /\ \A s \in Times(q) : s <= w.time + level.konst \/ s >= nl_rows[q][id]
                        /\ \A t \in mhd_time'[q] : t <= w.time \/ t >= nl_rows[q][id]
    BY <1>3 DEF SumsEnd, EndsWithAFlush, Times
  <2>2. /\ \A s \in Times(q) : s <= w.time + level.konst \/ s >= nl_rows[q][id]
        /\ \A t \in mhd_time[q] : t <= w.time \/ t >= nl_rows[q][id]
    BY <2>1 DEF Summed, SumsEnd, EndsWithAFlush
  <2>3. ASSUME q = p PROVE b >= nl_rows[q][id]
    <3>1. /\ id \in DOMAIN nl_rows[p] /\ w.time \in mhd_time[p] /\ w \in sums[p]
          /\ w.time \in Nat
      BY <1>1, <1>2, <2>1, <2>3 DEF Summed, SumsOfWindows
    <3>2. /\ nl_rows[p][id] \in Times(p) /\ nl_rows[p][id] \in Nat
      BY <1>1, <3>1, RowsInOrder
    <3>3. Max(mhd_time[p]) \in mhd_time[p] /\ Max(mhd_time[p]) >= w.time
      <4>1. PICK m \in mhd_time[p] : \A s \in mhd_time[p] : s <= m
        BY <1>1, <3>1 DEF IInv, HasLatest
      <4>2. \A s \in mhd_time[p] : m >= s
        BY <1>1, <1>2, <4>1
      <4> QED
        BY <3>1, <4>2, GreatestNumber
    <3>4. Max(mhd_time[p]) \in Nat /\ EndOfLast(p) = Max(mhd_time[p]) + level.konst
      BY <1>1, <1>2, <3>3 DEF EndOfLast
    <3>5. CASE Max(mhd_time[p]) >= nl_rows[p][id]
      BY <1>1, <1>2, <2>3, <3>2, <3>3, <3>4, <3>5
    <3>6. CASE Max(mhd_time[p]) <= w.time
      <4>1. Max(mhd_time[p]) = w.time
        BY <3>1, <3>3, <3>4, <3>6
      <4>2. nl_rows[p][id] \in Later(p, EndOfLast(p))
        BY <2>1, <2>3, <3>2, <3>4, <4>1 DEF Later
      <4>3. Min(Later(p, EndOfLast(p))) \in Later(p, EndOfLast(p))
        BY <1>1, <4>2, LeastNumber, TimesAreNumbers
      <4>4. b = Min(Later(p, EndOfLast(p)))
        BY <3>1, <4>2 DEF b, Begin
      <4>5. b \in Times(p) /\ b > w.time + level.konst
        BY <3>4, <4>1, <4>3, <4>4 DEF Later
      <4> QED
        BY <1>2, <2>2, <2>3, <3>1, <4>5
    <3> QED
      BY <2>2, <2>3, <3>2, <3>3, <3>4, <3>5, <3>6
  <2>4. \A t \in mhd_time'[q] : t \in mhd_time[q] \/ (q = p /\ t = b)
    BY <1>5
  <2> QED
    BY <2>2, <2>3, <2>4
<1>9. RangeEnds'
  BY <1>4 DEF RangeEnds
<1> QED
  BY <1>6, <1>7, <1>8, <1>9 DEF Summed

(* The end of the range, in the two statements that find it.                 *)
LEMMA RangeSummed ==
    ASSUME IInv, Summed, SelectFrom \/ SelectTo \/ SelectMax
    PROVE  Summed'
<1>1. /\ UNCHANGED <<level, clock, nl_time, nl_rows, mhd_time, sums, local>>
      /\ cron'.k = cron.k /\ cron'.pc \in {"do", "max", "sum"} /\ Protocol' = Protocol
      /\ HasBegun
  BY DEF SelectFrom, SelectTo, SelectMax, GoTo, OthersStay, program, IInv, Shapes, Protocol,
         HasBegun
<1>2. SumShapes' /\ SumsOfWindows' /\ SumsEnd'
  BY <1>1, PastStays
<1>3. LatestWindow'
  BY <1>1 DEF Summed, LatestWindow, Time
<1>4. RangeEnds'
  <2>1. CASE SelectFrom
    BY <2>1 DEF SelectFrom, GoTo, RangeEnds, IInv, Shapes
  <2>2. CASE SelectTo
    <3> DEFINE beyond == Later(Protocol, Time + level.konst)
    <3>1. CASE beyond = {}
      <4>1. \A s \in Times(Protocol) : s <= Time + level.konst
        <5>1. Protocol \in Protocols /\ Time \in Nat /\ level.konst \in Nat
          BY <2>2, AwakeAtProtocol, CronovanieAssumption
             DEF SelectTo, IInv, Shapes, TypeOK, LevelRecord, Time, Cells
        <5>2. \A s \in Times(Protocol) : ~(s > Time + level.konst) /\ s \in Nat
          BY <3>1, <5>1, TimesAreNumbers DEF Later
        <5> QED
          BY <5>1, <5>2
      <4> QED
        BY <1>1, <4>1 DEF RangeEnds, Time, Times
    <3>2. CASE beyond # {}
      <4>1. IP_id'.to = -1
        BY <2>2, <3>2 DEF SelectTo, IInv, EndUntouched, Time
      <4>2. cron'.pc = "sum"
        BY <2>2, <3>2 DEF SelectTo, GoTo, IInv, Shapes, Time
      <4> QED
        BY <4>1, <4>2 DEF RangeEnds
    <3> QED
      BY <3>1, <3>2
  <2>3. CASE SelectMax
    BY <1>1, <2>3 DEF SelectMax, Summed, RangeEnds, Time, Times
  <2> QED
    BY <2>1, <2>2, <2>3
<1> QED
  BY <1>2, <1>3, <1>4 DEF Summed

(* A sum ends with its window, or with the row of the present flush.         *)
LEMMA SumSummed ==
    ASSUME IInv, Finer, Summed, Sum
    PROVE  Summed'
<1> DEFINE p == Protocol
           ids == (IP_id.from .. IP_id.to) \cap DOMAIN nl_rows[p]
           new == [time |-> Time, ids |-> ids]
<1>1. p \in Protocols /\ HasBegun /\ cron.pc = "sum"
  BY AwakeAtProtocol DEF Sum, HasBegun
<1>2. /\ sums' = [sums EXCEPT ![p] = @ \cup {new}]
      /\ UNCHANGED <<level, clock, nl_time, nl_rows, mhd_time>>
  BY DEF Sum, OthersStay, program, Time
<1>3. Time \in Nat /\ ids \subseteq Nat /\ ids \subseteq DOMAIN nl_rows[p]
  BY <1>1 DEF IInv, Shapes, TypeOK, Time, Cells
<1>4. new \in [time : Nat, ids : SUBSET Nat] /\ new.time = Time /\ new.ids = ids
  BY <1>3
<1> HIDE DEF new
<1>5. sums \in [Protocols -> SUBSET [time : Nat, ids : SUBSET Nat]]
  BY DEF Summed, SumShapes
<1>6. /\ \A q \in Protocols : q # p => sums'[q] = sums[q]
      /\ sums'[p] = sums[p] \cup {new}
  BY <1>1, <1>2, <1>5
<1>7. SumShapes'
  BY <1>1, <1>2, <1>4, <1>5 DEF SumShapes
<1>8. /\ Time \in mhd_time[p] /\ \A s \in mhd_time[p] : s <= Time
      /\ \A w \in sums[p] : w.time < Time /\ w.time \in Nat
  BY <1>1, <1>5 DEF Summed, LatestWindow
<1>9. SumsOfWindows'
  <2>1. SUFFICES ASSUME NEW q \in Protocols
                 PROVE  /\ \A w \in sums'[q] : /\ w.time \in mhd_time[q]
                                               /\ w.ids \subseteq DOMAIN nl_rows[q]
                        /\ \A v, w \in sums'[q] : v.time = w.time => v = w
    BY <1>2 DEF SumsOfWindows
  <2>2. /\ \A w \in sums[q] : w.time \in mhd_time[q] /\ w.ids \subseteq DOMAIN nl_rows[q]
        /\ \A v, w \in sums[q] : v.time = w.time => v = w
    BY DEF Summed, SumsOfWindows
  <2>3. CASE q # p
    BY <1>6, <2>2, <2>3
  <2>4. CASE q = p
    <3>1. \A w \in sums'[p] : w \in sums[p] \/ w = new
      BY <1>6
    <3>2. \A w \in sums[p] : w.time # Time
      BY <1>3, <1>8
    <3> QED
      BY <1>3, <1>4, <1>8, <2>2, <2>4, <3>1, <3>2
  <2> QED
    BY <2>3, <2>4
<1>10. EndsWithAFlush(p, new)
  <2>1. SUFFICES ASSUME NEW id \in ids, nl_rows[p][id] > Time + level.konst
                 PROVE  /\ \A s \in Times(p) : s <= Time + level.konst \/ s >= nl_rows[p][id]
                        /\ \A t \in mhd_time[p] : t <= Time \/ t >= nl_rows[p][id]
    BY <1>4 DEF EndsWithAFlush
  <2>2. IP_id.to # -1
    BY <1>1 DEF IInv, TypeOK
  <2>3. /\ nl_rows[p][id] \in Times(p) /\ nl_rows[p][id] \in Nat /\ level.konst \in Nat
        /\ nl_rows[p][id] <= clock /\ clock \in Nat
    BY <1>1, <1>3, <2>1, RowsInOrder, CronovanieAssumption DEF IInv, Shapes, LevelRecord
  <2>4. \A s \in Times(p) : s <= Time + level.konst \/ s = clock
    BY <1>1, <2>2 DEF Summed, RangeEnds
  <2>5. nl_rows[p][id] = clock
    BY <1>3, <2>1, <2>3, <2>4
  <2> QED
    BY <1>3, <1>8, <2>3, <2>4, <2>5
<1>11. SumsEnd'
  <2>1. \A q \in Protocols : \A w : EndsWithAFlush(q, w)' <=> EndsWithAFlush(q, w)
    BY <1>2 DEF EndsWithAFlush, Times
  <2>2. \A q \in Protocols : \A w \in sums'[q] : EndsWithAFlush(q, w)
    BY <1>6, <1>10 DEF Summed, SumsEnd
  <2> QED
    BY <2>1, <2>2 DEF SumsEnd
<1>12. LatestWindow' /\ RangeEnds'
  BY ProceedPc, NothingBegun DEF Sum
<1> QED
  BY <1>7, <1>9, <1>11, <1>12 DEF Summed

(* Every step keeps what is known of the sums.                               *)
LEMMA StepSummed == IInv /\ Finer /\ Summed /\ [Next]_vars => Summed'
<1> SUFFICES ASSUME IInv, Finer, Summed, [Next]_vars PROVE Summed'
  OBVIOUS
<1>1. ASSUME UNCHANGED <<level, nl_time, nl_rows, mhd_time, sums>>,
             cron'.pc \notin {"od", "do", "max", "sum"}
      PROVE  Summed'
  BY <1>1, PastStays, NothingBegun DEF Summed
<1>2. ASSUME NEW kind \in level.kinds, Flush(kind) PROVE Summed'
  <2>1. cron'.pc \in {"asleep", "show"}
    BY <1>2 DEF Flush, GoTo, IInv, Shapes
  <2> QED
    BY <1>1, <1>2, <2>1 DEF Flush
<1>3. ASSUME NEW p \in Protocols, WriteTime(p) PROVE Summed'
  BY <1>3, WriteTimeSummed
<1>4. CASE WriteRows
  BY <1>4, WriteRowsSummed
<1>5. CASE Restart
  BY <1>1, <1>5 DEF Restart, Asleep, database
<1>6. CASE ShowTables
  BY <1>1, <1>6, ProceedPc DEF ShowTables, OthersStay, program
<1>7. CASE Compare
  <2>1. cron'.pc \in {"asleep", "test", "time"}
    BY <1>7, ProceedPc DEF Compare, GoTo, IInv, Shapes
  <2> QED
    BY <1>1, <1>7, <2>1 DEF Compare, OthersStay, program
<1>8. CASE InsertTime
  BY <1>8, InsertTimeSummed
<1>9. CASE SelectFrom \/ SelectTo \/ SelectMax
  BY <1>9, RangeSummed
<1>10. CASE Sum
  BY <1>10, SumSummed
<1>11. CASE UNCHANGED vars
  <2>1. UNCHANGED <<level, clock, nl_time, nl_rows, mhd_time, sums, cron, local, IP_id>>
    BY <1>11 DEF vars, program, thread, database
  <2> QED
    BY <2>1, PastStays DEF Summed, LatestWindow, RangeEnds, HasBegun, Protocol, Time, Times
<1> QED
  BY <1>2, <1>3, <1>4, <1>5, <1>6, <1>7, <1>8, <1>9, <1>10, <1>11 DEF Next, Cron, Quiet

-----------------------------------------------------------------------------
(* When no flush misses a protocol.                                          *)

(* Multiples: a number more is one step more.                                *)
LEMMA Multiples ==
    ASSUME NEW s \in Nat, NEW i \in Int
    PROVE  /\ i * s \in Int
           /\ (i + 1) * s = i * s + s
           /\ i \in Nat => i * s \in Nat
           /\ \A j \in Int : (j + i) * s = j * s + i * s
           /\ \A j \in Int : i <= j => i * s <= j * s
           /\ \A j \in Int : i < j => i * s + s <= j * s
<1>1. \A c \in Int : c * s \in Int /\ (c + 1) * s = c * s + s
  OBVIOUS
<1>2. \A c \in Nat : c * s \in Nat
  OBVIOUS
<1>3. \A j, c \in Int : j = c + i => j * s = c * s + i * s
  OBVIOUS
<1>4. ASSUME NEW j \in Int, i <= j PROVE i * s <= j * s
  <2> DEFINE c == j - i
  <2>1. c \in Nat /\ j = c + i
    BY <1>4
  <2> HIDE DEF c
  <2>2. c * s \in Nat /\ j * s = c * s + i * s
    BY <1>2, <1>3, <2>1
  <2> QED
    BY <1>1, <2>2
<1>5. ASSUME NEW j \in Int, i < j PROVE i * s + s <= j * s
  <2> DEFINE c == j - (i + 1)
             e == i + 1
  <2>1. c \in Nat /\ j = c + e /\ e \in Int
    BY <1>5
  <2>2. \A d \in Int : d = c + e => d * s = c * s + e * s
    BY <2>1
  <2>3. e * s = i * s + s
    BY <1>1
  <2> HIDE DEF c, e
  <2>4. c * s \in Nat /\ j * s = c * s + e * s
    BY <1>2, <2>1, <2>2
  <2> QED
    BY <1>1, <2>3, <2>4
<1>6. \A j \in Int : (j + i) * s = j * s + i * s
  OBVIOUS
<1> QED
  BY <1>1, <1>2, <1>4, <1>5, <1>6

(* The remainder is what is left of a number without the multiple in it.     *)
LEMMA Remainder ==
    ASSUME NEW g \in Nat \ {0}, NEW m \in Int, NEW c \in Int, NEW r \in 0 .. g - 1,
           m = g * c + r
    PROVE  m % g = r
  OBVIOUS

(* Counting on by one, the remainder grows by one or starts again.           *)
LEMMA NextRemainder ==
    ASSUME NEW n \in Nat, NEW g \in Nat \ {0}
    PROVE  /\ n % g \in 0 .. g - 1
           /\ (n + 1) % g = IF n % g = g - 1 THEN 0 ELSE (n % g) + 1
<1> DEFINE r == n % g
           m == n + 1
<1>1. r \in 0 .. g - 1
  OBVIOUS
<1>2. PICK q \in Int : n - r = g * q
  OBVIOUS
<1> HIDE DEF r
<1>3. CASE r = g - 1
  <2> DEFINE c == q + 1
  <2>1. m \in Int /\ c \in Int /\ m = g * c + 0 /\ 0 \in 0 .. g - 1
    BY <1>1, <1>2, <1>3
  <2> HIDE DEF m, c
  <2>2. m % g = 0
    BY <2>1, Remainder
  <2> QED
    BY <1>1, <1>3, <2>2 DEF r, m
<1>4. CASE r # g - 1
  <2> DEFINE e == r + 1
  <2>1. m \in Int /\ e \in 0 .. g - 1 /\ m = g * q + e
    BY <1>1, <1>2, <1>4
  <2> HIDE DEF m, e
  <2>2. m % g = e
    BY <2>1, Remainder
  <2> QED
    BY <1>1, <1>4, <2>2 DEF r, m, e
<1> QED
  BY <1>3, <1>4

(* The bounds of a level, of Everyone and of the premise.                    *)
LEMMA LevelBounds ==
    ASSUME IInv
    PROVE  /\ level.step \in Nat \ {0} /\ level.group \in Nat \ {0}
           /\ level.konst \in Nat \ {0} /\ level.margin \in Nat
           /\ level.margin <= level.konst
           /\ level.group * level.step \in Nat
           /\ (level.group - 1) * level.step \in Nat
           /\ (level.group - 1) * level.step + level.step = level.group * level.step
           /\ (level.group - 1) * level.step <= level.konst
           /\ level.konst < level.group * level.step
           /\ level.raced => level.margin = level.konst
           /\ NoWindowPastTheStamps => level.margin = level.konst \/ Everyone
           /\ clock \in Nat
<1>1. LevelRecord(level) /\ clock \in Nat
  BY CronovanieAssumption DEF IInv, Shapes
<1>2. level.step \in Nat \ {0} /\ level.group \in Nat \ {0}
  BY <1>1 DEF LevelRecord
<1>3. \A s, g \in Nat \ {0} : g * s \in Nat /\ (g - 1) * s \in Nat /\ (g - 1) * s + s = g * s
  OBVIOUS
<1>4. NoWindowPastTheStamps => level.margin = level.konst \/ Everyone
  BY <1>1 DEF NoWindowPastTheStamps, Everyone, LevelRecord
<1> QED
  BY <1>1, <1>2, <1>3, <1>4 DEF LevelRecord

(* The rows of a protocol without stamps.                                    *)
LEMMA NoStampsNoRows ==
    ASSUME IInv, Finer, Summed, NEW p \in Protocols, Times(p) = {}
    PROVE  DOMAIN nl_rows[p] = {} /\ Fresh(p)
<1>1. DOMAIN nl_rows[p] = {}
  BY RowsInOrder
<1>2. nl_time[p] = {}
  BY DEF Times
<1>3. \A w \in sums[p] : w.ids = {}
  BY <1>1 DEF Summed, SumsOfWindows
<1> QED
  BY <1>1, <1>2, <1>3 DEF Fresh

(* The next protocol has been reached, and those after it not, when all have *)
(* tables.                                                                   *)
LEMMA ProceedReaches ==
    ASSUME IInv, NEW locals, Proceed(locals), cron.pc # "asleep"
    PROVE  /\ \A p \in Protocols : Unreached(p)' =>
                  \E n \in DOMAIN ProtocolList : ProtocolList[n] = p /\ n > cron.k
           /\ cron'.pc \in {"asleep", "show"} => cron'.k = 0
<1>1. cron.k \in Nat /\ DOMAIN ProtocolList \subseteq Nat
  BY CronovanieAssumption DEF IInv, Shapes
<1>2. CASE After(cron.k) = {}
  BY <1>2 DEF Proceed, Asleep, Unreached
<1>3. CASE After(cron.k) # {}
  <2>1. After(cron.k) \subseteq Nat
    BY <1>1 DEF After
  <2>2. Min(After(cron.k)) \in After(cron.k)
    BY <1>3, <2>1, LeastNumber
  <2>3. cron' = [pc |-> "test", k |-> Min(After(cron.k))]
    BY <1>3 DEF Proceed
  <2>4. cron'.k \in Nat /\ cron'.k > cron.k /\ cron'.pc = "test"
    BY <2>1, <2>2, <2>3 DEF After
  <2>5. \A n \in DOMAIN ProtocolList : n > cron'.k \/ n = cron'.k => n > cron.k
    BY <1>1, <2>4
  <2> QED
    BY <2>4, <2>5 DEF Unreached
<1> QED
  BY <1>2, <1>3
Regular == Turns /\ WindowsArePast

(* Nothing has begun.                                                        *)
LEMMA InitRegular == Init => Regular
<1> SUFFICES ASSUME Init PROVE Regular
  OBVIOUS
<1>1. Turns
  BY DEF Init, Turns, Asleep
<1>2. WindowsArePast
  BY DEF Init, WindowsArePast
<1> QED
  BY <1>1, <1>2 DEF Regular

(* What a thread's windows are due by depends on whether it has been there.  *)
LEMMA PastAnyway ==
    ASSUME IInv, Regular, Everyone, NEW p \in Protocols, NEW m \in mhd_time[p]
    PROVE  /\ m \in Nat /\ m <= clock
           /\ Unreached(p) => m + level.konst < clock
           /\ ~Unreached(p) => m + SinceThread * level.step <= clock
<1>1. m \in Nat /\ interval \in Nat
  BY DEF IInv, Shapes, Regular, Turns
<1>2. SinceThread \in Nat
  BY <1>1, LevelBounds, NextRemainder DEF SinceThread
<1>3. SinceThread * level.step \in Nat
  BY <1>2, LevelBounds
<1>4. IF Unreached(p) THEN m + level.group * level.step <= clock
                      ELSE m + SinceThread * level.step <= clock
  BY DEF Regular, WindowsArePast
<1> QED
  BY <1>1, <1>3, <1>4, LevelBounds

(* A flush takes the windows one step further into the past.                 *)
LEMMA FlushRegular ==
    ASSUME IInv, Regular, NEW kind \in level.kinds, Flush(kind)
    PROVE  Regular'
<1> DEFINE g == level.group
           n == interval
<1>1. /\ level' = level /\ restarts' = restarts /\ clock' = clock + level.step /\ interval' = n + 1
      /\ tables' = tables \cup kind /\ to_write' = kind /\ mhd_time' = mhd_time
      /\ cron.pc = "asleep" /\ cron'.pc \in {"asleep", "show"} /\ cron'.k = cron.k
      /\ cron'.pc = "show" <=> Wakes(n + 1)
  BY DEF Flush, GoTo, IInv, Shapes
<1>2. n \in Nat /\ g \in Nat \ {0} /\ level.step \in Nat /\ clock \in Nat
  BY LevelBounds DEF Regular, Turns
<1>3. /\ n % g \in 0 .. g - 1
      /\ (n + 1) % g = IF n % g = g - 1 THEN 0 ELSE (n % g) + 1
  BY <1>2, NextRemainder
<1>4. SinceThread = n % g /\ SinceThread' = (n + 1) % g
  BY <1>1 DEF SinceThread
<1>5. Everyone' = Everyone
  BY <1>1 DEF Everyone
<1>6. Turns'
  <2>1. Everyone => kind = Protocols
    BY DEF Everyone
  <2>2. ~level.raced /\ Wakes(n + 1) => (n + 1) % g = 0
    BY DEF Wakes
  <2> QED
    BY <1>1, <1>2, <1>4, <1>5, <2>1, <2>2 DEF Regular, Turns, Everyone
<1>7. WindowsArePast'
  <2>1. SUFFICES ASSUME Everyone, NEW p \in Protocols, NEW m \in mhd_time[p]
                 PROVE  IF Unreached(p)' THEN m + g * level.step <= clock + level.step
                        ELSE m + ((n + 1) % g) * level.step <= clock + level.step
    BY <1>1, <1>4, <1>5 DEF WindowsArePast
  <2>2. ~Unreached(p) /\ m \in Nat
    BY <1>1 DEF Unreached, IInv, Shapes
  <2>3. m + (n % g) * level.step <= clock
    BY <1>4, <2>1, <2>2 DEF Regular, WindowsArePast
  <2>4. CASE n % g = g - 1
    <3>1. (g - 1) * level.step + level.step = g * level.step
      BY LevelBounds
    <3>2. m + g * level.step <= clock + level.step
      BY <1>2, <1>3, <2>2, <2>3, <2>4, <3>1, LevelBounds
    <3>3. 0 * level.step = 0 /\ g * level.step \in Nat /\ (n + 1) % g = 0
      BY <1>2, <1>3, <2>4, LevelBounds
    <3>4. m + 0 * level.step <= clock + level.step
      BY <1>2, <2>2, <3>2, <3>3
    <3> QED
      BY <3>2, <3>3, <3>4
  <2>5. CASE n % g # g - 1
    <3>1. (n + 1) % g = (n % g) + 1
      BY <1>3, <2>5
    <3>2. (n + 1) % g # 0
      BY <1>3, <3>1
    <3>3. ~Unreached(p)'
      <4>1. ~level.raced
        BY <2>1 DEF Everyone
      <4>2. ~Wakes(n + 1)
        BY <3>2, <4>1 DEF Wakes
      <4> QED
        BY <1>1, <4>2 DEF Unreached
    <3> DEFINE a == n % g
    <3>4. a \in Nat /\ m + a * level.step <= clock /\ (n + 1) % g = a + 1
      BY <1>2, <1>3, <2>3, <3>1
    <3> HIDE DEF a
    <3>5. (a + 1) * level.step = a * level.step + level.step /\ a * level.step \in Nat
      <4>1. a \in Int /\ level.step \in Nat
        BY <1>2, <3>4
      <4> QED
        BY <3>4, <4>1, Multiples
    <3>6. m + (a + 1) * level.step <= clock + level.step
      BY <1>2, <2>2, <3>4, <3>5
    <3> QED
      BY <3>3, <3>4, <3>6
  <2> QED
    BY <2>4, <2>5
<1> QED
  BY <1>6, <1>7 DEF Regular

(* A protocol's stamps and windows stay, and a thread reaches no protocol    *)
(* twice.                                                                    *)
LEMMA ThreadRegular ==
    ASSUME IInv, Regular, OthersStay, cron.pc # "asleep",
           cron'.pc \in {"asleep", "show"} => cron'.k = 0,
           cron'.pc \notin {"asleep", "show"} /\ Everyone => WriterDone,
           \A p \in Protocols : Unreached(p)' => Unreached(p),
           Everyone => \A p \in Protocols : \A m \in mhd_time'[p] :
               m \in mhd_time[p] \/ (m \in 0 .. clock /\ ~Unreached(p)')
    PROVE  Regular'
<1>1. UNCHANGED <<level, restarts, clock, interval, to_write, at_work, tables, nl_time>>
  BY DEF OthersStay, program, writer
<1>2. Everyone' = Everyone /\ SinceThread' = SinceThread /\ WriterDone' = WriterDone
  BY <1>1 DEF Everyone, SinceThread, WriterDone
<1>3. Turns'
  <2>1. \A p \in Protocols : clock \in Times(p) <=> clock' \in Times(p)'
    BY <1>1 DEF Times
  <2> QED
    BY <1>1, <1>2, <2>1 DEF Regular, Turns
<1>4. WindowsArePast'
  <2>1. SUFFICES ASSUME Everyone, NEW p \in Protocols, NEW m \in mhd_time'[p]
                 PROVE  IF Unreached(p)' THEN m + level.group * level.step <= clock
                        ELSE m + SinceThread * level.step <= clock
    BY <1>1, <1>2 DEF WindowsArePast
  <2>2. SinceThread * level.step = 0
    <3>1. SinceThread = 0
      BY <2>1 DEF Regular, Turns
    <3> QED
      BY <3>1, LevelBounds
  <2>3. CASE m \in mhd_time[p]
    <3>1. m \in Nat /\ m <= clock
      BY <2>1, <2>3, PastAnyway
    <3>2. Unreached(p) => m + level.group * level.step <= clock
      BY <2>1, <2>3 DEF Regular, WindowsArePast
    <3> QED
      BY <2>2, <3>1, <3>2
  <2>4. CASE m \notin mhd_time[p]
    <3>1. m \in 0 .. clock /\ ~Unreached(p)'
      BY <2>1, <2>4
    <3> QED
      BY <2>2, <3>1, LevelBounds
  <2> QED
    BY <2>3, <2>4
<1> QED
  BY <1>3, <1>4 DEF Regular

(* The latest window of a protocol that has one.                             *)
LEMMA LastWindow ==
    ASSUME IInv, NEW p \in Protocols, mhd_time[p] # {}
    PROVE  /\ Max(mhd_time[p]) \in mhd_time[p] /\ Max(mhd_time[p]) \in Nat
           /\ \A s \in mhd_time[p] : s \in Nat /\ s <= Max(mhd_time[p])
<1>1. mhd_time[p] \subseteq Nat
  BY DEF IInv, Shapes
<1>2. PICK m \in mhd_time[p] : \A s \in mhd_time[p] : s <= m
  BY DEF IInv, HasLatest
<1>3. \A s \in mhd_time[p] : m >= s
  BY <1>1, <1>2
<1>4. Max(mhd_time[p]) \in mhd_time[p] /\ \A s \in mhd_time[p] : Max(mhd_time[p]) >= s
  BY <1>3, GreatestNumber
<1> QED
  BY <1>1, <1>4

(* The latest stamp of a protocol that has one.                              *)
LEMMA LastStamp ==
    ASSUME IInv, NEW p \in Protocols, Times(p) # {}
    PROVE  /\ Max(Times(p)) \in Times(p) /\ Max(Times(p)) \in Nat
           /\ \A s \in Times(p) : s \in Nat /\ s <= Max(Times(p)) /\ s <= clock
<1>1. Times(p) \subseteq Nat /\ \A s \in Times(p) : s <= clock
  BY TimesAreNumbers DEF IInv, TypeOK, Times
<1>2. clock \in Nat
  BY DEF IInv, Shapes
<1>3. Max(Times(p)) \in Times(p) /\ \A s \in Times(p) : s <= Max(Times(p))
  BY <1>1, <1>2, BoundedHasMax
<1> QED
  BY <1>1, <1>3

(* The first of the stamps after a time.                                     *)
LEMMA FirstLater ==
    ASSUME IInv, NEW p \in Protocols, NEW t \in Int
    PROVE  /\ \A s : s \in Later(p, t) <=> s \in Times(p) /\ s > t
           /\ Later(p, t) # {} =>
                 /\ Min(Later(p, t)) \in Times(p) /\ Min(Later(p, t)) \in Nat
                 /\ Min(Later(p, t)) > t
                 /\ \A s \in Times(p) : s > t => Min(Later(p, t)) <= s
<1>1. \A s : s \in Later(p, t) <=> s \in Times(p) /\ s > t
  BY DEF Later
<1>2. Later(p, t) \subseteq Nat
  BY TimesAreNumbers
<1>3. Later(p, t) # {} => /\ Min(Later(p, t)) \in Later(p, t)
                          /\ \A s \in Later(p, t) : Min(Later(p, t)) <= s
  BY <1>2, LeastNumber
<1> QED
  BY <1>1, <1>2, <1>3

(* A thread that goes on with the same protocol.                             *)
LEMMA GoToReaches ==
    ASSUME IInv, NEW pc \in Pcs \ {"asleep", "show"}, GoTo(pc), cron.pc \notin {"asleep", "show"}
    PROVE  /\ cron'.k = cron.k /\ cron'.pc = pc /\ Protocol' = Protocol
           /\ Protocol \in Protocols
           /\ \A p \in Protocols : p # Protocol => (Unreached(p)' <=> Unreached(p))
           /\ \A p \in Protocols : p = Protocol =>
                 /\ Unreached(p)' <=> pc \in {"test", "time"}
                 /\ Unreached(p) <=> cron.pc \in {"test", "time"}
<1>1. cron'.k = cron.k /\ cron'.pc = pc
  BY DEF GoTo, IInv, Shapes
<1>2. Protocol' = Protocol /\ Protocol \in Protocols
  BY <1>1, AwakeAtProtocol DEF Protocol
<1>3. /\ \A n \in DOMAIN ProtocolList : ProtocolList[n] = Protocol <=> n = cron.k
      /\ cron.k \in DOMAIN ProtocolList
  BY CronovanieAssumption DEF IInv, AtProtocol, Protocol
<1>4. \A n \in DOMAIN ProtocolList : n \in Nat
  BY CronovanieAssumption
<1>5. ~(cron.k > cron.k)
  BY <1>3, <1>4
<1>6. \A p \in Protocols : p # Protocol => (Unreached(p)' <=> Unreached(p))
  BY <1>1, <1>3 DEF Unreached
<1>7. ASSUME NEW p \in Protocols, p = Protocol
      PROVE  /\ Unreached(p)' <=> pc \in {"test", "time"}
             /\ Unreached(p) <=> cron.pc \in {"test", "time"}
  BY <1>1, <1>3, <1>5, <1>7 DEF Unreached
<1> QED
  BY <1>1, <1>2, <1>6, <1>7

(* When every protocol has been seen, no window begins ahead of the clock.   *)
LEMMA BeginIsPast ==
    ASSUME IInv, Regular, Everyone, cron.pc = "time"
    PROVE  /\ Begin(Protocol) \in 0 .. clock
           /\ clock \in Times(Protocol)
<1> DEFINE p == Protocol
<1>1. p \in Protocols /\ Unreached(p)
  BY AwakeAtProtocol DEF IInv, AtProtocol, Protocol, Unreached
<1>2. clock \in Times(p) /\ clock \in Nat /\ level.konst \in Nat
  BY <1>1, LevelBounds DEF Regular, Turns, WriterDone
<1> HIDE DEF p
<1>3. CASE mhd_time[p] = {}
  <2>1. Min(Times(p)) \in Times(p)
    BY <1>1, <1>2, LeastNumber, TimesAreNumbers
  <2>2. Times(p) # {} /\ \A s \in Times(p) : s \in 0 .. clock
    <3>1. Times(p) # {}
      BY <1>2
    <3>2. \A s \in Times(p) : s \in Nat /\ s <= clock
      BY <1>1, <3>1, LastStamp
    <3> QED
      BY <1>2, <3>1, <3>2
  <2> QED
    BY <1>2, <1>3, <2>1, <2>2 DEF Begin, p
<1>4. CASE mhd_time[p] # {}
  <2>1. Max(mhd_time[p]) \in mhd_time[p] /\ Max(mhd_time[p]) \in Nat
    BY <1>1, <1>4, LastWindow
  <2>2. Max(mhd_time[p]) + level.konst < clock
    BY <1>1, <2>1, PastAnyway
  <2>3. EndOfLast(p) \in 0 .. clock
    BY <1>2, <2>1, <2>2 DEF EndOfLast
  <2>4. CASE Later(p, EndOfLast(p)) = {}
    BY <1>2, <1>4, <2>3, <2>4 DEF Begin, p
  <2>5. CASE Later(p, EndOfLast(p)) # {}
    <3>1. Min(Later(p, EndOfLast(p))) \in Times(p)
      BY <1>1, <2>3, <2>5, FirstLater
    <3>2. Min(Later(p, EndOfLast(p))) \in 0 .. clock
      <4>1. \A s \in Times(p) : s \in Nat /\ s <= clock
        BY <1>1, <3>1, LastStamp
      <4>2. Min(Later(p, EndOfLast(p))) \in Nat /\ Min(Later(p, EndOfLast(p))) <= clock
        BY <3>1, <4>1
      <4> QED
        BY <1>2, <4>2
    <3> QED
      BY <1>2, <1>4, <2>5, <3>2 DEF Begin, p
  <2> QED
    BY <2>4, <2>5
<1> QED
  BY <1>2, <1>3, <1>4 DEF p

(* Every step keeps the turns.                                               *)
LEMMA StepRegular == IInv /\ Regular /\ [Next]_vars => Regular'
<1> SUFFICES ASSUME IInv, Regular, [Next]_vars PROVE Regular'
  OBVIOUS
<1>1. ASSUME NEW kind \in level.kinds, Flush(kind) PROVE Regular'
  BY <1>1, FlushRegular
<1>2. ASSUME UNCHANGED <<level, restarts, clock, interval, tables, cron, mhd_time>>,
             Everyone => /\ WriterDone => WriterDone'
                         /\ \A p \in Protocols : /\ Times(p) \subseteq Times(p)'
                                                 /\ p \in to_write => \/ p \in to_write'
                                                                      \/ clock \in Times(p)'
      PROVE  Regular'
  <2>1. Everyone' = Everyone /\ SinceThread' = SinceThread
        /\ \A p \in Protocols : Unreached(p)' <=> Unreached(p)
    BY <1>2 DEF Everyone, SinceThread, Unreached
  <2>2. Turns'
    BY <1>2, <2>1 DEF Regular, Turns
  <2>3. WindowsArePast'
    BY <1>2, <2>1 DEF Regular, WindowsArePast
  <2> QED
    BY <2>2, <2>3 DEF Regular
<1>3. ASSUME NEW p \in Protocols, WriteTime(p) PROVE Regular'
  <2> DEFINE new == [time |-> clock, id |-> Len(nl_rows[p]) + 1]
  <2>1. /\ nl_time \in [Protocols -> SUBSET [time : Nat, id : Nat \ {0}]]
        /\ nl_time' = [nl_time EXCEPT ![p] = @ \cup {new}]
        /\ new.time = clock
        /\ UNCHANGED <<level, restarts, clock, interval, tables, cron, mhd_time>>
        /\ to_write' = to_write \ {p} /\ p \in to_write
    BY <1>3 DEF WriteTime, IInv, Shapes, program, thread
  <2> HIDE DEF new
  <2>2. new \in nl_time'[p] /\ \A q \in Protocols : nl_time[q] \subseteq nl_time'[q]
    BY <2>1
  <2>3. \A q \in Protocols : Times(q) \subseteq Times(q)' /\ clock \in Times(p)'
    BY <2>1, <2>2 DEF Times
  <2>4. ~WriterDone
    BY <2>1 DEF WriterDone
  <2> QED
    BY <1>2, <2>1, <2>3, <2>4
<1>4. CASE WriteRows
  <2>1. \A q \in Protocols : Times(q)' = Times(q)
    BY <1>4 DEF WriteRows, Times
  <2> QED
    BY <1>2, <1>4, <2>1 DEF WriteRows, WriterDone, program, thread
<1>5. CASE Restart
  <2>1. /\ UNCHANGED <<level, clock, mhd_time>> /\ interval' = 0
        /\ restarts' = restarts + 1
        /\ cron'.pc = "asleep" /\ cron'.k = 0
    BY <1>5 DEF Restart, database, Asleep
  <2>2. Turns'
    BY <2>1 DEF Regular, Turns
  <2>3. SinceThread' = 0
    <3>1. \A g \in Nat \ {0} : 0 % g = 0
      OBVIOUS
    <3> QED
      BY <2>1, <3>1, LevelBounds DEF SinceThread
  <2>4. 0 * level.step = 0
    BY LevelBounds
  <2>5. \A p \in Protocols : ~Unreached(p)'
    BY <2>1 DEF Unreached
  <2>6. Everyone' = Everyone
    BY <2>1 DEF Everyone
  <2>7. WindowsArePast'
    <3>1. SUFFICES ASSUME Everyone, NEW p \in Protocols, NEW m \in mhd_time[p]
                   PROVE  m + SinceThread' * level.step <= clock
      BY <2>1, <2>5, <2>6 DEF WindowsArePast
    <3>2. m \in Nat /\ m <= clock
      BY <3>1, PastAnyway
    <3> QED
      BY <2>3, <2>4, <3>2
  <2> QED
    BY <2>2, <2>7 DEF Regular
<1>6. ASSUME NEW locals, Proceed(locals), OthersStay, cron.pc # "asleep", mhd_time' = mhd_time,
             Everyone => WriterDone
      PROVE  Regular'
  <2>1. \A p \in Protocols : Unreached(p)' => Unreached(p)
    BY <1>6, ProceedReaches DEF Unreached
  <2> QED
    BY <1>6, <2>1, ProceedReaches, ThreadRegular
<1>7. ASSUME NEW pc \in Pcs \ {"asleep", "show", "test"}, GoTo(pc), OthersStay,
             cron.pc \notin {"asleep", "show"}, cron.pc = "test" \/ pc # "time",
             mhd_time' = mhd_time
      PROVE  Regular'
  <2>1. \A p \in Protocols : Unreached(p)' => Unreached(p)
    BY <1>7, GoToReaches
  <2>2. Everyone => WriterDone
    BY <1>7 DEF Regular, Turns
  <2> QED
    BY <1>7, <2>1, <2>2, GoToReaches, ThreadRegular
<1>8. CASE ShowTables
  BY <1>6, <1>8 DEF ShowTables, Everyone
<1>9. CASE Compare
  <2>1. Everyone => WriterDone
    BY <1>9 DEF Compare, Regular, Turns
  <2>2. CASE Proceed(LocalsAfterTest)
    BY <1>6, <1>9, <2>1, <2>2 DEF Compare
  <2>3. CASE GoTo("time")
    BY <1>7, <1>9, <2>3 DEF Compare, Pcs
  <2> QED
    BY <1>9, <2>2, <2>3 DEF Compare
<1>10. CASE InsertTime
  <2>1. /\ GoTo("od") /\ OthersStay /\ cron.pc = "time"
        /\ mhd_time' = [mhd_time EXCEPT ![Protocol] = @ \cup {Begin(Protocol)}]
    BY <1>10 DEF InsertTime
  <2>2. /\ cron'.pc = "od" /\ Protocol \in Protocols
        /\ \A p \in Protocols : p = Protocol => ~Unreached(p)'
        /\ \A p \in Protocols : Unreached(p)' => Unreached(p)
    BY <2>1, GoToReaches DEF Pcs
  <2>3. Everyone => WriterDone
    BY <2>1 DEF Regular, Turns
  <2>4. \A p \in Protocols : \A m \in mhd_time'[p] :
            m \in mhd_time[p] \/ (p = Protocol /\ m = Begin(p))
    BY <2>1, <2>2 DEF IInv, Shapes
  <2>5. Everyone => Begin(Protocol) \in 0 .. clock
    BY <2>1, BeginIsPast
  <2>6. Everyone => \A p \in Protocols : \A m \in mhd_time'[p] :
            m \in mhd_time[p] \/ (m \in 0 .. clock /\ ~Unreached(p)')
    BY <2>2, <2>4, <2>5
  <2>7. OthersStay /\ cron.pc # "asleep" /\ cron'.pc \notin {"asleep", "show"}
    BY <2>1, <2>2
  <2>8. \A p \in Protocols : Unreached(p)' => Unreached(p)
    BY <2>2
  <2> QED
    BY <2>3, <2>6, <2>7, <2>8, ThreadRegular
<1>11. CASE SelectFrom
  BY <1>7, <1>11 DEF SelectFrom, Pcs
<1>12. CASE SelectTo
  BY <1>7, <1>12 DEF SelectTo, Pcs
<1>13. CASE SelectMax
  BY <1>7, <1>13 DEF SelectMax, Pcs
<1>14. CASE Sum
  <2>1. Everyone => WriterDone
    BY <1>14 DEF Sum, Regular, Turns
  <2> QED
    BY <1>6, <1>14, <2>1 DEF Sum
<1>15. CASE UNCHANGED vars
  BY <1>2, <1>15 DEF vars, program, writer, thread, database, WriterDone, Times
<1> QED
  BY <1>1, <1>3, <1>4, <1>5, <1>8, <1>9, <1>10, <1>11, <1>12, <1>13, <1>14, <1>15
     DEF Next, Cron, Quiet

-----------------------------------------------------------------------------
(* Where windows begin.                                                      *)

Begins == SumsBegin /\ WindowIsDue /\ HasStampOrNothing /\ RangeBegins

(* Nothing is summed at first.                                               *)
LEMMA InitBegins == Init => Begins
<1> SUFFICES ASSUME Init PROVE Begins
  OBVIOUS
<1>1. SumsBegin
  BY DEF Init, SumsBegin
<1>2. WindowIsDue /\ HasStampOrNothing /\ RangeBegins
  BY DEF Init, Asleep, WindowIsDue, HasStampOrNothing, RangeBegins
<1> QED
  BY <1>1, <1>2 DEF Begins

(* The writer adds stamps of the present flush.                              *)
LEMMA WriterBegins ==
    ASSUME IInv, Begins, UNCHANGED <<level, clock, cron, local, IP_id, mhd_time, sums>>,
           \A p \in Protocols : /\ nl_time[p] \subseteq nl_time'[p]
                                /\ \A r \in nl_time'[p] : r \in nl_time[p] \/ r.time = clock
    PROVE  Begins'
<1>1. NoWindowPastTheStamps' = NoWindowPastTheStamps /\ Protocol' = Protocol /\ Time' = Time
  BY DEF NoWindowPastTheStamps, Protocol, Time
<1>2. \A p \in Protocols : /\ Fresh(p) => Fresh(p)'
                           /\ Times(p) \subseteq Times(p)'
  BY DEF Fresh, Times
<1>3. SumsBegin'
  BY <1>1 DEF Begins, SumsBegin, BeginsAtStamp
<1>4. cron.pc \notin {"asleep", "show"} => Protocol \in Protocols
  BY AwakeAtProtocol
<1>5. WindowIsDue'
  <2>1. SUFFICES ASSUME cron.pc = "time", NoWindowPastTheStamps, NEW p \in Protocols, p = Protocol
                 PROVE  Fresh(p)' \/ \E s \in Times(p)' : \A m \in mhd_time[p] : s >= m + level.konst
    BY <1>1, <1>4 DEF WindowIsDue
  <2>2. Fresh(p) \/ \E s \in Times(p) : \A m \in mhd_time[p] : s >= m + level.konst
    BY <2>1 DEF Begins, WindowIsDue
  <2> QED
    BY <1>2, <2>2
<1>6. HasStampOrNothing'
  <2>1. SUFFICES ASSUME cron.pc = "od", NoWindowPastTheStamps, NEW p \in Protocols, p = Protocol
                 PROVE  Fresh(p)' \/ Time \in Times(p)'
    BY <1>1, <1>4 DEF HasStampOrNothing
  <2> QED
    BY <1>2, <2>1 DEF Begins, HasStampOrNothing
<1>7. RangeBegins'
  <2>1. SUFFICES ASSUME cron.pc \in {"do", "max", "sum"}, NoWindowPastTheStamps,
                        NEW p \in Protocols, p = Protocol
                 PROVE  Fresh(p)' \/ \E r \in nl_time'[p] :
                            r.time = Time /\ (IP_id.to = -1 \/ IP_id.from = r.id - 1)
    BY <1>1, <1>4 DEF RangeBegins
  <2> QED
    BY <1>2, <2>1 DEF Begins, RangeBegins
<1> QED
  BY <1>3, <1>5, <1>6, <1>7 DEF Begins

(* A step that touches neither stamps nor sums leaves the past alone.        *)
LEMMA PastBegins ==
    ASSUME Begins, UNCHANGED <<level, nl_time, sums>>
    PROVE  SumsBegin'
  BY DEF Begins, SumsBegin, BeginsAtStamp, NoWindowPastTheStamps

(* Between two protocols there is nothing to say of a window.                *)
LEMMA NothingDue ==
    ASSUME cron'.pc \in {"asleep", "show", "test"}
    PROVE  WindowIsDue' /\ HasStampOrNothing' /\ RangeBegins'
  BY DEF WindowIsDue, HasStampOrNothing, RangeBegins

(* A window is made when there is a stamp for it to begin at, or when the    *)
(* protocol has none at all.                                                 *)
LEMMA CompareBegins ==
    ASSUME IInv, Finer, Summed, Regular, Begins, Compare
    PROVE  Begins'
<1>1. UNCHANGED <<level, clock, nl_time, mhd_time, sums>>
  BY DEF Compare, OthersStay, program
<1>2. SumsBegin'
  BY <1>1, PastBegins
<1>3. CASE Proceed(LocalsAfterTest)
  BY <1>2, <1>3, ProceedPc, NothingDue DEF Begins
<1>4. CASE ~(LocalsAfterTest["test_nl"] < LocalsAfterTest["test_mhd"] + level.margin)
           /\ GoTo("time")
  <2> DEFINE p == Protocol
  <2>1. p \in Protocols /\ p' = p /\ cron'.pc = "time" /\ cron.pc = "test"
    BY <1>4, GoToReaches DEF Compare, Pcs
  <2>2. Fresh(p) \/ (NoWindowPastTheStamps =>
            \E s \in Times(p) : \A m \in mhd_time[p] : s >= m + level.konst)
    <3>1. CASE Times(p) = {}
      BY <2>1, <3>1, NoStampsNoRows
    <3>2. ASSUME Times(p) # {}, level.margin = level.konst
          PROVE  \E s \in Times(p) : \A m \in mhd_time[p] : s >= m + level.konst
      <4>1. LocalsAfterTest["test_nl"] = Max(Times(p))
        BY <3>2 DEF LocalsAfterTest, Newest, Cells
      <4>2. Max(Times(p)) \in Times(p) /\ Max(Times(p)) \in Nat
        BY <2>1, <3>2, LastStamp
      <4>3. ASSUME mhd_time[p] # {}, NEW m \in mhd_time[p] PROVE Max(Times(p)) >= m + level.konst
        <5>1. LocalsAfterTest["test_mhd"] = Max(mhd_time[p])
          BY <4>3 DEF LocalsAfterTest, Newest, Cells
        <5>2. m \in Nat /\ m <= Max(mhd_time[p]) /\ Max(mhd_time[p]) \in Nat
          BY <2>1, <4>3, LastWindow
        <5>3. ~(Max(Times(p)) < Max(mhd_time[p]) + level.konst)
          BY <1>4, <3>2, <4>1, <5>1
        <5> QED
          BY <4>2, <5>2, <5>3, LevelBounds
      <4> QED
        BY <4>2, <4>3
    <3>3. ASSUME Everyone
          PROVE  \E s \in Times(p) : \A m \in mhd_time[p] : s >= m + level.konst
      <4>1. clock \in Times(p) /\ clock \in Nat
        BY <2>1, <3>3, LevelBounds DEF Regular, Turns, WriterDone
      <4>2. Unreached(p)
        BY <2>1 DEF IInv, AtProtocol, Protocol, Unreached
      <4>3. ASSUME NEW m \in mhd_time[p] PROVE clock >= m + level.konst
        <5>1. m \in Nat /\ m + level.konst < clock
          BY <2>1, <3>3, <4>2, <4>3, PastAnyway
        <5> QED
          BY <4>1, <5>1, LevelBounds
      <4> QED
        BY <4>1, <4>3
    <3> QED
      BY <3>1, <3>2, <3>3, LevelBounds
  <2>3. WindowIsDue'
    BY <1>1, <2>1, <2>2 DEF WindowIsDue, Fresh, Times, NoWindowPastTheStamps
  <2> QED
    BY <1>2, <2>1, <2>3 DEF Begins, HasStampOrNothing, RangeBegins
<1> QED
  BY <1>3, <1>4 DEF Compare

(* The window begins at that stamp.                                          *)
LEMMA InsertTimeBegins ==
    ASSUME IInv, Begins, InsertTime
    PROVE  Begins'
<1> DEFINE p == Protocol
<1>1. /\ UNCHANGED <<level, clock, nl_time, sums>>
      /\ p \in Protocols /\ p' = p /\ cron'.pc = "od" /\ cron.pc = "time"
  BY GoToReaches DEF InsertTime, OthersStay, program, Pcs
<1>2. SumsBegin'
  BY <1>1, PastBegins
<1>3. Time' = Begin(p)
  BY DEF InsertTime, IInv, TypeOK, Time, Cells
<1>4. ASSUME NoWindowPastTheStamps, ~Fresh(p) PROVE Begin(p) \in Times(p)
  <2>1. PICK s \in Times(p) : \A m \in mhd_time[p] : s >= m + level.konst
    BY <1>1, <1>4 DEF Begins, WindowIsDue
  <2>2. s \in Nat
    BY <1>1, <2>1, TimesAreNumbers
  <2>3. CASE mhd_time[p] = {}
    <3>1. Min(Times(p)) \in Times(p)
      BY <1>1, <2>1, LeastNumber, TimesAreNumbers
    <3> QED
      BY <2>1, <2>3, <3>1 DEF Begin
  <2>4. CASE mhd_time[p] # {}
    <3>1. EndOfLast(p) \in Nat /\ s >= EndOfLast(p)
      BY <1>1, <2>1, <2>2, <2>4, LastWindow, LevelBounds DEF EndOfLast
    <3>2. CASE s > EndOfLast(p)
      <4>1. Later(p, EndOfLast(p)) # {} /\ Min(Later(p, EndOfLast(p))) \in Times(p)
        BY <1>1, <3>1, <3>2, FirstLater
      <4> QED
        BY <2>4, <4>1 DEF Begin
    <3>3. CASE s = EndOfLast(p)
      <4>1. Later(p, EndOfLast(p)) # {} => Min(Later(p, EndOfLast(p))) \in Times(p)
        BY <1>1, <3>1, FirstLater
      <4> QED
        BY <2>1, <2>4, <3>3, <4>1 DEF Begin
    <3> QED
      BY <2>2, <3>1, <3>2, <3>3
  <2> QED
    BY <2>3, <2>4
<1>5. HasStampOrNothing'
  <2>1. Fresh(p)' = Fresh(p) /\ Times(p)' = Times(p)
        /\ NoWindowPastTheStamps' = NoWindowPastTheStamps
    BY <1>1 DEF Fresh, Times, NoWindowPastTheStamps
  <2> QED
    BY <1>1, <1>3, <1>4, <2>1 DEF HasStampOrNothing
<1> QED
  BY <1>1, <1>2, <1>5 DEF Begins, WindowIsDue, RangeBegins

(* A stamp has one id.                                                       *)
LEMMA IdOfStamp ==
    ASSUME IInv, Finer, NEW p \in Protocols, NEW r \in nl_time[p]
    PROVE  IdOf(p, r.time) = r.id /\ r.time \in Times(p) /\ r.id \in Nat \ {0} /\ r.time \in Nat
<1>1. nl_time[p] \subseteq [time : Nat, id : Nat \ {0}]
  BY DEF IInv, Shapes
<1>2. r = [time |-> r.time, id |-> r.id]
  BY <1>1
<1>3. \A id \in {q.id : q \in nl_time[p]} : [time |-> r.time, id |-> id] \in nl_time[p] => id = r.id
  <2>1. SUFFICES ASSUME NEW id, [time |-> r.time, id |-> id] \in nl_time[p] PROVE id = r.id
    OBVIOUS
  <2>2. [time |-> r.time, id |-> id].time = r.time /\ [time |-> r.time, id |-> id].id = id
    OBVIOUS
  <2>3. [time |-> r.time, id |-> id] = r
    BY <2>1, <2>2 DEF Finer, FinerTables
  <2> QED
    BY <2>2, <2>3
<1>4. r.id \in {q.id : q \in nl_time[p]}
  OBVIOUS
<1>5. IdOf(p, r.time) = r.id
  BY <1>2, <1>3, <1>4 DEF IdOf
<1> QED
  BY <1>1, <1>5 DEF Times

(* The range of a window that begins at a stamp begins one row too early.    *)
LEMMA FirstIdOfStamp ==
    ASSUME IInv, Finer, NEW p \in Protocols, NEW r \in nl_time[p]
    PROVE  FirstId(p, r.time) = r.id - 1
<1> DEFINE t == r.time
           S == Later(p, t - 1)
<1>1. t \in Times(p) /\ t \in Nat /\ IdOf(p, t) = r.id
  BY IdOfStamp
<1> HIDE DEF t
<1>2. t \in S /\ S # {}
  BY <1>1, FirstLater
<1>3. Min(S) \in Nat /\ Min(S) > t - 1 /\ Min(S) <= t
  BY <1>1, <1>2, FirstLater
<1>4. Min(S) = t
  BY <1>1, <1>3
<1> QED
  BY <1>1, <1>2, <1>4 DEF FirstId, t

(* The statements that find the range.                                       *)
LEMMA RangeOfBegins ==
    ASSUME IInv, Finer, Begins, SelectFrom \/ SelectTo \/ SelectMax
    PROVE  Begins'
<1> DEFINE p == Protocol
<1>1. /\ UNCHANGED <<level, clock, nl_time, nl_rows, mhd_time, sums, local>>
      /\ cron'.pc \in {"do", "max", "sum"} /\ p' = p /\ p \in Protocols
  BY GoToReaches DEF SelectFrom, SelectTo, SelectMax, OthersStay, program, Pcs
<1>2. SumsBegin'
  BY <1>1, PastBegins
<1>3. Time' = Time /\ Fresh(p)' = Fresh(p) /\ NoWindowPastTheStamps' = NoWindowPastTheStamps
  BY <1>1 DEF Time, Fresh, NoWindowPastTheStamps
<1>4. ASSUME NoWindowPastTheStamps, ~Fresh(p)
      PROVE  \E r \in nl_time[p] : r.time = Time /\ (IP_id'.to = -1 \/ IP_id'.from = r.id - 1)
  <2>1. CASE SelectFrom
    <3>1. Time \in Times(p)
      BY <1>4, <2>1 DEF SelectFrom, Begins, HasStampOrNothing
    <3>2. PICK r \in nl_time[p] : r.time = Time
      BY <3>1 DEF Times
    <3>3. FirstId(p, Time) = r.id - 1
      BY <1>1, <3>2, FirstIdOfStamp
    <3>4. IP_id'.from = FirstId(p, Time)
      BY <2>1 DEF SelectFrom, Time, IInv, Shapes
    <3> QED
      BY <3>2, <3>3, <3>4
  <2>2. CASE SelectTo \/ SelectMax
    <3>1. PICK r \in nl_time[p] : r.time = Time /\ (IP_id.to = -1 \/ IP_id.from = r.id - 1)
      BY <1>4, <2>2 DEF SelectTo, SelectMax, Begins, RangeBegins
    <3>2. IP_id.to = 0 /\ IP_id \in [from : Nat, to : Int]
      BY <2>2 DEF SelectTo, SelectMax, IInv, Shapes, EndUntouched
    <3>3. IP_id'.to = -1 \/ IP_id'.from = IP_id.from
      BY <2>2, <3>2 DEF SelectTo, SelectMax
    <3> QED
      BY <3>1, <3>2, <3>3
  <2> QED
    BY <2>1, <2>2
<1>5. RangeBegins'
  BY <1>1, <1>3, <1>4 DEF RangeBegins
<1> QED
  BY <1>1, <1>2, <1>5 DEF Begins, WindowIsDue, HasStampOrNothing

(* The rows of a protocol that was first seen in the present flush.          *)
LEMMA FreshRows ==
    ASSUME IInv, Finer, NEW p \in Protocols, Fresh(p)
    PROVE  DOMAIN nl_rows[p] \subseteq {1}
<1>1. SUFFICES ASSUME NEW j \in DOMAIN nl_rows[p], j # 1 PROVE FALSE
  OBVIOUS
<1>2. nl_rows[p] \in Seq(Nat)
  BY DEF IInv, Shapes
<1>3. 1 \in DOMAIN nl_rows[p] /\ j \in Nat /\ 1 < j
  BY <1>1, <1>2
<1>4. nl_rows[p][1] < nl_rows[p][j]
  BY <1>3, RowsInOrder
<1>5. nl_rows[p][1] \in Times(p) /\ nl_rows[p][j] \in Times(p) /\ clock \in Nat
  BY <1>1, <1>3, RowsInOrder DEF IInv, Shapes
<1>6. nl_rows[p][1] = clock /\ nl_rows[p][j] = clock
  BY <1>5 DEF Fresh, Times
<1> QED
  BY <1>4, <1>5, <1>6

(* A sum begins with the row before its window, or its protocol is new.      *)
LEMMA SumBegins ==
    ASSUME IInv, Finer, Summed, Begins, Sum
    PROVE  Begins'
<1> DEFINE p == Protocol
           ids == (IP_id.from .. IP_id.to) \cap DOMAIN nl_rows[p]
           new == [time |-> Time, ids |-> ids]
<1>1. p \in Protocols /\ HasBegun /\ cron.pc = "sum"
  BY AwakeAtProtocol DEF Sum, HasBegun
<1>2. /\ sums' = [sums EXCEPT ![p] = @ \cup {new}]
      /\ UNCHANGED <<level, clock, nl_time, nl_rows, mhd_time>>
  BY DEF Sum, OthersStay, program, Time
<1>3. new.time = Time /\ new.ids = ids /\ IP_id.from \in Nat
  BY DEF IInv, TypeOK
<1>4. ids \subseteq DOMAIN nl_rows[p] /\ \A id \in ids : id >= IP_id.from /\ IP_id.to # -1
  BY <1>3
<1> HIDE DEF new, ids
<1>5. /\ \A q \in Protocols : q # p => sums'[q] = sums[q]
      /\ sums'[p] = sums[p] \cup {new}
  BY <1>1, <1>2 DEF Summed, SumShapes
<1>6. \A w \in sums[p] : w.time < Time /\ w.time \in Nat /\ Time \in Nat
  BY <1>1 DEF Summed, LatestWindow, SumShapes, IInv, TypeOK, Time, Cells
<1>7. ASSUME NoWindowPastTheStamps
      PROVE  \/ \E r \in nl_time[p] : r.time = Time /\ \A id \in ids : id >= r.id - 1
             \/ ids \subseteq {1} /\ \A w \in sums[p] : w.ids = {}
  <2>1. CASE Fresh(p)
    BY <1>1, <1>4, <2>1, FreshRows DEF Fresh
  <2>2. CASE ~Fresh(p)
    <3>1. PICK r \in nl_time[p] : r.time = Time /\ (IP_id.to = -1 \/ IP_id.from = r.id - 1)
      BY <1>1, <1>7, <2>2 DEF Begins, RangeBegins
    <3>2. \A id \in ids : id >= r.id - 1
      BY <1>4, <3>1
    <3> QED
      BY <3>1, <3>2
  <2> QED
    BY <2>1, <2>2
<1>8. SumsBegin'
  <2>1. SUFFICES ASSUME NoWindowPastTheStamps, NEW q \in Protocols, NEW w \in sums'[q]
                 PROVE  \/ \E r \in nl_time[q] : r.time = w.time /\ \A id \in w.ids : id >= r.id - 1
                        \/ /\ w.ids \subseteq {1}
                           /\ \A v \in sums'[q] : v.time < w.time => v.ids = {}
    BY <1>2 DEF SumsBegin, BeginsAtStamp, NoWindowPastTheStamps
  <2>2. CASE w \in sums[q]
    <3>1. \A v \in sums'[q] : v.time < w.time => v \in sums[q]
      <4>1. q = p => ~(Time < w.time)
        BY <1>6, <2>2
      <4> QED
        BY <1>3, <1>5, <4>1
    <3>2. BeginsAtStamp(q, w)
      BY <2>1, <2>2 DEF Begins, SumsBegin
    <3> QED
      BY <3>1, <3>2 DEF BeginsAtStamp
  <2>3. CASE q = p /\ w = new
    <3>1. \A v \in sums'[p] : v.time < Time => v \in sums[p]
      <4>1. Time \in Nat
        BY DEF IInv, TypeOK, Time, Cells
      <4>2. ~(Time < Time)
        BY <4>1
      <4> QED
        BY <1>3, <1>5, <4>2
    <3> QED
      BY <1>3, <1>7, <2>1, <2>3, <3>1
  <2> QED
    BY <1>5, <2>2, <2>3
<1>9. cron'.pc \in {"asleep", "test"}
  BY ProceedPc DEF Sum
<1> QED
  BY <1>8, <1>9, NothingDue DEF Begins

(* Every step keeps what is known of the begins of windows.                  *)
LEMMA StepBegins ==
    IInv /\ Finer /\ Summed /\ Regular /\ Begins /\ [Next]_vars => Begins'
<1> SUFFICES ASSUME IInv, Finer, Summed, Regular, Begins, [Next]_vars PROVE Begins'
  OBVIOUS
<1>1. ASSUME UNCHANGED <<level, nl_time, sums>>, cron'.pc \in {"asleep", "show", "test"}
      PROVE  Begins'
  BY <1>1, PastBegins, NothingDue DEF Begins
<1>2. ASSUME NEW kind \in level.kinds, Flush(kind) PROVE Begins'
  BY <1>1, <1>2 DEF Flush, GoTo, IInv, Shapes
<1>3. ASSUME NEW p \in Protocols, WriteTime(p) PROVE Begins'
  <2> DEFINE new == [time |-> clock, id |-> Len(nl_rows[p]) + 1]
  <2>1. /\ nl_time \in [Protocols -> SUBSET [time : Nat, id : Nat \ {0}]]
        /\ nl_time' = [nl_time EXCEPT ![p] = @ \cup {new}]
        /\ new.time = clock
        /\ UNCHANGED <<level, clock, cron, local, IP_id, mhd_time, sums>>
    BY <1>3 DEF WriteTime, IInv, Shapes, program, thread
  <2> HIDE DEF new
  <2>2. \A q \in Protocols : /\ nl_time[q] \subseteq nl_time'[q]
                             /\ \A r \in nl_time'[q] : r \in nl_time[q] \/ r.time = clock
    BY <2>1
  <2> QED
    BY <2>1, <2>2, WriterBegins
<1>4. CASE WriteRows
  BY <1>4, WriterBegins DEF WriteRows, program, thread
<1>5. CASE Restart
  BY <1>1, <1>5 DEF Restart, Asleep, database
<1>6. CASE ShowTables
  BY <1>1, <1>6, ProceedPc DEF ShowTables, OthersStay, program
<1>7. CASE Compare
  BY <1>7, CompareBegins
<1>8. CASE InsertTime
  BY <1>8, InsertTimeBegins
<1>9. CASE SelectFrom \/ SelectTo \/ SelectMax
  BY <1>9, RangeOfBegins
<1>10. CASE Sum
  BY <1>10, SumBegins
<1>11. CASE UNCHANGED vars
  BY <1>11, WriterBegins DEF vars, program, thread, database
<1> QED
  BY <1>2, <1>3, <1>4, <1>5, <1>6, <1>7, <1>8, <1>9, <1>10, <1>11 DEF Next, Cron, Quiet

(* What is known of the tables and of the thread, together.                  *)
Known == IInv /\ Finer /\ Summed /\ Regular /\ Begins

LEMMA KnownAlways == Spec => []Known
<1>1. Init => Known
  BY InitInv, InitFiner, InitSummed, InitRegular, InitBegins DEF Known
<1>2. Known /\ [Next]_vars => Known'
  BY StepInv, StepFiner, StepSummed, StepRegular, StepBegins DEF Known
<1> QED
  BY <1>1, <1>2, PTL DEF Spec

(* A window has at most one older row, the last before its stamp, and at     *)
(* most one later: two would be of two flushes, and the first of them past   *)
(* the window too.                                                           *)
LEMMA KnownIsNear == Known => NearlyInWindow
<1> SUFFICES ASSUME Known, NEW p \in Protocols, NEW w \in sums[p]
             PROVE  /\ NoWindowPastTheStamps =>
                       Cardinality({id \in Outside(p, w) : nl_rows[p][id] < w.time}) <= 1
                    /\ Cardinality({id \in Outside(p, w) : nl_rows[p][id] > w.time}) <= 1
  BY DEF NearlyInWindow
<1> USE DEF Known
<1>1. /\ w.time \in Nat /\ level.konst \in Nat /\ w.ids \subseteq DOMAIN nl_rows[p]
      /\ Outside(p, w) \subseteq w.ids
      /\ \A id \in Outside(p, w) : nl_rows[p][id] \notin w.time .. w.time + level.konst
  BY LevelBounds DEF Summed, SumShapes, SumsOfWindows, Outside
<1>2. \A id \in w.ids : /\ nl_rows[p][id] \in Times(p) /\ nl_rows[p][id] \in Nat
                        /\ id \in Nat \ {0}
                        /\ \A i \in w.ids : i < id => nl_rows[p][i] < nl_rows[p][id]
  <2>1. SUFFICES ASSUME NEW id \in w.ids
                 PROVE  /\ nl_rows[p][id] \in Times(p) /\ nl_rows[p][id] \in Nat
                        /\ id \in Nat \ {0}
                        /\ \A i \in w.ids : i < id => nl_rows[p][i] < nl_rows[p][id]
    OBVIOUS
  <2>2. id \in DOMAIN nl_rows[p] /\ nl_rows[p] \in Seq(Nat)
    BY <1>1 DEF IInv, Shapes
  <2> QED
    BY <1>1, <2>2, RowsInOrder
<1>3. ASSUME NoWindowPastTheStamps
      PROVE  Cardinality({id \in Outside(p, w) : nl_rows[p][id] < w.time}) <= 1
  <2> DEFINE S == {id \in Outside(p, w) : nl_rows[p][id] < w.time}
  <2>1. \A i, j \in S : i = j
    <3>1. BeginsAtStamp(p, w)
      BY <1>3 DEF Begins, SumsBegin
    <3>2. CASE w.ids \subseteq {1}
      BY <1>1, <3>2
    <3>3. CASE \E r \in nl_time[p] : r.time = w.time /\ \A id \in w.ids : id >= r.id - 1
      <4>1. PICK r \in nl_time[p] : r.time = w.time /\ \A id \in w.ids : id >= r.id - 1
        BY <3>3
      <4>2. r.id \in Nat \ {0}
        BY IdOfStamp
      <4>3. ASSUME NEW i \in S PROVE i = r.id - 1
        <5>1. i \in w.ids /\ i \in DOMAIN nl_rows[p] /\ nl_rows[p][i] < w.time
          BY <1>1
        <5>2. IF i < r.id THEN nl_rows[p][i] < r.time ELSE nl_rows[p][i] >= r.time
          BY <5>1 DEF Finer, FinerTables
        <5>3. i < r.id
          BY <1>1, <1>2, <4>1, <5>1, <5>2
        <5> QED
          BY <1>2, <4>1, <4>2, <5>1, <5>3
      <4> QED
        BY <4>3
    <3> QED
      BY <3>1, <3>2, <3>3 DEF BeginsAtStamp
  <2> QED
    BY <2>1, AtMostOne
<1>4. Cardinality({id \in Outside(p, w) : nl_rows[p][id] > w.time}) <= 1
  <2> DEFINE S == {id \in Outside(p, w) : nl_rows[p][id] > w.time}
  <2>1. ASSUME NEW i \in S, NEW j \in S, i < j PROVE FALSE
    <3>1. i \in w.ids /\ j \in w.ids
      BY <1>1
    <3>2. /\ nl_rows[p][i] \in Times(p) /\ nl_rows[p][i] \in Nat /\ nl_rows[p][j] \in Nat
          /\ nl_rows[p][i] < nl_rows[p][j]
      BY <1>2, <2>1, <3>1
    <3>3. nl_rows[p][i] > w.time + level.konst /\ nl_rows[p][j] > w.time + level.konst
      BY <1>1, <3>2
    <3>4. EndsWithAFlush(p, w)
      BY DEF Summed, SumsEnd
    <3>5. nl_rows[p][i] <= w.time + level.konst \/ nl_rows[p][i] >= nl_rows[p][j]
      BY <3>1, <3>2, <3>3, <3>4 DEF EndsWithAFlush
    <3> QED
      BY <1>1, <3>2, <3>3, <3>5
  <2>2. \A i, j \in S : i \in Nat /\ j \in Nat
    BY <1>1, <1>2
  <2>3. \A i, j \in S : i = j
    BY <2>1, <2>2
  <2> QED
    BY <2>3, AtMostOne
<1> QED
  BY <1>3, <1>4

(* A window of a protocol has at most one older interval mixed into it, if   *)
(* no window is past the stamps, and at most one that is past its end.       *)
THEOREM WindowsHoldTheirRows == Spec => []NearlyInWindow
  BY KnownAlways, KnownIsNear, PTL

(* Of the windows an interval is summed into, at most one begins after it:   *)
(* the later of two would begin at a stamp with rows of the other before it. *)
(* At most two begin no later: the first of three would have ended with its  *)
(* flush, and no window begins between.                                      *)
LEMMA KnownIsSummedThrice == Known => SummedThriceAtMost
<1> DEFINE S(p, id) == {w \in sums[p] : id \in w.ids /\ w.time \in Measured(p)}
<1> SUFFICES ASSUME Known, NoWindowPastTheStamps, NEW p \in Protocols, NEW id \in DOMAIN nl_rows[p]
             PROVE  Cardinality(S(p, id)) <= 3
  BY DEF SummedThriceAtMost
<1> DEFINE W == S(p, id)
           row == nl_rows[p][id]
<1> USE DEF Known
<1>1. /\ row \in Nat /\ id \in Nat \ {0} /\ level.konst \in Nat \ {0}
      /\ \A j \in DOMAIN nl_rows[p] : j \in Nat
  <2>1. nl_rows[p] \in Seq(Nat)
    BY DEF IInv, Shapes
  <2>2. DOMAIN nl_rows[p] = 1 .. Len(nl_rows[p]) /\ Len(nl_rows[p]) \in Nat /\ row \in Nat
    BY <2>1
  <2>3. \A j \in DOMAIN nl_rows[p] : j \in Nat \ {0}
    BY <2>2
  <2>4. level.konst \in Nat \ {0}
    BY LevelBounds
  <2> QED
    BY <2>2, <2>3, <2>4
<1>2. \A w \in W : w.time \in Nat /\ w.time \in mhd_time[p] /\ w \in sums[p] /\ id \in w.ids
  BY DEF Summed, SumShapes, SumsOfWindows
<1>3. \A v, w \in W : v.time = w.time => v = w
  BY <1>2 DEF Summed, SumsOfWindows
<1>4. \A v, w \in W : v.time < w.time => w.time >= v.time + level.konst
  <2>1. SUFFICES ASSUME NEW v \in W, NEW w \in W, v.time < w.time
                 PROVE  w.time >= v.time + level.konst
    OBVIOUS
  <2>2. w.time - v.time >= level.konst
    BY <1>2, <2>1 DEF IInv, WindowsApart
  <2> QED
    BY <1>1, <1>2, <2>2
<1>5. ASSUME NEW v \in W, NEW w \in W, v.time < w.time, row < v.time PROVE FALSE
  <2>1. BeginsAtStamp(p, w)
    BY <1>2 DEF Begins, SumsBegin
  <2>2. ~ \A u \in sums[p] : u.time < w.time => u.ids = {}
    BY <1>2, <1>5
  <2>3. PICK r \in nl_time[p] : r.time = w.time /\ id >= r.id - 1
    BY <1>2, <2>1, <2>2 DEF BeginsAtStamp
  <2>4. PICK j \in DOMAIN nl_rows[p] : nl_rows[p][j] = v.time
    BY DEF Measured
  <2>5. r.id \in Nat \ {0}
    BY IdOfStamp
  <2>6. IF j < r.id THEN nl_rows[p][j] < r.time ELSE nl_rows[p][j] >= r.time
    BY DEF Finer, FinerTables
  <2>7. j < r.id
    BY <1>1, <1>2, <1>5, <2>3, <2>4, <2>6
  <2>8. j <= id
    BY <1>1, <2>3, <2>5, <2>7
  <2>9. nl_rows[p][j] <= row
    BY <1>1, <2>8, RowsInOrder
  <2> QED
    BY <1>1, <1>2, <1>5, <2>4, <2>9
<1>6. ASSUME NEW u \in W, NEW v \in W, NEW w \in W,
             u.time < v.time, v.time < w.time, w.time <= row
      PROVE  FALSE
  <2>1. v.time >= u.time + level.konst /\ w.time >= v.time + level.konst
    BY <1>4, <1>6
  <2>2. row > u.time + level.konst
    BY <1>1, <1>2, <1>6, <2>1
  <2>3. EndsWithAFlush(p, u) /\ id \in u.ids /\ v.time \in mhd_time[p]
    BY <1>2 DEF Summed, SumsEnd
  <2>4. v.time <= u.time \/ v.time >= row
    BY <2>2, <2>3 DEF EndsWithAFlush
  <2> QED
    BY <1>1, <1>2, <1>6, <2>4
<1> HIDE DEF W
<1>7. \A a, b, c, d \in W : a = b \/ a = c \/ a = d \/ b = c \/ b = d \/ c = d
  <2>1. \A a, b \in W : a.time <= row \/ b.time <= row \/ a = b
    <3>1. SUFFICES ASSUME NEW a \in W, NEW b \in W, row < a.time, row < b.time PROVE a = b
      BY <1>1, <1>2
    <3>2. ~(a.time < b.time) /\ ~(b.time < a.time)
      BY <1>5, <3>1
    <3> QED
      BY <1>2, <1>3, <3>2
  <2>2. \A a, b, c \in W : a.time > row \/ b.time > row \/ c.time > row \/ a = b \/ a = c \/ b = c
    <3>1. SUFFICES ASSUME NEW a \in W, NEW b \in W, NEW c \in W,
                          a.time <= row, b.time <= row, c.time <= row,
                          a.time # b.time, a.time # c.time, b.time # c.time
                   PROVE  FALSE
      BY <1>1, <1>2, <1>3
    <3>2. a.time \in Nat /\ b.time \in Nat /\ c.time \in Nat
      BY <1>2
    <3> QED
      BY <1>6, <3>1, <3>2
  <2> QED
    BY <1>1, <1>2, <2>1, <2>2
<1> QED
  BY <1>7, AtMostThree DEF W

(* No interval is summed into more than three windows that were measured, if *)
(* no window is past the stamps.                                             *)
THEOREM IntervalsSummedThriceAtMost == Spec => []SummedThriceAtMost
  BY KnownAlways, KnownIsSummedThrice, PTL

-----------------------------------------------------------------------------
(* The levels on which no window misses a row.                               *)

(* Stamps are multiples at first.                                            *)
LEMMA InitMultiples == Init => StampsAreMultiples
<1> SUFFICES ASSUME Init, LevelRecord(level) PROVE StampsAreMultiples
  BY CronovanieAssumption DEF Init
<1>1. level.step \in Nat
  BY DEF LevelRecord
<1>2. 0 * level.step = 0 /\ 1 .. 0 = {}
  BY <1>1
<1> QED
  BY <1>2 DEF Init, StampsAreMultiples, Times

(* A flush makes the next multiple due.                                      *)
LEMMA FlushMultiples ==
    ASSUME IInv, Regular, StampsAreMultiples, NEW kind \in level.kinds, Flush(kind)
    PROVE  StampsAreMultiples'
<1> SUFFICES ASSUME Unbroken PROVE StampsAreMultiples'
  BY DEF StampsAreMultiples, Unbroken, Everyone, Flush
<1>1. /\ clock' = clock + level.step /\ interval' = interval + 1 /\ to_write' = kind
      /\ UNCHANGED <<level, nl_time>> /\ to_write = {} /\ kind = Protocols
  BY DEF Flush, WriterDone, Unbroken, Everyone
<1>2. interval \in Nat /\ level.step \in Nat
  BY LevelBounds DEF Regular, Turns
<1>3. (interval + 1) * level.step = interval * level.step + level.step
  BY <1>2
<1>4. /\ clock = interval * level.step
      /\ \A p \in Protocols :
          /\ \A s \in Times(p) : \E i \in 1 .. interval : s = i * level.step
          /\ \A i \in 1 .. interval : i * level.step \in Times(p)
  BY <1>1 DEF StampsAreMultiples
<1>5. /\ interval + 1 >= 1 /\ 1 .. interval \subseteq 1 .. interval + 1
      /\ \A i \in 1 .. interval + 1 : i \in 1 .. interval \/ i = interval + 1
  BY <1>2
<1>6. \A p \in Protocols : Times(p)' = Times(p)
  BY <1>1 DEF Times
<1>7. \A p \in Protocols : \A s \in Times(p)' : \E i \in 1 .. interval + 1 : s = i * level.step
  BY <1>4, <1>5, <1>6
<1>8. \A p \in Protocols : \A i \in 1 .. interval + 1 :
          i * level.step \in Times(p)' \/ (i = interval + 1 /\ p \in to_write')
  BY <1>1, <1>4, <1>5, <1>6
<1>9. /\ clock' = interval' * level'.step
      /\ to_write' # {} => interval' >= 1
  BY <1>1, <1>3, <1>4, <1>5
<1>10. \A p \in Protocols :
          /\ \A s \in Times(p)' : \E i \in 1 .. interval' : s = i * level'.step
          /\ \A i \in 1 .. interval' :
                i * level'.step \in Times(p)' \/ (i = interval' /\ p \in to_write')
  BY <1>1, <1>7, <1>8
<1> QED
  BY <1>9, <1>10 DEF StampsAreMultiples

(* Every step keeps the stamps multiples.                                    *)
LEMMA StepMultiples ==
    IInv /\ Regular /\ StampsAreMultiples /\ [Next]_vars => StampsAreMultiples'
<1> SUFFICES ASSUME IInv, Regular, StampsAreMultiples, [Next]_vars PROVE StampsAreMultiples'
  OBVIOUS
<1>1. ASSUME UNCHANGED <<level, restarts, clock, interval, to_write, nl_time>>
      PROVE  StampsAreMultiples'
  <2>1. \A p \in Protocols : Times(p)' = Times(p)
    BY <1>1 DEF Times
  <2> QED
    BY <1>1, <2>1 DEF StampsAreMultiples, Unbroken, Everyone
<1>2. ASSUME NEW kind \in level.kinds, Flush(kind) PROVE StampsAreMultiples'
  BY <1>2, FlushMultiples
<1>3. ASSUME NEW p \in Protocols, WriteTime(p) PROVE StampsAreMultiples'
  <2> DEFINE new == [time |-> clock, id |-> Len(nl_rows[p]) + 1]
  <2> SUFFICES ASSUME Unbroken PROVE StampsAreMultiples'
    BY <1>3 DEF StampsAreMultiples, Unbroken, Everyone, WriteTime, program
  <2>1. /\ nl_time \in [Protocols -> SUBSET [time : Nat, id : Nat \ {0}]]
        /\ nl_time' = [nl_time EXCEPT ![p] = @ \cup {new}]
        /\ new.time = clock
        /\ UNCHANGED <<level, clock, interval>>
        /\ to_write' = to_write \ {p} /\ p \in to_write
    BY <1>3 DEF WriteTime, IInv, Shapes, program
  <2> HIDE DEF new
  <2>2. /\ \A q \in Protocols : \A s : s \in Times(q)' <=> s \in Times(q) \/ (q = p /\ s = clock)
    BY <2>1 DEF Times
  <2>3. interval \in Nat /\ interval >= 1 /\ interval \in 1 .. interval
    BY <2>1 DEF StampsAreMultiples, Regular, Turns
  <2>4. clock = interval * level.step
    BY DEF StampsAreMultiples
  <2>5. \A q \in Protocols : \A s \in Times(q)' : \E i \in 1 .. interval : s = i * level.step
    BY <2>2, <2>3, <2>4 DEF StampsAreMultiples
  <2>6. \A q \in Protocols : \A i \in 1 .. interval :
            i * level.step \in Times(q)' \/ (i = interval /\ q \in to_write')
    <3>1. SUFFICES ASSUME NEW q \in Protocols, NEW i \in 1 .. interval
                   PROVE  i * level.step \in Times(q)' \/ (i = interval /\ q \in to_write')
      OBVIOUS
    <3>2. i * level.step \in Times(q) \/ (i = interval /\ q \in to_write)
      BY DEF StampsAreMultiples
    <3> QED
      BY <2>1, <2>2, <2>4, <3>2
  <2> QED
    BY <2>1, <2>3, <2>4, <2>5, <2>6 DEF StampsAreMultiples
<1>4. CASE WriteRows
  BY <1>1, <1>4 DEF WriteRows, program
<1>5. CASE Restart
  <2>1. restarts' # 0
    BY <1>5 DEF Restart, Regular, Turns
  <2> QED
    BY <2>1 DEF StampsAreMultiples, Unbroken
<1>6. CASE Cron
  BY <1>1, <1>6 DEF Cron, ShowTables, Compare, InsertTime, SelectFrom, SelectTo, SelectMax,
                    Sum, OthersStay, program, writer
<1>7. CASE UNCHANGED vars
  BY <1>1, <1>7 DEF vars, program, writer, database
<1> QED
  BY <1>2, <1>3, <1>4, <1>5, <1>6, <1>7 DEF Next, Quiet

(* A thread leaves out no protocol when all have tables.                     *)
LEMMA ProceedToNext ==
    ASSUME IInv, NEW locals, Proceed(locals), Protocols \subseteq tables
    PROVE  \A p \in Protocols : Unreached(p)' <=>
               \E n \in DOMAIN ProtocolList : ProtocolList[n] = p /\ n > cron.k
<1>1. cron.k \in Nat /\ DOMAIN ProtocolList \subseteq Nat
  BY CronovanieAssumption DEF IInv, Shapes
<1>2. After(cron.k) = {n \in DOMAIN ProtocolList : n > cron.k}
  BY DEF After, Protocols
<1>3. CASE After(cron.k) = {}
  BY <1>2, <1>3 DEF Proceed, Asleep, Unreached
<1>4. CASE After(cron.k) # {}
  <2>1. Min(After(cron.k)) \in After(cron.k) /\ \A n \in After(cron.k) : Min(After(cron.k)) <= n
    BY <1>1, <1>2, <1>4, LeastNumber
  <2>2. cron' = [pc |-> "test", k |-> Min(After(cron.k))]
    BY <1>4 DEF Proceed
  <2>3. cron'.k \in Nat /\ cron'.k > cron.k /\ cron'.pc = "test"
    BY <1>1, <1>2, <2>1, <2>2
  <2>4. \A n \in DOMAIN ProtocolList : n > cron'.k \/ n = cron'.k <=> n > cron.k
    BY <1>1, <1>2, <2>1, <2>2, <2>3
  <2> QED
    BY <2>3, <2>4 DEF Unreached
<1> QED
  BY <1>3, <1>4

(* There are no windows at first.                                            *)
LEMMA InitGroups == Init => WindowsAreGroups
<1> SUFFICES ASSUME Init, LevelRecord(level) PROVE WindowsAreGroups
  BY CronovanieAssumption DEF Init
<1>1. \A g \in Nat \ {0} : 0 % g = 0
  OBVIOUS
<1>2. SinceThread = 0
  BY <1>1 DEF Init, SinceThread, LevelRecord
<1>3. \A p \in Protocols : Seen(p) = 0
  BY <1>2 DEF Init, Asleep, Seen, Unreached
<1> QED
  BY <1>3 DEF Init, Asleep, WindowsAreGroups

(* A step that makes no window and reaches no protocol.                      *)
LEMMA GroupsStay ==
    ASSUME IInv, WindowsAreGroups, UNCHANGED <<level, restarts, interval, mhd_time>>,
           Unbroken =>
               /\ \A p \in Protocols : Unreached(p)' <=> Unreached(p)
               /\ cron'.pc # "asleep" => cron.pc # "asleep"
               /\ cron'.pc # "asleep" /\ interval = level.group =>
                     local'["test_mhd"] = local["test_mhd"]
    PROVE  WindowsAreGroups'
<1> SUFFICES ASSUME Unbroken PROVE WindowsAreGroups'
  BY DEF WindowsAreGroups, Unbroken, Everyone
<1>1. \A p \in Protocols : Seen(p)' = Seen(p)
  BY DEF Seen, SinceThread
<1>2. \A p \in Protocols :
        IF Seen(p)' = 0 THEN mhd_time[p] = {}
        ELSE /\ Seen(p)' >= level.group
             /\ Stamp(Seen(p))' \in mhd_time[p]
             /\ \A m \in mhd_time[p] : m <= Stamp(Seen(p))'
  BY <1>1 DEF WindowsAreGroups, Stamp
<1> QED
  BY <1>2 DEF WindowsAreGroups

(* The flush that wakes the thread is a group after the one before.          *)
LEMMA FlushGroups ==
    ASSUME IInv, Regular, WindowsAreGroups, NEW kind \in level.kinds, Flush(kind)
    PROVE  WindowsAreGroups'
<1> SUFFICES ASSUME Unbroken PROVE WindowsAreGroups'
  BY DEF WindowsAreGroups, Unbroken, Everyone, Flush
<1> DEFINE g == level.group
           n == interval
<1>1. /\ UNCHANGED <<level, mhd_time>> /\ interval' = n + 1
      /\ cron.pc = "asleep" /\ cron'.pc \in {"asleep", "show"} /\ cron'.k = cron.k
      /\ cron'.pc = "show" <=> Wakes(n + 1)
      /\ Wakes(n + 1) => local' \in [Cells -> {0}]
  BY DEF Flush, GoTo, IInv, Shapes, Unbroken
<1>2. n \in Nat /\ g \in Nat \ {0} /\ cron.k = 0
  BY <1>1, LevelBounds DEF Regular, Turns
<1>3. /\ n % g \in 0 .. g - 1
      /\ (n + 1) % g = IF n % g = g - 1 THEN 0 ELSE (n % g) + 1
  BY <1>2, NextRemainder
<1>4. SinceThread = n % g /\ SinceThread' = (n + 1) % g
  BY <1>1 DEF SinceThread
<1>5. Wakes(n + 1) <=> (n + 1) % g = 0
  BY DEF Wakes, Unbroken, Everyone
<1>6. \A p \in Protocols : ~Unreached(p) /\ (Unreached(p)' <=> (n + 1) % g = 0)
  <2>1. SUFFICES ASSUME NEW p \in Protocols
                 PROVE  ~Unreached(p) /\ (Unreached(p)' <=> (n + 1) % g = 0)
    OBVIOUS
  <2>2. PICK k \in DOMAIN ProtocolList : ProtocolList[k] = p
    BY DEF Protocols
  <2>3. k > 0
    BY CronovanieAssumption
  <2> QED
    BY <1>1, <1>2, <1>5, <2>2, <2>3 DEF Unreached
<1>7. \A p \in Protocols : Seen(p)' = Seen(p)
  <2>1. SUFFICES ASSUME NEW p \in Protocols PROVE Seen(p)' = Seen(p)
    OBVIOUS
  <2>2. Seen(p) = n - (n % g)
    BY <1>4, <1>6 DEF Seen
  <2>3. Seen(p)' = IF (n + 1) % g = 0 THEN (n + 1) - g ELSE (n + 1) - ((n + 1) % g)
    BY <1>1, <1>4, <1>6 DEF Seen
  <2> QED
    BY <1>2, <1>3, <2>2, <2>3
<1>8. \A p \in Protocols :
        IF Seen(p)' = 0 THEN mhd_time[p] = {}
        ELSE /\ Seen(p)' >= level.group
             /\ Stamp(Seen(p))' \in mhd_time[p]
             /\ \A m \in mhd_time[p] : m <= Stamp(Seen(p))'
  BY <1>1, <1>7 DEF WindowsAreGroups, Stamp
<1>9. cron'.pc # "asleep" => local'["test_mhd"] = 0
  BY <1>1 DEF Cells
<1> QED
  BY <1>1, <1>8, <1>9 DEF WindowsAreGroups

(* What a thread that has reached a protocol knows of it.                    *)
LEMMA AtUnreached ==
    ASSUME IInv, Regular, StampsAreMultiples, WindowsAreGroups, Unbroken,
           cron.pc \in {"test", "time"}
    PROVE  /\ Protocol \in Protocols /\ Unreached(Protocol)
           /\ Seen(Protocol) = interval - level.group
           /\ interval \in Nat /\ interval >= level.group /\ SinceThread = 0
           /\ clock = interval * level.step
           /\ \A p \in Protocols : \A i \in 1 .. interval : i * level.step \in Times(p)
           /\ \A p \in Protocols : \A s \in Times(p) : \E i \in 1 .. interval : s = i * level.step
           /\ WriterDone
<1>1. Protocol \in Protocols /\ Unreached(Protocol)
  BY AwakeAtProtocol DEF IInv, AtProtocol, Protocol, Unreached
<1>2. WriterDone /\ interval \in Nat /\ SinceThread = 0 /\ level.group \in Nat
  BY LevelBounds DEF Regular, Turns, Unbroken
<1>3. Seen(Protocol) = interval - level.group
  BY <1>1 DEF Seen
<1>4. interval >= level.group
  BY <1>1, <1>2, <1>3 DEF WindowsAreGroups
<1>5. /\ clock = interval * level.step
      /\ \A p \in Protocols : \A i \in 1 .. interval : i * level.step \in Times(p)
      /\ \A p \in Protocols : \A s \in Times(p) : \E i \in 1 .. interval : s = i * level.step
  BY <1>2 DEF StampsAreMultiples, WriterDone
<1> QED
  BY <1>1, <1>2, <1>3, <1>4, <1>5

(* No protocol is passed over: its latest window is a group ago, and before  *)
(* the first one the number on the stack is zero.                            *)
LEMMA CompareGroups ==
    ASSUME IInv, Regular, StampsAreMultiples, WindowsAreGroups, Compare
    PROVE  WindowsAreGroups' /\ (Unbroken => cron'.pc = "time")
<1> DEFINE p == Protocol
<1>1. /\ OthersStay /\ mhd_time' = mhd_time /\ cron.pc = "test"
      /\ UNCHANGED <<level, restarts, clock, interval>>
  BY DEF Compare, OthersStay, program
<1> SUFFICES ASSUME Unbroken PROVE WindowsAreGroups' /\ cron'.pc = "time"
  BY <1>1, GroupsStay DEF Unbroken
<1>2. /\ p \in Protocols /\ Unreached(p) /\ Seen(p) = interval - level.group
      /\ interval \in Nat /\ interval >= level.group /\ clock = interval * level.step
      /\ \A i \in 1 .. interval : i * level.step \in Times(p)
  BY <1>1, AtUnreached
<1>3. level.group \in Nat \ {0} /\ level.step \in Nat \ {0} /\ clock \in Nat
  BY LevelBounds
<1>4. LocalsAfterTest["test_nl"] = clock
  <2>1. interval \in 1 .. interval
    BY <1>2, <1>3
  <2>2. clock \in Times(p)
    BY <1>2, <2>1
  <2>3. Max(Times(p)) = clock
    BY <1>2, <1>3, <2>2, LastStamp
  <2> QED
    BY <2>2, <2>3 DEF LocalsAfterTest, Newest, Cells
<1>5. mhd_time[p] = {} => interval = level.group /\ LocalsAfterTest["test_mhd"] = 0
  <2>1. ASSUME mhd_time[p] = {} PROVE interval = level.group
    BY <1>2, <1>3, <2>1 DEF WindowsAreGroups
  <2>2. interval = level.group => local["test_mhd"] = 0
    BY <1>1 DEF WindowsAreGroups
  <2>3. mhd_time[p] = {} => LocalsAfterTest["test_mhd"] = Cleared("test_mhd")
    BY DEF LocalsAfterTest, Newest, Cells
  <2>4. Cleared("test_mhd") \in {local["test_mhd"], 0}
    BY DEF Cleared
  <2> QED
    BY <2>1, <2>2, <2>3, <2>4
<1>6. ~(LocalsAfterTest["test_nl"] < LocalsAfterTest["test_mhd"] + level.margin)
  <2>1. CASE mhd_time[p] = {}
    <3>1. clock = level.group * level.step /\ LocalsAfterTest["test_mhd"] = 0
      BY <1>2, <1>5, <2>1
    <3>2. level.margin < clock /\ level.margin \in Nat
      BY <3>1, LevelBounds
    <3> QED
      BY <1>3, <1>4, <3>1, <3>2
  <2>2. CASE mhd_time[p] # {}
    <3> DEFINE m == Max(mhd_time[p])
    <3>1. LocalsAfterTest["test_mhd"] = m
      BY <2>2 DEF LocalsAfterTest, Newest, Cells
    <3>2. m \in mhd_time[p] /\ m \in Nat
      BY <1>2, <2>2, LastWindow
    <3> HIDE DEF m
    <3>3. m + level.konst < clock
      BY <1>2, <3>2, PastAnyway DEF Unbroken
    <3>4. level.margin <= level.konst /\ level.margin \in Nat /\ level.konst \in Nat
      BY LevelBounds
    <3> QED
      BY <1>3, <1>4, <3>1, <3>2, <3>3, <3>4
  <2> QED
    BY <2>1, <2>2
<1>7. GoTo("time") /\ local' = LocalsAfterTest
  BY <1>6 DEF Compare
<1>8. /\ cron'.pc = "time"
      /\ \A q \in Protocols : Unreached(q)' <=> Unreached(q)
  BY <1>1, <1>7, GoToReaches DEF Pcs
<1>9. interval = level.group => local'["test_mhd"] = local["test_mhd"]
  <2>1. SUFFICES ASSUME interval = level.group PROVE local'["test_mhd"] = local["test_mhd"]
    OBVIOUS
  <2>2. mhd_time[p] = {}
    BY <1>2, <1>3, <2>1 DEF WindowsAreGroups
  <2>3. local["test_mhd"] = 0
    BY <1>1, <2>1 DEF WindowsAreGroups
  <2> QED
    BY <1>5, <1>7, <2>2, <2>3
<1> QED
  BY <1>1, <1>8, <1>9, GroupsStay

(* The next window begins with the next group of stamps.                     *)
LEMMA BeginOfGroup ==
    ASSUME IInv, Regular, StampsAreMultiples, WindowsAreGroups, Unbroken, cron.pc = "time"
    PROVE  Begin(Protocol) = Stamp(interval)
<1> DEFINE p == Protocol
           n == interval
           g == level.group
           s == level.step
<1>1. /\ p \in Protocols /\ Seen(p) = n - g /\ n \in Nat /\ n >= g
      /\ \A i \in 1 .. n : i * s \in Times(p)
      /\ \A t \in Times(p) : \E i \in 1 .. n : t = i * s
  BY AtUnreached
<1>2. /\ g \in Nat \ {0} /\ s \in Nat \ {0} /\ level.konst \in Nat
      /\ (g - 1) * s \in Nat /\ (g - 1) * s <= level.konst /\ level.konst < g * s
      /\ g * s \in Nat
  BY LevelBounds
<1> HIDE DEF p
<1>3. CASE Seen(p) = 0
  <2>1. mhd_time[p] = {} /\ n = g
    <3>1. mhd_time[p] = {}
      BY <1>1, <1>3 DEF WindowsAreGroups
    <3> QED
      BY <1>1, <1>2, <1>3, <3>1
  <2>2. 1 * s \in Times(p) /\ 1 * s = s
    BY <1>1, <1>2
  <2>3. \A t \in Times(p) : t >= s
    <3>1. SUFFICES ASSUME NEW i \in 1 .. n PROVE i * s >= s
      BY <1>1
    <3>2. i \in Int /\ s \in Nat /\ 1 \in Int /\ 1 <= i
      BY <1>1, <1>2
    <3>3. 1 * s <= i * s
      BY <3>2, Multiples
    <3> QED
      BY <2>2, <3>3
  <2>4. Min(Times(p)) \in Times(p) /\ Min(Times(p)) <= s /\ Min(Times(p)) \in Nat
    BY <1>1, <2>2, LeastNumber, TimesAreNumbers
  <2>5. Min(Times(p)) = s
    BY <1>2, <2>3, <2>4
  <2>6. Stamp(n) = s
    BY <1>2, <2>1, <2>2 DEF Stamp
  <2> QED
    BY <2>1, <2>2, <2>5, <2>6 DEF Begin, p
<1>4. CASE Seen(p) # 0
  <2> DEFINE a == n - g - g + 1
             b == n - g + 1
             m == Max(mhd_time[p])
  <2>1. Seen(p) >= g /\ Stamp(Seen(p)) \in mhd_time[p] /\ \A t \in mhd_time[p] : t <= Stamp(Seen(p))
    BY <1>1, <1>4 DEF WindowsAreGroups
  <2>2. a \in Nat /\ b \in 1 .. n /\ b - 1 \in Int /\ b = a + g /\ b - 1 = a + (g - 1)
    BY <1>1, <1>2, <2>1
  <2>3. Stamp(Seen(p)) = a * s /\ Stamp(n) = b * s
    BY <1>1, <1>2 DEF Stamp
  <2> HIDE DEF a, b
  <2>4. a * s \in Nat /\ b * s = a * s + g * s /\ (b - 1) * s = a * s + (g - 1) * s
    <3>1. a * s \in Nat
      BY <1>2, <2>2
    <3>2. (a + g) * s = a * s + g * s
      BY <1>2, <2>2
    <3>3. (a + (g - 1)) * s = a * s + (g - 1) * s
      BY <1>2, <2>2
    <3> QED
      BY <2>2, <3>1, <3>2, <3>3
  <2>5. m = a * s
    <3>1. m \in mhd_time[p] /\ m \in Nat /\ a * s <= m
      BY <1>1, <2>1, <2>3, LastWindow
    <3>2. m <= a * s
      BY <2>1, <2>3, <3>1
    <3> QED
      BY <2>4, <3>1, <3>2
  <2>6. /\ EndOfLast(p) = a * s + level.konst /\ EndOfLast(p) \in Nat
        /\ (b - 1) * s <= EndOfLast(p) /\ EndOfLast(p) < b * s
    BY <1>2, <2>4, <2>5 DEF EndOfLast
  <2> DEFINE S == Later(p, EndOfLast(p))
  <2>7. b * s \in Times(p) /\ b * s > EndOfLast(p)
    BY <1>1, <2>2, <2>4, <2>6
  <2>8. S # {} /\ Min(S) \in Times(p) /\ Min(S) \in Nat /\ Min(S) > EndOfLast(p) /\ Min(S) <= b * s
    BY <1>1, <2>6, <2>7, FirstLater
  <2>9. PICK i \in 1 .. n : Min(S) = i * s
    BY <1>1, <2>8
  <2>10. i > b - 1
    <3>1. SUFFICES ASSUME i <= b - 1 PROVE FALSE
      BY <1>1, <2>2
    <3>2. i * s <= (b - 1) * s
      BY <1>1, <1>2, <2>2, <3>1, Multiples
    <3> QED
      BY <1>2, <2>4, <2>6, <2>8, <2>9, <3>2
  <2>11. b * s <= i * s
    <3>1. b <= i /\ b \in Int /\ i \in Int
      BY <1>1, <2>2, <2>10
    <3> QED
      BY <1>2, <3>1, Multiples
  <2>12. Min(S) = b * s
    BY <1>2, <2>4, <2>8, <2>9, <2>11
  <2> QED
    BY <2>1, <2>3, <2>8, <2>12 DEF Begin, p
<1> QED
  BY <1>3, <1>4

(* The window of a group takes the place of the one before.                  *)
LEMMA InsertTimeGroups ==
    ASSUME IInv, Regular, StampsAreMultiples, WindowsAreGroups, InsertTime
    PROVE  WindowsAreGroups'
<1> DEFINE b == Begin(Protocol)
<1>1. /\ cron.pc = "time" /\ cron'.pc = "od" /\ Protocol \in Protocols
      /\ UNCHANGED <<level, restarts, interval>>
      /\ \A p \in Protocols : p # Protocol => (Unreached(p)' <=> Unreached(p))
      /\ \A p \in Protocols : p = Protocol => ~Unreached(p)'
      /\ mhd_time' = [mhd_time EXCEPT ![Protocol] = @ \cup {b}]
      /\ local'["test_mhd"] = local["test_mhd"]
  BY GoToReaches DEF InsertTime, OthersStay, program, Pcs, IInv, TypeOK, Cells
<1> SUFFICES ASSUME Unbroken PROVE WindowsAreGroups'
  BY <1>1 DEF WindowsAreGroups, Unbroken, Everyone
<1>2. /\ b = Stamp(interval) /\ SinceThread = 0 /\ interval \in Nat
      /\ interval >= level.group /\ level.group \in Nat \ {0}
  BY <1>1, AtUnreached, BeginOfGroup, LevelBounds
<1>3. b \in Nat /\ \A m \in mhd_time[Protocol] : m \in Nat /\ b >= m + level.konst
  BY <1>1, BeginIsLater DEF IInv, Shapes
<1> HIDE DEF b
<1>4. SinceThread' = 0 /\ \A n : Stamp(n)' = (n - level.group + 1) * level.step
  BY <1>1, <1>2 DEF SinceThread, Stamp
<1>5. ASSUME NEW p \in Protocols
      PROVE  IF Seen(p)' = 0 THEN mhd_time'[p] = {}
             ELSE /\ Seen(p)' >= level.group
                  /\ Stamp(Seen(p))' \in mhd_time'[p]
                  /\ \A m \in mhd_time'[p] : m <= Stamp(Seen(p))'
  <2>1. CASE p = Protocol
    <3>1. Seen(p)' = interval
      BY <1>1, <1>2, <1>4, <2>1 DEF Seen
    <3>2. Stamp(Seen(p))' = b
      BY <1>1, <1>2, <3>1 DEF Stamp
    <3>3. mhd_time'[p] = mhd_time[p] \cup {b}
      BY <1>1, <2>1 DEF IInv, Shapes
    <3>4. \A m \in mhd_time'[p] : m <= b
      <4>1. ASSUME NEW m \in mhd_time[p] PROVE m <= b
        BY <1>3, <2>1, <4>1, LevelBounds
      <4>2. b <= b
        BY <1>3
      <4> QED
        BY <3>3, <4>1, <4>2
    <3> QED
      BY <1>2, <3>1, <3>2, <3>3, <3>4
  <2>2. CASE p # Protocol
    <3>1. Seen(p)' = Seen(p) /\ mhd_time'[p] = mhd_time[p]
      BY <1>1, <1>2, <1>4, <2>2 DEF Seen, IInv, Shapes
    <3> QED
      BY <1>1, <3>1 DEF WindowsAreGroups, Stamp
  <2> QED
    BY <2>1, <2>2
<1> QED
  BY <1>1, <1>5 DEF WindowsAreGroups

(* Every step keeps the windows of groups.                                   *)
LEMMA StepGroups ==
    IInv /\ Regular /\ StampsAreMultiples /\ WindowsAreGroups /\ [Next]_vars => WindowsAreGroups'
<1> SUFFICES ASSUME IInv, Regular, StampsAreMultiples, WindowsAreGroups, [Next]_vars
             PROVE  WindowsAreGroups'
  OBVIOUS
<1>1. ASSUME UNCHANGED <<level, restarts, interval, mhd_time, cron, local>>
      PROVE  WindowsAreGroups'
  BY <1>1, GroupsStay DEF Unreached
<1>2. ASSUME NEW kind \in level.kinds, Flush(kind) PROVE WindowsAreGroups'
  BY <1>2, FlushGroups
<1>3. ASSUME NEW p \in Protocols, WriteTime(p) PROVE WindowsAreGroups'
  BY <1>1, <1>3 DEF WriteTime, program, thread
<1>4. CASE WriteRows
  BY <1>1, <1>4 DEF WriteRows, program, thread
<1>5. CASE Restart
  <2>1. restarts' # 0
    BY <1>5 DEF Restart, Regular, Turns
  <2> QED
    BY <2>1 DEF WindowsAreGroups, Unbroken
<1>6. ASSUME Proceed(local), OthersStay, cron.pc \in {"show", "sum"}, mhd_time' = mhd_time
      PROVE  WindowsAreGroups'
  <2>1. UNCHANGED <<level, restarts, interval, mhd_time>>
    BY <1>6 DEF OthersStay, program
  <2>2. cron'.pc # "asleep" => local' = local
    BY <1>6 DEF Proceed, Asleep
  <2>3. ASSUME Unbroken, NEW p \in Protocols PROVE Unreached(p)' <=> Unreached(p)
    <3>1. Protocols \subseteq tables
      BY <1>6, <2>3 DEF Regular, Turns, Unbroken
    <3>2. Unreached(p)' <=> \E n \in DOMAIN ProtocolList : ProtocolList[n] = p /\ n > cron.k
      BY <1>6, <3>1, ProceedToNext
    <3> QED
      BY <1>6, <3>2 DEF Unreached
  <2> QED
    BY <1>6, <2>1, <2>2, <2>3, GroupsStay
<1>7. CASE ShowTables
  BY <1>6, <1>7 DEF ShowTables
<1>8. CASE Compare
  BY <1>8, CompareGroups
<1>9. CASE InsertTime
  BY <1>9, InsertTimeGroups
<1>10. ASSUME NEW pc \in {"do", "max", "sum"}, GoTo(pc), OthersStay,
              cron.pc \in {"od", "do", "max"}, mhd_time' = mhd_time, local' = local
       PROVE  WindowsAreGroups'
  <2>1. \A p \in Protocols : Unreached(p)' <=> Unreached(p)
    BY <1>10, GoToReaches DEF Pcs
  <2>2. UNCHANGED <<level, restarts, interval, mhd_time>>
    BY <1>10 DEF OthersStay, program
  <2> QED
    BY <1>10, <2>1, <2>2, GroupsStay
<1>11. CASE SelectFrom \/ SelectTo \/ SelectMax
  BY <1>10, <1>11 DEF SelectFrom, SelectTo, SelectMax
<1>12. CASE Sum
  BY <1>6, <1>12 DEF Sum
<1>13. CASE UNCHANGED vars
  BY <1>1, <1>13 DEF vars, program, thread, database
<1> QED
  BY <1>2, <1>3, <1>4, <1>5, <1>7, <1>8, <1>9, <1>11, <1>12, <1>13 DEF Next, Cron, Quiet

(* What a thread that has begun a window knows of it: it ends with the       *)
(* stamps there are.                                                         *)
LEMMA AtReached ==
    ASSUME IInv, Summed, Regular, StampsAreMultiples, WindowsAreGroups, Unbroken, HasBegun
    PROVE  /\ Protocol \in Protocols /\ WriterDone
           /\ Time \in Times(Protocol) /\ Time \in Nat
           /\ Time + level.konst >= clock
           /\ Time + level.konst < clock + level.step
<1> DEFINE p == Protocol
           n == interval
           g == level.group
           s == level.step
           b == n - g + 1
<1>1. p \in Protocols /\ ~Unreached(p)
  <2>1. p \in Protocols
    BY AwakeAtProtocol DEF HasBegun
  <2>2. /\ \A k \in DOMAIN ProtocolList : ProtocolList[k] = p <=> k = cron.k
        /\ cron.k \in DOMAIN ProtocolList
    BY CronovanieAssumption DEF HasBegun, IInv, AtProtocol, Protocol
  <2>3. cron.k \in Nat
    BY DEF IInv, Shapes
  <2> QED
    BY <2>1, <2>2, <2>3 DEF Unreached, HasBegun
<1>2. WriterDone /\ n \in Nat /\ n >= 1 /\ SinceThread = 0
  BY DEF Regular, Turns, HasBegun, Unbroken
<1>3. /\ g \in Nat \ {0} /\ s \in Nat \ {0} /\ level.konst \in Nat
      /\ (g - 1) * s <= level.konst /\ level.konst < g * s
      /\ g * s \in Nat /\ (g - 1) * s \in Nat /\ clock \in Nat
  BY LevelBounds
<1>4. Seen(p) = n /\ n >= g /\ Stamp(n) \in mhd_time[p] /\ \A m \in mhd_time[p] : m <= Stamp(n)
  <2>1. Seen(p) = n
    BY <1>1, <1>2 DEF Seen
  <2>2. Seen(p) # 0
    BY <1>2, <2>1
  <2> QED
    BY <1>1, <2>1, <2>2 DEF WindowsAreGroups
<1>5. b \in 1 .. n /\ b \in Int /\ Stamp(n) = b * s
  BY <1>2, <1>3, <1>4 DEF Stamp
<1>6. Time = b * s
  <2>1. Time \in mhd_time[p] /\ Time <= b * s /\ Time \in Nat
    BY <1>4, <1>5 DEF Summed, LatestWindow, IInv, TypeOK, Time, Cells
  <2>2. b * s <= Time
    BY <1>4, <1>5 DEF Summed, LatestWindow
  <2>3. b * s \in Int
    BY <1>3, <1>5
  <2> QED
    BY <2>1, <2>2, <2>3
<1>7. clock = n * s /\ b * s \in Times(p)
  BY <1>1, <1>2, <1>5 DEF StampsAreMultiples, WriterDone
<1>8. /\ b * s + (g - 1) * s = n * s
      /\ b * s + g * s = n * s + s
  <2>1. n \in Int /\ g \in Int /\ s \in Nat
    BY <1>2, <1>3
  <2>2. n = b + (g - 1) /\ n + 1 = b + g /\ g - 1 \in Int
    BY <2>1
  <2> HIDE DEF b
  <2>3. (b + (g - 1)) * s = b * s + (g - 1) * s
    BY <1>5, <2>1
  <2>4. (b + g) * s = b * s + g * s
    BY <1>5, <2>1
  <2>5. (n + 1) * s = n * s + s
    BY <2>1, Multiples
  <2> QED
    BY <2>2, <2>3, <2>4, <2>5
<1>9. Time \in Nat
  BY DEF IInv, TypeOK, Time, Cells
<1> HIDE DEF b
<1>10. Time + level.konst >= clock /\ Time + level.konst < clock + s
  BY <1>3, <1>6, <1>7, <1>8, <1>9
<1> QED
  BY <1>1, <1>2, <1>6, <1>7, <1>9, <1>10

(* Every step keeps the range whole: it begins before the stamp of its       *)
(* window, and ends with the table.                                          *)
LEMMA StepRange ==
    /\ IInv /\ Finer /\ Summed /\ Regular /\ StampsAreMultiples /\ WindowsAreGroups
    /\ RangeIsWhole /\ [Next]_vars
    => RangeIsWhole'
<1> SUFFICES ASSUME IInv, Finer, Summed, Regular, StampsAreMultiples, WindowsAreGroups,
                    RangeIsWhole, [Next]_vars
             PROVE  RangeIsWhole'
  OBVIOUS
<1>1. ASSUME cron'.pc \notin {"do", "max", "sum"} PROVE RangeIsWhole'
  BY <1>1 DEF RangeIsWhole
<1>2. ASSUME UNCHANGED <<level, restarts, nl_time, nl_rows, cron, local, IP_id>>
      PROVE  RangeIsWhole'
  BY <1>2 DEF RangeIsWhole, Unbroken, Everyone, Protocol, Time
<1>3. ASSUME NEW kind \in level.kinds, Flush(kind) PROVE RangeIsWhole'
  BY <1>1, <1>3 DEF Flush, GoTo, IInv, Shapes
<1>4. ASSUME ~WriterDone, UNCHANGED <<level, restarts, cron>> PROVE RangeIsWhole'
  <2>1. Unbroken => cron.pc \in {"asleep", "show"}
    BY <1>4 DEF Regular, Turns, Unbroken
  <2> QED
    BY <1>4, <2>1 DEF RangeIsWhole, Unbroken, Everyone
<1>5. ASSUME NEW p \in Protocols, WriteTime(p) PROVE RangeIsWhole'
  BY <1>4, <1>5 DEF WriteTime, WriterDone, program, thread
<1>6. CASE WriteRows
  BY <1>4, <1>6 DEF WriteRows, WriterDone, program, thread
<1>7. CASE Restart
  BY <1>1, <1>7 DEF Restart, Asleep
<1>8. CASE ShowTables \/ Sum
  BY <1>1, <1>8, ProceedPc DEF ShowTables, Sum
<1>9. CASE Compare
  BY <1>1, <1>9, ProceedPc DEF Compare, GoTo, IInv, Shapes
<1>10. CASE InsertTime
  BY <1>1, <1>10 DEF InsertTime, GoTo, IInv, Shapes
<1>11. CASE SelectFrom \/ SelectTo \/ SelectMax
  <2> DEFINE p == Protocol
  <2>1. /\ UNCHANGED <<level, restarts, nl_time, nl_rows, local>>
        /\ p' = p /\ p \in Protocols /\ HasBegun
    BY <1>11, GoToReaches DEF SelectFrom, SelectTo, SelectMax, OthersStay, program, Pcs, HasBegun
  <2>2. Time' = Time /\ Unbroken' = Unbroken
    BY <2>1 DEF Time, Unbroken, Everyone
  <2>3. IP_id \in [from : Nat, to : Int]
    BY DEF IInv, Shapes
  <2> SUFFICES ASSUME Unbroken
               PROVE  /\ \A r \in nl_time[p] : r.time = Time => IP_id'.from <= r.id - 1
                      /\ cron'.pc = "sum" => IP_id'.to = Len(nl_rows[p])
    BY <2>1, <2>2 DEF RangeIsWhole
  <2>4. CASE SelectFrom
    <3>1. ASSUME NEW r \in nl_time[p], r.time = Time PROVE IP_id'.from = r.id - 1 /\ r.id \in Nat
      <4>1. FirstId(p, Time) = r.id - 1 /\ r.id \in Nat
        BY <2>1, <3>1, FirstIdOfStamp, IdOfStamp
      <4> QED
        BY <2>3, <2>4, <4>1 DEF SelectFrom, Time
    <3>2. cron'.pc = "do"
      BY <2>4 DEF SelectFrom, GoTo, IInv, Shapes
    <3> QED
      BY <3>1, <3>2
  <2>5. CASE SelectTo
    <3>1. Later(p, Time + level.konst) = {}
      <4>1. Time \in Nat /\ Time + level.konst >= clock /\ level.konst \in Nat /\ clock \in Nat
        BY <2>1, AtReached, LevelBounds
      <4>2. \A t \in Times(p) : t \in Nat /\ t <= clock
        BY <2>1, LastStamp
      <4>3. \A t \in Times(p) : ~(t > Time + level.konst)
        BY <4>1, <4>2
      <4> QED
        BY <4>3 DEF Later
    <3>2. UNCHANGED IP_id /\ cron'.pc = "max"
      BY <2>5, <3>1 DEF SelectTo, GoTo, Time, IInv, Shapes
    <3> QED
      BY <2>5, <3>2 DEF SelectTo, RangeIsWhole
  <2>6. CASE SelectMax
    <3>1. IP_id'.from = IP_id.from /\ IP_id'.to = Len(nl_rows[p])
      BY <2>3, <2>6 DEF SelectMax
    <3> QED
      BY <2>6, <3>1 DEF SelectMax, RangeIsWhole
  <2> QED
    BY <1>11, <2>4, <2>5, <2>6
<1>12. CASE UNCHANGED vars
  BY <1>2, <1>12 DEF vars, program, thread, database
<1> QED
  BY <1>3, <1>5, <1>6, <1>7, <1>8, <1>9, <1>10, <1>11, <1>12 DEF Next, Cron, Quiet

(* Every step keeps the sums whole.                                          *)
LEMMA StepWhole ==
    /\ IInv /\ Finer /\ Summed /\ Regular /\ StampsAreMultiples /\ WindowsAreGroups
    /\ RangeIsWhole /\ SumsAreWhole /\ [Next]_vars
    => SumsAreWhole'
<1> SUFFICES ASSUME IInv, Finer, Summed, Regular, StampsAreMultiples, WindowsAreGroups,
                    RangeIsWhole, SumsAreWhole, [Next]_vars
             PROVE  SumsAreWhole'
  OBVIOUS
<1>1. ASSUME UNCHANGED <<level, restarts, clock, nl_rows, sums>>, WriterDone' = WriterDone
      PROVE  SumsAreWhole'
  BY <1>1 DEF SumsAreWhole, Unbroken, Everyone
<1>2. \A p \in Protocols : \A w \in sums[p] : w.time \in Nat
  BY DEF Summed, SumShapes
<1>3. clock \in Nat /\ level.step \in Nat \ {0} /\ level.konst \in Nat
  BY LevelBounds
<1>4. ASSUME NEW kind \in level.kinds, Flush(kind) PROVE SumsAreWhole'
  <2>1. /\ UNCHANGED <<level, restarts, nl_rows, sums>> /\ clock' = clock + level.step
    BY <1>4 DEF Flush
  <2>2. SUFFICES ASSUME Unbroken, NEW p \in Protocols, NEW w \in sums[p]
                 PROVE  /\ w.time + level.konst < clock' + level.step
                        /\ w.time + level.konst < clock'
                        /\ \A id \in DOMAIN nl_rows[p] :
                              nl_rows[p][id] \in w.time .. w.time + level.konst => id \in w.ids
    BY <2>1 DEF SumsAreWhole, Unbroken, Everyone
  <2>3. /\ w.time + level.konst < clock + level.step
        /\ \A id \in DOMAIN nl_rows[p] :
              nl_rows[p][id] \in w.time .. w.time + level.konst => id \in w.ids
    BY <2>2 DEF SumsAreWhole
  <2> QED
    BY <1>2, <1>3, <2>1, <2>2, <2>3
<1>5. ASSUME NEW p \in Protocols, WriteTime(p) PROVE SumsAreWhole'
  BY <1>5 DEF WriteTime, WriterDone, SumsAreWhole, Unbroken, Everyone, program
<1>6. CASE WriteRows
  <2>1. UNCHANGED <<level, restarts, clock, sums>> /\ ~WriterDone
    BY <1>6 DEF WriteRows, WriterDone, program
  <2>2. SUFFICES ASSUME Unbroken, NEW p \in Protocols, NEW w \in sums[p]
                 PROVE  /\ w.time + level.konst < clock + level.step
                        /\ w.time + level.konst < clock
                        /\ \A id \in DOMAIN nl_rows'[p] :
                              nl_rows'[p][id] \in w.time .. w.time + level.konst => id \in w.ids
    BY <2>1 DEF SumsAreWhole, Unbroken, Everyone
  <2>3. /\ w.time + level.konst < clock + level.step
        /\ w.time + level.konst < clock
        /\ \A id \in DOMAIN nl_rows[p] :
              nl_rows[p][id] \in w.time .. w.time + level.konst => id \in w.ids
    BY <2>1, <2>2 DEF SumsAreWhole
  <2>4. clock \notin w.time .. w.time + level.konst
    BY <1>2, <1>3, <2>3
  <2>5. \A id \in DOMAIN nl_rows'[p] :
            (id \in DOMAIN nl_rows[p] /\ nl_rows'[p][id] = nl_rows[p][id]) \/ nl_rows'[p][id] = clock
    <3>1. CASE p # at_work
      BY <1>6, <3>1, RowAppended
    <3>2. CASE p = at_work
      <4>1. /\ DOMAIN nl_rows'[p] = 1 .. Len(nl_rows[p]) + 1
            /\ nl_rows'[p][Len(nl_rows[p]) + 1] = clock
            /\ \A j \in DOMAIN nl_rows[p] : nl_rows'[p][j] = nl_rows[p][j]
        BY <1>6, <3>2, RowAppended
      <4>2. DOMAIN nl_rows[p] = 1 .. Len(nl_rows[p]) /\ Len(nl_rows[p]) \in Nat
        BY DEF IInv, Shapes
      <4> QED
        BY <4>1, <4>2
    <3> QED
      BY <3>1, <3>2
  <2> QED
    BY <2>3, <2>4, <2>5
<1>7. CASE Restart
  <2>1. restarts' # 0
    BY <1>7 DEF Restart, Regular, Turns
  <2> QED
    BY <2>1 DEF SumsAreWhole, Unbroken
<1>8. CASE ShowTables \/ Compare \/ InsertTime \/ SelectFrom \/ SelectTo \/ SelectMax
  BY <1>1, <1>8 DEF ShowTables, Compare, InsertTime, SelectFrom, SelectTo, SelectMax,
                    OthersStay, program, writer, WriterDone
<1>9. CASE Sum
  <2> DEFINE p == Protocol
             ids == (IP_id.from .. IP_id.to) \cap DOMAIN nl_rows[p]
             new == [time |-> Time, ids |-> ids]
  <2>1. /\ sums' = [sums EXCEPT ![p] = @ \cup {new}]
        /\ UNCHANGED <<level, restarts, clock, nl_rows, to_write, at_work>>
        /\ cron.pc = "sum" /\ HasBegun
    BY <1>9 DEF Sum, OthersStay, program, writer, Time, HasBegun
  <2>2. new.time = Time /\ new.ids = ids
    OBVIOUS
  <2>3. Unbroken' = Unbroken /\ WriterDone' = WriterDone
    BY <2>1 DEF Unbroken, Everyone, WriterDone
  <2> SUFFICES ASSUME Unbroken PROVE SumsAreWhole'
    BY <2>3 DEF SumsAreWhole
  <2>4. /\ p \in Protocols /\ WriterDone /\ Time \in Times(p) /\ Time \in Nat
        /\ Time + level.konst < clock + level.step
    BY <2>1, AtReached
  <2>5. \A id \in DOMAIN nl_rows[p] : nl_rows[p][id] >= Time => id \in ids
    <3>1. SUFFICES ASSUME NEW id \in DOMAIN nl_rows[p], nl_rows[p][id] >= Time
                   PROVE  id \in IP_id.from .. IP_id.to
      OBVIOUS
    <3>2. PICK r \in nl_time[p] : r.time = Time
      BY <2>4 DEF Times
    <3>3. r.id \in Nat /\ IP_id.from <= r.id - 1 /\ IP_id.to = Len(nl_rows[p]) /\ IP_id.from \in Nat
      BY <2>1, <2>4, <3>2, IdOfStamp DEF RangeIsWhole, IInv, Shapes
    <3>4. IF id < r.id THEN nl_rows[p][id] < r.time ELSE nl_rows[p][id] >= r.time
      BY <2>4 DEF Finer, FinerTables
    <3>5. DOMAIN nl_rows[p] = 1 .. Len(nl_rows[p]) /\ Len(nl_rows[p]) \in Nat
      BY <2>4 DEF IInv, Shapes
    <3>6. nl_rows[p][id] \in Nat /\ id \in Nat /\ id <= Len(nl_rows[p])
      BY <2>4, <3>5, RowsInOrder
    <3>7. ~(id < r.id)
      BY <2>4, <3>1, <3>2, <3>4, <3>6
    <3> QED
      BY <3>3, <3>6, <3>7
  <2> HIDE DEF new, ids
  <2>6. \A q \in Protocols : \A w \in sums'[q] : w \in sums[q] \/ (q = p /\ w = new)
    BY <2>1, <2>4 DEF Summed, SumShapes
  <2>7. \A id \in DOMAIN nl_rows[p] :
            nl_rows[p][id] \in Time .. Time + level.konst => nl_rows[p][id] >= Time
    BY <1>3, <2>4
  <2>8. /\ new.time + level.konst < clock + level.step
        /\ \A id \in DOMAIN nl_rows[p] :
              nl_rows[p][id] \in new.time .. new.time + level.konst => id \in new.ids
    BY <2>2, <2>4, <2>5, <2>7
  <2>9. ASSUME NEW q \in Protocols, NEW w \in sums'[q]
        PROVE  /\ w.time + level.konst < clock + level.step
               /\ \A id \in DOMAIN nl_rows[q] :
                     nl_rows[q][id] \in w.time .. w.time + level.konst => id \in w.ids
    BY <2>6, <2>8 DEF SumsAreWhole
  <2> QED
    BY <2>1, <2>3, <2>4, <2>9 DEF SumsAreWhole
<1>10. CASE UNCHANGED vars
  BY <1>1, <1>10 DEF vars, program, writer, database, WriterDone
<1> QED
  BY <1>4, <1>5, <1>6, <1>7, <1>8, <1>9, <1>10 DEF Next, Cron, Quiet

(* On the levels above the first, windows are covered as long as every       *)
(* protocol is in every flush, the process lives, and the stack was clear.   *)
THEOREM UpperLevelsMissNothing == Spec => []UpperWindowsAreCovered
<1> DEFINE Whole == StampsAreMultiples /\ WindowsAreGroups /\ RangeIsWhole /\ SumsAreWhole
<1>1. Init => Whole
  <2>1. Init => RangeIsWhole /\ SumsAreWhole
    BY DEF Init, Asleep, RangeIsWhole, SumsAreWhole
  <2> QED
    BY <2>1, InitMultiples, InitGroups
<1>2. Known /\ Whole /\ [Next]_vars => Whole'
  BY StepMultiples, StepGroups, StepRange, StepWhole DEF Known
<1>3. Whole => UpperWindowsAreCovered
  <2>1. SUFFICES ASSUME Unbroken, SumsAreWhole PROVE WindowIsCovered
    BY DEF UpperWindowsAreCovered, Unbroken, Everyone
  <2> QED
    BY <2>1 DEF SumsAreWhole, WindowIsCovered
<1> HIDE DEF Whole
<1> QED
  BY <1>1, <1>2, <1>3, KnownAlways, PTL DEF Spec
=============================================================================
