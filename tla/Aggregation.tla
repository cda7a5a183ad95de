------------------------------- MODULE Aggregation -------------------------------
(*****************************************************************************)
(* processingl: from the records of one protocol to the rows of its four     *)
(* tables (src/backend/processing.c).                                        *)
(*                                                                           *)
(* A record counts the frames of one conversation, by its source and         *)
(* destination at two layers, MAC and IP.  For each table an outer loop goes *)
(* once over the list; a record that no earlier turn has taken in gives a    *)
(* row, which also takes in the matching records after it, and these are     *)
(* marked in spracovany[0..3] so that their own turn gives no row.  The      *)
(* loops of the IP and of the MAC table are the same text over other fields  *)
(* and marks; with IPv6 the comparison is compare_IPv6, equality of all four *)
(* words, so addresses are plain values here.  Bytes and packets are added   *)
(* at the same places: one number, the packets, stands for both.             *)
(*                                                                           *)
(* An INSERT that fails is reported on stderr and changes nothing here; what *)
(* it leaves in the database is Pipeline's and Records' matter.              *)
(*****************************************************************************)
EXTENDS Naturals, Sequences, FiniteSetsExt

CONSTANTS
    Mac, Ip         \* the addresses of the two layers

VARIABLES
    zoznam,         \* the records of the protocol at work, in list order
    spracovany,     \* the four marks of each record
    table,          \* the INSERT being built, or Idle
    help_zaznamy,   \* the record of the outer loop
    half,           \* address tables: the first or the second if of the turn
    prikaz          \* rows in the INSERT; at: the turn that added the row

aggregation_vars == <<zoznam, spracovany, table, help_zaznamy, half, prikaz>>

Idle == "none"
Tables == {"IP", "IP_SD", "MAC", "MAC_SD"}
AddressTables == {"IP", "MAC"}
PairTables == {"IP_SD", "MAC_SD"}
IpTables == {"IP", "IP_SD"}

NextTable(t) ==
    IF t = "IP" THEN "IP_SD" ELSE IF t = "IP_SD" THEN "MAC"
    ELSE IF t = "MAC" THEN "MAC_SD" ELSE Idle

\* Source and destination of record j in the table at work, and their marks.
Source(j) == IF table \in IpTables THEN zoznam[j].ip_s ELSE zoznam[j].mac_s
Destin(j) == IF table \in IpTables THEN zoznam[j].ip_d ELSE zoznam[j].mac_d
SourceMark == IF table \in IpTables THEN 2 ELSE 0
DestinMark == IF table \in IpTables THEN 3 ELSE 1

Records == DOMAIN zoznam
Later == {j \in Records : j > help_zaznamy}
PacketsOf(list, J) == SumFunctionOnSet([j \in DOMAIN list |-> list[j].pocet], J)
Total(J) == PacketsOf(zoznam, J)

\* spracovany when the source marks of J and the destination marks of K get m.
Marked(J, K, m) ==
    [j \in Records |-> [k \in 0 .. 3 |->
        IF (k = SourceMark /\ j \in J) \/ (k = DestinMark /\ j \in K)
        THEN m ELSE spracovany[j][k]]]

NoMarks(list) == [j \in DOMAIN list |-> [k \in 0 .. 3 |-> 0]]

-----------------------------------------------------------------------------
AggregationInit ==
    /\ zoznam = <<>>
    /\ spracovany = <<>>
    /\ table = Idle
    /\ help_zaznamy = 1
    /\ half = "s"
    /\ prikaz = {}

\* zapis_do_DB_protokoly calls processingl; m_protokoly made the marks zero.
Begin(list) ==
    /\ table = Idle
    /\ zoznam' = list
    /\ spracovany' = NoMarks(list)
    /\ table' = "IP"
    /\ help_zaznamy' = 1
    /\ half' = "s"
    /\ prikaz' = {}

InLoop == help_zaznamy \in Records

-----------------------------------------------------------------------------
(* One if of a turn in an address table: "s" gives the row of the record's   *)
(* source, "d" that of its destination.  The other end of the same record is *)
(* not looked at: the inner loop starts behind it.                           *)

Address == IF half = "s" THEN Source(help_zaznamy) ELSE Destin(help_zaznamy)
OwnMark == IF half = "s" THEN SourceMark ELSE DestinMark

SentBy(a) == {j \in Later : Source(j) = a}
                \cup (IF half = "s" THEN {help_zaznamy} ELSE {})
ReceivedBy(a) == {j \in Later : Destin(j) = a}
                \cup (IF half = "d" THEN {help_zaznamy} ELSE {})

\* faulty: the records a row took in as destination are not marked
TakenOnlySources(a) == Marked(SentBy(a), {help_zaznamy} \cap ReceivedBy(a), 1)

TakenIn(a) == Marked(SentBy(a), ReceivedBy(a), 1)

\* faulty: the row of a destination does not count what it sent
RowOfReceiver(a) ==
    [at |-> <<help_zaznamy, half>>, addr |-> a,
     source |-> IF half = "s" THEN Total(SentBy(a)) ELSE 0,
     destin |-> Total(ReceivedBy(a))]

AddressRow(a) ==
    [at |-> <<help_zaznamy, half>>, addr |-> a,
     source |-> Total(SentBy(a)), destin |-> Total(ReceivedBy(a))]

NextHalf ==
    /\ half' = IF half = "s" THEN "d" ELSE "s"
    /\ help_zaznamy' = IF half = "s" THEN help_zaznamy ELSE help_zaznamy + 1

AddressTurn ==
    /\ InLoop
    /\ IF spracovany[help_zaznamy][OwnMark] = 0
       THEN /\ prikaz' = prikaz \cup {AddressRow(Address)}
            /\ spracovany' = TakenIn(Address)
       ELSE UNCHANGED <<prikaz, spracovany>>
    /\ NextHalf
    /\ UNCHANGED <<zoznam, table>>

IpTurn == table = "IP" /\ AddressTurn
MacTurn == table = "MAC" /\ AddressTurn

-----------------------------------------------------------------------------
(* A turn in a table of pairs.  The branches are an if and an else if, so a  *)
(* pair of equal ends counts everything as sent from the first to the second.*)

SamePair == {j \in Later : /\ Source(j) = Source(help_zaznamy)
                           /\ Destin(j) = Destin(help_zaznamy)}
TurnedPair == {j \in Later \ SamePair : /\ Source(j) = Destin(help_zaznamy)
                                        /\ Destin(j) = Source(help_zaznamy)}

\* faulty: the answers get no mark
PairsOneWay == Marked({help_zaznamy} \cup SamePair, {help_zaznamy} \cup SamePair, 2)

PairsTakenIn ==
    LET J == {help_zaznamy} \cup SamePair \cup TurnedPair IN Marked(J, J, 2)

PairRow ==
    [at |-> <<help_zaznamy, half>>,
     one |-> Source(help_zaznamy), two |-> Destin(help_zaznamy),
     there |-> Total({help_zaznamy} \cup SamePair), back |-> Total(TurnedPair)]

PairTurn ==
    /\ InLoop
    /\ IF spracovany[help_zaznamy][SourceMark] < 2 /\ spracovany[help_zaznamy][DestinMark] < 2
       THEN /\ prikaz' = prikaz \cup {PairRow}
            /\ spracovany' = PairsTakenIn
       ELSE UNCHANGED <<prikaz, spracovany>>
    /\ help_zaznamy' = help_zaznamy + 1
    /\ UNCHANGED <<zoznam, table, half>>

IpSdTurn == table = "IP_SD" /\ PairTurn
MacSdTurn == table = "MAC_SD" /\ PairTurn

-----------------------------------------------------------------------------
\* The INSERT is complete and executed; after the last one the marks go back.
Complete == table # Idle /\ help_zaznamy = Len(zoznam) + 1

Insert ==
    /\ Complete
    /\ table' = NextTable(table)
    /\ spracovany' = IF table = "MAC_SD" THEN NoMarks(zoznam) ELSE spracovany
    /\ help_zaznamy' = 1
    /\ half' = "s"
    /\ prikaz' = {}
    /\ UNCHANGED zoznam

Turn == IpTurn \/ IpSdTurn \/ MacTurn \/ MacSdTurn

Zaznamy == [mac_s : Mac, mac_d : Mac, ip_s : Ip, ip_d : Ip, pocet : Nat]

AggregationNext == Turn \/ Insert \/ \E list \in Seq(Zaznamy) : Begin(list)
AggregationSpec == AggregationInit /\ [][AggregationNext]_aggregation_vars

-----------------------------------------------------------------------------
(* Properties.                                                               *)

Mentions(j) == {Source(j), Destin(j)}
From(a) == {j \in Records : Source(j) = a}
To(a) == {j \in Records : Destin(j) = a}

\* The first record that names a is one of a talking to itself.
TalksToItselfFirst(a) ==
    \E j \in Records : /\ Source(j) = a /\ Destin(j) = a
                       /\ \A k \in 1 .. j - 1 : a \notin Mentions(k)

(* A row of the IP or MAC table holds all that its address sent and all that *)
(* it received in the interval, however the loops of processingl shared the  *)
(* records out between the turns.  The exception is an address whose first   *)
(* record has it at both ends (processing.c:146: the inner loop starts       *)
(* behind the record, so its other end is counted elsewhere).                *)
RowsAreTotals ==
    table \in AddressTables =>
        \A r \in prikaz : ~TalksToItselfFirst(r.addr) =>
            /\ r.source = Total(From(r.addr))
            /\ r.destin = Total(To(r.addr))

(* When an INSERT of an address table is complete, every address of the list *)
(* has a row, and only one, with the same exception.                         *)
OneRowPerAddress ==
    Complete /\ table \in AddressTables =>
        /\ \A j \in Records : \A a \in Mentions(j) : \E r \in prikaz : r.addr = a
        /\ \A q, r \in prikaz : q.addr = r.addr => q = r \/ TalksToItselfFirst(q.addr)

(* When an INSERT of a pair table is complete, every two ends that talked    *)
(* have one row, whichever of them came first, with the totals of both       *)
(* directions.                                                               *)
PairRowsAreTotals ==
    Complete /\ table \in PairTables =>
        /\ \A j \in Records : \E r \in prikaz : {r.one, r.two} = Mentions(j)
        /\ \A q, r \in prikaz : {q.one, q.two} = {r.one, r.two} => q = r
        /\ \A r \in prikaz :
              /\ r.there = Total(From(r.one) \cap To(r.two))
              /\ r.back = Total((From(r.two) \cap To(r.one)) \ (From(r.one) \cap To(r.two)))
=============================================================================
