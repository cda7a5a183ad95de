-------------------------------- MODULE RecordsProof --------------------------------
(*****************************************************************************)
(* Proofs about the way of a frame to the summary tables.  First part by     *)
(* part: the loops of processingl (Aggregation) and those of cronovanie      *)
(* (Merging), each under its own specification, whose Begin and Select take  *)
(* any list of records and any selection of rows.  Then Records, which puts  *)
(* them together with the capture: the minute table and the merged rows hold *)
(* what was on the wire.                                                     *)
(*****************************************************************************)
EXTENDS Records, FramesProof, SequenceTheorems

-----------------------------------------------------------------------------
(* Aggregation.  For every list of records the rows hold the totals of their *)
(* addresses and of their pairs.  The sum itself is not taken apart: two     *)
(* sums are equal because they are over the same records.                    *)

RecordLayout ==
    /\ Records = 1 .. Len(zoznam) /\ Len(zoznam) \in Nat
    /\ spracovany \in [Records -> [0 .. 3 -> 0 .. 2]]
    /\ table \in Tables \cup {Idle}
    /\ help_zaznamy \in 1 .. Len(zoznam) + 1
    /\ half \in {"s", "d"}
    /\ half = "d" => table \in AddressTables /\ InLoop

SMark(j) == spracovany[j][SourceMark]
DMark(j) == spracovany[j][DestinMark]

\* a was an end of a record of an earlier turn, or is the source in the second if.
Before(a) == \E k \in 1 .. help_zaznamy - 1 : a \in Mentions(k)
Done(a) == Before(a) \/ (half = "d" /\ a = Source(help_zaznamy))

\* The loops over MAC addresses start with the marks that m_protokoly made.
MacFresh == table \in IpTables => \A j \in Records : spracovany[j][0] = 0 /\ spracovany[j][1] = 0

\* The marks of an address table at the records still to be visited.
AddressMarks == table \in AddressTables =>
    \A j \in Records :
        /\ SMark(j) < 2 /\ DMark(j) < 2
        /\ j > help_zaznamy => (SMark(j) = 0 <=> ~Done(Source(j)))
        /\ j > help_zaznamy => (DMark(j) = 0 <=> ~Done(Destin(j)))
        /\ j = help_zaznamy /\ half = "s" => (SMark(j) = 0 <=> ~Before(Source(j)))
        /\ j = help_zaznamy => (DMark(j) = 0 <=> ~Before(Destin(j)))

\* A row stands at the first record that has its address.
End(k, e) == IF e = "s" THEN Source(k) ELSE Destin(k)
FirstMention(r) ==
    \E k \in Records, e \in {"s", "d"} :
        /\ r.at = <<k, e>>
        /\ r.addr = End(k, e)
        /\ k < help_zaznamy \/ (k = help_zaznamy /\ half = "d" /\ e = "s")
        /\ \A m \in 1 .. k - 1 : r.addr \notin Mentions(m)

OnePerPlace == \A q, r \in prikaz : q.at = r.at => q = r

AddressRows == table \in AddressTables =>
    /\ \A r \in prikaz : FirstMention(r)
    /\ OnePerPlace
    /\ \A j \in Records : \A a \in Mentions(j) :
          Done(a) => \E r \in prikaz : r.addr = a

\* The pair of a record was that of an earlier one.
PairSeen(j) == \E k \in 1 .. help_zaznamy - 1 : Mentions(k) = Mentions(j)

PairMarks == table \in PairTables =>
    \A j \in Records : j >= help_zaznamy =>
        (SMark(j) < 2 /\ DMark(j) < 2 <=> ~PairSeen(j))

FirstPairAt(r) ==
    \E k \in 1 .. help_zaznamy - 1 :
        /\ r.at = <<k, "s">>
        /\ r.one = Source(k) /\ r.two = Destin(k)
        /\ \A m \in 1 .. k - 1 : Mentions(m) # Mentions(k)

PairTotals(r) ==
    /\ r.there = Total(From(r.one) \cap To(r.two))
    /\ r.back = Total((From(r.two) \cap To(r.one)) \ (From(r.one) \cap To(r.two)))

PairsInserted == table \in PairTables =>
    /\ \A r \in prikaz : FirstPairAt(r) /\ PairTotals(r)
    /\ OnePerPlace
    /\ \A k \in 1 .. help_zaznamy - 1 : \E r \in prikaz : {r.one, r.two} = Mentions(k)

AggregationInv == RecordLayout /\ MacFresh /\ AddressMarks /\ AddressRows /\ RowsAreTotals
            /\ PairMarks /\ PairsInserted

-----------------------------------------------------------------------------
(* What a turn does not change, and what Marked does.                        *)

(* What is read from the list stays, as long as the list and the table do.   *)
LEMMA EndsKept ==
    ASSUME UNCHANGED <<zoznam, table>>
    PROVE  /\ Records' = Records
           /\ \A j : Source(j)' = Source(j) /\ Destin(j)' = Destin(j)
           /\ \A j : Mentions(j)' = Mentions(j)
           /\ \A a : From(a)' = From(a) /\ To(a)' = To(a)
           /\ \A a : TalksToItselfFirst(a)' = TalksToItselfFirst(a)
           /\ \A J : Total(J)' = Total(J)
           /\ SourceMark' = SourceMark /\ DestinMark' = DestinMark
  BY DEF Records, Source, Destin, Mentions, From, To, TalksToItselfFirst, Total,
         SourceMark, DestinMark

(* The marks of a table are two different ones of the four of a record.      *)
LEMMA MarksAreTwo ==
    SourceMark \in 0 .. 3 /\ DestinMark \in 0 .. 3 /\ SourceMark # DestinMark
  BY DEF SourceMark, DestinMark

(* Marking sets the two marks of the table at the records given, no others.  *)
LEMMA WhatMarkedDoes ==
    ASSUME RecordLayout, NEW J, NEW K, NEW m \in 0 .. 2
    PROVE  /\ Marked(J, K, m) \in [Records -> [0 .. 3 -> 0 .. 2]]
           /\ \A j \in Records :
                /\ Marked(J, K, m)[j][SourceMark] = IF j \in J THEN m ELSE SMark(j)
                /\ Marked(J, K, m)[j][DestinMark] = IF j \in K THEN m ELSE DMark(j)
                /\ \A k \in (0 .. 3) \ {SourceMark, DestinMark} :
                      Marked(J, K, m)[j][k] = spracovany[j][k]
  BY MarksAreTwo DEF RecordLayout, Marked, SMark, DMark

(* A turn leaves the marks of the other layer alone.                         *)
LEMMA MacStaysFresh ==
    ASSUME RecordLayout, MacFresh, UNCHANGED <<zoznam, table>>, NEW J, NEW K, NEW m \in 0 .. 2,
           spracovany' = Marked(J, K, m) \/ UNCHANGED spracovany
    PROVE  MacFresh'
<1>1. Records' = Records
  BY EndsKept
<1>2. SUFFICES ASSUME table \in IpTables, NEW j \in Records
               PROVE  spracovany'[j][0] = 0 /\ spracovany'[j][1] = 0
  BY <1>1 DEF MacFresh
<1>3. spracovany[j][0] = 0 /\ spracovany[j][1] = 0
  BY <1>2 DEF MacFresh
<1>4. 0 \notin {SourceMark, DestinMark} /\ 1 \notin {SourceMark, DestinMark}
  BY <1>2 DEF SourceMark, DestinMark
<1>5. \A k \in {0, 1} : Marked(J, K, m)[j][k] = spracovany[j][k]
  BY <1>4, WhatMarkedDoes
<1> QED
  BY <1>3, <1>5


-----------------------------------------------------------------------------
(* The turn of an address table.                                             *)

(* A row that is added stands at the first record of its address, and has    *)
(* its totals unless that record is one of the address talking to itself.    *)
LEMMA NewAddressRow ==
    ASSUME RecordLayout, InLoop, table \in AddressTables, NEW a, a = Address, ~Before(a)
    PROVE  /\ half = "s" => SentBy(a) = From(a)
           /\ half = "d" => ReceivedBy(a) = To(a)
           /\ ~TalksToItselfFirst(a) => SentBy(a) = From(a) /\ ReceivedBy(a) = To(a)
<1> DEFINE i == help_zaznamy
<1>1. \A k \in 1 .. i - 1 : Source(k) # a /\ Destin(k) # a
  BY DEF Before, Mentions
<1>2. /\ Records = 1 .. Len(zoznam)
      /\ Len(zoznam) \in Nat
      /\ i \in Records
  BY DEF RecordLayout, Records, InLoop
<1>3. CASE half = "s"
  <2>1. Source(i) = a
    BY <1>3 DEF Address
  <2>2. SentBy(a) = From(a)
    BY <1>1, <1>2, <1>3, <2>1 DEF SentBy, From, Later
  <2>3. Destin(i) # a => ReceivedBy(a) = To(a)
    BY <1>1, <1>2, <1>3 DEF ReceivedBy, To, Later
  <2>4. Destin(i) = a => TalksToItselfFirst(a)
    BY <1>1, <1>2, <2>1 DEF TalksToItselfFirst, Mentions
  <2> QED
    BY <1>3, <2>2, <2>3, <2>4
<1>4. CASE half = "d"
  <2>1. Destin(i) = a
    BY <1>4 DEF Address
  <2>2. ReceivedBy(a) = To(a)
    BY <1>1, <1>2, <1>4, <2>1 DEF ReceivedBy, To, Later
  <2>3. Source(i) # a => SentBy(a) = From(a)
    BY <1>1, <1>2, <1>4 DEF SentBy, From, Later
  <2>4. Source(i) = a => TalksToItselfFirst(a)
    BY <1>1, <1>2, <2>1 DEF TalksToItselfFirst, Mentions
  <2> QED
    BY <1>4, <2>2, <2>3, <2>4
<1> QED
  BY <1>3, <1>4 DEF RecordLayout

(* The mark of a turn's own end tells whether its address had a turn.        *)
LEMMA OwnMarkTells ==
    ASSUME AggregationInv, InLoop, table \in AddressTables
    PROVE  spracovany[help_zaznamy][OwnMark] = 0 <=> ~Before(Address)
  BY DEF AggregationInv, AddressMarks, OwnMark, Address, SMark, DMark, InLoop, RecordLayout

(* After the turn the addresses that had one are those before and its own.   *)
LEMMA DoneGrows ==
    ASSUME AggregationInv, AddressTurn, table \in AddressTables, NEW a
    PROVE  /\ Done(a)' <=> Done(a) \/ a = Address
           /\ Before(a)' <=> IF half = "s" THEN Before(a) ELSE Done(a) \/ a = Address
<1>1. UNCHANGED <<zoznam, table>> /\ help_zaznamy \in Nat \ {0} /\ half \in {"s", "d"}
  BY DEF AggregationInv, RecordLayout, AddressTurn, InLoop, Records
<1>2. \A k : Mentions(k)' = Mentions(k) /\ Source(k)' = Source(k)
  BY <1>1, EndsKept
<1>3. CASE half = "s"
  <2>1. help_zaznamy' = help_zaznamy /\ half' = "d"
    BY <1>3 DEF AddressTurn, NextHalf
  <2> QED
    BY <1>2, <1>3, <2>1 DEF Before, Done, Address
<1>4. CASE half = "d"
  <2>1. help_zaznamy' = help_zaznamy + 1 /\ half' = "s"
    BY <1>4 DEF AddressTurn, NextHalf
  <2>2. Before(a)' <=> Before(a) \/ a \in Mentions(help_zaznamy)
    <3>1. 1 .. help_zaznamy' - 1 = (1 .. help_zaznamy - 1) \cup {help_zaznamy}
      BY <1>1, <2>1
    <3> QED
      BY <1>2, <3>1 DEF Before
  <2>3. a \in Mentions(help_zaznamy) <=> a = Source(help_zaznamy) \/ a = Address
    BY <1>4 DEF Mentions, Address
  <2> QED
    BY <1>4, <2>1, <2>2, <2>3 DEF Done
<1> QED
  BY <1>1, <1>3, <1>4

(* A turn over the ends of the records leaves the marks right,               *)
LEMMA AddressTurnKeepsMarks ==
    ASSUME AggregationInv, AddressTurn, table \in AddressTables
    PROVE  RecordLayout' /\ MacFresh' /\ AddressMarks'
<1> DEFINE i == help_zaznamy
           free == spracovany[i][OwnMark] = 0
<1>1. UNCHANGED <<zoznam, table>> /\ InLoop /\ RecordLayout /\ MacFresh /\ NextHalf
  BY DEF AddressTurn, AggregationInv
<1>2. free <=> ~Before(Address)
  BY <1>1, OwnMarkTells
<1>3. IF free THEN spracovany' = TakenIn(Address) ELSE UNCHANGED spracovany
  BY DEF AddressTurn
<1>4. RecordLayout'
  <2>1. spracovany' \in [Records' -> [0 .. 3 -> 0 .. 2]]
    BY <1>1, <1>3, EndsKept, WhatMarkedDoes DEF TakenIn, RecordLayout
  <2>2. i \in 1 .. Len(zoznam) /\ Len(zoznam) \in Nat
    BY <1>1 DEF InLoop, Records, RecordLayout
  <2> QED
    BY <1>1, <2>1, <2>2 DEF RecordLayout, NextHalf, InLoop, Records
<1>5. MacFresh'
  BY <1>1, <1>3, MacStaysFresh DEF TakenIn
<1>6. AddressMarks'
  <2>1. \A j \in Records :
          /\ SMark(j)' = IF free /\ j \in SentBy(Address) THEN 1 ELSE SMark(j)
          /\ DMark(j)' = IF free /\ j \in ReceivedBy(Address) THEN 1 ELSE DMark(j)
    <3>1. /\ SourceMark' = SourceMark
          /\ DestinMark' = DestinMark
      BY <1>1, EndsKept
    <3> QED
      BY <1>1, <1>3, <3>1, WhatMarkedDoes DEF TakenIn, SMark, DMark
  <2>2. \A j \in Records : j > i => (j \in SentBy(Address) <=> Source(j) = Address)
    BY <1>1 DEF SentBy, Later, RecordLayout
  <2>3. \A j \in Records : j > i => (j \in ReceivedBy(Address) <=> Destin(j) = Address)
    BY <1>1 DEF ReceivedBy, Later, RecordLayout
  <2>4. half = "s" => i \notin ReceivedBy(Address)
    BY <1>1 DEF ReceivedBy, Later, RecordLayout
  <2>5. SUFFICES ASSUME NEW j \in Records
                 PROVE  /\ SMark(j)' < 2 /\ DMark(j)' < 2
                        /\ j > i' => (SMark(j)' = 0 <=> ~Done(Source(j))')
                        /\ j > i' => (DMark(j)' = 0 <=> ~Done(Destin(j))')
                        /\ j = i' /\ half' = "s" => (SMark(j)' = 0 <=> ~Before(Source(j))')
                        /\ j = i' => (DMark(j)' = 0 <=> ~Before(Destin(j))')
    BY <1>1, EndsKept DEF AddressMarks
  <2>6. /\ SMark(j) < 2 /\ DMark(j) < 2
        /\ j > i => (SMark(j) = 0 <=> ~Done(Source(j)))
        /\ j > i => (DMark(j) = 0 <=> ~Done(Destin(j)))
        /\ j = i /\ half = "s" => (SMark(j) = 0 <=> ~Before(Source(j)))
        /\ j = i => (DMark(j) = 0 <=> ~Before(Destin(j)))
    BY DEF AggregationInv, AddressMarks
  <2>7. SMark(j)' < 2 /\ DMark(j)' < 2
    BY <2>1, <2>6
  <2>8. Before(Address) => Done(Address)
    BY DEF Done
  <2>9. ASSUME j > i
        PROVE  /\ SMark(j)' = 0 <=> ~(Done(Source(j)) \/ Source(j) = Address)
               /\ DMark(j)' = 0 <=> ~(Done(Destin(j)) \/ Destin(j) = Address)
    BY <1>2, <2>1, <2>2, <2>3, <2>6, <2>8, <2>9
  <2>10. /\ Source(j)' = Source(j)
         /\ Destin(j)' = Destin(j)
    BY <1>1, EndsKept
  <2>11. \A a : Done(a)' <=> Done(a) \/ a = Address
    BY DoneGrows
  <2>12. \A a : Before(a)' <=> IF half = "s" THEN Before(a) ELSE Done(a) \/ a = Address
    BY DoneGrows
  <2>13. j \in Nat /\ i \in Nat /\ half \in {"s", "d"}
    BY <1>1 DEF RecordLayout, Records
  <2>14. CASE half = "s"
    <3>1. i' = i /\ half' = "d"
      BY <1>1, <2>14 DEF NextHalf
    <3>2. j = i => DMark(j)' = DMark(j)
      BY <2>1, <2>4, <2>14
    <3> QED
      BY <2>6, <2>7, <2>9, <2>10, <2>11, <2>12, <2>14, <3>1, <3>2
  <2>15. CASE half = "d"
    <3>1. i' = i + 1 /\ half' = "s"
      BY <1>1, <2>15 DEF NextHalf
    <3>2. j > i' \/ j = i' => j > i
      BY <2>13, <3>1
    <3> QED
      BY <2>7, <2>9, <2>10, <2>11, <2>12, <2>15, <3>1, <3>2
  <2> QED
    BY <2>13, <2>14, <2>15
<1> QED
  BY <1>4, <1>5, <1>6

(* and its rows.                                                             *)
LEMMA AddressTurnKeepsRows ==
    ASSUME AggregationInv, AddressTurn, table \in AddressTables
    PROVE  AddressRows' /\ RowsAreTotals'
<1> DEFINE i == help_zaznamy
           free == spracovany[i][OwnMark] = 0
           new == AddressRow(Address)
<1>1. UNCHANGED <<zoznam, table>> /\ InLoop /\ RecordLayout /\ NextHalf
  BY DEF AddressTurn, AggregationInv
<1>2. free <=> ~Before(Address)
  BY <1>1, OwnMarkTells
<1>3. IF free THEN prikaz' = prikaz \cup {new} ELSE UNCHANGED prikaz
  BY DEF AddressTurn
<1>4. /\ \A r \in prikaz : FirstMention(r)
      /\ OnePerPlace
      /\ \A j \in Records : \A a \in Mentions(j) :
            Done(a) => \E r \in prikaz : r.addr = a
      /\ \A r \in prikaz : ~TalksToItselfFirst(r.addr) =>
            r.source = Total(From(r.addr)) /\ r.destin = Total(To(r.addr))
  BY DEF AggregationInv, AddressRows, RowsAreTotals
<1>5. /\ i \in Records /\ i \in Nat /\ half \in {"s", "d"}
      /\ IF half = "s" THEN i' = i /\ half' = "d" ELSE i' = i + 1 /\ half' = "s"
  BY <1>1 DEF RecordLayout, InLoop, Records, NextHalf
<1>6. /\ new.at = <<i, half>>
      /\ new.addr = Address
      /\ new.source = Total(SentBy(Address))
      /\ new.destin = Total(ReceivedBy(Address))
  BY DEF AddressRow
<1>7. Address = End(i, half)
  BY <1>5 DEF Address, End
<1>8. \A r : FirstMention(r) => FirstMention(r)'
  <2>1. /\ Records' = Records
        /\ \A k, e : End(k, e)' = End(k, e)
        /\ \A k : Mentions(k)' = Mentions(k)
    BY <1>1, EndsKept DEF End
  <2>2. \A k \in Records, e \in {"s", "d"} :
          k < i \/ (k = i /\ half = "d" /\ e = "s")
            => k < i' \/ (k = i' /\ half' = "d" /\ e = "s")
    BY <1>1, <1>5 DEF Records, RecordLayout
  <2> QED
    BY <2>1, <2>2 DEF FirstMention
<1>9. \A r : free /\ r.at = <<i, half>> /\ r.addr = Address => FirstMention(r)'
  <2>1. SUFFICES ASSUME NEW r, NEW n \in Records, NEW e \in {"s", "d"}, n = i, e = half,
                        free, r.at = <<n, e>>, r.addr = End(n, e)
                 PROVE  FirstMention(r)'
    BY <1>5, <1>7
  <2>2. /\ n \in Records'
        /\ r.addr = End(n, e)'
    <3>1. /\ Records' = Records
          /\ Source(n)' = Source(n) /\ Destin(n)' = Destin(n)
      BY <1>1, EndsKept
    <3> QED
      BY <2>1, <3>1 DEF End
  <2>3. \A m \in 1 .. n - 1 : r.addr \notin Mentions(m)'
    BY <1>1, <1>2, <1>7, <2>1, EndsKept DEF Before
  <2>4. n < i' \/ (n = i' /\ half' = "d" /\ e = "s")
    BY <1>5, <2>1
  <2> QED
    BY <2>1, <2>2, <2>3, <2>4 DEF FirstMention
<1>10. AddressRows'
  <2>1. ASSUME NEW r \in prikaz' PROVE FirstMention(r)'
    <3>1. CASE r \in prikaz
      BY <1>4, <1>8, <3>1
    <3>2. CASE free /\ r = new
      BY <1>6, <1>9, <3>2
    <3> QED
      BY <1>3, <3>1, <3>2
  <2>2. OnePerPlace'
    <3>1. \A r \in prikaz : r.at # <<i, half>>
      <4> SUFFICES ASSUME NEW r \in prikaz PROVE r.at # <<i, half>>
        OBVIOUS
      <4>1. PICK k \in Records, e \in {"s", "d"} :
              r.at = <<k, e>> /\ (k < i \/ (k = i /\ half = "d" /\ e = "s"))
        BY <1>4 DEF FirstMention
      <4>2. k \in Nat
        BY <1>1 DEF Records, RecordLayout
      <4> QED
        BY <1>5, <4>1, <4>2
    <3> QED
      BY <1>3, <1>4, <1>6, <3>1 DEF OnePerPlace
  <2>3. ASSUME NEW j \in Records', NEW a \in Mentions(j)', Done(a)'
        PROVE  \E r \in prikaz' : r.addr = a
    <3>1. j \in Records /\ a \in Mentions(j)
      BY <1>1, <2>3, EndsKept
    <3>2. Done(a) \/ a = Address
      BY <2>3, DoneGrows
    <3>3. CASE Done(a)
      BY <1>3, <1>4, <3>1, <3>3
    <3>4. CASE a = Address /\ free
      BY <1>3, <1>6, <3>4
    <3>5. CASE a = Address /\ ~free
      <4>1. Done(a)
        BY <1>2, <3>5 DEF Done
      <4> QED
        BY <1>3, <1>4, <3>1, <4>1
    <3> QED
      BY <3>2, <3>3, <3>4, <3>5
  <2> QED
    BY <2>1, <2>2, <2>3 DEF AddressRows
<1>11. RowsAreTotals'
  <2>1. ASSUME NEW r \in prikaz', ~TalksToItselfFirst(r.addr)
        PROVE  r.source = Total(From(r.addr)) /\ r.destin = Total(To(r.addr))
    <3>1. CASE r \in prikaz
      BY <1>4, <2>1, <3>1
    <3>2. CASE r = new /\ free
      BY <1>1, <1>2, <1>6, <2>1, <3>2, NewAddressRow
    <3> QED
      BY <1>3, <3>1, <3>2
  <2>2. /\ \A a : TalksToItselfFirst(a)' = TalksToItselfFirst(a)
        /\ \A a : From(a)' = From(a) /\ To(a)' = To(a)
        /\ \A J : Total(J)' = Total(J)
    BY <1>1, EndsKept
  <2> QED
    BY <2>1, <2>2 DEF RowsAreTotals
<1> QED
  BY <1>10, <1>11

-----------------------------------------------------------------------------
(* The turn of a table of pairs.                                             *)

(* A pair is the same, in either order, when the set of its ends is.         *)
LEMMA EndsOfSamePair ==
    ASSUME RecordLayout, InLoop, NEW j \in Later
    PROVE  j \in SamePair \cup TurnedPair <=> Mentions(j) = Mentions(help_zaznamy)
<1>1. j \in SamePair \cup TurnedPair <=>
        \/ Source(j) = Source(help_zaznamy) /\ Destin(j) = Destin(help_zaznamy)
        \/ Source(j) = Destin(help_zaznamy) /\ Destin(j) = Source(help_zaznamy)
  BY DEF SamePair, TurnedPair
<1> QED
  BY <1>1 DEF Mentions

(* The row of a pair that no earlier turn had has its totals.                *)
LEMMA NewPairRow ==
    ASSUME RecordLayout, InLoop, ~PairSeen(help_zaznamy)
    PROVE  PairTotals(PairRow)
<1> DEFINE i == help_zaznamy
           x == Source(i)
           y == Destin(i)
<1>1. i \in Records /\ i \in Nat /\ Records = 1 .. Len(zoznam) /\ Len(zoznam) \in Nat
  BY DEF InLoop, RecordLayout, Records
<1>2. \A k \in 1 .. i - 1 : /\ ~(Source(k) = x /\ Destin(k) = y)
                            /\ ~(Source(k) = y /\ Destin(k) = x)
  BY DEF PairSeen, Mentions
<1>3. {i} \cup SamePair = From(x) \cap To(y)
  <2>1. \A j \in Records : j \in From(x) \cap To(y) <=> j = i \/ j \in SamePair
    BY <1>1, <1>2 DEF From, To, SamePair, Later
  <2> QED
    BY <1>1, <2>1 DEF From, SamePair, Later
<1>4. TurnedPair = (From(y) \cap To(x)) \ (From(x) \cap To(y))
  <2>1. \A j \in Records :
          j \in TurnedPair <=> j \in From(y) \cap To(x) /\ j \notin From(x) \cap To(y)
    BY <1>1, <1>2 DEF From, To, TurnedPair, SamePair, Later
  <2> QED
    BY <2>1 DEF From, TurnedPair, Later
<1>5. /\ PairRow.one = x /\ PairRow.two = y
      /\ PairRow.there = Total({i} \cup SamePair)
      /\ PairRow.back = Total(TurnedPair)
  BY DEF PairRow
<1> QED
  BY <1>3, <1>4, <1>5 DEF PairTotals

(* A turn over the pairs of the records leaves the marks right,              *)
LEMMA PairTurnKeepsMarks ==
    ASSUME AggregationInv, PairTurn, table \in PairTables
    PROVE  RecordLayout' /\ MacFresh' /\ PairMarks'
<1> DEFINE i == help_zaznamy
           free == SMark(i) < 2 /\ DMark(i) < 2
           J == {i} \cup SamePair \cup TurnedPair
<1>1. UNCHANGED <<zoznam, table, half>> /\ InLoop /\ RecordLayout /\ MacFresh /\ i' = i + 1
  BY DEF PairTurn, AggregationInv
<1>2. IF free THEN spracovany' = Marked(J, J, 2) ELSE UNCHANGED spracovany
  BY DEF PairTurn, PairsTakenIn, SMark, DMark
<1>3. i \in Records /\ i \in Nat /\ Records = 1 .. Len(zoznam) /\ Len(zoznam) \in Nat
  BY <1>1 DEF InLoop, RecordLayout, Records
<1>4. RecordLayout'
  <2>1. spracovany' \in [Records' -> [0 .. 3 -> 0 .. 2]]
    BY <1>1, <1>2, EndsKept, WhatMarkedDoes DEF RecordLayout
  <2>2. half' # "d"
    BY <1>1 DEF RecordLayout, PairTables, AddressTables
  <2>3. Records' = Records
    BY <1>1, EndsKept
  <2> QED
    BY <1>1, <1>3, <2>1, <2>2, <2>3 DEF RecordLayout
<1>5. MacFresh'
  BY <1>1, <1>2, MacStaysFresh
<1>6. PairMarks'
  <2>1. SUFFICES ASSUME NEW j \in Records, j >= i + 1
                 PROVE  SMark(j)' < 2 /\ DMark(j)' < 2 <=> ~PairSeen(j)'
    BY <1>1, EndsKept DEF PairMarks
  <2>2. /\ SMark(j)' = IF free /\ j \in J THEN 2 ELSE SMark(j)
        /\ DMark(j)' = IF free /\ j \in J THEN 2 ELSE DMark(j)
    <3>1. SourceMark' = SourceMark /\ DestinMark' = DestinMark
      BY <1>1, EndsKept
    <3> QED
      BY <1>1, <1>2, <3>1, WhatMarkedDoes DEF SMark, DMark
  <2>3. j \in J <=> Mentions(j) = Mentions(i)
    <3>1. j \in Later /\ j # i
      BY <1>3, <2>1 DEF Later
    <3> QED
      BY <1>1, <3>1, EndsOfSamePair
  <2>4. PairSeen(j)' <=> PairSeen(j) \/ Mentions(j) = Mentions(i)
    <3>1. \A k : Mentions(k)' = Mentions(k)
      BY <1>1, EndsKept
    <3>2. 1 .. i' - 1 = (1 .. i - 1) \cup {i}
      BY <1>1, <1>3
    <3> QED
      BY <3>1, <3>2 DEF PairSeen
  <2>5. /\ SMark(j) < 2 /\ DMark(j) < 2 <=> ~PairSeen(j)
        /\ free <=> ~PairSeen(i)
    BY <1>3, <2>1 DEF AggregationInv, PairMarks
  <2>6. Mentions(j) = Mentions(i) => (PairSeen(j) <=> PairSeen(i))
    BY DEF PairSeen
  <2> QED
    BY <2>2, <2>3, <2>4, <2>5, <2>6
<1> QED
  BY <1>4, <1>5, <1>6

(* and its rows.                                                             *)
LEMMA PairTurnKeepsRows ==
    ASSUME AggregationInv, PairTurn, table \in PairTables
    PROVE  PairsInserted'
<1> DEFINE i == help_zaznamy
           free == SMark(i) < 2 /\ DMark(i) < 2
<1>1. UNCHANGED <<zoznam, table, half>> /\ InLoop /\ RecordLayout /\ i' = i + 1
  BY DEF PairTurn, AggregationInv
<1>2. IF free THEN prikaz' = prikaz \cup {PairRow} ELSE UNCHANGED prikaz
  BY DEF PairTurn, SMark, DMark
<1>3. i \in Records /\ i \in Nat \ {0} /\ half = "s"
  BY <1>1 DEF InLoop, RecordLayout, Records, PairTables, AddressTables
<1>4. free <=> ~PairSeen(i)
  BY <1>3 DEF AggregationInv, PairMarks
<1>5. /\ \A r \in prikaz : FirstPairAt(r) /\ PairTotals(r)
      /\ OnePerPlace
      /\ \A k \in 1 .. i - 1 : \E r \in prikaz : {r.one, r.two} = Mentions(k)
  BY DEF AggregationInv, PairsInserted
<1>6. /\ PairRow.at = <<i, "s">>
      /\ PairRow.one = Source(i) /\ PairRow.two = Destin(i)
  BY <1>3 DEF PairRow
<1>7. /\ 1 .. i' - 1 = (1 .. i - 1) \cup {i}
      /\ \A k : Source(k)' = Source(k) /\ Destin(k)' = Destin(k) /\ Mentions(k)' = Mentions(k)
  BY <1>1, <1>3, EndsKept
<1>8. \A r : PairTotals(r)' <=> PairTotals(r)
  <2>1. /\ \A a : From(a)' = From(a) /\ To(a)' = To(a)
        /\ \A J : Total(J)' = Total(J)
    BY <1>1, EndsKept
  <2> QED
    BY <2>1 DEF PairTotals
<1>9. \A r : FirstPairAt(r) => FirstPairAt(r)'
  BY <1>7 DEF FirstPairAt
<1>10. \A r : free /\ r = PairRow => FirstPairAt(r)'
  <2>1. SUFFICES ASSUME NEW r, NEW n \in 1 .. i' - 1, n = i, free,
                        r.at = <<n, "s">>, r.one = Source(n), r.two = Destin(n)
                 PROVE  FirstPairAt(r)'
    BY <1>6, <1>7
  <2>2. \A m \in 1 .. n - 1 : Mentions(m) # Mentions(n)
    BY <1>4, <2>1 DEF PairSeen
  <2> QED
    BY <1>7, <2>1, <2>2 DEF FirstPairAt
<1>11. \A r \in prikaz' : FirstPairAt(r)' /\ PairTotals(r)'
  <2>1. SUFFICES ASSUME NEW r \in prikaz' PROVE FirstPairAt(r)' /\ PairTotals(r)'
    OBVIOUS
  <2>2. CASE r \in prikaz
    BY <1>5, <1>8, <1>9, <2>2
  <2>3. CASE free /\ r = PairRow
    BY <1>1, <1>4, <1>8, <1>10, <2>3, NewPairRow
  <2> QED
    BY <1>2, <2>1, <2>2, <2>3
<1>12. OnePerPlace'
  <2>1. \A r \in prikaz : r.at # <<i, "s">>
    <3> SUFFICES ASSUME NEW r \in prikaz PROVE r.at # <<i, "s">>
      OBVIOUS
    <3>1. PICK k \in 1 .. i - 1 : r.at = <<k, "s">>
      BY <1>5 DEF FirstPairAt
    <3> QED
      BY <1>3, <3>1
  <2> QED
    BY <1>2, <1>5, <1>6, <2>1 DEF OnePerPlace
<1>13. \A k \in 1 .. i' - 1 : \E r \in prikaz' : {r.one, r.two} = Mentions(k)'
  <2>1. SUFFICES ASSUME NEW k \in 1 .. i' - 1
                 PROVE  \E r \in prikaz' : {r.one, r.two} = Mentions(k)
    BY <1>7
  <2>2. prikaz \subseteq prikaz'
    BY <1>2
  <2>3. CASE k \in 1 .. i - 1
    BY <1>5, <2>2, <2>3
  <2>4. CASE k = i /\ free
    <3>1. {PairRow.one, PairRow.two} = Mentions(k)
      BY <1>6, <2>4 DEF Mentions
    <3> QED
      BY <1>2, <2>4, <3>1
  <2>5. CASE k = i /\ ~free
    <3>1. PICK m \in 1 .. i - 1 : Mentions(m) = Mentions(i)
      BY <1>4, <2>5 DEF PairSeen
    <3> QED
      BY <1>5, <2>2, <2>5, <3>1
  <2> QED
    BY <1>7, <2>3, <2>4, <2>5
<1> QED
  BY <1>11, <1>12, <1>13 DEF PairsInserted

-----------------------------------------------------------------------------
(* Every step keeps the invariant.                                           *)

(* Before the first turn there is nothing to say of marks and rows.          *)
LEMMA StartOfTable ==
    ASSUME help_zaznamy' = 1, half' = "s", prikaz' = {}
    PROVE  /\ \A a : ~Before(a)' /\ ~Done(a)'
           /\ \A j : ~PairSeen(j)'
           /\ AddressRows' /\ RowsAreTotals' /\ PairsInserted'
<1>1. 1 .. help_zaznamy' - 1 = {}
  OBVIOUS
<1>2. /\ \A a : ~Before(a)' /\ ~Done(a)'
      /\ \A j : ~PairSeen(j)'
  BY <1>1 DEF Before, Done, PairSeen
<1>3. AddressRows' /\ RowsAreTotals' /\ PairsInserted'
  BY <1>1, <1>2 DEF AddressRows, RowsAreTotals, PairsInserted, OnePerPlace
<1> QED
  BY <1>2, <1>3

(* A new list, all its marks 0.                                              *)
LEMMA BeginKeepsInv ==
    ASSUME AggregationInv, NEW list, IsList(list), Begin(list)
    PROVE  AggregationInv'
<1>1. /\ zoznam' = list /\ table' = "IP" /\ help_zaznamy' = 1 /\ half' = "s"
      /\ prikaz' = {} /\ spracovany' = NoMarks(list)
  BY DEF Begin
<1>2. Records' = DOMAIN list /\ DOMAIN list = 1 .. Len(list) /\ Len(list) \in Nat
  BY <1>1 DEF Records, IsList
<1>3. \A j \in Records' : \A k \in 0 .. 3 : spracovany'[j][k] = 0
  BY <1>1, <1>2 DEF NoMarks
<1>4. RecordLayout'
  <2>1. spracovany' \in [Records' -> [0 .. 3 -> 0 .. 2]]
    BY <1>1, <1>2 DEF NoMarks
  <2> QED
    BY <1>1, <1>2, <2>1 DEF RecordLayout, Tables
<1>5. MacFresh' /\ \A j \in Records' : SMark(j)' = 0 /\ DMark(j)' = 0
  BY <1>1, <1>3 DEF MacFresh, SMark, DMark, SourceMark, DestinMark
<1>6. AddressMarks' /\ PairMarks'
  BY <1>1, <1>5, StartOfTable DEF AddressMarks, PairMarks, PairTables
<1> QED
  BY <1>1, <1>4, <1>5, <1>6, StartOfTable DEF AggregationInv

(* From one table to the next, whose marks are other ones, still 0.          *)
LEMMA InsertKeepsInv ==
    ASSUME AggregationInv, Insert
    PROVE  AggregationInv'
<1>1. /\ zoznam' = zoznam /\ table' = NextTable(table) /\ help_zaznamy' = 1 /\ half' = "s"
      /\ prikaz' = {}
      /\ spracovany' = IF table = "MAC_SD" THEN NoMarks(zoznam) ELSE spracovany
      /\ table \in Tables /\ RecordLayout
  BY DEF Insert, Complete, AggregationInv, RecordLayout
<1>2. Records' = Records /\ Len(zoznam) \in Nat
  BY <1>1 DEF Records, RecordLayout
<1>3. RecordLayout'
  <2>1. spracovany' \in [Records' -> [0 .. 3 -> 0 .. 2]]
    BY <1>1, <1>2 DEF NoMarks, RecordLayout, Records
  <2>2. table' \in Tables \cup {Idle}
    BY <1>1 DEF Tables, NextTable
  <2> QED
    BY <1>1, <1>2, <2>1, <2>2 DEF RecordLayout
<1>4. MacFresh'
  BY <1>1, <1>2 DEF MacFresh, NextTable, IpTables, Tables, Idle, AggregationInv
<1>5. AddressMarks'
  <2>1. SUFFICES ASSUME table = "IP_SD", NEW j \in Records
                 PROVE  SMark(j)' = 0 /\ DMark(j)' = 0
    BY <1>1, <1>2, StartOfTable
    DEF AddressMarks, NextTable, AddressTables, Tables, Idle
  <2>2. spracovany[j][0] = 0 /\ spracovany[j][1] = 0
    BY <2>1 DEF AggregationInv, MacFresh, IpTables
  <2> QED
    BY <1>1, <2>1, <2>2
    DEF SMark, DMark, SourceMark, DestinMark, NextTable, IpTables
<1>6. PairMarks'
  <2>1. SUFFICES ASSUME table \in AddressTables, NEW j \in Records
                 PROVE  SMark(j)' < 2 /\ DMark(j)' < 2
    BY <1>1, <1>2, StartOfTable
    DEF PairMarks, NextTable, AddressTables, PairTables, Tables, Idle
  <2>2. SMark(j) < 2 /\ DMark(j) < 2
    BY <2>1 DEF AggregationInv, AddressMarks
  <2>3. SMark(j)' = SMark(j) /\ DMark(j)' = DMark(j)
    BY <1>1, <2>1
    DEF SMark, DMark, SourceMark, DestinMark, NextTable, IpTables, AddressTables
  <2> QED
    BY <2>2, <2>3
<1> QED
  BY <1>1, <1>3, <1>4, <1>5, <1>6, StartOfTable DEF AggregationInv

(* A turn of either loop; the rows of the other kind of table are no matter. *)
LEMMA TurnKeepsInv ==
    ASSUME AggregationInv, Turn
    PROVE  AggregationInv'
<1>1. CASE AddressTurn /\ table \in AddressTables
  <2>1. table' \notin PairTables
    BY <1>1 DEF AddressTurn, AddressTables, PairTables
  <2>2. PairMarks' /\ PairsInserted'
    BY <2>1 DEF PairMarks, PairsInserted
  <2> QED
    BY <1>1, <2>2, AddressTurnKeepsMarks, AddressTurnKeepsRows DEF AggregationInv
<1>2. CASE PairTurn /\ table \in PairTables
  <2>1. table' \notin AddressTables
    BY <1>2 DEF PairTurn, AddressTables, PairTables
  <2>2. AddressMarks' /\ AddressRows' /\ RowsAreTotals'
    BY <2>1 DEF AddressMarks, AddressRows, RowsAreTotals
  <2> QED
    BY <1>2, <2>2, PairTurnKeepsMarks, PairTurnKeepsRows DEF AggregationInv
<1> QED
  BY <1>1, <1>2 DEF Turn, IpTurn, IpSdTurn, MacTurn, MacSdTurn, AddressTables, PairTables

(* The invariant holds at the start, and every step keeps it.                *)
LEMMA AggregationStart == AggregationInit => AggregationInv
<1> SUFFICES ASSUME AggregationInit PROVE AggregationInv
  OBVIOUS
<1>1. Records = {} /\ Len(zoznam) = 0 /\ table = "none"
  BY DEF AggregationInit, Records, Idle
<1>2. RecordLayout
  BY <1>1 DEF AggregationInit, RecordLayout, Idle
<1> QED
  BY <1>1, <1>2 DEF AggregationInv, MacFresh, AddressMarks, AddressRows, RowsAreTotals, PairMarks,
                    PairsInserted, AddressTables, PairTables, IpTables

LEMMA AggregationStep == AggregationInv /\ [AggregationNext]_aggregation_vars => AggregationInv'
<1> SUFFICES ASSUME AggregationInv, [AggregationNext]_aggregation_vars PROVE AggregationInv'
  OBVIOUS
<1>1. CASE Turn
  BY <1>1, TurnKeepsInv
<1>2. CASE Insert
  BY <1>2, InsertKeepsInv
<1>3. ASSUME NEW list \in Seq(Zaznamy), Begin(list) PROVE AggregationInv'
  <2>1. IsList(list)
    BY DEF IsList
  <2> QED
    BY <1>3, <2>1, BeginKeepsInv
<1>4. CASE UNCHANGED aggregation_vars
  <2>1. UNCHANGED <<zoznam, table, spracovany, help_zaznamy, half, prikaz>>
    BY <1>4 DEF aggregation_vars
  <2>2. /\ Records' = Records
        /\ \A j : Mentions(j)' = Mentions(j)
        /\ \A j : Source(j)' = Source(j) /\ Destin(j)' = Destin(j)
        /\ \A j : SMark(j)' = SMark(j) /\ DMark(j)' = DMark(j)
    BY <2>1, EndsKept DEF SMark, DMark
  <2>3. RecordLayout' /\ MacFresh'
    BY <2>1, <2>2 DEF AggregationInv, RecordLayout, MacFresh, InLoop
  <2>4. \A a : (Before(a)' <=> Before(a)) /\ (Done(a)' <=> Done(a))
    <3>1. \A a : Before(a)' <=> Before(a)
      BY <2>1, <2>2 DEF Before
    <3>2. Source(help_zaznamy)' = Source(help_zaznamy)
      BY <2>1 DEF Source
    <3> QED
      BY <2>1, <3>1, <3>2 DEF Done
  <2>5. AddressMarks'
    BY <2>1, <2>2, <2>4 DEF AggregationInv, AddressMarks
  <2>6. AddressRows'
    <3>1. \A r : FirstMention(r)' <=> FirstMention(r)
      BY <2>1, <2>2 DEF FirstMention, End
    <3> QED
      BY <2>1, <2>2, <2>4, <3>1 DEF AggregationInv, AddressRows, OnePerPlace
  <2>7. /\ \A a : From(a)' = From(a) /\ To(a)' = To(a)
        /\ \A J : Total(J)' = Total(J)
        /\ \A a : TalksToItselfFirst(a)' = TalksToItselfFirst(a)
    BY <2>1, EndsKept
  <2>8. RowsAreTotals'
    BY <2>1, <2>7 DEF AggregationInv, RowsAreTotals
  <2>9. PairMarks'
    BY <2>1, <2>2 DEF AggregationInv, PairMarks, PairSeen
  <2>10. PairsInserted'
    <3>1. \A r : (FirstPairAt(r)' <=> FirstPairAt(r)) /\ (PairTotals(r)' <=> PairTotals(r))
      BY <2>1, <2>2, <2>7 DEF FirstPairAt, PairTotals
    <3> QED
      BY <2>1, <2>2, <3>1 DEF AggregationInv, PairsInserted, OnePerPlace
  <2> QED
    BY <2>3, <2>5, <2>6, <2>8, <2>9, <2>10 DEF AggregationInv
<1> QED
  BY <1>1, <1>2, <1>3, <1>4 DEF AggregationNext

(* The invariant holds of every run of processingl on every list.            *)
THEOREM AggregationInvariant == AggregationSpec => []AggregationInv
  BY AggregationStart, AggregationStep, PTL DEF AggregationSpec

-----------------------------------------------------------------------------
(* A row of an address table holds the totals of its address, for every list *)
(* of records and every way the turns share them out.                        *)
THEOREM AddressRowsHoldTotals == AggregationSpec => []RowsAreTotals
<1>1. AggregationInv => RowsAreTotals
  BY DEF AggregationInv
<1> QED
  BY <1>1, AggregationInvariant, PTL

(* A complete INSERT of an address table has one row for every address.      *)
LEMMA AddressesComplete == AggregationInv => OneRowPerAddress
<1> SUFFICES ASSUME AggregationInv, Complete, table \in AddressTables
             PROVE  /\ \A j \in Records : \A a \in Mentions(j) : \E r \in prikaz : r.addr = a
                    /\ \A q, r \in prikaz :
                          q.addr = r.addr => q = r \/ TalksToItselfFirst(q.addr)
  BY DEF OneRowPerAddress
<1>1. /\ \A r \in prikaz : FirstMention(r)
      /\ OnePerPlace
      /\ \A j \in Records : \A a \in Mentions(j) :
            Done(a) => \E r \in prikaz : r.addr = a
  BY DEF AggregationInv, AddressRows
<1>2. Records = 1 .. Len(zoznam) /\ Len(zoznam) \in Nat /\ help_zaznamy = Len(zoznam) + 1
  BY DEF AggregationInv, RecordLayout, Records, Complete
<1>3. \A j \in Records : \A a \in Mentions(j) : Done(a)
  BY <1>2 DEF Done, Before
<1>4. ASSUME NEW q \in prikaz, NEW r \in prikaz, q.addr = r.addr
      PROVE  q = r \/ TalksToItselfFirst(q.addr)
  <2>1. PICK k \in Records, e \in {"s", "d"} :
          /\ q.at = <<k, e>> /\ q.addr = End(k, e)
          /\ \A m \in 1 .. k - 1 : q.addr \notin Mentions(m)
    BY <1>1 DEF FirstMention
  <2>2. PICK n \in Records, f \in {"s", "d"} :
          /\ r.at = <<n, f>> /\ r.addr = End(n, f)
          /\ \A m \in 1 .. n - 1 : r.addr \notin Mentions(m)
    BY <1>1 DEF FirstMention
  <2>3. q.addr \in Mentions(k) /\ q.addr \in Mentions(n)
    BY <1>4, <2>1, <2>2 DEF End, Mentions
  <2>4. k = n
    <3>1. ~(k < n) /\ ~(n < k)
      BY <1>2, <1>4, <2>1, <2>2, <2>3
    <3> QED
      BY <1>2, <3>1
  <2>5. CASE e = f
    BY <1>1, <2>1, <2>2, <2>4, <2>5 DEF OnePerPlace
  <2>6. CASE e # f
    <3>1. End(k, e) = q.addr /\ End(k, f) = q.addr
      BY <1>4, <2>1, <2>2, <2>4
    <3>2. Source(k) = q.addr /\ Destin(k) = q.addr
      BY <2>6, <3>1 DEF End
    <3> QED
      BY <2>1, <3>2 DEF TalksToItselfFirst
  <2> QED
    BY <2>5, <2>6
<1> QED
  BY <1>1, <1>3, <1>4

THEOREM EveryAddressHasOneRow == AggregationSpec => []OneRowPerAddress
  BY AddressesComplete, AggregationInvariant, PTL

(* A complete INSERT of a pair table has one row for every two ends, with    *)
(* what each of them sent to the other.                                      *)
LEMMA PairsComplete == AggregationInv => PairRowsAreTotals
<1> SUFFICES ASSUME AggregationInv, Complete, table \in PairTables
             PROVE  /\ \A j \in Records : \E r \in prikaz : {r.one, r.two} = Mentions(j)
                    /\ \A q, r \in prikaz : {q.one, q.two} = {r.one, r.two} => q = r
                    /\ \A r \in prikaz : PairTotals(r)
  BY DEF PairRowsAreTotals, PairTotals
<1>1. /\ \A r \in prikaz : FirstPairAt(r) /\ PairTotals(r)
      /\ OnePerPlace
      /\ \A k \in 1 .. help_zaznamy - 1 : \E r \in prikaz : {r.one, r.two} = Mentions(k)
  BY DEF AggregationInv, PairsInserted
<1>2. Records = 1 .. help_zaznamy - 1 /\ help_zaznamy \in Nat
  BY DEF AggregationInv, RecordLayout, Records, Complete
<1>3. ASSUME NEW q \in prikaz, NEW r \in prikaz, {q.one, q.two} = {r.one, r.two}
      PROVE  q = r
  <2>1. PICK k \in 1 .. help_zaznamy - 1 :
          /\ q.at = <<k, "s">> /\ {q.one, q.two} = Mentions(k)
          /\ \A m \in 1 .. k - 1 : Mentions(m) # Mentions(k)
    BY <1>1 DEF FirstPairAt, Mentions
  <2>2. PICK n \in 1 .. help_zaznamy - 1 :
          /\ r.at = <<n, "s">> /\ {r.one, r.two} = Mentions(n)
          /\ \A m \in 1 .. n - 1 : Mentions(m) # Mentions(n)
    BY <1>1 DEF FirstPairAt, Mentions
  <2>3. Mentions(k) = Mentions(n)
    BY <1>3, <2>1, <2>2
  <2>4. k = n
    <3>1. ~(k < n)
      BY <1>2, <2>2, <2>3
    <3>2. ~(n < k)
      BY <1>2, <2>1, <2>3
    <3> QED
      BY <1>2, <3>1, <3>2
  <2> QED
    BY <1>1, <2>1, <2>2, <2>4 DEF OnePerPlace
<1> QED
  BY <1>1, <1>2, <1>3

THEOREM EveryPairHasOneRow == AggregationSpec => []PairRowsAreTotals
  BY PairsComplete, AggregationInvariant, PTL

-----------------------------------------------------------------------------
(* Merging.  For every selection of rows of an IPv4 or MAC table the merged  *)
(* rows hold the totals of their pairs; and for garbage keys, too, the rows  *)
(* together hold what was selected, as no element is taken in twice.         *)
RowFields == {"one", "two", "there", "back"}

RowList(rows) ==
    /\ IsList(rows)
    /\ \A n \in DOMAIN rows :
          /\ RowFields \subseteq DOMAIN rows[n]
          /\ rows[n].there \in Nat /\ rows[n].back \in Nat

ListLayout ==
    /\ sd_ta \in Nat
    /\ is_ipv6 \in BOOLEAN
    /\ sd_ta = 0 => sd = <<>>

\* A window with rows is at work, in a list that has the rows.
AtWork == sd_ta # 0 /\ selected # <<>>

Listed == AtWork =>
    /\ DOMAIN sd = 1 .. Len(sd) /\ Len(sd) \in Nat /\ DOMAIN sd = DOMAIN selected
    /\ \A n \in DOMAIN sd : sd[n].there \in Nat /\ sd[n].back \in Nat
    /\ \A n \in DOMAIN sd : sd[n].there = selected[n].there /\ sd[n].back = selected[n].back
    /\ ~is_ipv6 => sd = selected
    /\ sd_ta <= Len(sd) + 1
    /\ DOMAIN sd_spracovany = DOMAIN sd

Pair(n) == {sd[n].one, sd[n].two}
PairMerged(n) == \E k \in 1 .. sd_ta - 1 : Pair(k) = Pair(n)

\* Elements visited are marked, and of the others those of a pair that was there.
Marks == AtWork =>
    \A n \in DOMAIN sd : sd_spracovany[n] = 0 <=> n >= sd_ta /\ ~PairMerged(n)

\* A row stands at the first element of its pair.
MergedFirst(r) ==
    \E k \in 1 .. sd_ta - 1 :
        /\ r.at = k
        /\ r.one = sd[k].one /\ r.two = sd[k].two
        /\ \A m \in 1 .. k - 1 : Pair(m) # Pair(k)

Of(a, b) == {n \in DOMAIN sd : sd[n].one = a /\ sd[n].two = b}

Totals(r) ==
    IF r.one = r.two
    THEN r.there = There(Of(r.one, r.one)) /\ r.back = Back(Of(r.one, r.one))
    ELSE /\ r.there = There(Of(r.one, r.two)) + Back(Of(r.two, r.one))
         /\ r.back = Back(Of(r.one, r.two)) + There(Of(r.two, r.one))

RowsMerged == AtWork =>
    /\ \A r \in sd_rows : MergedFirst(r) /\ Totals(r)
    /\ \A q, r \in sd_rows : q.at = r.at => q = r
    /\ \A k \in 1 .. sd_ta - 1 : \E r \in sd_rows : {r.one, r.two} = Pair(k)

\* The rows so far have what the marked elements had.
Taken == {n \in DOMAIN sd : sd_spracovany[n] # 0}
Amount(r) == r.there + r.back
Inserted(R) == SumFunction([r \in R |-> Amount(r)])

AmountsCounted == AtWork =>
    /\ IsFiniteSet(sd_rows) /\ \A r \in sd_rows : Amount(r) \in Nat
    /\ Inserted(sd_rows) = There(Taken) + Back(Taken)

\* The window without rows: its one element has nothing.
Nothing == sd_ta # 0 /\ selected = <<>> =>
    /\ sd = Unwritten
    /\ sd_rows = {} \/ (sd_ta # 1 /\ \E r : sd_rows = {r} /\ Amount(r) = 0)

MergingInv == ListLayout /\ Listed /\ Marks /\ RowsMerged /\ AmountsCounted /\ Nothing

-----------------------------------------------------------------------------
(* What is read from the list stays as long as the list does.                *)
LEMMA ListKept ==
    ASSUME UNCHANGED sd
    PROVE  /\ \A n : Pair(n)' = Pair(n)
           /\ \A a, b : Of(a, b)' = Of(a, b)
           /\ \A N : There(N)' = There(N) /\ Back(N)' = Back(N)
  BY DEF Pair, Of, There, Back

(* The inner loop takes in just the elements behind of the same pair.        *)
LEMMA PairOfBehind ==
    ASSUME NEW n \in Behind
    PROVE  n \in Same \cup Turned <=> Pair(n) = Pair(sd_ta)
<1>1. n \in Same \cup Turned <=>
        \/ sd[n].one = sd[sd_ta].one /\ sd[n].two = sd[sd_ta].two
        \/ sd[n].one = sd[sd_ta].two /\ sd[n].two = sd[sd_ta].one
  BY DEF Same, Turned
<1> QED
  BY <1>1 DEF Pair

(* What some elements have together, element by element.                     *)
Amounts == [n \in DOMAIN sd |-> Amount(sd[n])]

LEMMA AmountsTogether ==
    ASSUME Listed, AtWork, NEW N \in SUBSET DOMAIN sd
    PROVE  /\ IsFiniteSet(N) /\ \A n \in N : Amounts[n] \in Nat
           /\ There(N) \in Nat /\ Back(N) \in Nat
           /\ There(N) + Back(N) = SumFunctionOnSet(Amounts, N)
<1> DEFINE f == [n \in DOMAIN sd |-> sd[n].there]
           h == [n \in DOMAIN sd |-> sd[n].back]
<1>1. IsFiniteSet(DOMAIN sd)
  <2>1. DOMAIN sd = 1 .. Len(sd) /\ Len(sd) \in Nat
    BY DEF Listed
  <2> QED
    BY <2>1, FS_Interval
<1>2. IsFiniteSet(N)
  BY <1>1, FS_Subset
<1>3. \A n \in N : f[n] \in Nat /\ h[n] \in Nat /\ Amounts[n] = f[n] + h[n]
  <2>1. \A n \in DOMAIN sd : sd[n].there \in Nat /\ sd[n].back \in Nat
    BY DEF Listed
  <2> QED
    BY <2>1 DEF Amounts, Amount
<1>4. There(N) = SumFunctionOnSet(f, N) /\ Back(N) = SumFunctionOnSet(h, N)
  BY DEF There, Back, ThereOf, BackOf
<1> HIDE DEF f, h
<1>5. SumFunctionOnSet(f, N) \in Nat /\ SumFunctionOnSet(h, N) \in Nat
  BY <1>2, <1>3, SumType
<1>6. SumFunctionOnSet(Amounts, N) = SumFunctionOnSet(f, N) + SumFunctionOnSet(h, N)
  BY <1>2, <1>3, SumPlus
<1> QED
  BY <1>2, <1>3, <1>4, <1>5, <1>6

(* The row of a pair that no earlier element had has its totals.             *)
LEMMA NewRow ==
    ASSUME MergingInv, AtWork, sd_ta \in DOMAIN sd, ~PairMerged(sd_ta)
    PROVE  Totals(MergedRow)
<1> DEFINE i == sd_ta
           x == sd[i].one
           y == sd[i].two
<1>1. DOMAIN sd = 1 .. Len(sd) /\ Len(sd) \in Nat /\ i \in Nat \ {0}
  BY DEF MergingInv, ListLayout, Listed
<1>2. \A k \in 1 .. i - 1 : /\ ~(sd[k].one = x /\ sd[k].two = y)
                            /\ ~(sd[k].one = y /\ sd[k].two = x)
  BY DEF PairMerged, Pair
<1>3. {i} \cup Same = Of(x, y)
  <2>1. \A n \in DOMAIN sd : n \in Of(x, y) <=> n = i \/ n \in Same
    BY <1>1, <1>2 DEF Of, Same, Behind
  <2> QED
    BY <2>1 DEF Of, Same, Behind
<1>4. x # y => Turned = Of(y, x)
  <2>1. x # y => \A n \in DOMAIN sd : n \in Of(y, x) <=> n \in Turned
    BY <1>1, <1>2 DEF Of, Turned, Same, Behind
  <2> QED
    BY <2>1 DEF Of, Turned, Behind
<1>5. /\ MergedRow.one = x /\ MergedRow.two = y
      /\ MergedRow.there = There({i} \cup Same) + Back(Turned)
      /\ MergedRow.back = Back({i} \cup Same) + There(Turned)
  BY DEF MergedRow
<1>6. CASE x = y
  <2>1. Turned = {}
    <3>1. \A n \in Behind : n \notin Turned
      BY <1>6 DEF Turned, Same
    <3> QED
      BY <3>1 DEF Turned
  <2>2. There(Turned) = 0 /\ Back(Turned) = 0
    BY <2>1, SumOfFew DEF There, Back, ThereOf, BackOf
  <2>3. Of(x, y) \in SUBSET DOMAIN sd
    BY DEF Of
  <2>4. There(Of(x, y)) \in Nat /\ Back(Of(x, y)) \in Nat
    BY <2>3, AmountsTogether DEF MergingInv
  <2>5. MergedRow.there = There(Of(x, y)) /\ MergedRow.back = Back(Of(x, y))
    <3>1. There({i} \cup Same) = There(Of(x, y)) /\ Back({i} \cup Same) = Back(Of(x, y))
      BY <1>3
    <3>2. There({i} \cup Same) \in Nat /\ Back({i} \cup Same) \in Nat
      BY <2>4, <3>1
    <3>3. MergedRow.there = There({i} \cup Same) /\ MergedRow.back = Back({i} \cup Same)
      BY <1>5, <2>2, <3>2
    <3> QED
      BY <3>1, <3>3
  <2> QED
    BY <1>5, <1>6, <2>5 DEF Totals
<1>7. CASE x # y
  BY <1>3, <1>4, <1>5, <1>7 DEF Totals
<1> QED
  BY <1>6, <1>7

(* A row more.                                                               *)
LEMMA RowInserted ==
    ASSUME NEW R, IsFiniteSet(R), NEW r, r \notin R, \A q \in R \cup {r} : Amount(q) \in Nat
    PROVE  Inserted(R \cup {r}) = Amount(r) + Inserted(R)
<1> DEFINE f == [q \in R |-> Amount(q)]
           T == R \cup {r}
           h == [q \in T |-> Amount(q)]
<1>1. Inserted(R) = SumFunctionOnSet(f, R) /\ Inserted(T) = SumFunctionOnSet(h, T)
  BY DEF Inserted, SumFunction
<1>2. \A q \in R : f[q] = h[q]
  OBVIOUS
<1>3. (\A q \in T : h[q] \in Int) /\ h[r] = Amount(r)
  OBVIOUS
<1> HIDE DEF f, h
<1>4. SumFunctionOnSet(f, R) = SumFunctionOnSet(h, R)
  BY <1>2, SumEqual
<1>5. SumFunctionOnSet(h, R \cup {r}) = h[r] + SumFunctionOnSet(h, R)
  BY <1>3, SumAdd
<1> QED
  BY <1>1, <1>3, <1>4, <1>5

(* The row of a turn has what the elements have that it marks; none of them  *)
(* was in a row before.                                                      *)
Together == {sd_ta} \cup Same \cup Turned

LEMMA NewRowHasItsElements ==
    ASSUME MergingInv, AtWork, sd_ta \in DOMAIN sd, sd_spracovany[sd_ta] = 0
    PROVE  /\ Amount(MergedRow) = SumFunctionOnSet(Amounts, Together)
           /\ Together \subseteq DOMAIN sd /\ Together \cap Taken = {}
<1> DEFINE A == {sd_ta} \cup Same
<1>1. Listed /\ DOMAIN sd = 1 .. Len(sd) /\ Len(sd) \in Nat
  BY DEF MergingInv, Listed
<1>2. A \in SUBSET DOMAIN sd /\ Turned \in SUBSET DOMAIN sd /\ sd_ta \notin Behind
  BY DEF Same, Turned, Behind, MergingInv, ListLayout
<1>3. A \cap Turned = {} /\ Together = A \cup Turned
  BY <1>2 DEF Turned, Together
<1>4. MergedRow.there = There(A) + Back(Turned) /\ MergedRow.back = Back(A) + There(Turned)
  BY DEF MergedRow
<1> HIDE DEF A
<1>5. /\ IsFiniteSet(A) /\ There(A) \in Nat /\ Back(A) \in Nat
      /\ There(A) + Back(A) = SumFunctionOnSet(Amounts, A)
      /\ \A n \in A : Amounts[n] \in Nat
  BY <1>1, <1>2, AmountsTogether
<1>6. /\ IsFiniteSet(Turned) /\ There(Turned) \in Nat /\ Back(Turned) \in Nat
      /\ There(Turned) + Back(Turned) = SumFunctionOnSet(Amounts, Turned)
      /\ \A n \in Turned : Amounts[n] \in Nat
  BY <1>1, <1>2, AmountsTogether
<1>7. SumFunctionOnSet(Amounts, A \cup Turned)
         = SumFunctionOnSet(Amounts, A) + SumFunctionOnSet(Amounts, Turned)
  BY <1>3, <1>5, <1>6, SumUnion
<1>8. Amount(MergedRow) = There(A) + Back(Turned) + (Back(A) + There(Turned))
  BY <1>4 DEF Amount
<1>9. Amount(MergedRow) = SumFunctionOnSet(Amounts, Together)
  BY <1>3, <1>5, <1>6, <1>7, <1>8
<1>10. \A n \in Together : sd_spracovany[n] = 0
  <2>1. ~PairMerged(sd_ta)
    BY DEF MergingInv, Marks
  <2>2. ASSUME NEW n \in Same \cup Turned PROVE sd_spracovany[n] = 0
    <3>1. n \in Behind /\ n \in DOMAIN sd /\ n > sd_ta
      BY <2>2 DEF Same, Turned, Behind
    <3>2. Pair(n) = Pair(sd_ta)
      BY <2>2, <3>1, PairOfBehind
    <3>3. ~PairMerged(n)
      BY <2>1, <3>2 DEF PairMerged
    <3>4. n \in Nat /\ sd_ta \in Nat
      BY <1>1, <3>1
    <3> QED
      BY <3>1, <3>3, <3>4 DEF MergingInv, Marks
  <2> QED
    BY <2>2 DEF Together
<1> QED
  BY <1>2, <1>3, <1>9, <1>10 DEF Taken

(* A turn adds a row with what it marks.                                     *)
LEMMA MergeTurnCounts ==
    ASSUME MergingInv, MergeTurn, AtWork
    PROVE  AmountsCounted'
<1> DEFINE i == sd_ta
           free == sd_spracovany[i] = 0
<1>1. /\ UNCHANGED sd /\ i \in DOMAIN sd
      /\ IF free THEN sd_spracovany' = MarkedMerged /\ sd_rows' = sd_rows \cup {MergedRow}
                 ELSE UNCHANGED <<sd_rows, sd_spracovany>>
  BY DEF MergeTurn
<1>2. /\ IsFiniteSet(sd_rows) /\ \A r \in sd_rows : Amount(r) \in Nat
      /\ Inserted(sd_rows) = There(Taken) + Back(Taken)
      /\ Listed
  BY DEF MergingInv, AmountsCounted
<1>3. \A N : There(N)' = There(N) /\ Back(N)' = Back(N)
  BY <1>1, ListKept
<1>4. CASE ~free
  <2>1. Taken' = Taken
    BY <1>1, <1>4 DEF Taken
  <2> QED
    BY <1>1, <1>2, <1>3, <1>4, <2>1 DEF AmountsCounted, There, Back
<1>5. CASE free
  <2>1. /\ Amount(MergedRow) = SumFunctionOnSet(Amounts, Together)
        /\ Together \subseteq DOMAIN sd /\ Together \cap Taken = {}
    BY <1>1, <1>5, NewRowHasItsElements
  <2>2. Taken' = Taken \cup Together
    BY <1>1, <1>5, <2>1 DEF Taken, MarkedMerged, Together
  <2>3. MergedRow \notin sd_rows
    <3>1. MergedRow.at = i
      BY DEF MergedRow
    <3>2. \A r \in sd_rows : \E k \in 1 .. i - 1 : r.at = k
      BY DEF MergingInv, RowsMerged, MergedFirst
    <3>3. i \in Nat
      BY DEF MergingInv, ListLayout
    <3> QED
      BY <3>1, <3>2, <3>3
  <2>4. /\ IsFiniteSet(Together) /\ \A n \in Together : Amounts[n] \in Nat
        /\ There(Together) + Back(Together) = SumFunctionOnSet(Amounts, Together)
        /\ There(Together) \in Nat /\ Back(Together) \in Nat
    BY <1>2, <2>1, AmountsTogether
  <2>5. Taken \subseteq DOMAIN sd
    BY DEF Taken
  <2>6. /\ IsFiniteSet(Taken) /\ \A n \in Taken : Amounts[n] \in Nat
        /\ There(Taken) + Back(Taken) = SumFunctionOnSet(Amounts, Taken)
        /\ There(Taken) \in Nat /\ Back(Taken) \in Nat
    BY <1>2, <2>5, AmountsTogether
  <2>7. SumFunctionOnSet(Amounts, Taken \cup Together)
           = SumFunctionOnSet(Amounts, Taken) + SumFunctionOnSet(Amounts, Together)
    BY <2>1, <2>4, <2>6, SumUnion
  <2>8. There(Taken \cup Together) + Back(Taken \cup Together)
           = SumFunctionOnSet(Amounts, Taken \cup Together)
    BY <1>2, <2>1, <2>5, AmountsTogether
  <2>9. Inserted(sd_rows \cup {MergedRow}) = Amount(MergedRow) + Inserted(sd_rows)
    BY <1>2, <2>1, <2>3, <2>4, RowInserted
  <2>10. Inserted(sd_rows \cup {MergedRow})
            = There(Taken \cup Together) + Back(Taken \cup Together)
    BY <1>2, <2>1, <2>4, <2>6, <2>7, <2>8, <2>9
  <2>11. /\ IsFiniteSet(sd_rows') /\ \A r \in sd_rows' : Amount(r) \in Nat
    BY <1>1, <1>2, <1>5, <2>1, <2>4, FS_AddElement
  <2>12. There(Taken)' = There(Taken') /\ Back(Taken)' = Back(Taken')
    BY <1>1 DEF There, Back
  <2> QED
    BY <1>1, <1>5, <2>2, <2>10, <2>11, <2>12 DEF AmountsCounted
<1> QED
  BY <1>4, <1>5

(* The rows of a turn: the new one stands at the first element of its pair,  *)
(* and no row before it stands there.                                        *)
LEMMA MergeTurnKeepsRows ==
    ASSUME MergingInv, MergeTurn, AtWork
    PROVE  RowsMerged'
<1> DEFINE i == sd_ta
           free == sd_spracovany[i] = 0
<1>1. /\ UNCHANGED sd /\ i' = i + 1 /\ i \in DOMAIN sd
      /\ IF free THEN sd_rows' = sd_rows \cup {MergedRow} ELSE UNCHANGED sd_rows
  BY DEF MergeTurn
<1>2. DOMAIN sd = 1 .. Len(sd) /\ Len(sd) \in Nat /\ i \in Nat \ {0}
  BY DEF MergingInv, ListLayout, Listed, AtWork
<1>3. free <=> ~PairMerged(i)
  BY <1>1, <1>2 DEF MergingInv, Marks
<1>4. /\ \A r \in sd_rows : MergedFirst(r) /\ Totals(r)
      /\ \A q, r \in sd_rows : q.at = r.at => q = r
      /\ \A k \in 1 .. i - 1 : \E r \in sd_rows : {r.one, r.two} = Pair(k)
  BY DEF MergingInv, RowsMerged
<1>5. MergedRow.at = i /\ MergedRow.one = sd[i].one /\ MergedRow.two = sd[i].two
  BY DEF MergedRow
<1>6. 1 .. i' - 1 = (1 .. i - 1) \cup {i} /\ \A n : Pair(n)' = Pair(n)
  BY <1>1, <1>2, ListKept
<1>7. \A r : Totals(r) => Totals(r)'
  <2>1. /\ \A a, b : Of(a, b)' = Of(a, b)
        /\ \A N : There(N)' = There(N) /\ Back(N)' = Back(N)
    BY <1>1, ListKept
  <2> QED
    BY <2>1 DEF Totals
<1>8. \A r : MergedFirst(r) => MergedFirst(r)'
  BY <1>1, <1>6 DEF MergedFirst
<1>9. \A r : free /\ r = MergedRow => MergedFirst(r)' /\ Totals(r)'
  <2>1. SUFFICES ASSUME NEW r, NEW n \in 1 .. i' - 1, n = i, free, r = MergedRow,
                        r.at = n, r.one = sd[n].one, r.two = sd[n].two
                 PROVE  MergedFirst(r)' /\ Totals(r)'
    BY <1>5, <1>6
  <2>2. \A m \in 1 .. n - 1 : Pair(m) # Pair(n)
    BY <1>3, <2>1 DEF PairMerged
  <2>3. MergedFirst(r)'
    BY <1>1, <1>6, <2>1, <2>2 DEF MergedFirst
  <2>4. Totals(r)
    BY <1>1, <1>3, <2>1, NewRow
  <2> QED
    BY <1>7, <2>3, <2>4
<1>10. \A r \in sd_rows' : MergedFirst(r)' /\ Totals(r)'
  <2>1. SUFFICES ASSUME NEW r \in sd_rows' PROVE MergedFirst(r)' /\ Totals(r)'
    OBVIOUS
  <2>2. CASE r \in sd_rows
    BY <1>4, <1>7, <1>8, <2>2
  <2>3. CASE free /\ r = MergedRow
    BY <1>9, <2>3
  <2> QED
    BY <1>1, <2>1, <2>2, <2>3
<1>11. \A q, r \in sd_rows' : q.at = r.at => q = r
  <2>1. \A r \in sd_rows : r.at # i
    BY <1>2, <1>4 DEF MergedFirst
  <2> QED
    BY <1>1, <1>4, <1>5, <2>1
<1>12. \A k \in 1 .. i' - 1 : \E r \in sd_rows' : {r.one, r.two} = Pair(k)'
  <2>1. SUFFICES ASSUME NEW k \in 1 .. i' - 1
                 PROVE  \E r \in sd_rows' : {r.one, r.two} = Pair(k)
    BY <1>6
  <2>2. sd_rows \subseteq sd_rows'
    BY <1>1
  <2>3. CASE k \in 1 .. i - 1
    BY <1>4, <2>2, <2>3
  <2>4. CASE k = i /\ free
    <3>1. {MergedRow.one, MergedRow.two} = Pair(k)
      BY <1>5, <2>4 DEF Pair
    <3> QED
      BY <1>1, <2>4, <3>1
  <2>5. CASE k = i /\ ~free
    <3>1. PICK m \in 1 .. i - 1 : Pair(m) = Pair(i)
      BY <1>3, <2>5 DEF PairMerged
    <3> QED
      BY <1>4, <2>2, <2>5, <3>1
  <2> QED
    BY <1>6, <2>3, <2>4, <2>5
<1> QED
  BY <1>10, <1>11, <1>12 DEF RowsMerged

(* A turn of a window with rows marks the elements of the pair.              *)
LEMMA MergeTurnMarks ==
    ASSUME MergingInv, MergeTurn, AtWork
    PROVE  Marks'
<1> DEFINE i == sd_ta
           free == sd_spracovany[i] = 0
<1>1. /\ UNCHANGED sd /\ i' = i + 1 /\ i \in DOMAIN sd
      /\ IF free THEN sd_spracovany' = MarkedMerged ELSE UNCHANGED sd_spracovany
  BY DEF MergeTurn
<1>2. DOMAIN sd = 1 .. Len(sd) /\ Len(sd) \in Nat /\ i \in Nat \ {0}
  BY DEF MergingInv, ListLayout, Listed, AtWork
<1>3. \A n \in DOMAIN sd : sd_spracovany[n] = 0 <=> n >= i /\ ~PairMerged(n)
  BY DEF MergingInv, Marks
<1>4. \A n : PairMerged(n)' <=> PairMerged(n) \/ Pair(n) = Pair(i)
  <2>1. \A n : Pair(n)' = Pair(n)
    BY <1>1, ListKept
  <2>2. 1 .. i' - 1 = (1 .. i - 1) \cup {i}
    BY <1>1, <1>2
  <2>3. \A n : PairMerged(n)' <=> \E k \in 1 .. i' - 1 : Pair(k) = Pair(n)
    BY <2>1 DEF PairMerged
  <2> QED
    BY <2>2, <2>3 DEF PairMerged
<1>5. SUFFICES ASSUME NEW n \in DOMAIN sd
               PROVE  sd_spracovany'[n] = 0 <=> n >= i + 1 /\ ~PairMerged(n)'
  BY <1>1 DEF Marks
<1>6. CASE free
  <2>1. sd_spracovany'[n] = IF n = i \/ n \in Same \cup Turned THEN 1 ELSE sd_spracovany[n]
    BY <1>1, <1>6 DEF MarkedMerged
  <2>2. CASE n > i
    <3>1. n \in Same \cup Turned <=> Pair(n) = Pair(i)
      BY <2>2, PairOfBehind DEF Behind
    <3> QED
      BY <1>2, <1>3, <1>4, <2>1, <2>2, <3>1
  <2>3. CASE n <= i
    <3>1. n \notin Same \cup Turned
      BY <1>2, <2>3 DEF Same, Turned, Behind
    <3>2. ~(n >= i + 1) /\ (n = i \/ ~(n >= i))
      BY <1>2, <2>3
    <3> QED
      BY <1>3, <2>1, <3>1, <3>2
  <2> QED
    BY <1>2, <2>2, <2>3
<1>7. CASE ~free
  <2>1. PairMerged(i)
    BY <1>1, <1>2, <1>3, <1>7
  <2>2. Pair(n) = Pair(i) => PairMerged(n)
    BY <2>1 DEF PairMerged
  <2>3. n = i => PairMerged(n)
    BY <2>1
  <2>4. n >= i + 1 <=> n >= i /\ n # i
    BY <1>2
  <2> QED
    BY <1>1, <1>3, <1>4, <1>7, <2>2, <2>3, <2>4
<1> QED
  BY <1>6, <1>7

(* The turn of a window without rows gives a row of nothing, or none.        *)
LEMMA EmptyTurnKeepsNothing ==
    ASSUME MergingInv, MergeTurn, selected = <<>>
    PROVE  Nothing'
<1>1. UNCHANGED <<selected, sd>> /\ sd_ta' = sd_ta + 1 /\ sd_ta \in DOMAIN sd
  BY DEF MergeTurn
<1>2. sd_ta \in Nat \ {0}
  BY <1>1 DEF MergingInv, ListLayout
<1>3. sd = Unwritten
  BY <1>2 DEF MergingInv, Nothing
<1>4. sd_ta = 1 /\ DOMAIN sd = {1}
  BY <1>1, <1>3 DEF Unwritten
<1>5. Behind = {} /\ Same = {} /\ Turned = {}
  BY <1>4 DEF Behind, Same, Turned
<1>6. sd_rows = {}
  BY <1>4 DEF MergingInv, Nothing
<1>7. Amount(MergedRow) = 0
  <2> DEFINE f == [n \in DOMAIN sd |-> sd[n].there]
             h == [n \in DOMAIN sd |-> sd[n].back]
  <2>1. f[1] = 0 /\ h[1] = 0
    BY <1>3, <1>4 DEF Unwritten
  <2>2. /\ There({1}) = SumFunctionOnSet(f, {1}) /\ Back({1}) = SumFunctionOnSet(h, {1})
        /\ There({}) = SumFunctionOnSet(f, {}) /\ Back({}) = SumFunctionOnSet(h, {})
    BY DEF There, Back, ThereOf, BackOf
  <2> HIDE DEF f, h
  <2>3. There({1}) = 0 /\ Back({1}) = 0 /\ There({}) = 0 /\ Back({}) = 0
    <3>1. SumFunctionOnSet(f, {}) = 0 /\ SumFunctionOnSet(f, {1}) = 0
      BY <2>1, SumOfFew, 0 \in Int
    <3>2. SumFunctionOnSet(h, {}) = 0 /\ SumFunctionOnSet(h, {1}) = 0
      BY <2>1, SumOfFew, 0 \in Int
    <3> QED
      BY <2>2, <3>1, <3>2
  <2>4. MergedRow.there = There({1} \cup {}) + Back({})
        /\ MergedRow.back = Back({1} \cup {}) + There({})
    BY <1>4, <1>5 DEF MergedRow
  <2>5. {1} \cup {} = {1}
    OBVIOUS
  <2> QED
    BY <2>3, <2>4, <2>5 DEF Amount
<1>8. sd_rows' = {} \/ sd_rows' = {MergedRow}
  BY <1>6 DEF MergeTurn
<1> QED
  BY <1>1, <1>3, <1>4, <1>7, <1>8 DEF Nothing, Amount

(* The turns keep the whole invariant.                                       *)
LEMMA MergeTurnKeepsInv ==
    ASSUME MergingInv, MergeTurn
    PROVE  MergingInv'
<1> DEFINE i == sd_ta
<1>1. UNCHANGED <<selected, sd, is_ipv6>> /\ i' = i + 1 /\ i \in DOMAIN sd
  BY DEF MergeTurn
<1>2. i \in Nat \ {0}
  BY <1>1 DEF MergingInv, ListLayout
<1>3. ListLayout'
  BY <1>1, <1>2 DEF MergingInv, ListLayout
<1>4. CASE selected = <<>>
  <2>1. ~AtWork'
    BY <1>1, <1>4 DEF AtWork
  <2>2. Nothing'
    BY <1>4, EmptyTurnKeepsNothing
  <2> QED
    BY <1>3, <2>1, <2>2 DEF MergingInv, Listed, Marks, RowsMerged, AmountsCounted
<1>5. CASE selected # <<>>
  <2>1. AtWork
    BY <1>2, <1>5 DEF AtWork
  <2>2. Listed'
    <3>1. DOMAIN sd_spracovany' = DOMAIN sd
      BY <2>1 DEF MergeTurn, MarkedMerged, MergingInv, Listed
    <3>2. i' <= Len(sd) + 1
      BY <1>1, <2>1 DEF MergingInv, Listed
    <3> QED
      BY <1>1, <2>1, <3>1, <3>2 DEF MergingInv, Listed
  <2>3. Nothing'
    BY <1>1, <1>5 DEF Nothing
  <2> QED
    BY <1>3, <2>1, <2>2, <2>3, MergeTurnMarks, MergeTurnKeepsRows, MergeTurnCounts DEF MergingInv
<1> QED
  BY <1>4, <1>5

(* A new selection: the first element has no row yet and every mark is zero. *)
LEMMA SelectKeepsInv ==
    ASSUME MergingInv, NEW rows, RowList(rows), NEW v6 \in BOOLEAN, Select(rows, v6)
    PROVE  MergingInv'
<1>1. selected' = rows /\ is_ipv6' = v6 /\ sd_ta' = 1 /\ sd_rows' = {}
  BY DEF Select
<1>2. ListLayout'
  BY <1>1 DEF ListLayout
<1>3. CASE rows = <<>>
  <2>1. sd' = Unwritten
    BY <1>3 DEF Select
  <2>2. Nothing' /\ ~AtWork'
    BY <1>1, <1>3, <2>1 DEF Nothing, AtWork
  <2> QED
    BY <1>2, <2>2 DEF MergingInv, Listed, Marks, RowsMerged, AmountsCounted
<1>4. CASE rows # <<>>
  <2>1. Nothing'
    BY <1>1, <1>4 DEF Nothing
  <2>2. sd_spracovany' = [n \in DOMAIN rows |-> 0]
    BY <1>4 DEF Select
  <2>3. /\ DOMAIN sd' = 1 .. Len(sd') /\ Len(sd') \in Nat /\ DOMAIN sd' = DOMAIN rows
        /\ \A n \in DOMAIN sd' : /\ sd'[n].there = rows[n].there /\ sd'[n].there \in Nat
                                 /\ sd'[n].back = rows[n].back /\ sd'[n].back \in Nat
        /\ ~v6 => sd' = rows
    <3>1. PICK x \in [DOMAIN rows -> IF v6 THEN Ends ELSE {Junk}],
               y \in [DOMAIN rows -> IF v6 THEN Ends ELSE {Junk}] : sd' = Keyed(rows, v6, x, y)
      BY <1>4 DEF Select
    <3>2. DOMAIN rows = 1 .. Len(rows) /\ Len(rows) \in Nat
      BY DEF RowList, IsList
    <3>3. CASE ~v6
      <4>1. sd' = rows
        BY <3>1, <3>3, Zenon DEF Keyed
      <4> QED
        BY <3>2, <3>3, <4>1 DEF RowList
    <3>4. CASE v6
      <4>1. sd' = [n \in DOMAIN rows |-> [rows[n] EXCEPT !.one = x[n], !.two = y[n]]]
        BY <3>1, <3>4, Zenon DEF Keyed
      <4>2. \A n \in DOMAIN rows :
              /\ [rows[n] EXCEPT !.one = x[n], !.two = y[n]].there = rows[n].there
              /\ [rows[n] EXCEPT !.one = x[n], !.two = y[n]].back = rows[n].back
        BY DEF RowList, RowFields
      <4>3. /\ DOMAIN sd' = DOMAIN rows
            /\ \A n \in DOMAIN rows : sd'[n].there = rows[n].there /\ sd'[n].back = rows[n].back
        BY <4>1, <4>2
      <4>4. Len(sd') = Len(rows)
        <5> DEFINE S == {sd'[n] : n \in DOMAIN rows}
        <5>1. sd' \in [1 .. Len(rows) -> S]
          BY <3>2, <4>1
        <5> HIDE DEF S
        <5>2. sd' \in Seq(S)
          BY <3>2, <5>1
        <5> QED
          BY <3>2, <4>3, <5>2
      <4> QED
        BY <3>2, <3>4, <4>3, <4>4 DEF RowList
    <3> QED
      BY <3>3, <3>4
  <2>4. 1 .. sd_ta' - 1 = {}
    BY <1>1
  <2>5. \A n : ~PairMerged(n)'
    BY <2>4 DEF PairMerged
  <2>6. Listed'
    BY <1>1, <2>2, <2>3 DEF Listed
  <2>7. Marks'
    BY <1>1, <2>2, <2>3, <2>5 DEF Marks
  <2>8. RowsMerged'
    BY <1>1, <2>4 DEF RowsMerged
  <2>9. AmountsCounted'
    <3>1. Taken' = {}
      BY <2>2, <2>3 DEF Taken
    <3>2. There({})' = 0 /\ Back({})' = 0
      BY SumOfFew DEF There, Back, ThereOf, BackOf
    <3>3. Inserted({}) = 0
      <4>1. Inserted({}) = SumFunctionOnSet([r \in {} |-> Amount(r)], {})
        BY DEF Inserted, SumFunction
      <4> QED
        BY <4>1, SumOfFew
    <3>4. There(Taken)' = There({})' /\ Back(Taken)' = Back({})'
      BY <3>1 DEF There, Back
    <3> QED
      BY <1>1, <3>2, <3>3, <3>4, FS_EmptySet DEF AmountsCounted, Inserted
  <2> QED
    BY <1>2, <2>1, <2>6, <2>7, <2>8, <2>9 DEF MergingInv
<1> QED
  BY <1>3, <1>4

(* The invariant holds of every run of the merging, on every selection.      *)
LEMMA MergingStep == MergingInv /\ [MergingNext]_merging_vars => MergingInv'
<1> SUFFICES ASSUME MergingInv, [MergingNext]_merging_vars PROVE MergingInv'
  OBVIOUS
<1>1. CASE MergeTurn
  BY <1>1, MergeTurnKeepsInv
<1>2. CASE InsertMerged
  <2>1. ListLayout' /\ ~AtWork' /\ sd_ta' = 0
    BY <1>2 DEF InsertMerged, ListLayout, AtWork
  <2> QED
    BY <2>1 DEF MergingInv, Listed, Marks, RowsMerged, AmountsCounted, Nothing
<1>3. ASSUME NEW rows \in Seq(PairRows), NEW v6 \in BOOLEAN, Select(rows, v6) PROVE MergingInv'
  <2>1. IsList(rows) /\ \A n \in DOMAIN rows : rows[n] \in PairRows
    BY DEF IsList
  <2>2. RowList(rows)
    BY <2>1 DEF RowList, PairRows, RowFields
  <2> QED
    BY <1>3, <2>2, SelectKeepsInv
<1>4. CASE UNCHANGED merging_vars
  <2>1. UNCHANGED <<selected, sd, sd_spracovany, sd_ta, sd_rows, is_ipv6>>
    BY <1>4 DEF merging_vars
  <2>2. ListLayout' /\ (AtWork' <=> AtWork)
    BY <2>1 DEF MergingInv, ListLayout, AtWork
  <2>3. /\ \A n : Pair(n)' = Pair(n)
        /\ \A a, b : Of(a, b)' = Of(a, b)
        /\ \A N : There(N)' = There(N) /\ Back(N)' = Back(N)
    BY <2>1, ListKept
  <2>4. Listed'
    BY <2>1, <2>2 DEF MergingInv, Listed
  <2>5. Marks'
    <3>1. \A n : PairMerged(n)' <=> PairMerged(n)
      BY <2>1, <2>3 DEF PairMerged
    <3> QED
      BY <2>1, <2>2, <3>1 DEF MergingInv, Marks
  <2>6. RowsMerged'
    <3>1. \A r : MergedFirst(r)' <=> MergedFirst(r)
      BY <2>1, <2>3 DEF MergedFirst
    <3>2. \A r : Totals(r)' <=> Totals(r)
      BY <2>3 DEF Totals
    <3> QED
      BY <2>1, <2>2, <2>3, <3>1, <3>2 DEF MergingInv, RowsMerged
  <2>7. AmountsCounted'
    BY <2>1, <2>2 DEF MergingInv, AmountsCounted, Inserted, Taken, There, Back
  <2>8. Nothing'
    BY <2>1 DEF MergingInv, Nothing
  <2> QED
    BY <2>2, <2>4, <2>5, <2>6, <2>7, <2>8 DEF MergingInv
<1> QED
  BY <1>1, <1>2, <1>3, <1>4 DEF MergingNext

LEMMA MergingStart == MergingInit => MergingInv
<1> SUFFICES ASSUME MergingInit PROVE MergingInv
  OBVIOUS
<1>1. ListLayout /\ ~AtWork /\ sd_ta = 0
  BY DEF MergingInit, ListLayout, AtWork
<1> QED
  BY <1>1 DEF MergingInv, Listed, Marks, RowsMerged, AmountsCounted, Nothing

THEOREM MergingInvariant == MergingSpec => []MergingInv
  BY MergingStart, MergingStep, PTL DEF MergingSpec

-----------------------------------------------------------------------------
(* Every two ends of a window have one merged row, with the totals of both   *)
(* directions.                                                               *)
LEMMA MergedTotals == MergingInv => MergedRowsAreTotals
<1> SUFFICES ASSUME MergingInv, Merged, ~is_ipv6, selected # <<>>
             PROVE  /\ \A n \in DOMAIN selected :
                         \E r \in sd_rows : {r.one, r.two} = {selected[n].one, selected[n].two}
                    /\ \A q, r \in sd_rows : {q.one, q.two} = {r.one, r.two} => q = r
                    /\ \A r \in sd_rows : r.one # r.two =>
                         /\ r.there = SentThere(Between(r.one, r.two))
                                          + SentBack(Between(r.two, r.one))
                         /\ r.back = SentBack(Between(r.one, r.two))
                                          + SentThere(Between(r.two, r.one))
  BY DEF MergedRowsAreTotals
<1>1. AtWork /\ sd = selected /\ DOMAIN sd = 1 .. sd_ta - 1 /\ sd_ta \in Nat
  BY DEF MergingInv, ListLayout, Listed, AtWork, Merged
<1>2. /\ \A r \in sd_rows : MergedFirst(r) /\ Totals(r)
      /\ \A q, r \in sd_rows : q.at = r.at => q = r
      /\ \A k \in 1 .. sd_ta - 1 : \E r \in sd_rows : {r.one, r.two} = Pair(k)
  BY <1>1 DEF MergingInv, RowsMerged
<1>3. \A n \in DOMAIN selected :
         \E r \in sd_rows : {r.one, r.two} = {selected[n].one, selected[n].two}
  BY <1>1, <1>2 DEF Pair
<1>4. ASSUME NEW q \in sd_rows, NEW r \in sd_rows, {q.one, q.two} = {r.one, r.two}
      PROVE  q = r
  <2>1. PICK k \in 1 .. sd_ta - 1 :
          /\ q.at = k /\ q.one = sd[k].one /\ q.two = sd[k].two
          /\ \A m \in 1 .. k - 1 : Pair(m) # Pair(k)
    BY <1>2 DEF MergedFirst
  <2>2. PICK n \in 1 .. sd_ta - 1 :
          /\ r.at = n /\ r.one = sd[n].one /\ r.two = sd[n].two
          /\ \A m \in 1 .. n - 1 : Pair(m) # Pair(n)
    BY <1>2 DEF MergedFirst
  <2>3. Pair(k) = Pair(n)
    BY <1>4, <2>1, <2>2 DEF Pair
  <2>4. ~(k < n) /\ ~(n < k)
    BY <1>1, <2>1, <2>2, <2>3
  <2>5. k = n
    BY <1>1, <2>4
  <2> QED
    BY <1>2, <2>1, <2>2, <2>5
<1>5. /\ \A a, b : Of(a, b) = Between(a, b)
      /\ \A N : There(N) = SentThere(N) /\ Back(N) = SentBack(N)
  BY <1>1 DEF Of, Between, There, Back, SentThere, SentBack
<1> QED
  BY <1>2, <1>3, <1>4, <1>5 DEF Totals

THEOREM MergedRowsHoldTotals == MergingSpec => []MergedRowsAreTotals
  BY MergedTotals, MergingInvariant, PTL

(* Nothing is lost by the merging, nor counted twice, whatever the keys are. *)
LEMMA AllIsCounted == MergingInv => NothingLostInMerging
<1> SUFFICES ASSUME MergingInv, Merged
             PROVE  Inserted(sd_rows)
                        = SentThere(DOMAIN selected) + SentBack(DOMAIN selected)
  BY DEF NothingLostInMerging, Inserted, Amount
<1>1. sd_ta \in Nat \ {0} /\ sd_ta = Len(sd) + 1
  BY DEF Merged, MergingInv, ListLayout
<1>2. CASE selected = <<>>
  <2>1. SentThere(DOMAIN selected) = 0 /\ SentBack(DOMAIN selected) = 0
    <3>1. DOMAIN selected = {}
      BY <1>2
    <3>2. /\ SentThere({}) = SumFunctionOnSet([n \in DOMAIN selected |-> selected[n].there], {})
          /\ SentBack({}) = SumFunctionOnSet([n \in DOMAIN selected |-> selected[n].back], {})
      BY DEF SentThere, SentBack, ThereOf, BackOf
    <3>3. SentThere({}) = 0 /\ SentBack({}) = 0
      BY <3>2, SumOfFew
    <3> QED
      BY <3>1, <3>3
  <2>2. ASSUME NEW R, NEW r, R = {r}, Amount(r) = 0 PROVE Inserted(R) = 0
    <3>1. Inserted(R) = SumFunctionOnSet([q \in R |-> Amount(q)], R)
      BY DEF Inserted, SumFunction
    <3>2. [q \in R |-> Amount(q)][r] = 0
      BY <2>2
    <3> QED
      BY <2>2, <3>1, <3>2, SumOfFew
  <2>3. Inserted({}) = 0
    <3>1. Inserted({}) = SumFunctionOnSet([r \in {} |-> Amount(r)], {})
      BY DEF Inserted, SumFunction
    <3> QED
      BY <3>1, SumOfFew
  <2>4. sd_rows = {} \/ \E r : sd_rows = {r} /\ Amount(r) = 0
    BY <1>1, <1>2 DEF MergingInv, Nothing
  <2> QED
    BY <2>1, <2>2, <2>3, <2>4
<1>3. CASE selected # <<>>
  <2>1. AtWork
    BY <1>1, <1>3 DEF AtWork
  <2>2. Taken = DOMAIN sd
    <3>1. DOMAIN sd = 1 .. Len(sd) /\ Len(sd) \in Nat
      BY <2>1 DEF MergingInv, Listed
    <3>2. \A n \in DOMAIN sd : ~(n >= sd_ta)
      BY <1>1, <3>1
    <3> QED
      BY <2>1, <3>2 DEF MergingInv, Marks, Taken
  <2>3. [n \in DOMAIN sd |-> sd[n].there] = [n \in DOMAIN selected |-> selected[n].there]
    BY <2>1 DEF MergingInv, Listed
  <2>4. [n \in DOMAIN sd |-> sd[n].back] = [n \in DOMAIN selected |-> selected[n].back]
    BY <2>1 DEF MergingInv, Listed
  <2>5. DOMAIN sd = DOMAIN selected
    BY <2>1 DEF MergingInv, Listed
  <2>6. There(DOMAIN sd) = SentThere(DOMAIN selected) /\ Back(DOMAIN sd) = SentBack(DOMAIN selected)
    BY <2>3, <2>4, <2>5 DEF There, Back, SentThere, SentBack, ThereOf, BackOf
  <2> QED
    BY <2>1, <2>2, <2>6 DEF MergingInv, AmountsCounted
<1> QED
  BY <1>2, <1>3

THEOREM MergingLosesNothing == MergingSpec => []NothingLostInMerging
  BY AllIsCounted, MergingInvariant, PTL

-----------------------------------------------------------------------------
(* Records: from the wire to the rows.  An interval that is in the minute    *)
(* table is there as the wire had it, and a list at work counts the frames   *)
(* of the last interval.                                                     *)

FramesOf(n) == intervals[n].frames
LastId == Len(intervals)

IntervalsKept ==
    /\ IsList(intervals)
    /\ \A n \in DOMAIN intervals :
          /\ {"frames", "stored"} \subseteq DOMAIN intervals[n]
          /\ IsFiniteSet(DOMAIN FramesOf(n))

HandedOver == table # Idle =>
    /\ LastId \in DOMAIN intervals
    /\ ListRight(zoznam, followed[2], DOMAIN FramesOf(LastId), FramesOf(LastId))
    /\ table \in IpTables => ~intervals[LastId].stored

MinuteRows ==
    /\ RowList(minute)
    /\ \A k \in DOMAIN minute : minute[k].n \in DOMAIN intervals /\ intervals[minute[k].n].stored

RowPair(k) == {minute[k].one, minute[k].two}

AsOnTheWire(n) ==
    /\ \A k \in RowsOf(n) : LET r == minute[k] IN
          r.there = Sent(n, r.one, r.two) /\ r.back = Answered(n, r.one, r.two)
    /\ \A k, m \in RowsOf(n) : RowPair(k) = RowPair(m) => k = m
    /\ \A f \in DOMAIN FramesOf(n) : \E k \in RowsOf(n) :
          RowPair(k) = {FramesOf(n)[f].ip[1], FramesOf(n)[f].ip[2]}

MinuteRight == ~followed[2] => \A n \in DOMAIN intervals : intervals[n].stored => AsOnTheWire(n)

\* The rows selected are a run of the minute table, which waits for the merging.
WindowSelected == sd_ta # 0 =>
    /\ table = Idle /\ is_ipv6 = followed[2]
    /\ \E i \in Nat : \A m \in DOMAIN selected :
          m + i \in DOMAIN minute /\ selected[m] = minute[m + i]

WireInv ==
    /\ followed[2] \in BOOLEAN
    /\ ListsInv /\ AggregationInv /\ MergingInv
    /\ IntervalsKept /\ HandedOver /\ MinuteRows /\ MinuteRight /\ WindowSelected

-----------------------------------------------------------------------------
(* The records of two ends together count the frames between them.           *)
RecordsOf(zoz, a, b) == {j \in DOMAIN zoz : zoz[j].ip_s = a /\ zoz[j].ip_d = b}
FramesBetween(F, a, b) == Cardinality({k \in DOMAIN F : F[k].ip = <<a, b>>})

LEMMA RecordsCountFrames ==
    ASSUME NEW zoz, IsList(zoz), NEW F, IsFiniteSet(DOMAIN F), KeysRight(zoz, DOMAIN F, F),
           NEW a, NEW b
    PROVE  PacketsOf(zoz, RecordsOf(zoz, a, b)) = FramesBetween(F, a, b)
<1> DEFINE S == {k \in DOMAIN F : F[k].ip = <<a, b>>}
           J == {j \in DOMAIN zoz : zoz[j].ip_s = a /\ zoz[j].ip_d = b}
           f == [k \in S |-> 1]
           c == [k \in S |-> CHOOSE j \in DOMAIN zoz : Key(zoz[j]) = KeyIn(F, k)]
           h == [j \in DOMAIN zoz |-> zoz[j].pocet]
           With(j) == {k \in S : c[k] = j}
           q == [j \in J |-> With(j)]
<1>1. IsFiniteSet(S)
  BY FS_Subset
<1>2. IsFiniteSet(J)
  <2>1. DOMAIN zoz = 1 .. Len(zoz) /\ Len(zoz) \in Nat
    BY DEF IsList
  <2>2. IsFiniteSet(1 .. Len(zoz))
    BY <2>1, FS_Interval
  <2> QED
    BY <2>1, <2>2, FS_Subset
<1>3. \A k \in S : c[k] \in DOMAIN zoz /\ Key(zoz[c[k]]) = KeyIn(F, k)
  <2> TAKE k \in S
  <2>1. k \in DOMAIN F
    OBVIOUS
  <2>2. \E j \in DOMAIN zoz : Key(zoz[j]) = KeyIn(F, k)
    BY <2>1, Zenon DEF KeysRight
  <2>3. c[k] = CHOOSE j \in DOMAIN zoz : Key(zoz[j]) = KeyIn(F, k)
    BY Zenon
  <2> QED
    BY <2>2, <2>3, Zenon
<1>4. \A j \in DOMAIN zoz, k \in DOMAIN F :
         Key(zoz[j]) = KeyIn(F, k) => F[k].ip = <<zoz[j].ip_s, zoz[j].ip_d>>
  BY DEF Key, KeyIn
<1>5. \A k \in S : c[k] \in J
  <2> TAKE k \in S
  <2>1. PICK j \in DOMAIN zoz : j = c[k] /\ Key(zoz[j]) = KeyIn(F, k)
    BY <1>3
  <2>2. <<zoz[j].ip_s, zoz[j].ip_d>> = <<a, b>>
    BY <1>4, <2>1
  <2>3. j \in J
    BY <2>2
  <2> QED
    BY <2>1, <2>3
<1>6. \A j \in J : With(j) = {k \in DOMAIN F : Key(zoz[j]) = KeyIn(F, k)}
  <2> TAKE j \in J
  <2>1. ASSUME NEW k \in DOMAIN F, Key(zoz[j]) = KeyIn(F, k) PROVE k \in S /\ c[k] = j
    <3>1. k \in S
      BY <1>4, <2>1
    <3>2. Key(zoz[c[k]]) = Key(zoz[j]) /\ c[k] \in DOMAIN zoz
      BY <1>3, <2>1, <3>1
    <3>3. c[k] = j
      BY <3>2 DEF KeysRight
    <3> QED
      BY <3>1, <3>3
  <2>2. \A k \in S : c[k] = j => Key(zoz[j]) = KeyIn(F, k)
    BY <1>3
  <2> QED
    BY <2>1, <2>2
<1>7. \A k \in S : f[k] = 1
  OBVIOUS
<1>8. \A j \in J : h[j] = Cardinality(With(j))
  <2> TAKE j \in J
  <2>1. j \in DOMAIN zoz
    OBVIOUS
  <2>2. h[j] = zoz[j].pocet
    BY <2>1
  <2>3. zoz[j].pocet = Cardinality({k \in DOMAIN F : Key(zoz[j]) = KeyIn(F, k)})
    BY <2>1, Zenon DEF KeysRight
  <2> QED
    BY <1>6, <2>2, <2>3, Zenon
<1>9. \A j \in J : q[j] = {k \in S : c[k] = j}
  OBVIOUS
<1> HIDE DEF f, c, h, S, J, q
<1>10. \A j \in J : h[j] = SumFunctionOnSet(f, q[j])
  <2> TAKE j \in J
  <2>1. q[j] \in SUBSET S /\ h[j] = Cardinality(q[j])
    BY <1>8, <1>9
  <2>2. IsFiniteSet(q[j]) /\ \A k \in q[j] : f[k] = 1
    BY <1>1, <1>7, <2>1, FS_Subset
  <2> QED
    BY <2>1, <2>2, SumOfOnes
<1>11. SumFunctionOnSet(f, S) = SumFunctionOnSet(h, J)
  <2>1. \A k \in S : f[k] \in Int
    BY <1>7
  <2> QED
    BY <1>1, <1>2, <1>5, <1>9, <1>10, <2>1, SumByGroups
<1>12. SumFunctionOnSet(f, S) = Cardinality(S)
  BY <1>1, <1>7, SumOfOnes
<1>13. PacketsOf(zoz, J) = SumFunctionOnSet(h, J)
  BY DEF PacketsOf, h
<1> QED
  BY <1>11, <1>12, <1>13 DEF S, J, RecordsOf, FramesBetween

(* A function on the first numbers is a list.                                *)
LEMMA FunctionIsList ==
    ASSUME NEW n \in Nat, NEW s, s = [k \in 1 .. n |-> s[k]]
    PROVE  IsList(s) /\ Len(s) = n
<1> DEFINE S == {s[k] : k \in 1 .. n}
<1>1. s \in [1 .. n -> S]
  OBVIOUS
<1> HIDE DEF S
<1>2. s \in Seq(S)
  BY <1>1
<1>3. DOMAIN s = 1 .. n
  BY <1>1
<1>4. Len(s) = n
  BY <1>2, <1>3
<1> QED
  BY <1>2, <1>4 DEF IsList

(* Two lists one after the other.                                            *)
LEMMA ListAfterList ==
    ASSUME NEW s, IsList(s), NEW t, IsList(t)
    PROVE  /\ IsList(s \o t)
           /\ DOMAIN s = 1 .. Len(s) /\ DOMAIN t = 1 .. Len(t) /\ Len(s) \in Nat /\ Len(t) \in Nat
           /\ DOMAIN (s \o t) = 1 .. Len(s) + Len(t)
           /\ \A k \in 1 .. Len(s) : (s \o t)[k] = s[k]
           /\ \A k \in Len(s) + 1 .. Len(s) + Len(t) : (s \o t)[k] = t[k - Len(s)]
<1>1. PICK S : s \in Seq(S)
  BY DEF IsList
<1>2. PICK T : t \in Seq(T)
  BY DEF IsList
<1> DEFINE U == S \cup T
<1>3. s \in Seq(U) /\ t \in Seq(U)
  BY <1>1, <1>2
<1> HIDE DEF U
<1>4. s \o t \in Seq(U)
  BY <1>3
<1> QED
  BY <1>3, <1>4 DEF IsList

(* The rows of IP pairs are finitely many, each with numbers of packets.     *)
LEMMA PairsHaveNumbers ==
    ASSUME AggregationInv, Complete, table = "IP_SD",
           IsList(zoznam), \A j \in DOMAIN zoznam : zoznam[j].pocet \in Nat
    PROVE  IsFiniteSet(prikaz) /\ \A r \in prikaz : r.there \in Nat /\ r.back \in Nat
<1>1. IsFiniteSet(prikaz)
  <2> DEFINE I == 1 .. help_zaznamy - 1
             turn == [r \in prikaz |-> r.at[1]]
  <2>1. help_zaznamy - 1 \in Nat
    BY DEF AggregationInv, RecordLayout
  <2>2. IsFiniteSet(I)
    BY <2>1, FS_Interval
  <2>3. \A r \in prikaz : turn[r] \in I /\ r.at = <<turn[r], "s">>
    BY DEF AggregationInv, PairsInserted, PairTables, FirstPairAt
  <2>4. \A q, r \in prikaz : turn[q] = turn[r] => q = r
    BY <2>3 DEF AggregationInv, PairsInserted, PairTables, OnePerPlace
  <2>5. turn \in [prikaz -> I]
    BY <2>3
  <2> HIDE DEF turn, I
  <2>6. turn \in Injection(prikaz, I)
    BY <2>4, <2>5 DEF Injection, IsInjective
  <2> QED
    BY <2>2, <2>6, FS_Injection
<1>2. \A J \in SUBSET DOMAIN zoznam : Total(J) \in Nat
  <2> TAKE J \in SUBSET DOMAIN zoznam
  <2> DEFINE f == [j \in DOMAIN zoznam |-> zoznam[j].pocet]
  <2>1. DOMAIN zoznam = 1 .. Len(zoznam) /\ Len(zoznam) \in Nat
    BY DEF IsList
  <2>2. IsFiniteSet(1 .. Len(zoznam))
    BY <2>1, FS_Interval
  <2>3. IsFiniteSet(J)
    BY <2>1, <2>2, FS_Subset
  <2>4. \A j \in J : f[j] \in Nat
    OBVIOUS
  <2>5. Total(J) = SumFunctionOnSet(f, J)
    BY DEF Total, PacketsOf
  <2> HIDE DEF f
  <2> QED
    BY <2>3, <2>4, <2>5, SumType
<1>3. \A a, b : From(a) \cap To(b) \in SUBSET DOMAIN zoznam
  BY DEF From, To, Records
<1>4. \A r \in prikaz : PairTotals(r)
  BY DEF AggregationInv, PairsInserted, PairTables
<1>5. \A a, b, c, d : (From(a) \cap To(b)) \ (From(c) \cap To(d)) \in SUBSET DOMAIN zoznam
  BY DEF From, To, Records
<1> QED
  BY <1>1, <1>2, <1>3, <1>4, <1>5 DEF PairTotals

(* The complete rows of IP pairs are what the frames of the interval were.   *)
LEMMA PairsAreTheWire ==
    ASSUME AggregationInv, Complete, table = "IP_SD",
           NEW F, IsFiniteSet(DOMAIN F), IsList(zoznam), KeysRight(zoznam, DOMAIN F, F)
    PROVE  /\ \A r \in prikaz :
                /\ r.there = FramesBetween(F, r.one, r.two)
                /\ r.back = IF r.one = r.two THEN 0 ELSE FramesBetween(F, r.two, r.one)
           /\ \A q, r \in prikaz : {q.one, q.two} = {r.one, r.two} => q = r
           /\ \A k \in DOMAIN F : \E r \in prikaz : {r.one, r.two} = {F[k].ip[1], F[k].ip[2]}
<1> DEFINE J(a, b) == RecordsOf(zoznam, a, b)
<1>1. /\ table \in PairTables /\ Records = DOMAIN zoznam
      /\ \A j : Source(j) = zoznam[j].ip_s /\ Destin(j) = zoznam[j].ip_d
  BY DEF PairTables, IpTables, Records, Source, Destin
<1>2. /\ \A j \in Records : \E r \in prikaz : {r.one, r.two} = Mentions(j)
      /\ \A q, r \in prikaz : {q.one, q.two} = {r.one, r.two} => q = r
      /\ \A r \in prikaz :
            /\ r.there = Total(From(r.one) \cap To(r.two))
            /\ r.back = Total((From(r.two) \cap To(r.one)) \ (From(r.one) \cap To(r.two)))
  BY <1>1, PairsComplete DEF PairRowsAreTotals
<1>3. \A a, b : From(a) \cap To(b) = J(a, b)
  BY <1>1 DEF From, To, RecordsOf
<1>4. \A a, b : Total(J(a, b)) = FramesBetween(F, a, b)
  BY RecordsCountFrames DEF Total
<1>5. ASSUME NEW r \in prikaz
      PROVE  /\ r.there = FramesBetween(F, r.one, r.two)
             /\ r.back = IF r.one = r.two THEN 0 ELSE FramesBetween(F, r.two, r.one)
  <2>1. PICK a, b : a = r.one /\ b = r.two
    OBVIOUS
  <2>2. /\ r.there = Total(J(a, b))
        /\ r.back = Total(J(b, a) \ J(a, b))
    <3>1. J(a, b) = From(a) \cap To(b) /\ J(b, a) = From(b) \cap To(a)
      BY <1>3
    <3> HIDE DEF J
    <3> QED
      BY <1>2, <2>1, <3>1
  <2>3. a = b => J(b, a) \ J(a, b) = {}
    OBVIOUS
  <2>4. a # b => J(b, a) \ J(a, b) = J(b, a)
    BY DEF RecordsOf
  <2>5. Total({}) = 0
    BY SumOfFew DEF Total, PacketsOf
  <2> HIDE DEF J
  <2>6. a = b => r.back = 0
    BY <2>2, <2>3, <2>5
  <2>7. a # b => r.back = FramesBetween(F, b, a)
    BY <1>4, <2>2, <2>4
  <2> QED
    BY <1>4, <2>1, <2>2, <2>6, <2>7
<1>6. ASSUME NEW k \in DOMAIN F
      PROVE  \E r \in prikaz : {r.one, r.two} = {F[k].ip[1], F[k].ip[2]}
  <2>1. PICK j \in DOMAIN zoznam : Key(zoznam[j]) = KeyIn(F, k)
    BY DEF KeysRight
  <2>2. F[k].ip = <<Source(j), Destin(j)>>
    BY <1>1, <2>1 DEF Key, KeyIn
  <2>3. {F[k].ip[1], F[k].ip[2]} = Mentions(j)
    BY <2>2 DEF Mentions
  <2> QED
    BY <1>1, <1>2, <2>3
<1> QED
  BY <1>2, <1>5, <1>6

(* An interval whose rows and frames stay is still as it was on the wire.    *)
LEMMA StillAsOnTheWire ==
    ASSUME NEW n, AsOnTheWire(n), RowsOf(n)' = RowsOf(n),
           \A k \in RowsOf(n) : minute'[k] = minute[k], FramesOf(n)' = FramesOf(n)
    PROVE  AsOnTheWire(n)'
<1>1. \A a, b : Sent(n, a, b)' = Sent(n, a, b)
  BY DEF Sent, FramesOf
<1>2. \A a, b : Answered(n, a, b)' = Answered(n, a, b)
  BY <1>1 DEF Answered
<1>3. \A k \in RowsOf(n) : RowPair(k)' = RowPair(k)
  BY DEF RowPair
<1> QED
  BY <1>1, <1>2, <1>3 DEF AsOnTheWire

(* The flag of the last interval is all that an INSERT changes of intervals. *)
LEMMA OnlyStoredChanges ==
    ASSUME IntervalsKept, LastId \in DOMAIN intervals, NEW ok \in BOOLEAN,
           intervals' = [intervals EXCEPT ![LastId].stored = ok]
    PROVE  /\ IntervalsKept' /\ LastId' = LastId /\ DOMAIN intervals' = DOMAIN intervals
           /\ \A n \in DOMAIN intervals : FramesOf(n)' = FramesOf(n)
           /\ \A n \in DOMAIN intervals \ {LastId} : intervals'[n].stored = intervals[n].stored
           /\ intervals'[LastId].stored = ok
<1>1. DOMAIN intervals = 1 .. LastId /\ LastId \in Nat
  BY DEF IntervalsKept, IsList, LastId
<1>2. intervals' = [n \in DOMAIN intervals |->
                      IF n = LastId THEN [intervals[n] EXCEPT !.stored = ok] ELSE intervals[n]]
  OBVIOUS
<1>3. DOMAIN intervals' = DOMAIN intervals
  BY <1>2
<1>4. \A n \in DOMAIN intervals : {"frames", "stored"} \subseteq DOMAIN intervals[n]
  BY DEF IntervalsKept
<1>5. \A n \in DOMAIN intervals :
        /\ DOMAIN intervals'[n] = DOMAIN intervals[n]
        /\ FramesOf(n)' = FramesOf(n)
        /\ n # LastId => intervals'[n].stored = intervals[n].stored
        /\ n = LastId => intervals'[n].stored = ok
  BY <1>2, <1>4 DEF FramesOf
<1>6. IsList(intervals') /\ Len(intervals') = LastId
  <2>1. intervals' = [n \in 1 .. LastId |-> intervals'[n]]
    BY <1>1, <1>2
  <2> QED
    BY <1>1, <2>1, FunctionIsList
<1>7. IntervalsKept'
  <2>1. \A n \in DOMAIN intervals' :
          /\ {"frames", "stored"} \subseteq DOMAIN intervals'[n]
          /\ IsFiniteSet(DOMAIN FramesOf(n)')
    BY <1>3, <1>4, <1>5 DEF IntervalsKept
  <2> QED
    BY <1>6, <2>1 DEF IntervalsKept
<1> QED
  BY <1>3, <1>5, <1>6, <1>7 DEF LastId

(* The INSERT of the pairs succeeds: the interval is in the minute table.    *)
LEMMA InsertedAsOnTheWire ==
    ASSUME WireInv, Complete, table = "IP_SD", NEW s \in InOrder(prikaz),
           minute' = minute \o [k \in DOMAIN s |-> Stored(s[k])],
           intervals' = [intervals EXCEPT ![LastId].stored = TRUE], UNCHANGED followed
    PROVE  MinuteRows' /\ MinuteRight'
<1>0. PICK n, F, t, l, c :
        /\ n = LastId /\ F = FramesOf(n)
        /\ t = [k \in DOMAIN s |-> Stored(s[k])]
        /\ l = Len(minute) /\ c = Cardinality(prikaz)
  OBVIOUS
<1>1. n \in DOMAIN intervals /\ ~intervals[n].stored /\ table # Idle
  BY <1>0 DEF WireInv, HandedOver, IpTables, Idle
<1>2. /\ n' = n /\ DOMAIN intervals' = DOMAIN intervals
      /\ \A m \in DOMAIN intervals : FramesOf(m)' = FramesOf(m)
      /\ \A m \in DOMAIN intervals \ {n} : intervals'[m].stored = intervals[m].stored
      /\ intervals'[n].stored = TRUE
  BY <1>0, <1>1, OnlyStoredChanges DEF WireInv
<1>3. IsFiniteSet(DOMAIN F) /\ IsList(zoznam)
  BY <1>0, <1>1 DEF WireInv, IntervalsKept, HandedOver, ListRight
<1>4. \A j \in DOMAIN zoznam : zoznam[j].pocet \in Nat
  BY <1>1 DEF WireInv, HandedOver, ListRight
<1>5. IsFiniteSet(prikaz) /\ \A r \in prikaz : r.there \in Nat /\ r.back \in Nat
  BY <1>3, <1>4, PairsHaveNumbers DEF WireInv
<1>6. /\ c \in Nat /\ DOMAIN s = 1 .. c /\ \A k \in 1 .. c : s[k] \in prikaz
      /\ \A r \in prikaz : \E k \in 1 .. c : s[k] = r
      /\ \A j, k \in 1 .. c : s[j] = s[k] => j = k
  <2>1. /\ s \in [1 .. c -> prikaz] /\ Range(s) = prikaz
        /\ \A j, k \in DOMAIN s : j < k => s[j].at[1] < s[k].at[1]
    BY <1>0 DEF InOrder
  <2>2. c \in Nat
    BY <1>0, <1>5, FS_CardinalityType
  <2>3. \A r \in prikaz : r.at[1] \in Nat
    BY DEF WireInv, AggregationInv, PairsInserted, FirstPairAt, PairTables, RecordLayout
  <2>4. ASSUME NEW j \in 1 .. c, NEW k \in 1 .. c, s[j] = s[k] PROVE j = k
    <3>1. s[j].at[1] \in Nat /\ s[k].at[1] \in Nat
      BY <2>1, <2>3
    <3>2. ~(j < k) /\ ~(k < j)
      BY <2>1, <2>4, <3>1
    <3> QED
      BY <2>2, <3>2
  <2> QED
    BY <2>1, <2>2, <2>4 DEF Range
<1>7. IsList(t) /\ Len(t) = c /\ \A k \in 1 .. c : t[k] = Stored(s[k])
  <2>1. t = [k \in 1 .. c |-> t[k]] /\ \A k \in 1 .. c : t[k] = Stored(s[k])
    BY <1>0, <1>6
  <2> QED
    BY <1>6, <2>1, FunctionIsList
<1>8. minute' = minute \o t
  BY <1>0
<1>9. /\ l \in Nat /\ IsList(minute') /\ DOMAIN minute = 1 .. l /\ DOMAIN minute' = 1 .. l + c
      /\ \A k \in 1 .. l : minute'[k] = minute[k]
      /\ \A k \in l + 1 .. l + c : minute'[k] = t[k - l]
  <2>1. IsList(minute)
    BY DEF WireInv, MinuteRows, RowList
  <2>2. PICK u : u = minute \o t
    OBVIOUS
  <2>3. /\ IsList(u) /\ Len(minute) \in Nat /\ DOMAIN minute = 1 .. Len(minute)
        /\ DOMAIN u = 1 .. Len(minute) + Len(t)
        /\ \A k \in 1 .. Len(minute) : u[k] = minute[k]
        /\ \A k \in Len(minute) + 1 .. Len(minute) + Len(t) : u[k] = t[k - Len(minute)]
    BY <1>7, <2>1, <2>2, ListAfterList, Zenon
  <2> QED
    BY <1>0, <1>7, <1>8, <2>2, <2>3
<1> l \in Nat /\ c \in Nat
  BY <1>6, <1>9
<1> \A k : k \in 1 .. l + c <=> k \in 1 .. l \/ k \in l + 1 .. l + c
  OBVIOUS
<1>10. ASSUME NEW k \in l + 1 .. l + c
       PROVE  /\ k - l \in 1 .. c /\ s[k - l] \in prikaz
              /\ minute'[k] = Stored(s[k - l])
  BY <1>6, <1>7, <1>9
<1>11. \A r : /\ DOMAIN Stored(r) = RowFields \cup {"n"} /\ Stored(r).n = n
              /\ Stored(r).one = r.one /\ Stored(r).two = r.two
              /\ Stored(r).there = r.there /\ Stored(r).back = r.back
  BY <1>0 DEF Stored, RowFields, LastId
<1>12. \A m \in 1 .. l : /\ RowFields \subseteq DOMAIN minute[m]
                         /\ minute[m].there \in Nat /\ minute[m].back \in Nat
                         /\ minute[m].n \in DOMAIN intervals /\ minute[m].n # n
                         /\ intervals[minute[m].n].stored
  BY <1>1, <1>9 DEF WireInv, MinuteRows, RowList
<1>13. MinuteRows'
  <2>1. ASSUME NEW k \in 1 .. l + c
        PROVE  /\ RowFields \subseteq DOMAIN minute'[k]
               /\ minute'[k].there \in Nat /\ minute'[k].back \in Nat
               /\ minute'[k].n \in DOMAIN intervals' /\ intervals'[minute'[k].n].stored
    <3>1. CASE k \in 1 .. l
      <4>1. PICK r : r = minute'[k] /\ r = minute[k]
        BY <1>9, <3>1
      <4>2. /\ RowFields \subseteq DOMAIN r /\ r.there \in Nat /\ r.back \in Nat
            /\ r.n \in DOMAIN intervals \ {n} /\ intervals[r.n].stored
        BY <1>12, <3>1, <4>1
      <4>3. intervals'[r.n].stored
        BY <1>2, <4>2
      <4> QED
        BY <1>2, <4>1, <4>2, <4>3
    <3>2. CASE k \in l + 1 .. l + c
      <4>1. PICK r \in prikaz : minute'[k] = Stored(r)
        BY <1>10, <3>2
      <4>2. minute'[k].n = n /\ minute'[k].there = r.there /\ minute'[k].back = r.back
        BY <1>11, <4>1
      <4>3. RowFields \subseteq DOMAIN minute'[k]
        BY <1>11, <4>1
      <4> QED
        BY <1>1, <1>2, <1>5, <4>2, <4>3
    <3> QED
      BY <3>1, <3>2
  <2> QED
    BY <1>9, <2>1 DEF MinuteRows, RowList
<1>14. RowsOf(n)' = l + 1 .. l + c
  <2>1. RowsOf(n)' = {k \in 1 .. l + c : minute'[k].n = n}
    BY <1>2, <1>9 DEF RowsOf
  <2>2. \A k \in 1 .. l + c : minute'[k].n = n <=> k \in l + 1 .. l + c
    <3> TAKE k \in 1 .. l + c
    <3>1. CASE k \in 1 .. l
      BY <1>9, <1>12, <3>1
    <3>2. CASE k \in l + 1 .. l + c
      BY <1>10, <1>11, <3>2
    <3> QED
      BY <3>1, <3>2
  <2> QED
    BY <2>1, <2>2
<1>15. ASSUME NEW m \in DOMAIN intervals, m # n
       PROVE  /\ RowsOf(m)' = RowsOf(m)
              /\ \A k \in RowsOf(m) : minute'[k] = minute[k]
  <2>1. RowsOf(m)' = {k \in 1 .. l + c : minute'[k].n = m}
    BY <1>9 DEF RowsOf
  <2>2. RowsOf(m) = {k \in 1 .. l : minute[k].n = m}
    BY <1>9 DEF RowsOf
  <2>3. \A k \in l + 1 .. l + c : minute'[k].n # m
    BY <1>10, <1>11, <1>15
  <2> QED
    BY <1>9, <2>1, <2>2, <2>3
<1>16. ASSUME ~followed[2] PROVE AsOnTheWire(n)'
  <2>1. KeysRight(zoznam, DOMAIN F, F)
    BY <1>0, <1>1, <1>16 DEF WireInv, HandedOver, ListRight
  <2>2. /\ \A r \in prikaz :
             /\ r.there = FramesBetween(F, r.one, r.two)
             /\ r.back = IF r.one = r.two THEN 0 ELSE FramesBetween(F, r.two, r.one)
        /\ \A q, r \in prikaz : {q.one, q.two} = {r.one, r.two} => q = r
        /\ \A k \in DOMAIN F : \E r \in prikaz : {r.one, r.two} = {F[k].ip[1], F[k].ip[2]}
    BY <1>3, <2>1, PairsAreTheWire DEF WireInv
  <2>3. FramesOf(n)' = F
    BY <1>0, <1>1, <1>2
  <2>4. \A a, b : Sent(n, a, b)' = FramesBetween(F, a, b)
    BY <2>3 DEF Sent, FramesOf, FramesBetween
  <2>5. \A a, b : Answered(n, a, b)' = IF a = b THEN 0 ELSE FramesBetween(F, b, a)
    BY <2>4 DEF Answered
  <2>6. \A k \in l + 1 .. l + c :
          /\ s[k - l] \in prikaz
          /\ minute'[k].one = s[k - l].one /\ minute'[k].two = s[k - l].two
          /\ minute'[k].there = s[k - l].there /\ minute'[k].back = s[k - l].back
    BY <1>10, <1>11
  <2>7. (\A k \in RowsOf(n) : /\ minute[k].there = Sent(n, minute[k].one, minute[k].two)
                             /\ minute[k].back = Answered(n, minute[k].one, minute[k].two))'
    <3>1. SUFFICES ASSUME NEW k \in l + 1 .. l + c
                   PROVE  (/\ minute[k].there = Sent(n, minute[k].one, minute[k].two)
                           /\ minute[k].back = Answered(n, minute[k].one, minute[k].two))'
      BY <1>14
    <3>2. PICK r \in prikaz : /\ minute'[k].one = r.one /\ minute'[k].two = r.two
                              /\ minute'[k].there = r.there /\ minute'[k].back = r.back
      BY <2>6
    <3>3. Sent(n, minute[k].one, minute[k].two)' = FramesBetween(F, r.one, r.two)
      BY <2>3, <3>2 DEF Sent, FramesOf, FramesBetween
    <3>4. Sent(n, minute[k].two, minute[k].one)' = FramesBetween(F, r.two, r.one)
      BY <2>3, <3>2 DEF Sent, FramesOf, FramesBetween
    <3>5. Answered(n, minute[k].one, minute[k].two)'
             = IF r.one = r.two THEN 0 ELSE FramesBetween(F, r.two, r.one)
      <4>1. CASE r.one = r.two
        BY <3>2, <4>1 DEF Answered
      <4>2. CASE r.one # r.two
        BY <3>2, <3>4, <4>2 DEF Answered
      <4> QED
        BY <4>1, <4>2
    <3> QED
      BY <2>2, <3>2, <3>3, <3>5
  <2>8. \A k \in l + 1 .. l + c : RowPair(k)' = {s[k - l].one, s[k - l].two}
    BY <2>6 DEF RowPair
  <2>9. ASSUME NEW k \in l + 1 .. l + c, NEW m \in l + 1 .. l + c, RowPair(k)' = RowPair(m)'
        PROVE  k = m
    <3>1. s[k - l] = s[m - l]
      <4>1. PICK q, r : q = s[k - l] /\ r = s[m - l]
        OBVIOUS
      <4>2. q \in prikaz /\ r \in prikaz /\ {q.one, q.two} = {r.one, r.two}
        BY <2>6, <2>8, <2>9, <4>1
      <4>3. q = r
        BY <2>2, <4>2
      <4> QED
        BY <4>1, <4>3
    <3>2. k - l \in 1 .. c /\ m - l \in 1 .. c
      OBVIOUS
    <3>3. k - l = m - l
      BY <1>6, <3>1, <3>2
    <3> QED
      BY <3>3
  <2>10. ASSUME NEW f \in DOMAIN F
         PROVE  \E k \in l + 1 .. l + c : RowPair(k)' = {F[f].ip[1], F[f].ip[2]}
    <3>1. PICK r \in prikaz : {r.one, r.two} = {F[f].ip[1], F[f].ip[2]}
      BY <2>2
    <3>2. PICK j \in 1 .. c : s[j] = r
      BY <1>6
    <3>3. PICK k \in l + 1 .. l + c : k - l = j
      <4>1. l + j \in l + 1 .. l + c /\ (l + j) - l = j
        OBVIOUS
      <4> QED
        BY <4>1
    <3>4. RowPair(k)' = {r.one, r.two}
      BY <2>8, <3>2, <3>3
    <3> QED
      BY <3>1, <3>3, <3>4
  <2> QED
    BY <1>14, <2>3, <2>7, <2>9, <2>10 DEF AsOnTheWire
<1>17. MinuteRight'
  <2>1. SUFFICES ASSUME ~followed[2], NEW m \in DOMAIN intervals, intervals'[m].stored
                 PROVE  AsOnTheWire(m)'
    BY <1>2 DEF MinuteRight
  <2>2. CASE m = n
    BY <1>16, <2>1, <2>2
  <2>3. CASE m # n
    <3>1. AsOnTheWire(m)
      BY <1>2, <2>1, <2>3 DEF WireInv, MinuteRight
    <3> QED
      BY <1>2, <1>15, <2>3, <3>1, StillAsOnTheWire
  <2> QED
    BY <2>2, <2>3
<1> QED
  BY <1>13, <1>17

-----------------------------------------------------------------------------
(* The steps of Records.                                                     *)

(* What is in the minute table stays right as long as the table and the      *)
(* frames of the intervals in it stay.                                       *)
LEMMA MinuteKept ==
    ASSUME WireInv, UNCHANGED <<minute, followed>>, DOMAIN intervals \subseteq DOMAIN intervals',
           \A n \in DOMAIN intervals :
              FramesOf(n)' = FramesOf(n) /\ (intervals'[n].stored <=> intervals[n].stored),
           \A n \in DOMAIN intervals' \ DOMAIN intervals : ~intervals'[n].stored
    PROVE  MinuteRows' /\ MinuteRight'
<1>1. MinuteRows'
  BY DEF WireInv, MinuteRows, RowList
<1>2. MinuteRight'
  <2>1. SUFFICES ASSUME ~followed[2], NEW n \in DOMAIN intervals', intervals'[n].stored
                 PROVE  AsOnTheWire(n)'
    BY DEF MinuteRight
  <2>2. n \in DOMAIN intervals /\ AsOnTheWire(n)
    BY <2>1 DEF WireInv, MinuteRight
  <2>3. RowsOf(n)' = RowsOf(n)
    BY DEF RowsOf
  <2> QED
    BY <2>2, <2>3, StillAsOnTheWire
<1> QED
  BY <1>1, <1>2

(* As long as intervals, too, stay.                                          *)
LEMMA TablesKept ==
    ASSUME WireInv, UNCHANGED <<minute, intervals, followed>>
    PROVE  followed'[2] \in BOOLEAN /\ IntervalsKept' /\ MinuteRows' /\ MinuteRight'
<1>1. IntervalsKept' /\ \A n \in DOMAIN intervals : FramesOf(n)' = FramesOf(n)
  BY DEF WireInv, IntervalsKept, FramesOf
<1> QED
  BY <1>1, MinuteKept DEF WireInv

LEMMA FrameKeepsWire ==
    ASSUME WireInv, CaptureFrame
    PROVE  WireInv'
<1>1. UNCHANGED <<aggregation_vars, merging_vars, followed, minute, intervals>>
  BY DEF CaptureFrame
<1>2. ListsInv'
  <2>1. PICK f \in FrameKinds : Capture(f)
    BY DEF CaptureFrame
  <2> QED
    BY <2>1, CaptureKeepsLists DEF WireInv
<1>3. AggregationInv' /\ MergingInv'
  BY <1>1, AggregationStep, MergingStep DEF WireInv
<1>4. UNCHANGED <<zoznam, table, sd_ta, selected, is_ipv6>>
  BY <1>1 DEF aggregation_vars, merging_vars
<1>5. HandedOver' /\ WindowSelected'
  BY <1>1, <1>4 DEF WireInv, HandedOver, WindowSelected, LastId, FramesOf
<1> QED
  BY <1>1, <1>2, <1>3, <1>5, TablesKept DEF WireInv

(* The list of the protocol followed counts its frames.                      *)
LEMMA FollowedListIsRight ==
    ASSUME ListsInv, FollowedList # {}
    PROVE  ListRight(z_protokoly[Min(FollowedList)].zoznam, followed[2],
                     DOMAIN FollowedFrames, FollowedFrames)
<1>1. PICK l : l = Min(FollowedList)
  OBVIOUS
<1>2. l \in FollowedList
  <2>1. FollowedList \subseteq DOMAIN z_protokoly
    BY DEF FollowedList, ListOf
  <2>2. DOMAIN z_protokoly \subseteq Nat
    BY DEF ListsInv, ListsRight, IsList
  <2> QED
    BY <1>1, <2>1, <2>2, LeastNumber
<1>3. /\ l \in DOMAIN z_protokoly
      /\ z_protokoly[l].protokol = followed[1] /\ z_protokoly[l].is_ipv6 = followed[2]
  BY <1>2 DEF FollowedList, ListOf
<1>4. ListRight(z_protokoly[l].zoznam, followed[2], Under(captured, followed[1], followed[2]),
                captured)
  BY <1>3 DEF ListsInv, ListsRight
<1>5. /\ DOMAIN FollowedFrames = Under(captured, followed[1], followed[2])
      /\ \A k \in DOMAIN FollowedFrames : FollowedFrames[k] = captured[k]
  BY DEF FollowedFrames, Restrict, Under
<1>6. \A k \in Under(captured, followed[1], followed[2]) :
         KeyIn(FollowedFrames, k) = KeyIn(captured, k)
  BY <1>5 DEF KeyIn
<1> QED
  BY <1>1, <1>4, <1>5, <1>6, KeysMatter

LEMMA FlushKeepsWire ==
    ASSUME WireInv, Flush
    PROVE  WireInv'
<1>0. PICK n, new :
        /\ n = Len(intervals) + 1
        /\ new = [all |-> Len(captured), frames |-> FollowedFrames, stored |-> FALSE]
  OBVIOUS
<1>1. /\ UNCHANGED <<merging_vars, followed, minute>> /\ table = Idle /\ sd_ta = 0 /\ FlushFrames
      /\ intervals' = Append(intervals, new)
  BY <1>0 DEF Flush, Quiet
<1>2. ListsInv'
  BY <1>1, FlushKeepsLists DEF WireInv
<1>3. /\ IsList(intervals') /\ DOMAIN intervals = 1 .. n - 1 /\ n \in Nat
      /\ DOMAIN intervals' = 1 .. n
      /\ \A m \in 1 .. n - 1 : intervals'[m] = intervals[m]
      /\ intervals'[n] = new
  BY <1>0, <1>1, Appended DEF WireInv, IntervalsKept
<1>4. LastId' = n /\ n \in DOMAIN intervals'
  <2>1. DOMAIN intervals' = 1 .. Len(intervals') /\ Len(intervals') \in Nat /\ n >= 1
    BY <1>0, <1>3 DEF IsList
  <2>2. Len(intervals') = n
    <3>1. n \in 1 .. Len(intervals')
      BY <1>3, <2>1
    <3>2. Len(intervals') \in 1 .. Len(intervals')
      BY <2>1, <3>1
    <3>3. Len(intervals') \in 1 .. n
      BY <1>3, <2>1, <3>2
    <3> QED
      BY <1>3, <2>1, <3>1, <3>3
  <2> QED
    BY <1>3, <2>1, <2>2 DEF LastId
<1>5. \A m \in DOMAIN intervals :
        FramesOf(m)' = FramesOf(m) /\ (intervals'[m].stored <=> intervals[m].stored)
  BY <1>3 DEF FramesOf
<1>6. IsFiniteSet(DOMAIN FollowedFrames)
  <2>1. DOMAIN captured = 1 .. Len(captured) /\ Len(captured) \in Nat
    BY DEF WireInv, ListsInv, IsList
  <2>2. IsFiniteSet(1 .. Len(captured))
    BY <2>1, FS_Interval
  <2>3. DOMAIN FollowedFrames \subseteq DOMAIN captured
    BY DEF FollowedFrames, Restrict
  <2> QED
    BY <2>1, <2>2, <2>3, FS_Subset
<1>7. intervals'[n].frames = FollowedFrames /\ intervals'[n].stored = FALSE
      /\ {"frames", "stored"} \subseteq DOMAIN intervals'[n]
  BY <1>0, <1>3
<1>8. IntervalsKept'
  <2>1. \A m \in 1 .. n : {"frames", "stored"} \subseteq DOMAIN intervals'[m]
                          /\ IsFiniteSet(DOMAIN intervals'[m].frames)
    BY <1>3, <1>6, <1>7 DEF WireInv, IntervalsKept, FramesOf
  <2> QED
    BY <1>3, <2>1 DEF IntervalsKept, FramesOf
<1>9. MinuteRows' /\ MinuteRight'
  <2>1. /\ DOMAIN intervals \subseteq DOMAIN intervals'
        /\ \A m \in DOMAIN intervals' \ DOMAIN intervals : ~intervals'[m].stored
    BY <1>3, <1>7
  <2> QED
    BY <1>1, <1>5, <2>1, MinuteKept
<1>10. MergingInv' /\ WindowSelected'
  <2>1. sd_ta' = 0
    BY <1>1 DEF merging_vars
  <2> QED
    BY <1>1, <2>1, MergingStep DEF WireInv, WindowSelected
<1>11. AggregationInv' /\ HandedOver'
  <2>1. CASE FollowedList = {}
    <3>1. UNCHANGED aggregation_vars
      BY <2>1 DEF Flush
    <3>2. table' = Idle
      BY <1>1, <3>1 DEF aggregation_vars
    <3> QED
      BY <3>1, <3>2, AggregationStep DEF WireInv, HandedOver
  <2>2. CASE FollowedList # {}
    <3>1. PICK list : list = z_protokoly[Min(FollowedList)].zoznam /\ Begin(list)
      BY <2>2 DEF Flush
    <3>2. ListRight(list, followed[2], DOMAIN FollowedFrames, FollowedFrames)
      BY <2>2, <3>1, FollowedListIsRight DEF WireInv
    <3>3. AggregationInv'
      BY <3>1, <3>2, BeginKeepsInv DEF WireInv, ListRight
    <3>4. zoznam' = list /\ followed' = followed
      BY <1>1, <3>1 DEF Begin
    <3>5. ListRight(zoznam', followed'[2], DOMAIN intervals'[n].frames, intervals'[n].frames)
      BY <1>7, <3>2, <3>4
    <3> QED
      BY <1>4, <1>7, <3>3, <3>5 DEF HandedOver, FramesOf
  <2> QED
    BY <2>1, <2>2
<1> QED
  BY <1>1, <1>2, <1>8, <1>9, <1>10, <1>11 DEF WireInv

LEMMA TurnKeepsWire ==
    ASSUME WireInv, Aggregate
    PROVE  WireInv'
<1>1. UNCHANGED <<frames_vars, merging_vars, followed, minute, intervals, zoznam, table>> /\ Turn
  BY DEF Aggregate, Turn, IpTurn, IpSdTurn, MacTurn, MacSdTurn, AddressTurn, PairTurn
<1>2. ListsInv' /\ AggregationInv' /\ MergingInv'
  BY <1>1, TurnKeepsInv, MergingStep DEF WireInv, ListsInv, frames_vars
<1>3. UNCHANGED <<sd_ta, selected, is_ipv6>>
  BY <1>1 DEF merging_vars
<1>4. HandedOver' /\ WindowSelected'
  BY <1>1, <1>3 DEF WireInv, HandedOver, WindowSelected, LastId, FramesOf
<1> QED
  BY <1>1, <1>2, <1>4, TablesKept DEF WireInv

LEMMA InsertKeepsWire ==
    ASSUME WireInv, InsertRows
    PROVE  WireInv'
<1>1. /\ UNCHANGED <<frames_vars, merging_vars, followed, zoznam>>
      /\ Insert /\ Complete /\ table' = NextTable(table) /\ table \in Tables
  BY DEF InsertRows, Insert, Complete, WireInv, AggregationInv, RecordLayout
<1>2. ListsInv' /\ AggregationInv' /\ MergingInv'
  BY <1>1, InsertKeepsInv, MergingStep DEF WireInv, ListsInv, frames_vars
<1>3. table # Idle
  BY <1>1 DEF Tables, Idle
<1>4. WindowSelected'
  BY <1>1, <1>3 DEF WireInv, WindowSelected, merging_vars
<1>5. /\ LastId \in DOMAIN intervals
      /\ ListRight(zoznam, followed[2], DOMAIN FramesOf(LastId), FramesOf(LastId))
      /\ table \in IpTables => ~intervals[LastId].stored
  BY <1>3 DEF WireInv, HandedOver
<1>6. CASE table # "IP_SD"
  <2>1. UNCHANGED <<minute, intervals>>
    BY <1>6 DEF InsertRows
  <2>2. table' \in IpTables => table \in IpTables
    BY <1>1, <1>6 DEF NextTable, IpTables, Tables, Idle
  <2>3. HandedOver'
    BY <1>1, <1>5, <2>1, <2>2 DEF HandedOver, LastId, FramesOf
  <2> QED
    BY <1>1, <1>2, <1>4, <2>1, <2>3, TablesKept DEF WireInv
<1>7. CASE table = "IP_SD"
  <2>1. PICK ok \in BOOLEAN, s \in InOrder(prikaz) :
          /\ minute' = IF ok THEN minute \o [k \in DOMAIN s |-> Stored(s[k])] ELSE minute
          /\ intervals' = [intervals EXCEPT ![LastId].stored = ok]
    BY <1>7 DEF InsertRows, LastId
  <2>2. /\ IntervalsKept' /\ LastId' = LastId /\ DOMAIN intervals' = DOMAIN intervals
        /\ \A n \in DOMAIN intervals : FramesOf(n)' = FramesOf(n)
        /\ \A n \in DOMAIN intervals \ {LastId} : intervals'[n].stored = intervals[n].stored
        /\ intervals'[LastId].stored = ok
    BY <1>5, <2>1, OnlyStoredChanges DEF WireInv
  <2>3. HandedOver'
    <3>1. PICK n, F : n = LastId /\ F = FramesOf(n)
      OBVIOUS
    <3>2. LastId' = n /\ FramesOf(LastId)' = F
      BY <1>5, <2>2, <3>1 DEF FramesOf
    <3>3. table' \notin IpTables
      BY <1>1, <1>7 DEF NextTable, IpTables
    <3> QED
      BY <1>1, <1>5, <2>2, <3>1, <3>2, <3>3 DEF HandedOver
  <2>4. CASE ok
    <3>1. MinuteRows' /\ MinuteRight'
      BY <1>1, <1>7, <2>1, <2>4, InsertedAsOnTheWire
    <3> QED
      BY <1>1, <1>2, <1>4, <2>2, <2>3, <3>1 DEF WireInv
  <2>5. CASE ~ok
    <3>1. \A n \in DOMAIN intervals : intervals'[n].stored <=> intervals[n].stored
      <4>1. ~intervals[LastId].stored /\ ~intervals'[LastId].stored
        BY <1>5, <1>7, <2>2, <2>5 DEF IpTables
      <4> QED
        BY <2>2, <4>1
    <3>2. MinuteRows' /\ MinuteRight'
      BY <1>1, <2>1, <2>2, <2>5, <3>1, MinuteKept
    <3> QED
      BY <1>1, <1>2, <1>4, <2>2, <2>3, <3>2 DEF WireInv
  <2> QED
    BY <2>4, <2>5
<1> QED
  BY <1>6, <1>7

(* A run of rows.                                                            *)
LEMMA RunOfRows ==
    ASSUME NEW rows, RowList(rows), NEW i \in 1 .. Len(rows) + 1, NEW j \in 0 .. Len(rows)
    PROVE  /\ RowList(SubSeq(rows, i, j))
           /\ \A m \in DOMAIN SubSeq(rows, i, j) :
                 m + (i - 1) \in DOMAIN rows /\ SubSeq(rows, i, j)[m] = rows[m + (i - 1)]
<1>1. PICK S : rows \in Seq(S)
  BY DEF RowList, IsList
<1>2. PICK t : t = SubSeq(rows, i, j)
  OBVIOUS
<1>3. /\ t \in Seq(S) /\ DOMAIN t = 1 .. Len(t)
      /\ \A m \in DOMAIN t : m + (i - 1) \in DOMAIN rows /\ t[m] = rows[m + (i - 1)]
  <2>1. \A k \in i .. j : rows[k] \in S
    BY <1>1
  <2>2. /\ t \in Seq(S)
        /\ Len(t) = IF i <= j THEN j - i + 1 ELSE 0
        /\ \A m \in 1 .. j - i + 1 : t[m] = rows[i + m - 1]
    BY <1>1, <1>2, <2>1, SubSeqProperties
  <2>3. DOMAIN rows = 1 .. Len(rows) /\ Len(rows) \in Nat /\ DOMAIN t = 1 .. Len(t)
    BY <1>1, <2>2
  <2>4. ASSUME NEW m \in DOMAIN t PROVE m + (i - 1) \in DOMAIN rows /\ t[m] = rows[m + (i - 1)]
    <3>1. i <= j /\ m \in 1 .. j - i + 1
      BY <2>2, <2>3, <2>4
    <3>2. i + m - 1 = m + (i - 1) /\ i + m - 1 \in 1 .. Len(rows)
      BY <2>3, <3>1
    <3> QED
      BY <2>2, <2>3, <3>1, <3>2
  <2> QED
    BY <2>2, <2>3, <2>4
<1> QED
  BY <1>2, <1>3 DEF RowList, IsList

LEMMA SelectKeepsWire ==
    ASSUME WireInv, SelectRows
    PROVE  WireInv'
<1>1. UNCHANGED <<frames_vars, aggregation_vars, followed, minute, intervals>> /\ table = Idle
  BY DEF SelectRows, Quiet
<1>2. PICK i \in 1 .. Len(minute) + 1, j \in 0 .. Len(minute) :
        Select(SubSeq(minute, i, j), followed[2])
  BY DEF SelectRows
<1>3. /\ RowList(SubSeq(minute, i, j))
      /\ \A m \in DOMAIN SubSeq(minute, i, j) :
            m + (i - 1) \in DOMAIN minute /\ SubSeq(minute, i, j)[m] = minute[m + (i - 1)]
  BY RunOfRows DEF WireInv, MinuteRows
<1>4. ListsInv' /\ AggregationInv'
  BY <1>1, AggregationStep DEF WireInv, ListsInv, frames_vars
<1>5. MergingInv'
  BY <1>2, <1>3, SelectKeepsInv DEF WireInv
<1>6. HandedOver' /\ table' = Idle
  BY <1>1 DEF HandedOver, aggregation_vars
<1>7. WindowSelected'
  <2>1. /\ selected' = SubSeq(minute, i, j) /\ is_ipv6' = followed'[2]
        /\ minute' = minute /\ i - 1 \in Nat
    BY <1>1, <1>2, <1>3 DEF Select, WireInv, MinuteRows, RowList, IsList
  <2> QED
    BY <1>3, <1>6, <2>1 DEF WindowSelected
<1> QED
  BY <1>1, <1>4, <1>5, <1>6, <1>7, TablesKept DEF WireInv

LEMMA MergeKeepsWire ==
    ASSUME WireInv, MergeRows
    PROVE  WireInv'
<1>1. UNCHANGED <<frames_vars, aggregation_vars, followed, minute, intervals>>
  BY DEF MergeRows
<1>2. ListsInv' /\ AggregationInv' /\ MergingInv'
  BY <1>1, AggregationStep, MergingStep DEF WireInv, ListsInv, frames_vars, MergeRows, MergingNext
<1>3. UNCHANGED <<zoznam, table>>
  BY <1>1 DEF aggregation_vars
<1>4. HandedOver'
  BY <1>1, <1>3 DEF WireInv, HandedOver, LastId, FramesOf
<1>5. WindowSelected'
  <2>1. CASE MergeTurn
    <3>1. UNCHANGED <<selected, is_ipv6>> /\ sd_ta # 0
      BY <2>1 DEF MergeTurn, WireInv, MergingInv, ListLayout
    <3> QED
      BY <1>1, <1>3, <3>1 DEF WireInv, WindowSelected
  <2>2. CASE InsertMerged
    BY <2>2 DEF InsertMerged, WindowSelected
  <2> QED
    BY <2>1, <2>2 DEF MergeRows
<1> QED
  BY <1>1, <1>2, <1>4, <1>5, TablesKept DEF WireInv

LEMMA WireStep == WireInv /\ [Next]_vars => WireInv'
<1> SUFFICES ASSUME WireInv, [Next]_vars PROVE WireInv'
  OBVIOUS
<1>1. CASE UNCHANGED vars
  <2>1. UNCHANGED <<frames_vars, aggregation_vars, merging_vars, followed, minute, intervals>>
    BY <1>1 DEF vars
  <2>2. ListsInv' /\ AggregationInv' /\ MergingInv'
    BY <2>1, AggregationStep, MergingStep DEF WireInv, ListsInv, frames_vars
  <2>3. UNCHANGED <<zoznam, table, sd_ta, selected, is_ipv6>>
    BY <2>1 DEF aggregation_vars, merging_vars
  <2>4. HandedOver' /\ WindowSelected'
    BY <2>1, <2>3 DEF WireInv, HandedOver, WindowSelected, LastId, FramesOf
  <2> QED
    BY <2>1, <2>2, <2>4, TablesKept DEF WireInv
<1> QED
  BY <1>1, FrameKeepsWire, FlushKeepsWire, TurnKeepsWire, InsertKeepsWire, SelectKeepsWire,
     MergeKeepsWire DEF Next

LEMMA WireStart == Init => WireInv
<1> SUFFICES ASSUME Init PROVE WireInv
  OBVIOUS
<1>1. ListsInv /\ AggregationInv /\ MergingInv
  BY FramesStart, NoLists, AggregationStart, MergingStart DEF Init, FramesInit, ListsInv, ContentInv
<1>2. followed[2] \in BOOLEAN
  BY RecordsAssumption DEF Init
<1>3. <<>> \in Seq({}) /\ DOMAIN <<>> = {}
  OBVIOUS
<1>4. table = Idle /\ sd_ta = 0 /\ minute = <<>> /\ intervals = <<>>
  BY DEF Init, AggregationInit, MergingInit
<1>5. IsList(<<>>)
  BY <1>3 DEF IsList
<1> QED
  BY <1>1, <1>2, <1>3, <1>4, <1>5 DEF WireInv, IntervalsKept, HandedOver, MinuteRows, MinuteRight,
                                       WindowSelected, RowList

-----------------------------------------------------------------------------
(* An interval in the minute table is there as the wire had it: its rows are *)
(* right, and every two ends with a frame have one.                          *)
LEMMA MinuteAsOnTheWire == WireInv => MinuteIsTheWire
<1> SUFFICES ASSUME WireInv, ~followed[2], NEW n \in DOMAIN intervals, intervals[n].stored
             PROVE  /\ \A k \in RowsOf(n) : LET r == minute[k] IN
                          r.there = Sent(n, r.one, r.two) /\ r.back = Answered(n, r.one, r.two)
                    /\ \A f \in DOMAIN intervals[n].frames :
                          Cardinality({m \in RowsOf(n) : {minute[m].one, minute[m].two}
                              = {intervals[n].frames[f].ip[1], intervals[n].frames[f].ip[2]}}) = 1
  BY DEF MinuteIsTheWire
<1>1. AsOnTheWire(n)
  BY DEF WireInv, MinuteRight
<1>2. ASSUME NEW f \in DOMAIN FramesOf(n)
      PROVE  Cardinality({m \in RowsOf(n) : {minute[m].one, minute[m].two}
                              = {FramesOf(n)[f].ip[1], FramesOf(n)[f].ip[2]}}) = 1
  <2>1. PICK k \in RowsOf(n) : RowPair(k) = {FramesOf(n)[f].ip[1], FramesOf(n)[f].ip[2]}
    BY <1>1 DEF AsOnTheWire
  <2>2. \A m \in RowsOf(n) : RowPair(m) = RowPair(k) => m = k
    BY <1>1 DEF AsOnTheWire
  <2>3. {m \in RowsOf(n) : {minute[m].one, minute[m].two}
             = {FramesOf(n)[f].ip[1], FramesOf(n)[f].ip[2]}} = {k}
    BY <2>1, <2>2 DEF RowPair
  <2> QED
    BY <2>3, FS_Singleton
<1> QED
  BY <1>1, <1>2 DEF AsOnTheWire, FramesOf

(* So in every run, for every number of frames and of intervals.             *)
THEOREM MinuteHoldsTheWire == Spec => []MinuteIsTheWire
  BY WireStart, WireStep, MinuteAsOnTheWire, PTL DEF Spec

-----------------------------------------------------------------------------
(* A window of whole intervals.                                              *)

Window == {selected[m].n : m \in DOMAIN selected}
Numbered(n) == {m \in DOMAIN selected : selected[m].n = n}
SelectedPair(m) == {selected[m].one, selected[m].two}

(* A selected row is its interval's, and the interval has no other of the    *)
(* two ends.                                                                 *)
LEMMA SelectedAsOnTheWire ==
    ASSUME WireInv, sd_ta # 0, ~followed[2]
    PROVE  /\ \A m \in DOMAIN selected :
                /\ selected[m].n \in DOMAIN intervals /\ AsOnTheWire(selected[m].n)
                /\ selected[m].there = Sent(selected[m].n, selected[m].one, selected[m].two)
                /\ selected[m].back = Answered(selected[m].n, selected[m].one, selected[m].two)
           /\ \A m, k \in DOMAIN selected :
                selected[m].n = selected[k].n /\ SelectedPair(m) = SelectedPair(k) => m = k
<1>1. PICK i \in Nat : \A m \in DOMAIN selected :
        m + i \in DOMAIN minute /\ selected[m] = minute[m + i]
  BY DEF WireInv, WindowSelected
<1>2. ASSUME NEW m \in DOMAIN selected
      PROVE  /\ selected[m].n \in DOMAIN intervals /\ AsOnTheWire(selected[m].n)
             /\ m + i \in RowsOf(selected[m].n) /\ RowPair(m + i) = SelectedPair(m)
             /\ selected[m].there = Sent(selected[m].n, selected[m].one, selected[m].two)
             /\ selected[m].back = Answered(selected[m].n, selected[m].one, selected[m].two)
  <2>1. PICK k, r : k = m + i /\ r = selected[m]
    OBVIOUS
  <2>2. k \in DOMAIN minute /\ minute[k] = r
    BY <1>1, <2>1
  <2>3. r.n \in DOMAIN intervals /\ AsOnTheWire(r.n)
    BY <2>2 DEF WireInv, MinuteRows, MinuteRight
  <2>4. k \in RowsOf(r.n) /\ RowPair(k) = {r.one, r.two}
    BY <2>2 DEF RowsOf, RowPair
  <2>5. r.there = Sent(r.n, r.one, r.two) /\ r.back = Answered(r.n, r.one, r.two)
    BY <2>2, <2>3, <2>4 DEF AsOnTheWire
  <2> QED
    BY <2>1, <2>3, <2>4, <2>5 DEF SelectedPair
<1>3. ASSUME NEW m \in DOMAIN selected, NEW k \in DOMAIN selected,
             selected[m].n = selected[k].n, SelectedPair(m) = SelectedPair(k)
      PROVE  m = k
  <2>1. m + i = k + i
    BY <1>2, <1>3 DEF AsOnTheWire
  <2>2. m \in Nat /\ k \in Nat
    <3>1. AtWork
      BY DEF AtWork
    <3>2. DOMAIN selected = 1 .. Len(sd)
      BY <3>1 DEF WireInv, MergingInv, Listed
    <3> QED
      BY <3>2
  <2> QED
    BY <2>1, <2>2
<1> QED
  BY <1>2, <1>3

(* What the selected rows of two ends have from a to b is what the wire had. *)
LEMMA OverTheWindow ==
    ASSUME WireInv, sd_ta # 0, ~followed[2], selected # <<>>, Whole(Window), NEW a, NEW b,
           NEW S, S = {m \in DOMAIN selected : SelectedPair(m) = {a, b}},
           NEW f, \A m \in S : f[m] = IF selected[m].one = a THEN selected[m].there
                                                             ELSE selected[m].back
    PROVE  SumFunctionOnSet(f, S) = SentIn(Window, a, b)
<1> DEFINE c == [m \in S |-> selected[m].n]
           q == [n \in Window |-> {m \in S : c[m] = n}]
           h == [n \in Window |-> Sent(n, a, b)]
<1>1. AtWork /\ DOMAIN selected = 1 .. Len(sd) /\ Len(sd) \in Nat
  BY DEF AtWork, WireInv, MergingInv, Listed
<1>2. IsFiniteSet(S)
  <2>1. IsFiniteSet(1 .. Len(sd))
    BY <1>1, FS_Interval
  <2> QED
    BY <1>1, <2>1, FS_Subset
<1>3. IsFiniteSet(Window) /\ Window \subseteq DOMAIN intervals
  <2>1. DOMAIN intervals = 1 .. Len(intervals) /\ Len(intervals) \in Nat
    BY DEF WireInv, IntervalsKept, IsList
  <2>2. IsFiniteSet(1 .. Len(intervals))
    BY <2>1, FS_Interval
  <2>3. Window \subseteq DOMAIN intervals
    BY SelectedAsOnTheWire DEF Window
  <2> QED
    BY <2>1, <2>2, <2>3, FS_Subset
<1>4. \A n \in Window : Sent(n, a, b) \in Nat
  <2> TAKE n \in Window
  <2>1. IsFiniteSet(DOMAIN FramesOf(n))
    BY <1>3 DEF WireInv, IntervalsKept
  <2>2. IsFiniteSet({k \in DOMAIN FramesOf(n) : FramesOf(n)[k].ip = <<a, b>>})
    BY <2>1, FS_Subset
  <2> QED
    BY <2>2, FS_CardinalityType DEF Sent, FramesOf
<1>5. \A m \in S : c[m] \in Window
  BY DEF Window
<1>6. ASSUME NEW m \in S PROVE f[m] = Sent(c[m], a, b)
  <2>1. PICK r : r = selected[m]
    OBVIOUS
  <2>2. /\ {r.one, r.two} = {a, b} /\ c[m] = r.n
        /\ f[m] = IF r.one = a THEN r.there ELSE r.back
        /\ r.there = Sent(r.n, r.one, r.two) /\ r.back = Answered(r.n, r.one, r.two)
    BY <2>1, SelectedAsOnTheWire DEF SelectedPair
  <2>3. CASE r.one = a
    <3>1. r.two = b
      BY <2>2, <2>3
    <3> QED
      BY <2>2, <2>3, <3>1
  <2>4. CASE r.one # a
    <3>1. r.one = b /\ r.two = a /\ a # b
      BY <2>2, <2>4
    <3>2. Answered(r.n, b, a) = Sent(r.n, a, b)
      BY <3>1 DEF Answered
    <3> QED
      BY <2>2, <2>4, <3>1, <3>2
  <2> QED
    BY <2>3, <2>4
<1>7. \A m \in S : f[m] \in Int
  <2> TAKE m \in S
  <2>1. PICK n \in Window : n = c[m]
    BY <1>5
  <2>2. f[m] = Sent(n, a, b) /\ Sent(n, a, b) \in Nat
    BY <1>4, <1>6, <2>1
  <2> QED
    BY <2>2
<1>8. \A n \in Window : q[n] = {m \in S : c[m] = n}
  OBVIOUS
<1>9. \A n \in Window : h[n] = SumFunctionOnSet(f, q[n])
  <2> SUFFICES ASSUME NEW n \in Window, NEW Q, Q = q[n]
               PROVE  Sent(n, a, b) = SumFunctionOnSet(f, Q)
    OBVIOUS
  <2>1. Q = {m \in S : selected[m].n = n}
    OBVIOUS
  <2>2. CASE Q = {}
    <3>1. ASSUME NEW k \in DOMAIN FramesOf(n), FramesOf(n)[k].ip = <<a, b>> PROVE FALSE
      <4>1. PICK m \in DOMAIN selected : selected[m].n = n
        BY DEF Window
      <4>2. AsOnTheWire(n)
        BY <4>1, SelectedAsOnTheWire
      <4>3. PICK l \in RowsOf(n) : RowPair(l) = {FramesOf(n)[k].ip[1], FramesOf(n)[k].ip[2]}
        BY <4>2 DEF AsOnTheWire
      <4>4. RowPair(l) = {a, b}
        BY <3>1, <4>3
      <4>5. PICK o \in DOMAIN selected : selected[o] = minute[l]
        BY <4>3 DEF Whole
      <4>6. selected[o].n = n /\ SelectedPair(o) = {a, b}
        BY <4>3, <4>4, <4>5 DEF RowsOf, RowPair, SelectedPair
      <4> QED
        BY <2>1, <2>2, <4>5, <4>6
    <3>2. {k \in DOMAIN FramesOf(n) : FramesOf(n)[k].ip = <<a, b>>} = {}
      BY <3>1
    <3>3. Sent(n, a, b) = 0
      BY <3>2, FS_EmptySet DEF Sent, FramesOf
    <3> QED
      BY <2>2, <3>3, SumOfFew
  <2>3. CASE Q # {}
    <3>1. PICK m : m \in Q
      BY <2>3
    <3>2. m \in S /\ selected[m].n = n
      BY <2>1, <3>1
    <3>3. \A k \in Q : k = m
      BY <2>1, <3>2, SelectedAsOnTheWire
    <3>4. Q = {m}
      BY <3>1, <3>3
    <3>5. f[m] = Sent(n, a, b)
      BY <1>6, <3>2
    <3>6. SumFunctionOnSet(f, {m}) = f[m]
      BY <1>7, <3>2, SumOfFew
    <3> QED
      BY <3>4, <3>5, <3>6
  <2> QED
    BY <2>2, <2>3
<1>10. SentIn(Window, a, b) = SumFunctionOnSet(h, Window)
  BY DEF SentIn, SumFunction
<1> HIDE DEF c, q, h
<1>11. SumFunctionOnSet(f, S) = SumFunctionOnSet(h, Window)
  <2>1. PICK W : W = Window
    OBVIOUS
  <2>2. /\ IsFiniteSet(W) /\ \A m \in S : c[m] \in W
        /\ \A n \in W : q[n] = {m \in S : c[m] = n}
        /\ \A n \in W : h[n] = SumFunctionOnSet(f, q[n])
    BY <1>3, <1>5, <1>8, <1>9, <2>1
  <2>3. SumFunctionOnSet(f, S) = SumFunctionOnSet(h, W)
    BY <1>2, <1>7, <2>2, SumByGroups
  <2> QED
    BY <2>1, <2>3
<1> QED
  BY <1>10, <1>11

(* So are the totals of a merged row, whichever way the minutes had the ends.*)
LEMMA WindowAsOnTheWire == WireInv => WindowIsTheWire
<1> SUFFICES ASSUME WireInv, Merged, ~followed[2], Window # {}, Whole(Window), NEW r \in sd_rows
             PROVE  /\ r.there = SentIn(Window, r.one, r.two)
                    /\ r.back = IF r.one = r.two THEN 0 ELSE SentIn(Window, r.two, r.one)
  BY DEF WindowIsTheWire, Window
<1>1. sd_ta # 0 /\ selected # <<>> /\ AtWork
  <2>1. DOMAIN <<>> = {}
    OBVIOUS
  <2> QED
    BY <2>1 DEF Merged, Window, AtWork, WireInv, MergingInv, ListLayout
<1>2. is_ipv6 = followed[2]
  BY <1>1 DEF WireInv, WindowSelected
<1>3. Listed /\ sd = selected /\ Totals(r)
  BY <1>1, <1>2 DEF WireInv, MergingInv, Listed, RowsMerged
<1>4. PICK a, b : a = r.one /\ b = r.two
  OBVIOUS
<1>5. CASE a = b
  <2> DEFINE f == [n \in DOMAIN sd |-> sd[n].there]
             h == [n \in DOMAIN sd |-> sd[n].back]
             S == Of(a, a)
  <2>1. r.there = SumFunctionOnSet(f, S) /\ r.back = SumFunctionOnSet(h, S)
    BY <1>3, <1>4, <1>5 DEF Totals, There, Back, ThereOf, BackOf
  <2>2. S = {m \in DOMAIN selected : SelectedPair(m) = {a, a}}
    BY <1>3 DEF Of, SelectedPair
  <2>3. \A m \in S : f[m] = IF selected[m].one = a THEN selected[m].there ELSE selected[m].back
    BY <1>3 DEF Of
  <2>4. IsFiniteSet(S)
    BY <1>1, <1>3, AmountsTogether DEF Of
  <2>5. \A m \in S : h[m] = 0
    <3>1. \A m \in S : selected[m].one = a /\ selected[m].two = a /\ h[m] = selected[m].back
      BY <1>3 DEF Of
    <3>2. \A m \in S : h[m] = Answered(selected[m].n, a, a)
      BY <1>1, <1>3, <3>1, SelectedAsOnTheWire DEF Of
    <3> QED
      BY <3>2 DEF Answered
  <2> HIDE DEF f, h, S
  <2>6. r.there = SentIn(Window, a, a)
    BY <1>1, <2>1, <2>2, <2>3, OverTheWindow
  <2>7. r.back = 0
    BY <2>1, <2>4, <2>5, SumOfZeros
  <2> QED
    BY <1>4, <1>5, <2>6, <2>7
<1>6. ASSUME NEW x, NEW y, x # y
      PROVE  There(Of(x, y)) + Back(Of(y, x)) = SentIn(Window, x, y)
  <2> DEFINE S == {m \in DOMAIN selected : SelectedPair(m) = {x, y}}
             f == [m \in S |-> IF selected[m].one = x THEN selected[m].there ELSE selected[m].back]
             there == [n \in DOMAIN sd |-> sd[n].there]
             back == [n \in DOMAIN sd |-> sd[n].back]
             A == Of(x, y)
             B == Of(y, x)
  <2>1. S = A \cup B /\ A \cap B = {}
    <3>1. \A m \in DOMAIN selected : SelectedPair(m) = {x, y} <=> m \in A \/ m \in B
      BY <1>3 DEF Of, SelectedPair
    <3>2. A \subseteq DOMAIN selected /\ B \subseteq DOMAIN selected
      BY <1>3 DEF Of
    <3>3. A \cap B = {}
      BY <1>6 DEF Of
    <3> QED
      BY <3>1, <3>2, <3>3
  <2>2. \A m \in A : f[m] = there[m]
    BY <1>3, <2>1 DEF Of
  <2>3. \A m \in B : f[m] = back[m]
    BY <1>3, <1>6, <2>1 DEF Of
  <2>4. There(A) = SumFunctionOnSet(there, A) /\ Back(B) = SumFunctionOnSet(back, B)
    BY DEF There, Back, ThereOf, BackOf
  <2>5. IsFiniteSet(A) /\ IsFiniteSet(B)
    BY <1>1, <1>3, AmountsTogether DEF Of
  <2>6. \A m \in S : f[m] \in Int
    <3>1. \A m \in DOMAIN sd : sd[m].there \in Nat /\ sd[m].back \in Nat
      BY <1>1, <1>3 DEF Listed
    <3> QED
      BY <1>3, <3>1
  <2>7. \A m \in S : f[m] = IF selected[m].one = x THEN selected[m].there ELSE selected[m].back
    OBVIOUS
  <2>8. S = {m \in DOMAIN selected : SelectedPair(m) = {x, y}}
    OBVIOUS
  <2> HIDE DEF f, there, back, S, A, B
  <2>9. SumFunctionOnSet(f, S) = SumFunctionOnSet(f, A) + SumFunctionOnSet(f, B)
    BY <2>1, <2>5, <2>6, SumUnion
  <2>10. SumFunctionOnSet(f, A) = There(A) /\ SumFunctionOnSet(f, B) = Back(B)
    BY <2>2, <2>3, <2>4, <2>5, SumEqual
  <2>11. SumFunctionOnSet(f, S) = SentIn(Window, x, y)
    BY <1>1, <2>7, <2>8, OverTheWindow
  <2>12. There(A) + Back(B) = SentIn(Window, x, y)
    BY <2>9, <2>10, <2>11
  <2> QED
    BY <2>12 DEF A, B
<1>7. CASE a # b
  <2>1. /\ r.there = There(Of(a, b)) + Back(Of(b, a))
        /\ r.back = Back(Of(a, b)) + There(Of(b, a))
    BY <1>3, <1>4, <1>7 DEF Totals
  <2>2. There(Of(a, b)) + Back(Of(b, a)) = SentIn(Window, a, b)
    BY <1>6, <1>7
  <2>3. There(Of(b, a)) + Back(Of(a, b)) = SentIn(Window, b, a)
    BY <1>6, <1>7
  <2>4. There(Of(b, a)) \in Nat /\ Back(Of(a, b)) \in Nat
    BY <1>1, <1>3, AmountsTogether DEF Of
  <2>5. Back(Of(a, b)) + There(Of(b, a)) = SentIn(Window, b, a)
    BY <2>3, <2>4
  <2> QED
    BY <1>4, <1>7, <2>1, <2>2, <2>5
<1> QED
  BY <1>5, <1>7

(* So in every run, for every window.                                        *)
THEOREM WindowHoldsTheWire == Spec => []WindowIsTheWire
  BY WireStart, WireStep, WindowAsOnTheWire, PTL DEF Spec

-----------------------------------------------------------------------------
(* Put together with the rest, the capture goes on as it does alone.         *)
THEOREM RecordsCapture == Spec => FramesSpec
<1>1. Init => FramesInit
  BY DEF Init
<1>2. [Next]_vars => [FramesNext]_frames_vars
  BY DEF Next, vars, CaptureFrame, Flush, Aggregate, InsertRows, SelectRows, MergeRows, FramesNext
<1> QED
  BY <1>1, <1>2, PTL DEF Spec, FramesSpec

(* So what is proved of the capture holds in Records.                         *)
THEOREM FramesStayRight == Spec => [](BookedByItsContent /\ ListsMatchFrames /\ IPlistIsRecent)
  BY RecordsCapture, BookedUnderItsOwn, ListsCountEveryFrame, PairingFollowsTheWire, PTL

(* And the loops, on the lists and the rows they really get, keep what they   *)
(* keep on any.                                                              *)
THEOREM RowsStayTotals ==
    Spec => [](RowsAreTotals /\ OneRowPerAddress /\ PairRowsAreTotals
               /\ MergedRowsAreTotals /\ NothingLostInMerging)
<1>1. WireInv => RowsAreTotals /\ OneRowPerAddress /\ PairRowsAreTotals
  BY AddressesComplete, PairsComplete DEF WireInv, AggregationInv
<1>2. WireInv => MergedRowsAreTotals /\ NothingLostInMerging
  BY MergedTotals, AllIsCounted DEF WireInv
<1> QED
  BY <1>1, <1>2, WireStart, WireStep, PTL
     DEF Spec
=============================================================================
