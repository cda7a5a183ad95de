------------------------------- MODULE FramesProof -------------------------------
(* Proofs about Frames, for every set of frames and whatever is misread: the  *)
(* table IPlist follows the wire; an Ethernet II frame is booked under its    *)
(* own protocols; and the lists of an interval count each of its frames once. *)
EXTENDS Frames, SetTheorems

-----------------------------------------------------------------------------
(* The entries of z_pair_array are the pairs of the frames captured since    *)
(* the last flush, no more and no fewer.  Here about those of IPv4.          *)

IsList(s) == \E S : s \in Seq(S)

PairOf(n, k) ==
    /\ ~z_pair_array[n].is_ipv6 /\ ~captured[k].v6
    /\ z_pair_array[n].ip = captured[k].ip
    /\ z_pair_array[n].mac = captured[k].mac

PairsOfFrames ==
    /\ \A n \in DOMAIN z_pair_array : z_pair_array[n].is_ipv6
          \/ \E k \in DOMAIN captured : PairOf(n, k)
    /\ \A k \in DOMAIN captured : captured[k].v6
          \/ \E n \in DOMAIN z_pair_array : PairOf(n, k)

PairingInv == IsList(z_pair_array) /\ IsList(captured) /\ PairsOfFrames /\ IPlistIsRecent

-----------------------------------------------------------------------------
(* What Append does to a list.                                               *)
LEMMA Appended ==
    ASSUME NEW s, IsList(s), NEW e
    PROVE  /\ IsList(Append(s, e))
           /\ DOMAIN s = 1 .. Len(s) /\ Len(s) \in Nat
           /\ DOMAIN Append(s, e) = 1 .. Len(s) + 1
           /\ \A n \in 1 .. Len(s) : Append(s, e)[n] = s[n]
           /\ Append(s, e)[Len(s) + 1] = e
<1>1. PICK S : s \in Seq(S)
  BY DEF IsList
<1>2. s \in Seq(S \cup {e}) /\ e \in S \cup {e}
  BY <1>1
<1>3. Append(s, e) \in Seq(S \cup {e})
  BY <1>2
<1> QED
  BY <1>2, <1>3 DEF IsList

-----------------------------------------------------------------------------
(* A frame captured: its entry, if it makes one, is of this interval.        *)
LEMMA CaptureKeepsPairing ==
    ASSUME PairingInv, NEW f \in FrameKinds, Capture(f)
    PROVE  PairingInv'
<1>1. PICK x \in Misreads :
        /\ \E b \in BOOLEAN : PairIpWithMac(Decoded(f, x), b)
        /\ captured' = Append(captured,
              [f |-> f, names |-> {Names(Decoded(f, x))[k] : k \in DOMAIN Names(Decoded(f, x))},
               v6 |-> Decoded(f, x).is_ipv6ext, mac |-> Decoded(f, x).mac,
               ip |-> Addresses(Decoded(f, x))])
        /\ UNCHANGED <<IPlist, lastSeen>>
  BY Zenon DEF Capture
<1>2. PICK h : h = Decoded(f, x)
  OBVIOUS
<1>3. PICK b \in BOOLEAN : PairIpWithMac(h, b)
  BY <1>1, <1>2
<1>4. PICK c : /\ captured' = Append(captured, c)
               /\ c.v6 = h.is_ipv6ext /\ c.mac = h.mac /\ c.ip = Addresses(h)
  BY <1>1, <1>2
<1>5. PICK last \in Nat : last = Len(captured)
  BY Appended DEF PairingInv
<1>6. /\ IsList(captured') /\ DOMAIN captured = 1 .. last
      /\ DOMAIN captured' = 1 .. last + 1
      /\ \A k \in 1 .. last : captured'[k] = captured[k]
      /\ captured'[last + 1] = c
  BY <1>4, <1>5, Appended DEF PairingInv
<1>7. CASE z_pair_array' = z_pair_array /\ PairFound(h, b)
  <2>1. \A n, k : k \in 1 .. last => (PairOf(n, k)' <=> PairOf(n, k))
    BY <1>6, <1>7 DEF PairOf
  <2>2. h.is_ipv6ext \/ \E n \in DOMAIN z_pair_array : PairOf(n, last + 1)'
    <3>1. PICK n \in DOMAIN z_pair_array :
            /\ z_pair_array[n].mac = h.mac
            /\ z_pair_array[n].is_ipv6 = h.is_ipv6ext
            /\ h.is_ipv6ext \/ z_pair_array[n].ip = h.ip
      BY <1>7 DEF PairFound
    <3> QED
      BY <1>4, <1>6, <1>7, <3>1 DEF PairOf, Addresses
  <2>3. PairsOfFrames'
    BY <1>4, <1>6, <1>7, <2>1, <2>2 DEF PairingInv, PairsOfFrames
  <2> QED
    BY <1>1, <1>6, <1>7, <2>3 DEF PairingInv, IPlistIsRecent
<1>8. CASE z_pair_array' = Append(z_pair_array,
              [is_ipv6 |-> h.is_ipv6ext, mac |-> h.mac,
               ip |-> IF h.is_ipv6ext THEN <<>> ELSE h.ip])
  <2>1. PICK p : /\ z_pair_array' = Append(z_pair_array, p)
                 /\ p.is_ipv6 = h.is_ipv6ext /\ p.mac = h.mac
                 /\ h.is_ipv6ext \/ p.ip = h.ip
    BY <1>8
  <2>2. PICK end \in Nat : end = Len(z_pair_array)
    BY Appended DEF PairingInv
  <2>3. /\ IsList(z_pair_array') /\ DOMAIN z_pair_array = 1 .. end
        /\ DOMAIN z_pair_array' = 1 .. end + 1
        /\ \A n \in 1 .. end : z_pair_array'[n] = z_pair_array[n]
        /\ z_pair_array'[end + 1] = p
    BY <2>1, <2>2, Appended DEF PairingInv
  <2>4. \A n \in 1 .. end, k \in 1 .. last : PairOf(n, k)' <=> PairOf(n, k)
    BY <1>6, <2>3 DEF PairOf
  <2>5. h.is_ipv6ext \/ PairOf(end + 1, last + 1)'
    BY <1>4, <1>6, <2>1, <2>3 DEF PairOf, Addresses
  <2>6. PairsOfFrames'
    <3>1. \A n \in 1 .. end + 1 : z_pair_array'[n].is_ipv6
             \/ \E k \in 1 .. last + 1 : PairOf(n, k)'
      <4> SUFFICES ASSUME NEW n \in 1 .. end + 1
                   PROVE  z_pair_array'[n].is_ipv6 \/ \E k \in 1 .. last + 1 : PairOf(n, k)'
        OBVIOUS
      <4>1. CASE n \in 1 .. end
        <5>1. z_pair_array[n].is_ipv6 \/ \E k \in 1 .. last : PairOf(n, k)
          BY <1>6, <2>3, <4>1 DEF PairingInv, PairsOfFrames
        <5> QED
          BY <2>3, <2>4, <4>1, <5>1
      <4>2. CASE n = end + 1
        BY <2>1, <2>3, <2>5, <4>2
      <4> QED
        BY <4>1, <4>2
    <3>2. \A k \in 1 .. last + 1 : captured'[k].v6
             \/ \E n \in 1 .. end + 1 : PairOf(n, k)'
      <4> SUFFICES ASSUME NEW k \in 1 .. last + 1
                   PROVE  captured'[k].v6 \/ \E n \in 1 .. end + 1 : PairOf(n, k)'
        OBVIOUS
      <4>1. CASE k \in 1 .. last
        <5>1. captured[k].v6 \/ \E n \in 1 .. end : PairOf(n, k)
          BY <1>6, <2>3, <4>1 DEF PairingInv, PairsOfFrames
        <5> QED
          BY <1>6, <2>4, <4>1, <5>1
      <4>2. CASE k = last + 1
        BY <1>4, <1>6, <2>5, <4>2
      <4> QED
        BY <4>1, <4>2
    <3> QED
      BY <1>6, <2>3, <3>1, <3>2 DEF PairsOfFrames
  <2> QED
    BY <1>1, <1>6, <2>3, <2>6 DEF PairingInv, IPlistIsRecent
<1> QED
  BY <1>3, <1>7, <1>8 DEF PairIpWithMac

(* The MACs of an address that were seen are those of its entries.           *)
LEMMA EntriesAreSeen ==
    ASSUME PairingInv, NEW a
    PROVE  /\ EntriesOf(a) = {} <=> MacsSeen(a) = {}
           /\ \A n \in EntriesOf(a), e \in {1, 2} :
                 z_pair_array[n].ip[e] = a => z_pair_array[n].mac[e] \in MacsSeen(a)
<1>1. ASSUME NEW n \in EntriesOf(a), NEW e \in {1, 2}, z_pair_array[n].ip[e] = a
      PROVE  z_pair_array[n].mac[e] \in MacsSeen(a)
  <2>1. PICK k \in DOMAIN captured : PairOf(n, k)
    BY DEF PairingInv, PairsOfFrames, EntriesOf
  <2>2. PICK q : q = <<k, e>>
    OBVIOUS
  <2>3. q \in (DOMAIN captured) \X {1, 2} /\ q[1] = k /\ q[2] = e
    BY <2>2
  <2> QED
    BY <1>1, <2>1, <2>3 DEF PairOf, MacsSeen
<1>2. ASSUME NEW n \in EntriesOf(a) PROVE MacsSeen(a) # {}
  BY <1>1 DEF EntriesOf
<1>3. ASSUME MacsSeen(a) # {} PROVE EntriesOf(a) # {}
  <2>1. PICK k \in DOMAIN captured, e \in {1, 2} : ~captured[k].v6 /\ captured[k].ip[e] = a
    BY <1>3 DEF MacsSeen
  <2>2. PICK n \in DOMAIN z_pair_array : PairOf(n, k)
    BY <2>1 DEF PairingInv, PairsOfFrames
  <2> QED
    BY <2>1, <2>2 DEF PairOf, EntriesOf
<1> QED
  BY <1>1, <1>2, <1>3

(* A flush starts an interval with no frames and no entries.                 *)
LEMMA FlushKeepsPairing ==
    ASSUME PairingInv, FlushFrames
    PROVE  PairingInv'
<1>1. z_pair_array' = <<>> /\ captured' = <<>>
  BY DEF FlushFrames, ClearPairingArray
<1>2. IsList(<<>>)
  <2>1. <<>> \in Seq({})
    OBVIOUS
  <2> QED
    BY <2>1 DEF IsList
<1>3. ASSUME NEW a \in V4, EntriesOf(a) # {}
      PROVE  IPlist'[a] \in MacsSeen(a)
  <2>1. EntriesOf(a) \in SUBSET Nat /\ \A n \in EntriesOf(a) : n <= Len(z_pair_array)
    BY Appended DEF PairingInv, EntriesOf
  <2>2. Len(z_pair_array) \in Nat
    BY Appended DEF PairingInv
  <2>3. PICK n \in EntriesOf(a) : n = Max(EntriesOf(a))
    BY <1>3, <2>1, <2>2, BoundedHasMax
  <2>4. IPlist'[a] = IF z_pair_array[n].ip[2] = a THEN z_pair_array[n].mac[2]
                                                   ELSE z_pair_array[n].mac[1]
    BY <1>3, <2>3 DEF FlushFrames, InsertDataToTable
  <2>5. z_pair_array[n].ip[1] = a \/ z_pair_array[n].ip[2] = a
    BY DEF EntriesOf
  <2> QED
    BY <2>4, <2>5, EntriesAreSeen
<1>4. ASSUME NEW a \in V4
      PROVE  IF lastSeen'[a] = {} THEN IPlist'[a] = None ELSE IPlist'[a] \in lastSeen'[a]
  <2>1. lastSeen'[a] = IF MacsSeen(a) = {} THEN lastSeen[a] ELSE MacsSeen(a)
    BY DEF FlushFrames
  <2>2. CASE EntriesOf(a) = {}
    <3>1. IPlist'[a] = IPlist[a]
      BY <2>2 DEF FlushFrames, InsertDataToTable
    <3> QED
      BY <2>1, <2>2, <3>1, EntriesAreSeen DEF PairingInv, IPlistIsRecent
  <2>3. CASE EntriesOf(a) # {}
    BY <1>3, <2>1, <2>3, EntriesAreSeen
  <2> QED
    BY <2>2, <2>3
<1> QED
  BY <1>1, <1>2, <1>4 DEF PairingInv, PairsOfFrames, IPlistIsRecent

(* IPlist gives an address a MAC it had in the interval it was last seen in, *)
(* for every set of frames and any number of intervals.                      *)
THEOREM PairingFollowsTheWire == FramesSpec => []IPlistIsRecent
<1>1. FramesInit => PairingInv
  <2> SUFFICES ASSUME FramesInit PROVE PairingInv
    OBVIOUS
  <2>1. <<>> \in Seq({})
    OBVIOUS
  <2>2. IsList(z_pair_array) /\ IsList(captured)
    BY <2>1 DEF FramesInit, IsList
  <2> QED
    BY <2>2 DEF FramesInit, PairingInv, PairsOfFrames, IPlistIsRecent
<1>2. PairingInv /\ [FramesNext]_frames_vars => PairingInv'
  <2> SUFFICES ASSUME PairingInv, [FramesNext]_frames_vars PROVE PairingInv'
    OBVIOUS
  <2>1. CASE FlushFrames
    BY <2>1, FlushKeepsPairing
  <2>2. ASSUME NEW f \in FrameKinds, Capture(f) PROVE PairingInv'
    BY <2>2, CaptureKeepsPairing
  <2>3. CASE UNCHANGED frames_vars
    BY <2>3 DEF frames_vars, PairingInv, IsList, PairsOfFrames, PairOf, IPlistIsRecent
  <2> QED
    BY <2>1, <2>2, <2>3 DEF FramesNext
<1>3. PairingInv => IPlistIsRecent
  BY DEF PairingInv
<1> QED
  BY <1>1, <1>2, <1>3, PTL DEF FramesSpec

-----------------------------------------------------------------------------
(* The decoder.  After each frame the globals that name layers are clear.    *)

IsGlobals(h) ==
    /\ DOMAIN h = {"Eor8", "net_proto", "trans_layer", "ports", "mac", "ip", "ip6", "is_ipv6ext"}
    /\ h.is_ipv6ext \in BOOLEAN

Cleared(h) ==
    /\ IsGlobals(h)
    /\ h.Eor8 = None /\ h.net_proto = None /\ h.trans_layer = None /\ h.ports = <<0, 0>>
    /\ h.mac = <<NoMac, NoMac>>

(* The addresses come in pairs.                                              *)
IsPaired(h) == IsPair(h.mac) /\ IsPair(h.ip) /\ (h.is_ipv6ext => IsPair(h.ip6))

(* What set_param leaves.                                                    *)
LEMMA ParamsSet ==
    ASSUME Cleared(g)
    PROVE  /\ Cleared(SetParam) /\ IsPaired(SetParam)
           /\ SetParam.ip = <<NoIp, NoIp>> /\ ~SetParam.is_ipv6ext
<1>1. Cleared(SetParam) /\ SetParam.ip = <<NoIp, NoIp>> /\ ~SetParam.is_ipv6ext
  BY DEF Cleared, IsGlobals, SetParam
<1> QED
  BY <1>1 DEF Cleared, IsPaired, IsPair

(* The layers above keep the shape of the globals.                           *)
LEMMA NetworkLayerIsGlobals ==
    ASSUME NEW h, IsGlobals(h), IsPaired(h), NEW f \in FrameKinds, NEW x \in Misreads
    PROVE  /\ IsGlobals(NetworkLayer(h, f, x)) /\ IsPaired(NetworkLayer(h, f, x))
           /\ IsGlobals(IpProtokol(h, f, x)) /\ IsPaired(IpProtokol(h, f, x))
<1>1. IsPair(f.hw) /\ IsPair(f.mac) /\ IsPair(f.ip) /\ IsPair(x.mac) /\ IsPair(x.ip)
  BY FramesAssumption
<1>2. IsGlobals(IpProtokol(h, f, x)) /\ IsPaired(IpProtokol(h, f, x))
  BY <1>1 DEF IpProtokol, IsGlobals, IsPaired
<1>3. IsGlobals(Ipv6Protokol(h, f, x)) /\ IsPaired(Ipv6Protokol(h, f, x))
  BY <1>1 DEF Ipv6Protokol, IsGlobals, IsPaired
<1>4. IsGlobals(ArpProtokol(h, f, x)) /\ IsPaired(ArpProtokol(h, f, x))
  BY <1>1 DEF ArpProtokol, IsGlobals, IsPaired
<1> QED
  BY <1>2, <1>3, <1>4 DEF NetworkLayer

LEMMA DecodedIsGlobals ==
    ASSUME Cleared(g), NEW f \in FrameKinds, NEW x \in Misreads
    PROVE  IsGlobals(Decoded(f, x)) /\ IsPaired(Decoded(f, x))
<1> DEFINE Fine(h) == IsGlobals(h) /\ IsPaired(h)
<1>1. IsPair(f.mac) /\ f.link \in {"eth2", "llc", "snap", "sll", "ppp"}
  BY FramesAssumption
<1>2. Fine(SetParam)
  BY ParamsSet DEF Cleared
<1>3. Fine(Eth2Frame(SetParam, f, x))
  <2>1. Fine([SetParam EXCEPT !.Eor8 = "E", !.mac = f.mac, !.net_proto = TypeField(f)])
    BY <1>1, <1>2 DEF IsGlobals, IsPaired
  <2> QED
    BY <2>1, NetworkLayerIsGlobals DEF Eth2Frame
<1>4. \A type : Fine(SllFrame(SetParam, type, f, x))
  <2>1. ASSUME NEW type PROVE Fine([SetParam EXCEPT !.Eor8 = "S", !.net_proto = type])
    BY <1>2 DEF IsGlobals, IsPaired
  <2> QED
    BY <2>1, NetworkLayerIsGlobals DEF SllFrame
<1>5. Fine(Ieee802(SetParam, f, x))
  <2> DEFINE e == [SetParam EXCEPT !.Eor8 = "8", !.mac = f.mac]
  <2>1. Fine(e)
    BY <1>1, <1>2 DEF IsGlobals, IsPaired
  <2>2. Fine(IpProtokol(e, f, x))
    BY <2>1, NetworkLayerIsGlobals
  <2>3. ASSUME NEW i, Fine(i), NEW t PROVE Fine([i EXCEPT !.net_proto = t])
    BY <2>3 DEF IsGlobals, IsPaired
  <2>4. Ieee802(SetParam, f, x) = IF f.link # "snap" THEN [e EXCEPT !.net_proto = "length"]
            ELSE [(IF f.type = "IP" THEN IpProtokol(e, f, x) ELSE e) EXCEPT !.net_proto = f.type]
    BY DEF Ieee802
  <2> HIDE DEF Fine, e
  <2> QED
    BY <2>1, <2>2, <2>3, <2>4
<1> HIDE DEF Fine
<1>6. Fine(Decoded(f, x))
  BY <1>1, <1>2, <1>3, <1>4, <1>5 DEF Decoded
<1> QED
  BY <1>6 DEF Fine

(* The globals are clear again for the next frame.                           *)
LEMMA ClearedAgain ==
    ASSUME NEW h, IsGlobals(h)
    PROVE  Cleared(ClearVariables(h))
BY DEF Cleared, ClearVariables, IsGlobals

-----------------------------------------------------------------------------
(* The names a frame is booked under: which they are, and that none comes    *)
(* twice.                                                                    *)

Elements(s) == {s[k] : k \in DOMAIN s}
Distinct(s) == \A j, k \in DOMAIN s : s[j] = s[k] => j = k

LEMMA Joined ==
    ASSUME NEW S, NEW s \in Seq(S), NEW t \in Seq(S)
    PROVE  /\ s \o t \in Seq(S)
           /\ Elements(s \o t) = Elements(s) \cup Elements(t)
           /\ Distinct(s) /\ Distinct(t) /\ Elements(s) \cap Elements(t) = {} => Distinct(s \o t)
<1>1. /\ s \o t \in Seq(S) /\ DOMAIN s = 1 .. Len(s) /\ DOMAIN t = 1 .. Len(t)
      /\ DOMAIN (s \o t) = 1 .. Len(s) + Len(t)
      /\ \A k \in 1 .. Len(s) : (s \o t)[k] = s[k]
      /\ \A k \in Len(s) + 1 .. Len(s) + Len(t) : (s \o t)[k] = t[k - Len(s)]
      /\ Len(s) \in Nat /\ Len(t) \in Nat
  OBVIOUS
<1> DEFINE u == s \o t
           l == Len(s)
           n == Len(t)
<1>2. /\ DOMAIN s = 1 .. l /\ DOMAIN t = 1 .. n /\ DOMAIN u = 1 .. l + n
      /\ \A k \in 1 .. l : u[k] = s[k]
      /\ \A k \in l + 1 .. l + n : u[k] = t[k - l]
      /\ l \in Nat /\ n \in Nat
  BY <1>1
<1> HIDE DEF u, l, n
<1>3. \A k \in 1 .. n : u[l + k] = t[k] /\ l + k \in DOMAIN u
  BY <1>2
<1>4. \A k \in DOMAIN u : k \in DOMAIN s \/ k - l \in DOMAIN t
  BY <1>2
<1>5. Elements(u) = Elements(s) \cup Elements(t)
  <2>1. ASSUME NEW e \in Elements(u) PROVE e \in Elements(s) \cup Elements(t)
    <3>1. PICK k \in 1 .. l + n : e = u[k]
      BY <1>2 DEF Elements
    <3>2. CASE k \in 1 .. l
      BY <1>2, <3>1, <3>2 DEF Elements
    <3>3. CASE k \in l + 1 .. l + n
      <4>1. k - l \in DOMAIN t /\ e = t[k - l]
        BY <1>2, <3>1, <3>3
      <4> QED
        BY <4>1 DEF Elements
    <3> QED
      BY <1>2, <3>1, <3>2, <3>3
  <2>2. ASSUME NEW e \in Elements(s) PROVE e \in Elements(u)
    <3>1. PICK k \in DOMAIN s : e = s[k]
      BY DEF Elements
    <3>2. k \in DOMAIN u /\ e = u[k]
      BY <1>2, <3>1
    <3> QED
      BY <3>2 DEF Elements
  <2>3. ASSUME NEW e \in Elements(t) PROVE e \in Elements(u)
    <3>1. PICK k \in DOMAIN t : e = t[k]
      BY DEF Elements
    <3>2. l + k \in DOMAIN u /\ e = u[l + k]
      BY <1>2, <1>3, <3>1
    <3> QED
      BY <3>2 DEF Elements
  <2> QED
    BY <2>1, <2>2, <2>3
<1>6. ASSUME Distinct(s), Distinct(t), Elements(s) \cap Elements(t) = {} PROVE Distinct(u)
  <2> SUFFICES ASSUME NEW j \in DOMAIN u, NEW k \in DOMAIN u, u[j] = u[k] PROVE j = k
    BY DEF Distinct
  <2>1. \A i \in 1 .. l : u[i] \in Elements(s)
    BY <1>2 DEF Elements
  <2>2. \A i \in l + 1 .. l + n : i - l \in 1 .. n /\ u[i] = t[i - l] /\ u[i] \in Elements(t)
    BY <1>2 DEF Elements
  <2>3. CASE j \in 1 .. l /\ k \in 1 .. l
    BY <1>2, <1>6, <2>3 DEF Distinct
  <2>4. CASE j \in l + 1 .. l + n /\ k \in l + 1 .. l + n
    <3>1. j - l = k - l
      BY <1>2, <1>6, <2>2, <2>4 DEF Distinct
    <3> QED
      BY <1>2, <2>4, <3>1
  <2>5. j \in 1 .. l + n /\ k \in 1 .. l + n
    BY <1>2
  <2> QED
    BY <1>2, <1>6, <2>1, <2>2, <2>3, <2>4, <2>5
<1> QED
  BY <1>1, <1>5, <1>6 DEF u

AllNames == (DataLinks \cup Networks \cup Transports) \X Nat

LEMMA OneName ==
    ASSUME NEW b \in BOOLEAN, NEW name, b => name \in DataLinks \cup Networks \cup Transports
    PROVE  /\ If(b, name) \in Seq(AllNames) /\ Distinct(If(b, name))
           /\ Elements(If(b, name)) = IF b THEN {<<name, 0>>} ELSE {}
<1>1. CASE b
  <2>1. <<name, 0>> \in AllNames
    BY <1>1 DEF AllNames
  <2>2. PICK e \in AllNames : e = <<name, 0>>
    BY <2>1
  <2>3. If(b, name) = <<e>>
    BY <1>1, <2>2 DEF If
  <2>4. <<e>> \in Seq(AllNames) /\ DOMAIN <<e>> = {1} /\ <<e>>[1] = e
    OBVIOUS
  <2>5. Elements(<<e>>) = {e} /\ Distinct(<<e>>)
    BY <2>4 DEF Elements, Distinct
  <2> QED
    BY <1>1, <2>2, <2>3, <2>4, <2>5
<1>2. CASE ~b
  <2>1. If(b, name) = <<>>
    BY <1>2 DEF If
  <2>2. <<>> \in Seq(AllNames) /\ DOMAIN <<>> = {}
    OBVIOUS
  <2>3. Elements(<<>>) = {} /\ Distinct(<<>>)
    BY <2>2, Zenon DEF Elements, Distinct
  <2> QED
    BY <1>2, <2>1, <2>2, <2>3
<1> QED
  BY <1>1, <1>2

(* The applications of one kind: the ports that are one of the frame's.      *)
LEMMA ApplicationsAre ==
    ASSUME NEW h, NEW kind \in Transports, NEW portov \in Seq(Nat),
           \A j, k \in DOMAIN portov : portov[j] = portov[k] => j = k
    PROVE  /\ Applications(h, kind, portov) \in Seq(AllNames)
           /\ Distinct(Applications(h, kind, portov))
           /\ Elements(Applications(h, kind, portov))
                = {<<kind, portov[j]>> : j \in {i \in DOMAIN portov : PortMatches(h, portov[i])}}
<1> DEFINE L == Len(portov)
           Name(j) == <<kind, portov[j]>>
           Found(s, j) == IF PortMatches(h, portov[j]) THEN Append(s, Name(j)) ELSE s
           Is(f, m) == f = [j \in 0 .. m |-> IF j = 0 THEN <<>> ELSE Found(f[j - 1], j)]
           Bad == {m \in Nat : ~\E f : Is(f, m)}
<1>1. L \in Nat /\ DOMAIN portov = 1 .. L
  OBVIOUS
<1>2. Applications(h, kind, portov) = (CHOOSE f : Is(f, L))[L]
  BY DEF Applications
<1>3. \E f : Is(f, L)
  <2> SUFFICES Bad = {}
    BY <1>1
  <2> SUFFICES ASSUME Bad # {} PROVE FALSE
    OBVIOUS
  <2> HIDE DEF Is, Found
  <2>1. Bad \in SUBSET Nat
    OBVIOUS
  <2>2. PICK m \in Bad : \A k \in Bad : m <= k
    BY <2>1, LeastNumber
  <2>3. m # 0
    <3>1. Is([j \in 0 .. 0 |-> <<>>], 0)
      BY DEF Is
    <3> QED
      BY <2>2, <3>1
  <2>4. m - 1 \in Nat /\ m - 1 \notin Bad /\ m \in Nat
    BY <2>2, <2>3
  <2>5. PICK f : Is(f, m - 1)
    BY <2>4
  <2> DEFINE e == [j \in 0 .. m |-> IF j < m THEN f[j] ELSE Found(f[j - 1], j)]
  <2>6. \A j \in 0 .. m - 1 : e[j] = f[j]
    BY <2>4
  <2>7. \A j \in 0 .. m - 1 : f[j] = IF j = 0 THEN <<>> ELSE Found(f[j - 1], j)
    BY <2>5 DEF Is
  <2>8. e[m] = Found(f[m - 1], m)
    BY <2>4
  <2>9. DOMAIN e = 0 .. m /\ e = [j \in 0 .. m |-> e[j]]
    OBVIOUS
  <2> HIDE DEF e
  <2>10. \A j \in 0 .. m : e[j] = IF j = 0 THEN <<>> ELSE Found(e[j - 1], j)
    <3>1. e[m] = Found(e[m - 1], m)
      BY <2>3, <2>4, <2>6, <2>8
    <3>2. ASSUME NEW j \in 0 .. m - 1 PROVE e[j] = IF j = 0 THEN <<>> ELSE Found(e[j - 1], j)
      <4>1. e[j] = f[j] /\ (j # 0 => e[j - 1] = f[j - 1])
        BY <2>4, <2>6
      <4> QED
        BY <2>7, <4>1
    <3> QED
      BY <2>3, <2>4, <3>1, <3>2
  <2>11. Is(e, m)
    BY <2>9, <2>10 DEF Is
  <2> QED
    BY <2>2, <2>11
<1>4. PICK f : f = (CHOOSE e : Is(e, L)) /\ Is(f, L)
  BY <1>3
<1> DEFINE Right(s, m) == /\ s \in Seq(AllNames) /\ Distinct(s)
                          /\ Elements(s) = {Name(j) : j \in {i \in 1 .. m : PortMatches(h, portov[i])}}
<1> HIDE DEF Found
<1>5. /\ f[0] = <<>>
      /\ \A j \in 1 .. L : f[j] = Found(f[j - 1], j)
  <2>1. f = [j \in 0 .. L |-> IF j = 0 THEN <<>> ELSE Found(f[j - 1], j)]
    BY <1>4
  <2>2. \A j \in 0 .. L : f[j] = IF j = 0 THEN <<>> ELSE Found(f[j - 1], j)
    BY <2>1
  <2>3. 0 \in 0 .. L /\ \A j \in 1 .. L : j \in 0 .. L /\ j # 0
    BY <1>1
  <2> QED
    BY <2>2, <2>3
<1>6. Right(f[0], 0)
  <2>1. f[0] = <<>>
    BY <1>5
  <2>2. <<>> \in Seq(AllNames) /\ DOMAIN <<>> = {} /\ 1 .. 0 = {}
    OBVIOUS
  <2> QED
    BY <2>1, <2>2, Zenon DEF Elements, Distinct
<1> HIDE DEF Is, Name
<1>7. ASSUME NEW m \in 1 .. L, Right(f[m - 1], m - 1) PROVE Right(f[m], m)
  <2>1. m \in DOMAIN portov /\ m \in Nat /\ \A i \in 1 .. m : i = m \/ i \in 1 .. m - 1
    BY <1>1
  <2>2. m \notin 1 .. m - 1 /\ \A i \in 1 .. m - 1 : i \in 1 .. m /\ i \in DOMAIN portov
    BY <1>1
  <2>3. CASE ~PortMatches(h, portov[m])
    <3>1. f[m] = f[m - 1]
      BY <1>5, <2>3 DEF Found
    <3>2. {i \in 1 .. m : PortMatches(h, portov[i])} = {i \in 1 .. m - 1 : PortMatches(h, portov[i])}
      BY <2>1, <2>2, <2>3
    <3> QED
      BY <1>7, <3>1, <3>2
  <2>4. CASE PortMatches(h, portov[m])
    <3>1. f[m] = Append(f[m - 1], Name(m))
      BY <1>5, <2>4 DEF Found
    <3>2. Name(m) \in AllNames
      <4>1. portov[m] \in Nat
        BY <2>1
      <4> QED
        BY <4>1 DEF AllNames, Name
    <3>3. PICK s \in Seq(AllNames), e \in AllNames : s = f[m - 1] /\ e = Name(m)
      BY <1>7, <3>2
    <3>4. /\ Append(s, e) = s \o <<e>> /\ <<e>> \in Seq(AllNames)
          /\ DOMAIN <<e>> = {1} /\ <<e>>[1] = e
      OBVIOUS
    <3>5. Elements(<<e>>) = {e} /\ Distinct(<<e>>)
      BY <3>4 DEF Elements, Distinct
    <3>6. e \notin Elements(s)
      <4>1. \A i \in 1 .. m - 1 : portov[i] # portov[m]
        BY <2>1, <2>2
      <4>2. \A i \in 1 .. m - 1 : Name(i) # Name(m)
        BY <4>1 DEF Name
      <4> QED
        BY <1>7, <3>3, <4>2
    <3>7. /\ f[m] \in Seq(AllNames) /\ Distinct(f[m])
          /\ Elements(f[m]) = Elements(s) \cup {e}
      <4>1. Distinct(s) /\ Elements(s) \cap {e} = {}
        BY <1>7, <3>3, <3>6
      <4>2. PICK t \in Seq(AllNames) : t = <<e>>
        BY <3>4
      <4>3. s \o t \in Seq(AllNames) /\ Distinct(s \o t) /\ Elements(s \o t) = Elements(s) \cup {e}
        <5>1. Distinct(t) /\ Elements(t) = {e}
          BY <3>5, <4>2
        <5> QED
          BY <4>1, <5>1, Joined
      <4>4. f[m] = s \o t
        BY <3>1, <3>3, <3>4, <4>2
      <4> QED
        BY <4>3, <4>4
    <3>8. {i \in 1 .. m : PortMatches(h, portov[i])}
            = {i \in 1 .. m - 1 : PortMatches(h, portov[i])} \cup {m}
      BY <2>1, <2>2, <2>4
    <3> QED
      BY <1>7, <3>3, <3>7, <3>8
  <2> QED
    BY <2>3, <2>4
<1>8. Right(f[L], L)
  <2> DEFINE W == {m \in Nat : m <= L /\ ~Right(f[m], m)}
  <2> HIDE DEF Right
  <2> SUFFICES ASSUME W # {} PROVE FALSE
    BY <1>1
  <2>1. PICK m \in W : \A k \in W : m <= k
    BY LeastNumber
  <2>2. m # 0
    BY <1>6, <2>1
  <2>3. m \in 1 .. L /\ m - 1 \in Nat /\ m - 1 \notin W /\ m - 1 <= L
    BY <1>1, <2>1, <2>2
  <2> QED
    BY <1>7, <2>1, <2>3
<1> QED
  BY <1>1, <1>2, <1>4, <1>8 DEF Name

LayerNames(h) ==
    {<<m, 0>> : m \in ({h.Eor8} \cap DataLinks \cap Enabled) \cup ({h.net_proto} \cap Networks \cap Enabled)
                        \cup {n \in {h.trans_layer} \cap Transports : Switched(n)}}

PortNames(h, kind, portov) ==
    {<<kind, portov[j]>> : j \in {i \in DOMAIN portov : PortMatches(h, portov[i])}}

LEMMA NamesAre ==
    ASSUME NEW h
    PROVE  /\ Names(h) \in Seq(AllNames) /\ Distinct(Names(h))
           /\ Elements(Names(h)) = LayerNames(h) \cup PortNames(h, "TCP", TCP_portov)
                                        \cup PortNames(h, "UDP", UDP_portov)
<1> DEFINE a == ParseDataLink(h)
           b == ParseNetworkLayer(h)
           c == ParseTransportLayer(h)
           d == Applications(h, "TCP", TCP_portov)
           e == Applications(h, "UDP", UDP_portov)
           IsA == h.Eor8 \in Enabled \cap DataLinks
           IsB == h.net_proto \in Enabled \cap Networks
           IsC == h.trans_layer \in Transports /\ Switched(h.trans_layer)
<1>1. /\ a \in Seq(AllNames) /\ Distinct(a)
      /\ Elements(a) = IF IsA THEN {<<h.Eor8, 0>>} ELSE {}
  <2>1. a = If(IsA, h.Eor8)
    BY DEF ParseDataLink
  <2>2. IsA \in BOOLEAN /\ (IsA => h.Eor8 \in DataLinks \cup Networks \cup Transports)
    OBVIOUS
  <2> HIDE DEF a, IsA
  <2> QED
    BY <2>1, <2>2, OneName
<1>2. /\ b \in Seq(AllNames) /\ Distinct(b)
      /\ Elements(b) = IF IsB THEN {<<h.net_proto, 0>>} ELSE {}
  <2>1. b = If(IsB, h.net_proto)
    BY DEF ParseNetworkLayer
  <2>2. IsB \in BOOLEAN /\ (IsB => h.net_proto \in DataLinks \cup Networks \cup Transports)
    OBVIOUS
  <2> HIDE DEF b, IsB
  <2> QED
    BY <2>1, <2>2, OneName
<1>3. /\ c \in Seq(AllNames) /\ Distinct(c)
      /\ Elements(c) = IF IsC THEN {<<h.trans_layer, 0>>} ELSE {}
  BY OneName DEF ParseTransportLayer, Switched
<1>4. /\ d \in Seq(AllNames) /\ Distinct(d) /\ Elements(d) = PortNames(h, "TCP", TCP_portov)
      /\ e \in Seq(AllNames) /\ Distinct(e) /\ Elements(e) = PortNames(h, "UDP", UDP_portov)
  <2>1. /\ "TCP" \in Transports /\ "UDP" \in Transports
        /\ TCP_portov \in Seq(Nat) /\ \A j, k \in DOMAIN TCP_portov : TCP_portov[j] = TCP_portov[k] => j = k
        /\ UDP_portov \in Seq(Nat) /\ \A j, k \in DOMAIN UDP_portov : UDP_portov[j] = UDP_portov[k] => j = k
    BY FramesAssumption DEF Transports
  <2>2. d \in Seq(AllNames) /\ Distinct(d) /\ Elements(d) = PortNames(h, "TCP", TCP_portov)
    BY <2>1, ApplicationsAre DEF PortNames
  <2>3. e \in Seq(AllNames) /\ Distinct(e) /\ Elements(e) = PortNames(h, "UDP", UDP_portov)
    BY <2>1, ApplicationsAre DEF PortNames
  <2> QED
    BY <2>2, <2>3
<1>5. Names(h) = ((a \o b) \o c) \o (d \o e)
  BY DEF Names, ParseApplicationLayer
<1>6. \A n \in Elements(a) : n[1] \in DataLinks /\ n[2] = 0
  BY <1>1
<1>7. \A n \in Elements(b) : n[1] \in Networks /\ n[2] = 0
  BY <1>2
<1>8. \A n \in Elements(c) : n[1] \in Transports /\ n[2] = 0
  BY <1>3
<1>9. \A n \in Elements(d) : n[1] = "TCP" /\ n[2] # 0
  BY <1>4, FramesAssumption DEF PortNames
<1>10. \A n \in Elements(e) : n[1] = "UDP" /\ n[2] # 0
  BY <1>4, FramesAssumption DEF PortNames
<1>11. /\ DataLinks \cap Networks = {} /\ DataLinks \cap Transports = {}
       /\ Networks \cap Transports = {}
  BY DEF DataLinks, Networks, Transports
<1> DEFINE Layers == Elements(a) \cup Elements(b) \cup Elements(c)
<1>12. Layers = LayerNames(h)
  <2>1. Elements(a) = {<<m, 0>> : m \in {h.Eor8} \cap DataLinks \cap Enabled}
    BY <1>1
  <2>2. Elements(b) = {<<m, 0>> : m \in {h.net_proto} \cap Networks \cap Enabled}
    BY <1>2
  <2>3. Elements(c) = {<<m, 0>> : m \in {n \in {h.trans_layer} \cap Transports : Switched(n)}}
    BY <1>3
  <2> HIDE DEF a, b, c
  <2> QED
    BY <2>1, <2>2, <2>3 DEF LayerNames
<1> HIDE DEF a, b, c, d, e, IsA, IsB, IsC
<1>13. /\ a \o b \in Seq(AllNames) /\ Distinct(a \o b)
       /\ Elements(a \o b) = Elements(a) \cup Elements(b)
  BY <1>1, <1>2, <1>6, <1>7, <1>11, Joined
<1>14. /\ (a \o b) \o c \in Seq(AllNames) /\ Distinct((a \o b) \o c)
       /\ Elements((a \o b) \o c) = Layers
  <2>1. \A n \in Elements(a \o b) : n[1] \in DataLinks \cup Networks
    BY <1>6, <1>7, <1>13
  <2>2. Elements(a \o b) \cap Elements(c) = {}
    BY <1>8, <1>11, <2>1
  <2> QED
    <3>1. PICK s \in Seq(AllNames) : s = a \o b
      BY <1>13
    <3>2. Distinct(s) /\ Elements(s) \cap Elements(c) = {}
      BY <1>13, <2>2, <3>1
    <3>3. s \o c \in Seq(AllNames) /\ Distinct(s \o c) /\ Elements(s \o c) = Elements(s) \cup Elements(c)
      BY <1>3, <3>2, Joined
    <3> QED
      BY <1>13, <3>1, <3>3
<1>15. /\ d \o e \in Seq(AllNames) /\ Distinct(d \o e)
       /\ Elements(d \o e) = Elements(d) \cup Elements(e)
  <2>1. Elements(d) \cap Elements(e) = {}
    BY <1>9, <1>10
  <2> QED
    BY <1>4, <2>1, Joined
<1>16. /\ Names(h) \in Seq(AllNames) /\ Distinct(Names(h))
       /\ Elements(Names(h)) = Layers \cup (Elements(d) \cup Elements(e))
  <2>1. \A n \in Elements((a \o b) \o c) : n[2] = 0
    BY <1>6, <1>7, <1>8, <1>14
  <2>2. Elements((a \o b) \o c) \cap Elements(d \o e) = {}
    BY <1>9, <1>10, <1>15, <2>1
  <2> QED
    <3>1. PICK s \in Seq(AllNames), t \in Seq(AllNames) : s = (a \o b) \o c /\ t = d \o e
      BY <1>14, <1>15
    <3>2. Distinct(s) /\ Distinct(t) /\ Elements(s) \cap Elements(t) = {}
      BY <1>14, <1>15, <2>2, <3>1
    <3>3. s \o t \in Seq(AllNames) /\ Distinct(s \o t) /\ Elements(s \o t) = Elements(s) \cup Elements(t)
      BY <3>2, Joined
    <3> QED
      BY <1>5, <1>14, <1>15, <3>1, <3>3
<1> QED
  BY <1>4, <1>12, <1>16

(* What an Ethernet II frame leaves in the globals.                          *)
LEMMA EthernetGlobals ==
    ASSUME Cleared(g), NEW f \in FrameKinds, NEW x \in Misreads, f.link = "eth2", f.ext # "options"
    PROVE  LET h == Decoded(f, x)
               last == IF f.type = "IP" \/ (f.type = "IPv6" /\ f.trans \in {"TCP", "UDP", "ICMPv6"})
                       THEN f.trans ELSE None
           IN  /\ h.Eor8 = "E" /\ h.net_proto = f.type /\ h.trans_layer = last
               /\ h.ports = IF last \in {"TCP", "UDP"} THEN f.ports ELSE <<0, 0>>
<1> DEFINE e == [SetParam EXCEPT !.Eor8 = "E", !.mac = f.mac, !.net_proto = f.type]
<1>1. Decoded(f, x) = NetworkLayer(e, f, x)
  BY DEF Decoded, Eth2Frame, TypeField
<1>2. /\ IsGlobals(e) /\ e.Eor8 = "E" /\ e.net_proto = f.type
      /\ e.trans_layer = None /\ e.ports = <<0, 0>>
  BY ParamsSet DEF Cleared, IsGlobals
<1> HIDE DEF e
<1>3. PortsAt(f, x) = f.ports /\ LastHeader(f, x) = f.trans
  BY DEF PortsAt, LastHeader
<1>4. CASE f.type = "IP"
  <2>1. Decoded(f, x) = IpProtokol(e, f, x)
    BY <1>1, <1>2, <1>4 DEF NetworkLayer
  <2> QED
    BY <1>2, <1>3, <1>4, <2>1 DEF IpProtokol, IsGlobals
<1>5. CASE f.type = "IPv6"
  <2>1. Decoded(f, x) = Ipv6Protokol(e, f, x)
    BY <1>1, <1>2, <1>5 DEF NetworkLayer
  <2> QED
    BY <1>2, <1>3, <1>5, <2>1 DEF Ipv6Protokol, IsGlobals, None
<1>6. CASE f.type \notin {"IP", "IPv6"}
  <2>1. Decoded(f, x) \in {e, ArpProtokol(e, f, x)}
    BY <1>1, <1>2, <1>6 DEF NetworkLayer
  <2> QED
    BY <1>2, <1>6, <2>1 DEF ArpProtokol, IsGlobals, None
<1> QED
  BY <1>4, <1>5, <1>6

LEMMA NamesOfItsContent ==
    ASSUME Cleared(g), NEW f \in FrameKinds, NEW x \in Misreads, f.link = "eth2", f.ext # "options"
    PROVE  Elements(Names(Decoded(f, x))) = Belongs(f)
<1> DEFINE last == IF f.type = "IP" \/ (f.type = "IPv6" /\ f.trans \in {"TCP", "UDP", "ICMPv6"})
                   THEN f.trans ELSE None
<1>1. PICK h : h = Decoded(f, x)
  OBVIOUS
<1>2. /\ h.Eor8 = "E" /\ h.net_proto = f.type /\ h.trans_layer = last
      /\ h.ports = IF last \in {"TCP", "UDP"} THEN f.ports ELSE <<0, 0>>
  BY <1>1, EthernetGlobals
<1>3. /\ f.type \notin DataLinks \cup Transports /\ f.trans \notin DataLinks \cup Networks
      /\ Enabled \subseteq DataLinks \cup Networks \cup Transports
  BY FramesAssumption
<1> DEFINE inside == IF f.type = "IP" \/ (f.type = "IPv6" /\ f.trans \notin {"ICMP", "IGMP"})
                     THEN {f.trans} ELSE {}
           apps == IF f.type \in {"IP", "IPv6"} /\ f.trans \in {"TCP", "UDP"}
                THEN {<<"TCP", p>> : p \in {TCP_portov[j] : j \in DOMAIN TCP_portov}}
                     \cup {<<"UDP", p>> : p \in {UDP_portov[j] : j \in DOMAIN UDP_portov}}
                ELSE {}
           layers == {"E", f.type} \cup inside
<1>4. Belongs(f) = {<<n, 0>> : n \in {m \in layers : Switched(m)}}
                    \cup {a \in apps : a[2] \in {f.ports[1], f.ports[2]}}
  BY DEF Belongs
<1>5. LayerNames(h) = {<<n, 0>> : n \in {m \in layers : Switched(m)}}
  <2>1. ({h.Eor8} \cap DataLinks \cap Enabled) \cup ({h.net_proto} \cap Networks \cap Enabled)
          \cup {n \in {h.trans_layer} \cap Transports : Switched(n)}
        = {m \in layers : Switched(m)}
    <3>1. {h.Eor8} \cap DataLinks \cap Enabled = {m \in {"E"} : Switched(m)}
      BY <1>2 DEF DataLinks, Switched
    <3>2. {h.net_proto} \cap Networks \cap Enabled = {m \in {f.type} : Switched(m)}
      BY <1>2, <1>3 DEF Switched, Transports
    <3>3. {n \in {h.trans_layer} \cap Transports : Switched(n)} = {m \in inside : Switched(m)}
      <4>1. \A m : Switched(m) => m \in DataLinks \cup Networks \cup Transports
        BY <1>3 DEF Switched, Transports
      <4>2. f.trans \in Transports \/ ~Switched(f.trans)
        BY <1>3, <4>1
      <4>3. None \notin Transports
        BY DEF None, Transports
      <4>4. \A m \in {"TCP", "UDP", "ICMPv6", "ICMP", "IGMP"} : m \in Transports
        BY DEF Transports
      <4>5. \A m \in Transports : m \in {"TCP", "UDP", "ICMPv6", "ICMP", "IGMP"}
        BY DEF Transports
      <4> QED
        BY <1>2, <4>2, <4>3, <4>4, <4>5
    <3> QED
      BY <3>1, <3>2, <3>3
  <2> QED
    BY <2>1 DEF LayerNames
<1>6. PortNames(h, "TCP", TCP_portov) \cup PortNames(h, "UDP", UDP_portov)
        = {a \in apps : a[2] \in {f.ports[1], f.ports[2]}}
  <2>1. CASE last \in {"TCP", "UDP"}
    <3>1. apps = {<<"TCP", p>> : p \in {TCP_portov[j] : j \in DOMAIN TCP_portov}}
                   \cup {<<"UDP", p>> : p \in {UDP_portov[j] : j \in DOMAIN UDP_portov}}
      BY <2>1 DEF None
    <3>2. \A p : PortMatches(h, p) <=> p \in {f.ports[1], f.ports[2]}
      BY <1>2, <2>1 DEF PortMatches
    <3> HIDE DEF apps, last
    <3> QED
      BY <3>1, <3>2 DEF PortNames
  <2>2. CASE last \notin {"TCP", "UDP"}
    <3>1. apps = {}
      BY <2>2
    <3>2. \A portov \in {TCP_portov, UDP_portov} : \A i \in DOMAIN portov : ~PortMatches(h, portov[i])
      <4>1. h.ports[1] = 0 /\ h.ports[2] = 0
        BY <1>2, <2>2
      <4> QED
        BY <4>1, FramesAssumption DEF PortMatches
    <3> QED
      BY <3>1, <3>2 DEF PortNames
  <2> QED
    BY <2>1, <2>2
<1> QED
  BY <1>1, <1>4, <1>5, <1>6, NamesAre

(* The names of a frame captured, and the globals it leaves.                 *)
ContentInv == Cleared(g) /\ IsList(captured) /\ BookedByItsContent

LEMMA CaptureKeepsContent ==
    ASSUME ContentInv, NEW f \in FrameKinds, Capture(f)
    PROVE  ContentInv'
<1>1. PICK x \in Misreads :
        /\ g' = ClearVariables(Decoded(f, x))
        /\ captured' = Append(captured,
              [f |-> f, names |-> {Names(Decoded(f, x))[k] : k \in DOMAIN Names(Decoded(f, x))},
               v6 |-> Decoded(f, x).is_ipv6ext, mac |-> Decoded(f, x).mac,
               ip |-> Addresses(Decoded(f, x))])
  BY Zenon DEF Capture
<1>2. Cleared(g)'
  BY <1>1, DecodedIsGlobals, ClearedAgain DEF ContentInv
<1>3. PICK c : /\ captured' = Append(captured, c)
               /\ c.f = f /\ c.names = Elements(Names(Decoded(f, x)))
  BY <1>1 DEF Elements
<1>4. f.link = "eth2" /\ f.ext # "options" => c.names = Belongs(f)
  BY <1>3, NamesOfItsContent DEF ContentInv
<1>5. /\ IsList(captured') /\ DOMAIN captured = 1 .. Len(captured) /\ Len(captured) \in Nat
      /\ DOMAIN captured' = 1 .. Len(captured) + 1
      /\ \A k \in 1 .. Len(captured) : captured'[k] = captured[k]
      /\ captured'[Len(captured) + 1] = c
  BY <1>3, Appended DEF ContentInv
<1>6. BookedByItsContent'
  <2> DEFINE Right(e) == e.f.link = "eth2" /\ e.f.ext # "options" => e.names = Belongs(e.f)
  <2>1. \A k \in DOMAIN captured : Right(captured[k])
    BY DEF ContentInv, BookedByItsContent
  <2>2. Right(c)
    BY <1>3, <1>4
  <2> HIDE DEF Right
  <2>3. \A k \in DOMAIN captured' : Right(captured'[k])
    BY <1>5, <2>1, <2>2
  <2> QED
    BY <2>3 DEF Right, BookedByItsContent
<1> QED
  BY <1>2, <1>5, <1>6 DEF ContentInv

LEMMA FlushKeepsContent ==
    ASSUME ContentInv, FlushFrames
    PROVE  ContentInv'
<1>1. g' = g /\ captured' = <<>>
  BY DEF FlushFrames
<1>2. <<>> \in Seq({}) /\ DOMAIN <<>> = {}
  OBVIOUS
<1> QED
  BY <1>1, <1>2 DEF ContentInv, IsList, BookedByItsContent

LEMMA FramesStart ==
    ASSUME FramesInit
    PROVE  PairingInv /\ ContentInv
<1>1. <<>> \in Seq({}) /\ DOMAIN <<>> = {}
  OBVIOUS
<1>2. IsList(z_pair_array) /\ IsList(captured)
  BY <1>1 DEF FramesInit, IsList
<1>3. Cleared(g)
  BY DEF FramesInit, NoGlobals, Cleared, IsGlobals
<1> QED
  BY <1>1, <1>2, <1>3 DEF FramesInit, PairingInv, PairsOfFrames, IPlistIsRecent, ContentInv,
                          BookedByItsContent

(* An Ethernet II frame is booked under its own protocols and no other,      *)
(* whatever came before it.                                                  *)
THEOREM BookedUnderItsOwn == FramesSpec => []BookedByItsContent
<1>1. FramesInit => ContentInv
  BY FramesStart
<1>2. ContentInv /\ [FramesNext]_frames_vars => ContentInv'
  <2> SUFFICES ASSUME ContentInv, [FramesNext]_frames_vars PROVE ContentInv'
    OBVIOUS
  <2>1. CASE FlushFrames
    BY <2>1, FlushKeepsContent
  <2>2. ASSUME NEW f \in FrameKinds, Capture(f) PROVE ContentInv'
    BY <2>2, CaptureKeepsContent
  <2>3. CASE UNCHANGED frames_vars
    BY <2>3 DEF frames_vars, ContentInv, IsList, BookedByItsContent, Cleared, IsGlobals
  <2> QED
    BY <2>1, <2>2, <2>3 DEF FramesNext
<1>3. ContentInv => BookedByItsContent
  BY DEF ContentInv
<1> QED
  BY <1>1, <1>2, <1>3, PTL DEF FramesSpec

-----------------------------------------------------------------------------
(* The lists.  A list is right for a set B of frames of `cap' when it counts *)
(* each of them once; for IPv4, under its own key.                           *)

KeyIn(cap, k) == <<cap[k].mac, cap[k].ip>>

RecordFields == {"mac_s", "mac_d", "ip_s", "ip_d", "pocet"}

KeysRight(zoz, B, cap) ==
    /\ \A j \in DOMAIN zoz : zoz[j].pocet = Cardinality({k \in B : Key(zoz[j]) = KeyIn(cap, k)})
    /\ \A i, j \in DOMAIN zoz : Key(zoz[i]) = Key(zoz[j]) => i = j
    /\ \A k \in B : \E j \in DOMAIN zoz : Key(zoz[j]) = KeyIn(cap, k)

ListRight(zoz, v6, B, cap) ==
    /\ IsList(zoz)
    /\ \A j \in DOMAIN zoz : DOMAIN zoz[j] = RecordFields /\ zoz[j].pocet \in Nat
    /\ FramesIn(zoz) = Cardinality(B)
    /\ v6 \/ KeysRight(zoz, B, cap)

(* One more record with one frame, or one more frame in a record.            *)
LEMMA OneMoreRecord ==
    ASSUME NEW zoz, IsList(zoz), \A j \in DOMAIN zoz : zoz[j].pocet \in Nat, NEW z, z.pocet = 1
    PROVE  FramesIn(Append(zoz, z)) = FramesIn(zoz) + 1 /\ FramesIn(zoz) \in Nat
<1> DEFINE n == Len(zoz)
           t == Append(zoz, z)
           a == [j \in DOMAIN zoz |-> zoz[j].pocet]
           b == [j \in DOMAIN t |-> t[j].pocet]
<1>1. /\ DOMAIN zoz = 1 .. n /\ n \in Nat /\ DOMAIN t = 1 .. n + 1
      /\ \A j \in 1 .. n : t[j] = zoz[j]
      /\ t[n + 1] = z
  BY Appended
<1>2. FramesIn(zoz) = SumFunctionOnSet(a, 1 .. n) /\ FramesIn(t) = SumFunctionOnSet(b, 1 .. n + 1)
  BY <1>1 DEF FramesIn, SumFunction
<1>3. /\ \A j \in 1 .. n : a[j] = b[j] /\ a[j] \in Nat
      /\ b[n + 1] = 1
      /\ \A j \in 1 .. n \cup {n + 1} : b[j] \in Int
  BY <1>1
<1> HIDE DEF a, b, n, t
<1>4. IsFiniteSet(1 .. n) /\ n + 1 \notin 1 .. n /\ 1 .. n + 1 = 1 .. n \cup {n + 1}
  <2>1. n \in Nat
    BY <1>1
  <2>2. IsFiniteSet(1 .. n)
    BY <2>1, FS_Interval
  <2> QED
    BY <2>1, <2>2
<1> DEFINE S == 1 .. n
<1>5. /\ IsFiniteSet(S) /\ n + 1 \notin S /\ \A j \in S \cup {n + 1} : b[j] \in Int
      /\ \A j \in S : a[j] = b[j] /\ a[j] \in Nat
  BY <1>3, <1>4
<1>6. FramesIn(zoz) = SumFunctionOnSet(a, S) /\ FramesIn(t) = SumFunctionOnSet(b, S \cup {n + 1})
  BY <1>2, <1>4
<1> HIDE DEF S
<1>7. SumFunctionOnSet(b, S \cup {n + 1}) = b[n + 1] + SumFunctionOnSet(b, S)
  BY <1>5, SumAdd
<1>8. SumFunctionOnSet(a, S) = SumFunctionOnSet(b, S) /\ SumFunctionOnSet(a, S) \in Nat
  <2>1. SumFunctionOnSet(a, S) = SumFunctionOnSet(b, S)
    BY <1>5, SumEqual
  <2> QED
    BY <1>5, <2>1, SumType
<1>9. FramesIn(t) = FramesIn(zoz) + 1 /\ FramesIn(zoz) \in Nat
  BY <1>3, <1>6, <1>7, <1>8
<1> QED
  BY <1>9 DEF t

LEMMA OneMoreFrame ==
    ASSUME NEW zoz, IsList(zoz), \A j \in DOMAIN zoz : zoz[j].pocet \in Nat,
           NEW t, DOMAIN t = DOMAIN zoz, NEW i \in DOMAIN zoz,
           t[i].pocet = zoz[i].pocet + 1, \A j \in DOMAIN zoz \ {i} : t[j] = zoz[j]
    PROVE  FramesIn(t) = FramesIn(zoz) + 1 /\ FramesIn(zoz) \in Nat
<1> DEFINE D == DOMAIN zoz
           a == [j \in D |-> zoz[j].pocet]
           b == [j \in D |-> t[j].pocet]
<1>1. IsFiniteSet(D)
  <2>1. PICK n \in Nat : DOMAIN zoz = 1 .. n
    BY Appended
  <2>2. IsFiniteSet(1 .. n)
    BY FS_Interval
  <2> QED
    BY <2>1, <2>2
<1>2. FramesIn(zoz) = SumFunctionOnSet(a, D) /\ FramesIn(t) = SumFunctionOnSet(b, D)
  BY DEF FramesIn, SumFunction
<1>3. /\ \A j \in D \ {i} : a[j] = b[j]
      /\ \A j \in D : a[j] \in Nat /\ b[j] \in Nat
      /\ b[i] = a[i] + 1
  OBVIOUS
<1> HIDE DEF a, b, D
<1>4. i \in D /\ IsFiniteSet(D \ {i})
  BY <1>1, FS_Difference DEF D
<1>5. SumFunctionOnSet(a, D) = a[i] + SumFunctionOnSet(a, D \ {i})
  BY <1>1, <1>3, <1>4, SumTakeOut
<1>6. SumFunctionOnSet(b, D) = b[i] + SumFunctionOnSet(b, D \ {i})
  BY <1>1, <1>3, <1>4, SumTakeOut
<1>7. SumFunctionOnSet(a, D \ {i}) = SumFunctionOnSet(b, D \ {i})
  BY <1>3, <1>4, SumEqual
<1>8. SumFunctionOnSet(a, D) \in Nat /\ SumFunctionOnSet(a, D \ {i}) \in Nat
  BY <1>1, <1>3, <1>4, SumType
<1> QED
  BY <1>2, <1>3, <1>4, <1>5, <1>6, <1>7, <1>8

LEMMA CountedKeepsList ==
    ASSUME NEW h, NEW r, NEW zoz, NEW B, IsFiniteSet(B), NEW cap, NEW e, e \notin B,
           ListRight(zoz, h.is_ipv6ext, B, cap), h.is_ipv6ext \in BOOLEAN,
           IsPair(h.mac), IsPair(Addresses(h)), KeyIn(cap, e) = <<h.mac, Addresses(h)>>
    PROVE  ListRight(Counted(zoz, h, r), h.is_ipv6ext, B \cup {e}, cap)
<1> DEFINE v6 == h.is_ipv6ext
           hits == {j \in DOMAIN zoz : IsOf(zoz[j], h)}
           C == B \cup {e}
           N(z) == {k \in B : Key(z) = KeyIn(cap, k)}
           M(z) == {k \in C : Key(z) = KeyIn(cap, k)}
<1>1. /\ Cardinality(C) = Cardinality(B) + 1 /\ Cardinality(B) \in Nat
      /\ DOMAIN zoz = 1 .. Len(zoz) /\ Len(zoz) \in Nat
  BY FS_AddElement, FS_CardinalityType, Appended DEF ListRight
<1>2. ASSUME NEW z
      PROVE  /\ IsOf(z, h) <=> Key(z) = KeyIn(cap, e)
             /\ M(z) = IF Key(z) = KeyIn(cap, e) THEN N(z) \cup {e} ELSE N(z)
             /\ Cardinality(N(z) \cup {e}) = Cardinality(N(z)) + 1
             /\ Cardinality(N(z)) \in Nat
  <2>1. IsOf(z, h) <=> Key(z) = KeyIn(cap, e)
    BY DEF IsOf, Key, IsPair
  <2>2. M(z) = IF Key(z) = KeyIn(cap, e) THEN N(z) \cup {e} ELSE N(z)
    OBVIOUS
  <2>3. IsFiniteSet(N(z)) /\ e \notin N(z)
    BY FS_Subset
  <2> QED
    BY <2>1, <2>2, <2>3, FS_AddElement, FS_CardinalityType
<1>3. CASE hits = {}
  <2> DEFINE z == NewRecord(h, r)
             t == Append(zoz, z)
  <2>1. Counted(zoz, h, r) = t
    BY <1>3 DEF Counted
  <2>2. DOMAIN z = RecordFields /\ z.pocet = 1
    BY DEF NewRecord, RecordFields
  <2>3. ~v6 => Key(z) = KeyIn(cap, e)
    BY DEF NewRecord, Key, IsPair
  <2> HIDE DEF z
  <2>4. /\ IsList(t) /\ DOMAIN t = 1 .. Len(zoz) + 1
        /\ \A j \in 1 .. Len(zoz) : t[j] = zoz[j]
        /\ t[Len(zoz) + 1] = z
    BY Appended DEF ListRight
  <2>5. FramesIn(t) = Cardinality(C)
    BY <1>1, <2>2, OneMoreRecord DEF ListRight
  <2> HIDE DEF t
  <2>6. \A j \in DOMAIN t : DOMAIN t[j] = RecordFields /\ t[j].pocet \in Nat
    BY <1>1, <2>2, <2>4 DEF ListRight
  <2>7. ASSUME ~v6 PROVE KeysRight(t, C, cap)
    <3>1. KeysRight(zoz, B, cap)
      BY <2>7 DEF ListRight
    <3>2. \A j \in 1 .. Len(zoz) : Key(zoz[j]) # KeyIn(cap, e)
      BY <1>1, <1>2, <1>3
    <3>3. N(z) = {}
      BY <1>1, <2>3, <2>7, <3>1, <3>2 DEF KeysRight
    <3>4. Cardinality(M(z)) = 1
      BY <1>2, <2>3, <2>7, <3>3, FS_EmptySet
    <3>5. \A j \in 1 .. Len(zoz) : zoz[j].pocet = Cardinality(M(zoz[j]))
      BY <1>1, <1>2, <3>1, <3>2 DEF KeysRight
    <3>6. \A j \in DOMAIN t : t[j].pocet = Cardinality(M(t[j]))
      <4>1. \A j \in DOMAIN t : j \in 1 .. Len(zoz) \/ j = Len(zoz) + 1
        BY <1>1, <2>4
      <4> HIDE DEF M
      <4> QED
        BY <2>2, <2>4, <3>4, <3>5, <4>1
    <3>7. \A i, j \in DOMAIN t : Key(t[i]) = Key(t[j]) => i = j
      <4>1. \A j \in DOMAIN t : j \in 1 .. Len(zoz) \/ j = Len(zoz) + 1
        BY <1>1, <2>4
      <4> QED
        BY <1>1, <2>3, <2>4, <2>7, <3>1, <3>2, <4>1 DEF KeysRight
    <3>8. \A k \in C : \E j \in DOMAIN t : Key(t[j]) = KeyIn(cap, k)
      <4>1. ASSUME NEW k \in B PROVE \E j \in DOMAIN t : Key(t[j]) = KeyIn(cap, k)
        <5>1. PICK j \in 1 .. Len(zoz) : Key(zoz[j]) = KeyIn(cap, k)
          BY <1>1, <3>1 DEF KeysRight
        <5>2. j \in DOMAIN t /\ t[j] = zoz[j]
          BY <1>1, <2>4
        <5> QED
          BY <5>1, <5>2
      <4>2. Len(zoz) + 1 \in DOMAIN t
        BY <1>1, <2>4
      <4> QED
        BY <2>3, <2>4, <2>7, <4>1, <4>2
    <3> QED
      BY <3>6, <3>7, <3>8 DEF KeysRight
  <2> QED
    BY <2>1, <2>4, <2>5, <2>6, <2>7 DEF ListRight
<1>4. CASE hits # {}
  <2> DEFINE i == Min(hits)
             t == [zoz EXCEPT ![i].pocet = @ + 1]
  <2>1. Counted(zoz, h, r) = t
    BY <1>4 DEF Counted
  <2>2. i \in hits
    <3>1. hits \in SUBSET Nat
      BY <1>1
    <3> HIDE DEF hits
    <3> QED
      BY <1>4, <3>1, LeastNumber
  <2>3. i \in DOMAIN zoz /\ Key(zoz[i]) = KeyIn(cap, e)
    BY <1>2, <2>2
  <2>4. /\ DOMAIN t = DOMAIN zoz /\ t[i] = [zoz[i] EXCEPT !.pocet = @ + 1]
        /\ \A j \in DOMAIN zoz \ {i} : t[j] = zoz[j]
    BY <2>3
  <2>5. /\ DOMAIN t[i] = RecordFields /\ t[i].pocet = zoz[i].pocet + 1
        /\ Key(t[i]) = Key(zoz[i]) /\ zoz[i].pocet \in Nat
    BY <2>3, <2>4 DEF ListRight, RecordFields, Key
  <2>6. IsList(t)
    <3>1. PICK S : zoz \in Seq(S)
      BY DEF ListRight, IsList
    <3>2. t \in Seq(S \cup {t[i]})
      BY <2>3, <3>1
    <3> QED
      BY <3>2 DEF IsList
  <2> HIDE DEF t, i, hits
  <2>7. FramesIn(t) = Cardinality(C)
    <3>1. IsList(zoz) /\ (\A j \in DOMAIN zoz : zoz[j].pocet \in Nat) /\ FramesIn(zoz) = Cardinality(B)
      BY DEF ListRight
    <3>2. FramesIn(t) = FramesIn(zoz) + 1
      BY <2>3, <2>4, <2>5, <3>1, OneMoreFrame
    <3> QED
      BY <1>1, <3>1, <3>2
  <2>8. ASSUME NEW j \in DOMAIN t PROVE DOMAIN t[j] = RecordFields /\ t[j].pocet \in Nat
    <3>1. CASE j = i
      <4>1. zoz[i].pocet + 1 \in Nat
        BY <2>5
      <4> QED
        BY <2>5, <3>1, <4>1
    <3>2. CASE j # i
      <4>1. j \in DOMAIN zoz /\ t[j] = zoz[j]
        BY <2>4, <3>2
      <4> QED
        BY <4>1 DEF ListRight
    <3> QED
      BY <3>1, <3>2
  <2>9. ASSUME ~v6 PROVE KeysRight(t, C, cap)
    <3>1. KeysRight(zoz, B, cap)
      BY <2>9 DEF ListRight
    <3>2. \A j \in DOMAIN t : Key(t[j]) = Key(zoz[j])
      BY <2>4, <2>5
    <3>3. \A j \in DOMAIN t \ {i} : Key(zoz[j]) # KeyIn(cap, e)
      BY <2>3, <2>4, <3>1 DEF KeysRight
    <3>4. ASSUME NEW j \in DOMAIN t PROVE t[j].pocet = Cardinality({k \in C : Key(t[j]) = KeyIn(cap, k)})
      <4>1. zoz[j].pocet = Cardinality(N(zoz[j])) /\ M(t[j]) = M(zoz[j])
        BY <2>4, <3>1, <3>2 DEF KeysRight
      <4>2. CASE j = i
        BY <1>2, <2>3, <2>5, <4>1, <4>2
      <4>3. CASE j # i
        <5>1. t[j] = zoz[j]
          BY <2>4, <4>3
        <5>2. M(zoz[j]) = N(zoz[j])
          BY <1>2, <3>3, <4>3
        <5> QED
          BY <4>1, <5>1, <5>2
      <4> QED
        BY <4>2, <4>3
    <3>5. \A j, k \in DOMAIN t : Key(t[j]) = Key(t[k]) => j = k
      BY <2>4, <3>1, <3>2 DEF KeysRight
    <3>6. \A k \in C : \E j \in DOMAIN t : Key(t[j]) = KeyIn(cap, k)
      BY <2>3, <2>4, <3>1, <3>2 DEF KeysRight
    <3> QED
      BY <3>4, <3>5, <3>6 DEF KeysRight
  <2> QED
    BY <2>1, <2>6, <2>7, <2>8, <2>9 DEF ListRight
<1> QED
  BY <1>3, <1>4

(* A list of protocols is right for the frames of `cap'.                     *)

Under(cap, name, v6) == {k \in DOMAIN cap : name \in cap[k].names /\ v6 = cap[k].v6}

ProtocolFields == {"protokol", "is_ipv6", "zoznam"}

SameProtocol(p, q) == p.protokol = q.protokol /\ p.is_ipv6 = q.is_ipv6

ListsRight(zac, cap) ==
    /\ IsList(zac)
    /\ \A l \in DOMAIN zac :
          /\ DOMAIN zac[l] = ProtocolFields
          /\ ListRight(zac[l].zoznam, zac[l].is_ipv6,
                       Under(cap, zac[l].protokol, zac[l].is_ipv6), cap)
    /\ \A k, l \in DOMAIN zac : SameProtocol(zac[k], zac[l]) => k = l
    /\ \A k \in DOMAIN cap : \A n \in cap[k].names : ListOf(zac, n, cap[k].v6) # {}

(* Frames that differ only in their names.                                   *)
SameButNames(c, d) == c.v6 = d.v6 /\ c.mac = d.mac /\ c.ip = d.ip

(* Only the keys of the frames in B matter to a list.                        *)
LEMMA KeysMatter ==
    ASSUME NEW zoz, NEW v6, NEW B, NEW cap, NEW new, ListRight(zoz, v6, B, cap),
           \A k \in B : KeyIn(new, k) = KeyIn(cap, k)
    PROVE  ListRight(zoz, v6, B, new)
<1>1. ASSUME KeysRight(zoz, B, cap) PROVE KeysRight(zoz, B, new)
  <2>1. \A z : {k \in B : Key(z) = KeyIn(new, k)} = {k \in B : Key(z) = KeyIn(cap, k)}
    OBVIOUS
  <2> QED
    BY <1>1, <2>1 DEF KeysRight
<1> QED
  BY <1>1 DEF ListRight

(* m_protokoly books frame m of cap, which had other names before, under one *)
(* more name.                                                                *)
LEMMA OneMoreName ==
    ASSUME NEW h, h.is_ipv6ext \in BOOLEAN, IsPair(h.mac), IsPair(Addresses(h)), NEW r, NEW name,
           NEW cap, IsFiniteSet(DOMAIN cap), NEW m \in DOMAIN cap, name \notin cap[m].names,
           cap[m].v6 = h.is_ipv6ext, KeyIn(cap, m) = <<h.mac, Addresses(h)>>,
           NEW new, DOMAIN new = DOMAIN cap, \A k \in DOMAIN cap \ {m} : new[k] = cap[k],
           SameButNames(new[m], cap[m]), new[m].names = cap[m].names \cup {name},
           NEW zac, ListsRight(zac, cap)
    PROVE  ListsRight(MProtokoly(zac, name, h, r), new)
<1> DEFINE v6 == h.is_ipv6ext
           hits == ListOf(zac, name, v6)
<1>1. \A k \in DOMAIN cap : KeyIn(new, k) = KeyIn(cap, k) /\ new[k].v6 = cap[k].v6
  BY DEF KeyIn, SameButNames
<1>2. \A n, v : /\ Under(new, n, v) = IF n = name /\ v = v6 THEN Under(cap, n, v) \cup {m}
                                                      ELSE Under(cap, n, v)
                /\ IsFiniteSet(Under(cap, n, v)) /\ Under(cap, n, v) \subseteq DOMAIN cap
  <2>1. ASSUME NEW n, NEW v
        PROVE  Under(new, n, v) = IF n = name /\ v = v6 THEN Under(cap, n, v) \cup {m}
                                                      ELSE Under(cap, n, v)
    <3>1. \A k \in DOMAIN cap : n \in new[k].names <=> n \in cap[k].names \/ (k = m /\ n = name)
      OBVIOUS
    <3> QED
      BY <1>1, <3>1 DEF Under
  <2>2. \A n, v : Under(cap, n, v) \subseteq DOMAIN cap
    BY DEF Under
  <2>3. \A n, v : IsFiniteSet(Under(cap, n, v))
    BY <2>2, FS_Subset
  <2> QED
    BY <2>1, <2>2, <2>3
<1>3. m \notin Under(cap, name, v6)
  BY DEF Under
<1>4. /\ DOMAIN zac = 1 .. Len(zac) /\ Len(zac) \in Nat
  BY Appended DEF ListsRight
\* What the other lists are right for stays as it was.
<1>5. ASSUME NEW l \in DOMAIN zac, ~(zac[l].protokol = name /\ zac[l].is_ipv6 = v6)
      PROVE  ListRight(zac[l].zoznam, zac[l].is_ipv6,
                       Under(new, zac[l].protokol, zac[l].is_ipv6), new)
  <2>1. Under(new, zac[l].protokol, zac[l].is_ipv6) = Under(cap, zac[l].protokol, zac[l].is_ipv6)
    BY <1>2, <1>5
  <2>2. ListRight(zac[l].zoznam, zac[l].is_ipv6,
                  Under(cap, zac[l].protokol, zac[l].is_ipv6), cap)
    BY DEF ListsRight
  <2> QED
    BY <1>1, <1>2, <2>1, <2>2, KeysMatter
\* A list that was right for the frames before is right with this one.
<1>6. ASSUME NEW zoz, ListRight(zoz, v6, Under(cap, name, v6), cap)
      PROVE  ListRight(Counted(zoz, h, r), v6, Under(new, name, v6), new)
  <2>1. ListRight(Counted(zoz, h, r), v6, Under(cap, name, v6) \cup {m}, cap)
    BY <1>2, <1>3, <1>6, CountedKeepsList
  <2>2. Under(new, name, v6) = Under(cap, name, v6) \cup {m}
    BY <1>2
  <2>3. \A k \in Under(cap, name, v6) \cup {m} : KeyIn(new, k) = KeyIn(cap, k)
    BY <1>1, <1>2
  <2> QED
    BY <2>1, <2>2, <2>3, KeysMatter
<1>7. ASSUME NEW zab, NEW k \in DOMAIN cap, NEW n \in new[k].names,
             \A l \in DOMAIN zac : l \in DOMAIN zab /\ SameProtocol(zab[l], zac[l]),
             ListOf(zab, name, v6) # {}
      PROVE  ListOf(zab, n, new[k].v6) # {}
  <2>1. CASE n \in cap[k].names
    <3>1. PICK l \in ListOf(zac, n, cap[k].v6) : TRUE
      BY <2>1 DEF ListsRight
    <3>2. l \in ListOf(zab, n, new[k].v6)
      BY <1>1, <1>7, <3>1 DEF ListOf, SameProtocol
    <3> QED
      BY <3>2
  <2>2. CASE n \notin cap[k].names
    <3>1. k = m /\ n = name
      BY <2>2
    <3> QED
      BY <1>1, <1>7, <3>1
  <2> QED
    BY <2>1, <2>2
<1>8. CASE hits = {}
  <2> DEFINE p == [protokol |-> name, is_ipv6 |-> v6, zoznam |-> <<NewRecord(h, r)>>]
             zab == Append(zac, p)
  <2>1. MProtokoly(zac, name, h, r) = zab
    BY <1>8 DEF MProtokoly
  <2>2. Under(cap, name, v6) = {}
    BY <1>8 DEF ListsRight, Under
  <2>3. ListRight(<<NewRecord(h, r)>>, v6, Under(new, name, v6), new)
    <3>1. <<>> \in Seq({}) /\ DOMAIN <<>> = {}
      OBVIOUS
    <3>2. FramesIn(<<>>) = 0
      <4>1. FramesIn(<<>>) = SumFunctionOnSet([j \in DOMAIN <<>> |-> <<>>[j].pocet], {})
        BY <3>1 DEF FramesIn, SumFunction
      <4> QED
        BY <4>1, SumOfFew
    <3>3. ListRight(<<>>, v6, {}, cap)
      BY <3>1, <3>2, FS_EmptySet DEF ListRight, KeysRight, IsList
    <3>4. Counted(<<>>, h, r) = <<NewRecord(h, r)>>
      <4>1. {j \in DOMAIN <<>> : IsOf(<<>>[j], h)} = {}
        BY <3>1
      <4>2. Counted(<<>>, h, r) = Append(<<>>, NewRecord(h, r))
        BY <4>1 DEF Counted
      <4> QED
        BY <4>2
    <3> QED
      BY <1>6, <2>2, <3>3, <3>4
  <2>4. /\ DOMAIN p = ProtocolFields /\ p.protokol = name /\ p.is_ipv6 = v6
        /\ p.zoznam = <<NewRecord(h, r)>>
    BY DEF ProtocolFields
  <2> HIDE DEF p
  <2>5. /\ IsList(zab) /\ DOMAIN zab = 1 .. Len(zac) + 1
        /\ \A l \in 1 .. Len(zac) : zab[l] = zac[l]
        /\ zab[Len(zac) + 1] = p
    BY Appended DEF ListsRight
  <2> HIDE DEF zab
  <2>6. \A l \in DOMAIN zab : l \in DOMAIN zac \/ l = Len(zac) + 1
    BY <1>4, <2>5
  <2>7. \A l \in DOMAIN zac : l \in DOMAIN zab /\ zab[l] = zac[l]
    BY <1>4, <2>5
  <2>8. \A l \in DOMAIN zac : ~(zac[l].protokol = name /\ zac[l].is_ipv6 = v6)
    BY <1>8 DEF ListOf
  <2>9. ASSUME NEW l \in DOMAIN zab
        PROVE  /\ DOMAIN zab[l] = ProtocolFields
               /\ ListRight(zab[l].zoznam, zab[l].is_ipv6,
                            Under(new, zab[l].protokol, zab[l].is_ipv6), new)
    <3>1. CASE l \in DOMAIN zac
      BY <1>5, <2>7, <2>8, <3>1 DEF ListsRight
    <3>2. CASE l = Len(zac) + 1
      BY <2>3, <2>4, <2>5, <3>2
    <3> QED
      BY <2>6, <3>1, <3>2
  <2>10. ASSUME NEW k \in DOMAIN zab, NEW l \in DOMAIN zab, SameProtocol(zab[k], zab[l])
         PROVE  k = l
    <3>1. CASE k \in DOMAIN zac /\ l \in DOMAIN zac
      BY <2>7, <2>10, <3>1 DEF ListsRight
    <3>2. CASE k \in DOMAIN zac /\ l = Len(zac) + 1
      BY <2>4, <2>5, <2>7, <2>8, <2>10, <3>2 DEF SameProtocol
    <3>3. CASE l \in DOMAIN zac /\ k = Len(zac) + 1
      BY <2>4, <2>5, <2>7, <2>8, <2>10, <3>3 DEF SameProtocol
    <3> QED
      BY <2>6, <3>1, <3>2, <3>3
  <2>11. ListOf(zab, name, v6) # {}
    <3>1. Len(zac) + 1 \in DOMAIN zab
      BY <1>4, <2>5
    <3> QED
      BY <2>4, <2>5, <3>1 DEF ListOf
  <2>12. \A k \in DOMAIN new : \A n \in new[k].names : ListOf(zab, n, new[k].v6) # {}
    BY <1>7, <2>7, <2>11 DEF SameProtocol
  <2> QED
    BY <2>1, <2>5, <2>9, <2>10, <2>12 DEF ListsRight
<1>9. CASE hits # {}
  <2> DEFINE i == Min(hits)
             zab == [zac EXCEPT ![i].zoznam = Counted(@, h, r)]
  <2>1. MProtokoly(zac, name, h, r) = zab
    BY <1>9 DEF MProtokoly
  <2>2. i \in hits
    <3>1. hits \in SUBSET Nat
      BY <1>4 DEF ListOf
    <3> HIDE DEF hits
    <3> QED
      BY <1>9, <3>1, LeastNumber
  <2>3. i \in DOMAIN zac /\ zac[i].protokol = name /\ zac[i].is_ipv6 = v6
    BY <2>2 DEF ListOf
  <2>4. /\ DOMAIN zab = DOMAIN zac
        /\ zab[i] = [zac[i] EXCEPT !.zoznam = Counted(zac[i].zoznam, h, r)]
        /\ \A l \in DOMAIN zac \ {i} : zab[l] = zac[l]
    BY <2>3
  <2>5. /\ DOMAIN zab[i] = ProtocolFields /\ SameProtocol(zab[i], zac[i])
        /\ zab[i].zoznam = Counted(zac[i].zoznam, h, r)
    BY <2>3, <2>4 DEF ListsRight, ProtocolFields, SameProtocol
  <2>6. IsList(zab)
    <3>1. PICK S : zac \in Seq(S)
      BY DEF ListsRight, IsList
    <3>2. zab \in Seq(S \cup {zab[i]})
      BY <2>3, <3>1
    <3> QED
      BY <3>2 DEF IsList
  <2> HIDE DEF zab, i, hits
  <2>7. \A l \in DOMAIN zac : SameProtocol(zab[l], zac[l])
    BY <2>4, <2>5 DEF SameProtocol
  <2>8. \A l \in DOMAIN zac \ {i} : ~(zac[l].protokol = name /\ zac[l].is_ipv6 = v6)
    BY <2>3 DEF ListsRight, SameProtocol
  <2>9. ASSUME NEW l \in DOMAIN zab
        PROVE  /\ DOMAIN zab[l] = ProtocolFields
               /\ ListRight(zab[l].zoznam, zab[l].is_ipv6,
                            Under(new, zab[l].protokol, zab[l].is_ipv6), new)
    <3>1. CASE l = i
      <4>1. ListRight(zac[i].zoznam, v6, Under(cap, name, v6), cap)
        BY <2>3 DEF ListsRight
      <4>2. zab[l].protokol = name /\ zab[l].is_ipv6 = v6
        BY <2>3, <2>5, <3>1 DEF SameProtocol
      <4> QED
        BY <1>6, <2>5, <3>1, <4>1, <4>2
    <3>2. CASE l # i
      BY <1>5, <2>4, <2>8, <3>2 DEF ListsRight
    <3> QED
      BY <3>1, <3>2
  <2>10. \A k, l \in DOMAIN zab : SameProtocol(zab[k], zab[l]) => k = l
    BY <2>4, <2>7 DEF ListsRight, SameProtocol
  <2>11. ListOf(zab, name, v6) # {}
    BY <2>3, <2>4, <2>7 DEF ListOf, SameProtocol
  <2>12. \A k \in DOMAIN new : \A n \in new[k].names : ListOf(zab, n, new[k].v6) # {}
    BY <1>7, <2>4, <2>7, <2>11
  <2> QED
    BY <2>1, <2>6, <2>9, <2>10, <2>12 DEF ListsRight
<1> QED
  BY <1>8, <1>9

(* A frame booked under all its names.                                       *)
FrameUnder(f, h, N) == [f |-> f, names |-> N, v6 |-> h.is_ipv6ext, mac |-> h.mac, ip |-> Addresses(h)]

(* One frame more that has no name changes nothing.                          *)
LEMMA NamelessFrame ==
    ASSUME NEW zac, NEW cap, IsList(cap), ListsRight(zac, cap), NEW d, d.names = {}
    PROVE  ListsRight(zac, Append(cap, d))
<1> DEFINE new == Append(cap, d)
<1>1. /\ DOMAIN cap = 1 .. Len(cap) /\ Len(cap) \in Nat /\ DOMAIN new = 1 .. Len(cap) + 1
      /\ \A k \in 1 .. Len(cap) : new[k] = cap[k]
      /\ new[Len(cap) + 1] = d
  BY Appended
<1> HIDE DEF new
<1>2. /\ \A k \in DOMAIN new : k \in DOMAIN cap \/ new[k].names = {}
      /\ \A k \in DOMAIN cap : k \in DOMAIN new /\ new[k] = cap[k]
  BY <1>1
<1>3. \A n, v : /\ Under(new, n, v) = Under(cap, n, v)
                /\ \A k \in Under(cap, n, v) : KeyIn(new, k) = KeyIn(cap, k)
  BY <1>2 DEF Under, KeyIn
<1>4. ASSUME NEW l \in DOMAIN zac
      PROVE  ListRight(zac[l].zoznam, zac[l].is_ipv6,
                       Under(new, zac[l].protokol, zac[l].is_ipv6), new)
  BY <1>3, KeysMatter DEF ListsRight
<1>5. \A k \in DOMAIN new : \A n \in new[k].names : ListOf(zac, n, new[k].v6) # {}
  BY <1>2 DEF ListsRight
<1> QED
  BY <1>4, <1>5 DEF ListsRight, new

LEMMA BookedKeepsLists ==
    ASSUME NEW h, h.is_ipv6ext \in BOOLEAN, IsPair(h.mac), IsPair(Addresses(h)), NEW f, NEW r,
           NEW cap, IsList(cap), ListsRight(z_protokoly, cap)
    PROVE  ListsRight(Booked(h, r), Append(cap, FrameUnder(f, h, Elements(Names(h)))))
<1> DEFINE N == Names(h)
           L == Len(N)
           Step(zac, k) == MProtokoly(zac, N[k], h, r[k])
           Is(e, n) == e = [k \in 0 .. n |-> IF k = 0 THEN z_protokoly ELSE Step(e[k - 1], k)]
           Bad == {n \in Nat : ~\E e : Is(e, n)}
           First(k) == {N[j] : j \in 1 .. k}
           With(k) == Append(cap, FrameUnder(f, h, First(k)))
<1>1. L \in Nat /\ DOMAIN N = 1 .. L /\ Distinct(N)
  BY NamesAre
<1>2. Booked(h, r) = (CHOOSE e : Is(e, L))[L]
  BY DEF Booked
<1> HIDE DEF N, L, Step
<1>3. \E e : Is(e, L)
  <2> SUFFICES Bad = {}
    BY <1>1
  <2> SUFFICES ASSUME Bad # {} PROVE FALSE
    OBVIOUS
  <2> HIDE DEF Is
  <2>1. Bad \in SUBSET Nat
    OBVIOUS
  <2>2. PICK n \in Bad : \A k \in Bad : n <= k
    BY <2>1, LeastNumber
  <2>3. n # 0
    <3>1. Is([k \in 0 .. 0 |-> z_protokoly], 0)
      BY DEF Is
    <3> QED
      BY <2>2, <3>1
  <2>4. n - 1 \in Nat /\ n - 1 \notin Bad /\ n \in Nat
    BY <2>2, <2>3
  <2>5. PICK a : Is(a, n - 1)
    BY <2>4
  <2> DEFINE e == [k \in 0 .. n |-> IF k < n THEN a[k] ELSE Step(a[k - 1], k)]
  <2>6. \A k \in 0 .. n - 1 : e[k] = a[k]
    BY <2>4
  <2>7. \A k \in 0 .. n - 1 : a[k] = IF k = 0 THEN z_protokoly ELSE Step(a[k - 1], k)
    BY <2>5 DEF Is
  <2>8. e[n] = Step(a[n - 1], n)
    BY <2>4
  <2>9. DOMAIN e = 0 .. n /\ e = [k \in 0 .. n |-> e[k]]
    OBVIOUS
  <2> HIDE DEF e
  <2>10. \A k \in 0 .. n : e[k] = IF k = 0 THEN z_protokoly ELSE Step(e[k - 1], k)
    <3>1. e[n] = Step(e[n - 1], n)
      BY <2>3, <2>4, <2>6, <2>8
    <3>2. ASSUME NEW k \in 0 .. n - 1 PROVE e[k] = IF k = 0 THEN z_protokoly ELSE Step(e[k - 1], k)
      <4>1. e[k] = a[k] /\ (k # 0 => e[k - 1] = a[k - 1])
        BY <2>4, <2>6
      <4> QED
        BY <2>7, <4>1
    <3> QED
      BY <2>3, <2>4, <3>1, <3>2
  <2>11. Is(e, n)
    BY <2>9, <2>10 DEF Is
  <2> QED
    BY <2>2, <2>11
<1>4. PICK after : after = (CHOOSE e : Is(e, L)) /\ Is(after, L)
  BY <1>3
<1>5. /\ after[0] = z_protokoly
      /\ \A k \in 1 .. L : after[k] = Step(after[k - 1], k)
  <2>1. \A k \in 0 .. L : after[k] = IF k = 0 THEN z_protokoly ELSE Step(after[k - 1], k)
    BY <1>4
  <2>2. 0 \in 0 .. L /\ \A k \in 1 .. L : k \in 0 .. L /\ k # 0
    BY <1>1
  <2> QED
    BY <2>1, <2>2
<1> HIDE DEF Is
<1>6. ListsRight(after[0], With(0))
  <2>1. First(0) = {}
    OBVIOUS
  <2>2. FrameUnder(f, h, First(0)).names = {}
    BY <2>1 DEF FrameUnder
  <2> QED
    BY <1>5, <2>2, NamelessFrame
<1>7. ASSUME NEW k \in 1 .. L, ListsRight(after[k - 1], With(k - 1))
      PROVE  ListsRight(after[k], With(k))
  <2> DEFINE old == With(k - 1)
             new == With(k)
             m == Len(cap) + 1
  <2>1. k \in Nat /\ k - 1 \in Nat /\ k \in DOMAIN N
    BY <1>1
  <2>2. N[k] \notin First(k - 1) /\ First(k) = First(k - 1) \cup {N[k]}
    <3>1. \A j \in 1 .. k - 1 : j \in DOMAIN N /\ j # k
      BY <1>1, <2>1
    <3>2. N[k] \notin First(k - 1)
      BY <1>1, <2>1, <3>1 DEF Distinct
    <3>3. 1 .. k = (1 .. k - 1) \cup {k}
      BY <2>1
    <3> QED
      BY <3>2, <3>3
  <2>3. \A n : /\ FrameUnder(f, h, First(n)).names = First(n)
               /\ FrameUnder(f, h, First(n)).v6 = h.is_ipv6ext
               /\ FrameUnder(f, h, First(n)).mac = h.mac
               /\ FrameUnder(f, h, First(n)).ip = Addresses(h)
    BY DEF FrameUnder
  <2>4. /\ DOMAIN old = 1 .. m /\ DOMAIN new = 1 .. m /\ m \in 1 .. m
        /\ \A n \in 1 .. m : n = m \/ new[n] = old[n]
        /\ old[m] = FrameUnder(f, h, First(k - 1)) /\ new[m] = FrameUnder(f, h, First(k))
    <3>1. /\ DOMAIN old = 1 .. m /\ \A n \in 1 .. Len(cap) : old[n] = cap[n]
          /\ old[m] = FrameUnder(f, h, First(k - 1))
      BY Appended
    <3>2. /\ DOMAIN new = 1 .. m /\ \A n \in 1 .. Len(cap) : new[n] = cap[n]
          /\ new[m] = FrameUnder(f, h, First(k))
      BY Appended
    <3>3. \A n \in 1 .. m : n = m \/ n \in 1 .. Len(cap)
      BY Appended
    <3>4. m \in 1 .. m
      BY Appended
    <3> HIDE DEF old, new, m
    <3> QED
      BY <3>1, <3>2, <3>3, <3>4
  <2>5. IsFiniteSet(1 .. m)
    <3>1. m \in Nat
      BY Appended
    <3> HIDE DEF m
    <3> QED
      BY <3>1, FS_Interval
  <2> HIDE DEF old, new, m, First
  <2>6. /\ KeyIn(old, m) = <<h.mac, Addresses(h)>> /\ old[m].v6 = h.is_ipv6ext
        /\ SameButNames(new[m], old[m])
        /\ N[k] \notin old[m].names /\ new[m].names = old[m].names \cup {N[k]}
    BY <2>2, <2>3, <2>4 DEF KeyIn, SameButNames
  <2>7. ListsRight(after[k - 1], old)
    BY <1>7 DEF old
  <2>8. ListsRight(MProtokoly(after[k - 1], N[k], h, r[k]), new)
    <3>1. IsFiniteSet(DOMAIN old) /\ m \in DOMAIN old /\ DOMAIN new = DOMAIN old
      BY <2>4, <2>5
    <3>2. \A n \in DOMAIN old \ {m} : new[n] = old[n]
      BY <2>4
    <3>3. PICK name, q : name = N[k] /\ q = r[k]
      OBVIOUS
    <3>4. name \notin old[m].names /\ new[m].names = old[m].names \cup {name}
      BY <2>6, <3>3
    <3>5. ListsRight(MProtokoly(after[k - 1], name, h, q), new)
      BY <2>6, <2>7, <3>1, <3>2, <3>4, OneMoreName
    <3> QED
      BY <3>3, <3>5
  <2> QED
    BY <1>5, <2>8 DEF new, Step
<1>8. ListsRight(after[L], With(L))
  <2> DEFINE W == {k \in Nat : k <= L /\ ~ListsRight(after[k], With(k))}
  <2> HIDE DEF With
  <2> SUFFICES ASSUME W # {} PROVE FALSE
    BY <1>1
  <2>1. PICK k \in W : \A j \in W : k <= j
    BY LeastNumber
  <2>2. k # 0
    BY <1>6, <2>1
  <2>3. k \in 1 .. L /\ k - 1 \in Nat /\ k - 1 \notin W /\ k - 1 <= L
    BY <1>1, <2>1, <2>2
  <2> QED
    BY <1>7, <2>1, <2>3
<1>9. First(L) = Elements(N)
  BY <1>1 DEF Elements
<1> QED
  BY <1>2, <1>4, <1>8, <1>9 DEF N

(* The lists of the interval are right for the frames captured in it.        *)
ListsInv == Cleared(g) /\ IsList(captured) /\ ListsRight(z_protokoly, captured)

LEMMA CaptureKeepsLists ==
    ASSUME ListsInv, NEW f \in FrameKinds, Capture(f)
    PROVE  ListsInv'
<1>1. PICK x \in Misreads : LET h == Decoded(f, x) IN
        /\ \E r \in [1 .. Len(Names(h)) -> IF h.is_ipv6ext THEN Rests ELSE {<<>>}] :
              z_protokoly' = Booked(h, r)
        /\ g' = ClearVariables(h)
        /\ captured' = Append(captured,
              [f |-> f, names |-> {Names(h)[k] : k \in DOMAIN Names(h)},
               v6 |-> h.is_ipv6ext, mac |-> h.mac, ip |-> Addresses(h)])
  BY Zenon DEF Capture
<1>2. PICK h : h = Decoded(f, x)
  OBVIOUS
<1>3. PICK r : z_protokoly' = Booked(h, r)
  BY <1>1, <1>2
<1>4. g' = ClearVariables(h) /\ captured' = Append(captured, FrameUnder(f, h, Elements(Names(h))))
  BY <1>1, <1>2, Zenon DEF FrameUnder, Elements
<1>5. IsGlobals(h) /\ IsPaired(h)
  BY <1>2, DecodedIsGlobals DEF ListsInv
<1>6. Cleared(g)'
  BY <1>4, <1>5, ClearedAgain
<1>7. h.is_ipv6ext \in BOOLEAN /\ IsPair(h.mac) /\ IsPair(Addresses(h))
  BY <1>5 DEF IsGlobals, IsPaired, Addresses
<1>8. ListsRight(Booked(h, r), Append(captured, FrameUnder(f, h, Elements(Names(h)))))
  BY <1>7, BookedKeepsLists DEF ListsInv
<1>9. IsList(captured)'
  BY <1>4, Appended DEF ListsInv
<1> QED
  BY <1>3, <1>4, <1>6, <1>8, <1>9 DEF ListsInv

LEMMA NoLists == IsList(<<>>) /\ ListsRight(<<>>, <<>>)
<1>1. <<>> \in Seq({}) /\ DOMAIN <<>> = {}
  OBVIOUS
<1> QED
  BY <1>1 DEF ListsRight, IsList

LEMMA FlushKeepsLists ==
    ASSUME ListsInv, FlushFrames
    PROVE  ListsInv'
<1>1. g' = g /\ captured' = <<>> /\ z_protokoly' = <<>>
  BY DEF FlushFrames
<1> QED
  BY <1>1, NoLists DEF ListsInv

(* Each protocol that a frame names has one list, and the list counts each   *)
(* frame of the interval once.                                               *)
LEMMA ListsAreMatched == ListsInv => ListsMatchFrames
<1> SUFFICES ASSUME ListsInv PROVE ListsMatchFrames
  OBVIOUS
<1>1. ASSUME NEW k \in DOMAIN captured, NEW n \in captured[k].names
      PROVE  Cardinality(ListOf(z_protokoly, n, captured[k].v6)) = 1
  <2>1. PICK l \in ListOf(z_protokoly, n, captured[k].v6) : TRUE
    BY DEF ListsInv, ListsRight
  <2>2. ListOf(z_protokoly, n, captured[k].v6) = {l}
    BY DEF ListsInv, ListsRight, ListOf, SameProtocol
  <2> QED
    BY <2>2, FS_Singleton
<1>2. ASSUME NEW l \in DOMAIN z_protokoly
      PROVE  LET p == z_protokoly[l] IN
             /\ FramesIn(p.zoznam) = Cardinality(BookedUnder(p))
             /\ p.is_ipv6 \/ \A j \in DOMAIN p.zoznam :
                   p.zoznam[j].pocet = Cardinality({k \in BookedUnder(p) :
                       Key(p.zoznam[j]) = <<captured[k].mac, captured[k].ip>>})
  <2> DEFINE p == z_protokoly[l]
  <2>1. BookedUnder(p) = Under(captured, p.protokol, p.is_ipv6)
    BY DEF BookedUnder, Under
  <2>2. ListRight(p.zoznam, p.is_ipv6, BookedUnder(p), captured)
    BY <2>1 DEF ListsInv, ListsRight
  <2> HIDE DEF p
  <2>3. FramesIn(p.zoznam) = Cardinality(BookedUnder(p))
    BY <2>2 DEF ListRight
  <2>4. ASSUME ~p.is_ipv6, NEW j \in DOMAIN p.zoznam
        PROVE  p.zoznam[j].pocet = Cardinality({k \in BookedUnder(p) :
                       Key(p.zoznam[j]) = <<captured[k].mac, captured[k].ip>>})
    BY <2>2, <2>4 DEF ListRight, KeysRight, KeyIn
  <2> QED
    BY <2>3, <2>4 DEF p
<1> QED
  BY <1>1, <1>2 DEF ListsMatchFrames

(* So in every run of the capture: no frame is lost, none is counted twice,  *)
(* and none under the record of another conversation.                        *)
THEOREM ListsCountEveryFrame == FramesSpec => []ListsMatchFrames
<1>1. FramesInit => ListsInv
  BY FramesStart, NoLists DEF FramesInit, ListsInv, ContentInv
<1>2. ListsInv /\ [FramesNext]_frames_vars => ListsInv'
  <2> SUFFICES ASSUME ListsInv, [FramesNext]_frames_vars PROVE ListsInv'
    OBVIOUS
  <2>1. CASE FlushFrames
    BY <2>1, FlushKeepsLists
  <2>2. ASSUME NEW f \in FrameKinds, Capture(f) PROVE ListsInv'
    BY <2>2, CaptureKeepsLists
  <2>3. CASE UNCHANGED frames_vars
    BY <2>3 DEF frames_vars, ListsInv
  <2> QED
    BY <2>1, <2>2, <2>3 DEF FramesNext
<1> QED
  BY <1>1, <1>2, ListsAreMatched, PTL DEF FramesSpec
=============================================================================
