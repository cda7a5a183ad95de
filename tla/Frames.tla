----------------------------------- MODULE Frames -----------------------------------
(*****************************************************************************)
(* From a captured frame to the records of its protocols and to the pairing  *)
(* of IP and MAC addresses (src/backend/katalyzer.c).                        *)
(*                                                                           *)
(* dispatcher_handler fills global variables from the headers it recognises, *)
(* layer by layer, books the frame under each enabled protocol they name     *)
(* (m_protokoly), notes the pair of addresses (pair_ip_with_mac), and clears *)
(* the globals for the next frame.  A frame is what its headers say; where   *)
(* the code computes a wrong offset, what it reads there is any value x.     *)
(* When the interval is over (Dispatcher) database() writes the pairs and    *)
(* hands the lists over (Pipeline, Aggregation).                             *)
(*****************************************************************************)
EXTENDS Naturals, Sequences, FiniteSetsExt

CONSTANTS
    FrameKinds,     \* frames: link, type, hw, mac, ip, trans, ext, ports
    Misreads,       \* what may stand at a wrong offset: trans, ports, mac, ip
    Enabled,        \* protocols switched on by the configuration
    TCP_portov, UDP_portov,     \* its ports, in order
    V4,             \* IPv4 addresses, and NoIp
    Rests           \* for the two addresses of a record: the words not copied

\* The protocols that have a name, by their layers.
DataLinks == {"E", "8", "S"}
Networks == {"IP", "IPv6", "ARP", "RARP", "IPX"}
Transports == {"TCP", "UDP", "ICMP", "ICMPv6", "IGMP"}

IsPair(p) == p = <<p[1], p[2]>>

ASSUME FramesAssumption ==
    /\ \A f \in FrameKinds :
          /\ f.link \in {"eth2", "llc", "snap", "sll", "ppp"}
          /\ f.type \notin DataLinks \cup Transports /\ f.trans \notin DataLinks \cup Networks
          /\ IsPair(f.hw) /\ IsPair(f.mac) /\ IsPair(f.ip)
    /\ \A x \in Misreads : IsPair(x.mac) /\ IsPair(x.ip)
    /\ Enabled \subseteq DataLinks \cup Networks \cup Transports
    /\ \A p \in {TCP_portov, UDP_portov} :
          /\ p \in Seq(Nat)
          /\ \A j, k \in DOMAIN p : p[j] # 0 /\ (p[j] = p[k] => j = k)

VARIABLES
    build,          \* "pcap" or "sock", which of the two programs runs
    g,              \* the global variables of the decoder
    z_protokoly,    \* list of protocols, each with its list of records
    z_pair_array,   \* pairs seen in this interval
    IPlist,         \* the table of the same name: the MAC of an IP address
    captured,       \* frames of this interval (history)
    lastSeen        \* MACs of an address when it was last seen (history)

frames_vars == <<build, g, z_protokoly, z_pair_array, IPlist, captured, lastSeen>>

\* An address is its first word and the rest; IPv4 addresses have no rest.
NoIp == <<"0.0.0.0", "v4">>
NoMac == "00"
None == "none"

\* Eor8, net_proto and trans_layer name a layer's protocol; pairs are source
\* and destination; ip6 stands for IPV6_adr_S and IPV6_adr_D.
NoGlobals ==
    [Eor8 |-> None, net_proto |-> None, trans_layer |-> None, ports |-> <<0, 0>>,
     mac |-> <<NoMac, NoMac>>, ip |-> <<NoIp, NoIp>>, ip6 |-> <<>>, is_ipv6ext |-> FALSE]

FramesInit ==
    /\ build \in {"pcap", "sock"}
    /\ g = NoGlobals
    /\ z_protokoly = <<>>
    /\ z_pair_array = <<>>
    /\ IPlist = [a \in V4 |-> None]
    /\ captured = <<>>
    /\ lastSeen = [a \in V4 |-> {}]

-----------------------------------------------------------------------------
(* The decoder: operators from globals h to globals.                         *)

SetParam == [g EXCEPT !.mac = <<NoMac, NoMac>>, !.ip = <<NoIp, NoIp>>,
                      !.ip6 = <<>>, !.is_ipv6ext = FALSE]

\* faulty: the names of the layers are kept for the next frame
ClearOnlyPorts(h) == [h EXCEPT !.ports = <<0, 0>>]

ClearVariables(h) ==
    [h EXCEPT !.Eor8 = None, !.net_proto = None, !.trans_layer = None,
              !.ports = <<0, 0>>, !.mac = <<NoMac, NoMac>>]

\* The offset of the transport header is reckoned as if an Ethernet II header
\* came before and each IPv6 extension header had its minimum size.
PortsAt(f, x) ==
    IF f.link = "eth2" /\ f.ext # "options" THEN f.ports ELSE x.ports

IpProtokol(h, f, x) ==
    [h EXCEPT !.is_ipv6ext = FALSE, !.ip = f.ip, !.trans_layer = f.trans,
              !.ports = IF f.trans \in {"TCP", "UDP"} THEN PortsAt(f, x) ELSE @]

LastHeader(f, x) == IF f.ext = "none" \/ f.link = "eth2" THEN f.trans ELSE x.trans

Ipv6Protokol(h, f, x) ==
    LET last == LastHeader(f, x)
    IN  [h EXCEPT !.is_ipv6ext = TRUE, !.ip6 = f.ip,
                  !.trans_layer = IF last \in {"TCP", "UDP", "ICMPv6"} THEN last ELSE @,
                  !.ports = IF last \in {"TCP", "UDP"} THEN PortsAt(f, x) ELSE @]

ArpProtokol(h, f, x) ==
    IF f.link = "sll" THEN [h EXCEPT !.mac = x.mac, !.ip = x.ip]
                      ELSE [h EXCEPT !.mac = f.hw, !.ip = f.ip]

NetworkLayer(h, f, x) ==
    CASE h.net_proto = "IP"   -> IpProtokol(h, f, x)
      [] h.net_proto = "IPv6" -> Ipv6Protokol(h, f, x)
      [] h.net_proto = "ARP"  -> ArpProtokol(h, f, x)
      [] OTHER -> h

\* The type of an 802.3 header is a length, which is no protocol's number.
TypeField(f) == IF f.link \in {"llc", "snap"} THEN "length" ELSE f.type

Eth2Frame(h, f, x) ==
    NetworkLayer([h EXCEPT !.Eor8 = "E", !.mac = f.mac, !.net_proto = TypeField(f)], f, x)

SllFrame(h, type, f, x) == NetworkLayer([h EXCEPT !.Eor8 = "S", !.net_proto = type], f, x)

Ieee802(h, f, x) ==
    LET e == [h EXCEPT !.Eor8 = "8", !.mac = f.mac]
    IN  IF f.link # "snap" THEN [e EXCEPT !.net_proto = "length"]
        ELSE [(IF f.type = "IP" THEN IpProtokol(e, f, x) ELSE e)
                EXCEPT !.net_proto = f.type]

\* pcap asks for the kind of link, and takes any frame of an Ethernet for
\* Ethernet II; sock looks at the frame.  SLL is for pcap, PPP for sock.
Decoded(f, x) ==
    CASE f.link = "sll" -> IF build = "pcap" THEN SllFrame(SetParam, f.type, f, x) ELSE SetParam
      [] f.link = "ppp" -> SllFrame(SetParam, "0", f, x)
      [] f.link = "eth2" \/ build = "pcap" -> Eth2Frame(SetParam, f, x)
      [] OTHER -> Ieee802(SetParam, f, x)

-----------------------------------------------------------------------------
(* The names a frame is booked under, in the order of the parse_ functions.  *)

\* The configuration has one switch for both versions of ICMP.
Switched(name) == (IF name = "ICMPv6" THEN "ICMP" ELSE name) \in Enabled

If(b, name) == IF b THEN <<<<name, 0>>>> ELSE <<>>

ParseDataLink(h) == If(h.Eor8 \in Enabled \cap DataLinks, h.Eor8)

ParseNetworkLayer(h) ==
    If(h.net_proto \in Enabled \cap Networks, h.net_proto)

ParseTransportLayer(h) ==
    If(h.trans_layer \in Transports /\ Switched(h.trans_layer), h.trans_layer)

PortMatches(h, port) == port \in {h.ports[1], h.ports[2]}

Applications(h, kind, portov) ==
    LET found[j \in 0 .. Len(portov)] ==
            IF j = 0 THEN <<>>
            ELSE IF PortMatches(h, portov[j]) THEN Append(found[j - 1], <<kind, portov[j]>>)
            ELSE found[j - 1]
    IN  found[Len(portov)]

ParseApplicationLayer(h) ==
    Applications(h, "TCP", TCP_portov) \o Applications(h, "UDP", UDP_portov)

Names(h) == ParseDataLink(h) \o ParseNetworkLayer(h) \o ParseTransportLayer(h)
                \o ParseApplicationLayer(h)

-----------------------------------------------------------------------------
(* m_protokoly.                                                              *)

Addresses(h) == IF h.is_ipv6ext THEN h.ip6 ELSE h.ip

\* Of an IPv6 address only the first word is copied, r is what was there.
NewRecord(h, r) ==
    LET a == Addresses(h)
        Copy(k) == IF h.is_ipv6ext THEN <<a[k][1], r[k]>> ELSE a[k]
    IN  [mac_s |-> h.mac[1], mac_d |-> h.mac[2], ip_s |-> Copy(1), ip_d |-> Copy(2),
         pocet |-> 1]

\* faulty: a frame of the other direction is counted in the same record
IsOfEither(z, h) == {z.ip_s, z.ip_d} = {Addresses(h)[1], Addresses(h)[2]}

IsOf(z, h) == /\ z.mac_s = h.mac[1] /\ z.mac_d = h.mac[2]
              /\ z.ip_s = Addresses(h)[1] /\ z.ip_d = Addresses(h)[2]

Counted(zoz, h, r) ==
    LET hits == {j \in DOMAIN zoz : IsOf(zoz[j], h)}
    IN  IF hits = {} THEN Append(zoz, NewRecord(h, r))
        ELSE [zoz EXCEPT ![Min(hits)].pocet = @ + 1]

\* faulty: the version of the address is not looked at
ListOfName(zac, name, v6) == {k \in DOMAIN zac : zac[k].protokol = name}

ListOf(zac, name, v6) ==
    {k \in DOMAIN zac : zac[k].protokol = name /\ zac[k].is_ipv6 = v6}

MProtokoly(zac, name, h, r) ==
    LET hits == ListOf(zac, name, h.is_ipv6ext)
    IN  IF hits = {}
        THEN Append(zac, [protokol |-> name, is_ipv6 |-> h.is_ipv6ext,
                          zoznam |-> <<NewRecord(h, r)>>])
        ELSE [zac EXCEPT ![Min(hits)].zoznam = Counted(@, h, r)]

Booked(h, r) ==
    LET N == Names(h)
        after[k \in 0 .. Len(N)] ==
            IF k = 0 THEN z_protokoly ELSE MProtokoly(after[k - 1], N[k], h, r[k])
    IN  after[Len(N)]

-----------------------------------------------------------------------------
(* pair_ip_with_mac.  An entry of IPv6 keeps the pointers to the addresses,  *)
(* which set_param frees at the next frame: what a comparison with an older  *)
(* entry finds is open, and so is what the flush writes to IPv6list, which   *)
(* is left out.                                                              *)

PairFound(h, b) ==
    \E n \in DOMAIN z_pair_array : LET p == z_pair_array[n] IN
        /\ p.mac = h.mac
        /\ p.is_ipv6 = h.is_ipv6ext
        /\ IF h.is_ipv6ext THEN b ELSE p.ip = h.ip

PairIpWithMac(h, b) ==
    z_pair_array' = IF PairFound(h, b) THEN z_pair_array
        ELSE Append(z_pair_array, [is_ipv6 |-> h.is_ipv6ext, mac |-> h.mac,
                                   ip |-> IF h.is_ipv6ext THEN <<>> ELSE h.ip])

\* dispatcher_handler up to the decision on the flush, and its last call.
Capture(f) ==
    /\ f.link = "ppp" => build = "sock"
    /\ \E x \in Misreads : LET h == Decoded(f, x) IN
        /\ \E r \in [1 .. Len(Names(h)) -> IF h.is_ipv6ext THEN Rests ELSE {<<>>}] :
              z_protokoly' = Booked(h, r)
        /\ \E b \in BOOLEAN : PairIpWithMac(h, b)
        /\ g' = ClearVariables(h)
        /\ captured' = Append(captured,
              [f |-> f, names |-> {Names(h)[k] : k \in DOMAIN Names(h)},
               v6 |-> h.is_ipv6ext, mac |-> h.mac, ip |-> Addresses(h)])
        /\ UNCHANGED <<build, IPlist, lastSeen>>

-----------------------------------------------------------------------------
(* The flush: insert_data_to_table, flush_data_into_db, clear_pairing_array. *)

EntriesOf(a) ==
    {n \in DOMAIN z_pair_array :
        /\ ~z_pair_array[n].is_ipv6
        /\ a \in {z_pair_array[n].ip[1], z_pair_array[n].ip[2]}}

\* The entries are inserted in order, each its source and then its destination.
InsertDataToTable ==
    IPlist' = [a \in V4 |->
        IF EntriesOf(a) = {} THEN IPlist[a]
        ELSE LET p == z_pair_array[Max(EntriesOf(a))]
             IN  IF p.ip[2] = a THEN p.mac[2] ELSE p.mac[1]]

\* faulty: the pairs of the interval are kept
PairsKept == z_pair_array

ClearPairingArray == <<>>

MacsSeen(a) ==
    {captured[q[1]].mac[q[2]] : q \in {r \in (DOMAIN captured) \X {1, 2} :
        ~captured[r[1]].v6 /\ captured[r[1]].ip[r[2]] = a}}

FlushFrames ==
    /\ InsertDataToTable
    /\ z_protokoly' = <<>>
    /\ z_pair_array' = ClearPairingArray
    /\ lastSeen' = [a \in V4 |-> IF MacsSeen(a) = {} THEN lastSeen[a] ELSE MacsSeen(a)]
    /\ captured' = <<>>
    /\ UNCHANGED <<build, g>>

FramesNext == FlushFrames \/ \E f \in FrameKinds : Capture(f)
FramesSpec == FramesInit /\ [][FramesNext]_frames_vars

-----------------------------------------------------------------------------
(* Properties.                                                               *)

Key(z) == <<<<z.mac_s, z.mac_d>>, <<z.ip_s, z.ip_d>>>>
FramesIn(zoz) == SumFunction([j \in DOMAIN zoz |-> zoz[j].pocet])
BookedUnder(p) ==
    {k \in DOMAIN captured : p.protokol \in captured[k].names /\ p.is_ipv6 = captured[k].v6}

(* Each enabled protocol that a frame names has one list for its version of  *)
(* IP, and the list counts every frame of the interval once, in the record   *)
(* of its conversation; for IPv6, whose addresses are copied in part         *)
(* (katalyzer.c:1124), at least no frame is lost or counted twice.           *)
ListsMatchFrames ==
    /\ \A k \in DOMAIN captured : \A n \in captured[k].names :
          Cardinality(ListOf(z_protokoly, n, captured[k].v6)) = 1
    /\ \A l \in DOMAIN z_protokoly : LET p == z_protokoly[l] IN
          /\ FramesIn(p.zoznam) = Cardinality(BookedUnder(p))
          /\ p.is_ipv6 \/ \A j \in DOMAIN p.zoznam :
                p.zoznam[j].pocet = Cardinality({k \in BookedUnder(p) :
                    Key(p.zoznam[j]) = <<captured[k].mac, captured[k].ip>>})

\* What a frame should be booked under, by its own headers alone.  IPv6 has
\* ICMPv6 in the place of ICMP and IGMP.
Belongs(f) ==
    LET apps == IF f.type \in {"IP", "IPv6"} /\ f.trans \in {"TCP", "UDP"}
                THEN {<<"TCP", p>> : p \in {TCP_portov[j] : j \in DOMAIN TCP_portov}}
                     \cup {<<"UDP", p>> : p \in {UDP_portov[j] : j \in DOMAIN UDP_portov}}
                ELSE {}
        inside == IF f.type = "IP" \/ (f.type = "IPv6" /\ f.trans \notin {"ICMP", "IGMP"})
                  THEN {f.trans} ELSE {}
        layers == {"E", f.type} \cup inside
    IN  {<<n, 0>> : n \in {m \in layers : Switched(m)}}
            \cup {a \in apps : a[2] \in {f.ports[1], f.ports[2]}}

(* An Ethernet II frame is booked under its own protocols and no other,      *)
(* whatever was captured before it and left in the decoder's globals; an     *)
(* application is found by either port and under TCP and UDP alike.  Not so  *)
(* for IPv6 with options and for other links (katalyzer.c 976 and 861).      *)
BookedByItsContent ==
    \A k \in DOMAIN captured : LET f == captured[k].f IN
        f.link = "eth2" /\ f.ext # "options" => captured[k].names = Belongs(f)

(* IPlist gives an address a MAC that it had in the last flushed interval in *)
(* which it was seen: no pair outlives its interval in z_pair_array.  It     *)
(* need not be the latest of that interval (katalyzer.c:597: the entries     *)
(* are inserted in the order of their first frames).                         *)
IPlistIsRecent ==
    \A a \in V4 : IF lastSeen[a] = {} THEN IPlist[a] = None ELSE IPlist[a] \in lastSeen[a]
=============================================================================
