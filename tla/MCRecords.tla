--------------------------------- MODULE MCRecords ---------------------------------
(* An instance of Records for TLC: hosts a and b, b also behind a second     *)
(* router, and one frame for each way through the decoder.                   *)
EXTENDS Records

A == <<"a", "v4">>
B == <<"b", "v4">>
A6 == <<"a6", "1">>
B6 == <<"b6", "2">>

Frame(link, type, mac, ip, trans, ports) ==
    [link |-> link, type |-> type, hw |-> mac, mac |-> mac, ip |-> ip,
     trans |-> trans, ext |-> "none", ports |-> ports]

There1 == Frame("eth2", "IP", <<"m1", "m2">>, <<A, B>>, "TCP", <<5, 80>>)
Back1 == Frame("eth2", "IP", <<"m2", "m1">>, <<B, A>>, "TCP", <<80, 5>>)
BackBy3 == Frame("eth2", "IP", <<"m3", "m1">>, <<B, A>>, "UDP", <<53, 80>>)
Itself == Frame("eth2", "IP", <<"m1", "m1">>, <<A, A>>, "ICMP", <<0, 0>>)
Asks == Frame("eth2", "ARP", <<"m1", "00">>, <<A, B>>, None, <<0, 0>>)
There6 == Frame("eth2", "IPv6", <<"m1", "m2">>, <<A6, B6>>, "ICMPv6", <<0, 0>>)
Options6 == [There6 EXCEPT !.ext = "options", !.trans = "TCP", !.ports = <<5, 80>>]
Snap == Frame("snap", "IP", <<"m1", "m2">>, <<A, B>>, "TCP", <<5, 80>>)
Llc == Frame("llc", "length", <<"m1", "m2">>, <<A, B>>, None, <<0, 0>>)
Sll == Frame("sll", "IP", <<"m1", "m2">>, <<A, B>>, "UDP", <<5, 53>>)
Sll6 == Frame("sll", "IPv6", <<"m1", "m2">>, <<A6, B6>>, "UDP", <<5, 53>>)
Ppp == Frame("ppp", "IP", <<"m1", "m2">>, <<A, B>>, "TCP", <<5, 80>>)

MCFrameKinds == {There1, Back1, BackBy3, Itself, Asks, There6, Options6, Snap, Llc,
                 Sll, Sll6, Ppp}
MCMisreads == {[trans |-> "TCP", ports |-> <<9, 7>>,
                mac |-> <<"m1", "m2">>, ip |-> <<B, A>>]}

MCEnabled == {"E", "8", "S", "IP", "IPv6", "ARP", "TCP", "UDP", "ICMP"}
MCTcp == <<80>>
MCUdp == <<53, 80>>
MCV4 == {A, B, NoIp}
MCRests == {<<"1", "2">>, <<"9", "9">>}
MCSetups == {<<"sock", <<<<"E", 0>>, FALSE>>>>, <<"pcap", <<<<"IPv6", 0>>, TRUE>>>>}
MCMac == {NoMac, "m1", "m2", "m3"}
MCIp == {A, B, A6, B6, NoIp}
MCEnds == {A, B}
=============================================================================
