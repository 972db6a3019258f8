--------------------------- MODULE MCPacketCapture ---------------------------
(***************************************************************************)
(* Files of at most four frames of twenty kinds; two packets are kept,     *)
(* three looked at.                                                        *)
(***************************************************************************)
EXTENDS PacketCapture, TLC

Data == [Frame EXCEPT !.body = "data"]
Other == [Data EXCEPT !.seq = 2, !.win = 0]
Fin == [Frame EXCEPT !.flags = {"fin", "ack"}]
Reset == [Frame EXCEPT !.flags = {"rst"}]
Padded == [Frame EXCEPT !.body = "padding"]
Late == [Data EXCEPT !.later = TRUE]
Tagged == [Data EXCEPT !.types = <<"vlan", "vlan", "ip4">>]
Tag == [Data EXCEPT !.types = <<"vlan">>]
Six == [Data EXCEPT !.types = <<"ip6">>, !.exts = <<"hop", "frag">>]
Cooked == [Data EXCEPT !.link = "cooked"]
Raw == [Data EXCEPT !.link = "raw", !.types = <<"ip6">>]
Shifted == [Data EXCEPT !.types = <<"other">>, !.at14 = "ip4"]
Short == [Data EXCEPT !.reach = 1]
Cut == [Data EXCEPT !.reach = 0]
Arp(m) == [Frame EXCEPT !.types = <<"arp">>, !.mac = m]
Dns == [Frame EXCEPT !.proto = "udp", !.dport = 53, !.code = 3, !.response = TRUE]
Unreach == [Frame EXCEPT !.proto = "icmp", !.code = 3]
Login == [Data EXCEPT !.dport = 80, !.body = "login"]
Alert == [Data EXCEPT !.body = "alert"]

MCFrames == {Data, Other, Fin, Reset, Padded, Late, Tagged, Six, Shifted, Short, Arp("m1"),
             Arp("m2"), Dns, Unreach, Login, Alert, Cooked, Raw, Tag, Cut}

Perms == Permutations(Caps) \cup Permutations(Stoppers)
=============================================================================
