------------------------------- MODULE MCNet --------------------------------
(***************************************************************************)
(* Instances of Net for TLC: u1 uses UDP, u2 pings, sends from u1's slot   *)
(* through the router, and may release it.                                 *)
(***************************************************************************)
EXTENDS Net

Arp(t, h) == [NoPkt EXCEPT !.proto = "ARP", !.type = t, !.src = h, !.mac = h, !.dst = "me"]
Udp(h) == [NoPkt EXCEPT !.proto = "UDP", !.src = h, !.dst = "me", !.sport = 1, !.dport = 1]
Icmp(t, h) == [NoPkt EXCEPT !.proto = "ICMP", !.type = t, !.src = h, !.dst = "me"]

Wire == {Arp("REQ", "a"), Arp("RPLY", "a"), Arp("RPLY", "b"), Udp("a"), Udp("b"),
         Icmp("REQ", "b"), Icmp("REPLY", "a"), Icmp("REPLY", "b"),
         [NoPkt EXCEPT !.proto = "IPv6"]}

Programs ==
    [p \in Users |->
       IF p = "u1" THEN {"udp_register", "udp_recv", "udp_recvaddr", "udp_send",
                         "udp_release"}
       ELSE {"icmp_register", "icmp_send", "icmp_recv", "icmp_release",
             "udp_sendto", "udp_release"}]
=============================================================================
