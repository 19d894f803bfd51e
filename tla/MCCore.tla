------------------------------ MODULE MCCore ------------------------------
(* Values of the constants of PacketFilterCore for TLC: one address of a    *)
(* filtered UDP service, one that hashes to the same slot, and a non-UDP    *)
(* header.                                                                  *)
EXTENDS SettledCore

MCIps   == {0, 1}
MCPorts == {0, 1}
MCIndex == [a \in MCIps \X MCPorts |-> (a[1] + a[2]) % 2]

MCOnePort      == {0}
MCIndexOnePort == [a \in MCIps \X MCOnePort |-> a[1]]

Udp(ip, port) == [eth_type |-> "IPV4", protocol |-> "UDP",
                  dest_ip |-> ip, dest_port |-> port]
Tcp == [eth_type |-> "IPV4", protocol |-> "other",
        dest_ip |-> 1, dest_port |-> 0]
Arp == [eth_type |-> "other", protocol |-> "UDP",
        dest_ip |-> 1, dest_port |-> 0]

MCHeaders    == {Udp(1, 0), Udp(0, 0), Tcp, Arp}
MCTwoHeaders == {Udp(1, 0), Tcp}
===========================================================================
