------------------------------ MODULE MCStats ------------------------------
(* Values of the constants of StatsRead for TLC: one rule, and one-phit     *)
(* packets that match it or not.                                            *)
EXTENDS StatsRead

MCOne   == {0}
MCIndex == [a \in MCOne \X MCOne |-> 0]

Header(protocol) == [eth_type |-> "IPV4", protocol |-> protocol,
                     dest_ip |-> 0, dest_port |-> 0]
MCHeaders == {Header("UDP"), Header("other")}
===========================================================================
