------------------------------ MODULE MCRules ------------------------------
(* Values of the constants of RuleProgramming for TLC.  A byte has two      *)
(* values, so a port has four and htons exchanges 1 and 2.  No two          *)
(* addresses share a slot, so that a mixed rule is visible as such.         *)
EXTENDS RuleProgramming, FiniteSets

MCIps   == {0, 1, 2}
MCPorts == 0 .. 3
MCSlots == 0 .. 11
MCIndex == [a \in MCIps \X MCPorts |-> a[1] * 4 + a[2]]

Udp(ip, port) == [eth_type |-> "IPV4", protocol |-> "UDP",
                  dest_ip |-> ip, dest_port |-> port]

\* The first filter's address, and the one the two filters mix to.
MCHeaders == {Udp(1, 2), Udp(2, 2)}

MCOneHeader == {Udp(1, 2)}

Good(ip, number) == [colon |-> TRUE, ip |-> ip, number |-> number]
NoColon  == [colon |-> FALSE, ip |-> 1, number |-> 1]
BadIp    == [colon |-> TRUE, ip |-> InaddrNone, number |-> 1]
TextPort == Good(1, NoNumber)
ZeroPortFilter == Good(1, 4)   \* 4 is truncated to port 0

MCNumbers == {-1, 1, 2, 4, 5}

C == [opt |-> "c", number |-> FALSE, list |-> <<>>]
F(list) == [opt |-> "f", number |-> FALSE, list |-> list]
T(number) == [opt |-> "t", number |-> number, list |-> <<>>]
D(number) == [opt |-> "d", number |-> number, list |-> <<>>]
Unknown   == [opt |-> "?", number |-> FALSE, list |-> <<>>]

MCCommandLines ==
  {<<F(<<Good(1, 5)>>), T(TRUE), C, F(<<Good(2, 2)>>)>>,
   <<C, F(<<Good(2, -1), NoColon>>)>>,
   <<C, F(<<ZeroPortFilter, Good(2, 2)>>)>>,
   <<C, F(<<BadIp, Good(1, 1)>>)>>,
   <<C, F(<<TextPort>>)>>,
   <<C>>,
   <<F(<<Good(1, 1)>>), D(TRUE)>>,
   <<C, F(<<Good(1, 1)>>), T(FALSE)>>,
   <<F(<<Good(2, 2)>>), Unknown, C>>}
=============================================================================
