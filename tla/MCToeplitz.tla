----------------------------- MODULE MCToeplitz -----------------------------
(* The key of the constructor; the two filters of the README, an address    *)
(* with nearly all bits set and one with one bit; packets to each of them,  *)
(* and others whose octets at the place of the port are the filter's.       *)
EXTENDS WireMatch

BitsOf(n, width) == {k \in 0 .. width - 1 : (n \div 2 ^ k) % 2 = 1}

Dotted(a, b, c, d) == [j \in 1 .. 4 |-> BitsOf(<<a, b, c, d>>[j], 8)]

FilterOf(octets, n) == [ip |-> octets, port |-> BitsOf(n, 16)]

MCFilters ==
  {FilterOf(Dotted(192, 168, 2, 1), 8500), FilterOf(Dotted(192, 168, 2, 95), 8501),
   FilterOf(Dotted(255, 255, 255, 254), 1), FilterOf(Dotted(0, 0, 0, 128), 8481)}

MCInputs == {[ip |-> inet_addr(f.ip), port |-> htons(f.port)] : f \in MCFilters}

\* 8500 is 0x2134: options or a payload that look like that port.
Fill == [n \in {0, 1} |-> BitsOf(<<33, 52>>[n + 1], 8)]

Plainly(f) ==
  [eth_type |-> BitsOf(2048, 16), ihl |-> 5, first |-> TRUE, protocol |-> BitsOf(17, 8),
   dst |-> f.ip, dport |-> f.port, fill |-> Fill]

\* UDP for each filter; for some address UDP after 4 or 40 octets of options, a later
\* fragment of UDP, TCP and, with every fill bit the other way, ARP.
MCPackets ==
  LET p   == Plainly(FilterOf(Dotted(192, 168, 2, 1), 8501))
      arp == [p EXCEPT !.eth_type = BitsOf(2054, 16),
                       !.fill = [n \in {0, 1} |-> (0 .. 7) \ Fill[n]]]
  IN  {Plainly(f) : f \in MCFilters}
        \cup {[p EXCEPT !.ihl = 6], [p EXCEPT !.ihl = 15], [p EXCEPT !.first = FALSE],
              [p EXCEPT !.protocol = BitsOf(6, 8)], arp}

\* The table size of the code, and one that is no power of two.
MCSizes == {32, 40}
=============================================================================
