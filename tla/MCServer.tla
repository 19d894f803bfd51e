------------------------------ MODULE MCServer ------------------------------
(* Values of the constants of ServerMain for TLC: an MTU of 1500, and       *)
(* packets that are the longest accepted, one byte too long for their       *)
(* frame, padded to the least frame, shorter than their own UDP header, and *)
(* not UDP.                                                                 *)
EXTENDS ServerMain

MCPackets ==
  {[pkt_len |-> 1514, ipv4 |-> TRUE,  udp |-> TRUE,  dgram_len |-> 1480],
   [pkt_len |-> 1514, ipv4 |-> TRUE,  udp |-> TRUE,  dgram_len |-> 1481],
   [pkt_len |-> 60,   ipv4 |-> TRUE,  udp |-> TRUE,  dgram_len |-> 9],
   [pkt_len |-> 60,   ipv4 |-> TRUE,  udp |-> TRUE,  dgram_len |-> 7],
   [pkt_len |-> 60,   ipv4 |-> FALSE, udp |-> FALSE, dgram_len |-> 40]}
=============================================================================
