---------------------------- MODULE SettledCore ----------------------------
(***************************************************************************)
(* The core with settled rules implements FrameGate.  A phit waiting in    *)
(* front of the core that will be forwarded is already on its way to the   *)
(* host; one that will be dropped is already gone.                         *)
(***************************************************************************)
EXTENDS PacketFilterCore

SettledFairSpec == SettledSpec /\ Fairness

Accepted == {hdr \in Headers : table_action(hdr) = FORWARD}

(* The phits of s that belong to packets with the headers A, in order.     *)
Passing(s, A) ==
  LET upto[n \in 0 .. Len(s)] ==
        IF n = 0 THEN <<>>
        ELSE IF s[n].pkt \in A THEN Append(upto[n - 1], s[n]) ELSE upto[n - 1]
  IN  upto[Len(s)]

Gate == INSTANCE FrameGate WITH
  accepted <- Accepted,
  source   <- rx,
  inside   <- m_axis \o Passing(s_axis, Accepted),
  host     <- c2h

(* With settled rules the filter is the lossless FIFO of whole packets     *)
(* that FrameGate describes: process_packet neither loses, duplicates,     *)
(* reorders nor tears anything it should carry, lets nothing else pass, and*)
(* what is accepted arrives as long as the QDMA drains.                    *)
ImplementsFrameGate == Gate!Spec
=============================================================================
