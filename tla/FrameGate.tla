----------------------------- MODULE FrameGate -----------------------------
(***************************************************************************)
(* What the packet filter promises once its rules are settled: a lossless  *)
(* FIFO of whole packets.  Each packet is either carried, all its phits in *)
(* order and each of them once, or it disappears; which of the two was     *)
(* decided before it came, by its own headers alone.  Nothing of table,    *)
(* hash, counters or parsing is left here.                                 *)
(***************************************************************************)
EXTENDS Integers, Sequences

CONSTANTS Headers   \* what distinguishes packets

VARIABLES
  accepted,  \* the headers of the packets that are carried
  source,    \* the packet being sent: its header, the place of the next phit
  inside,    \* phits on their way to the host
  host       \* the phit the host received last

gate == <<accepted, source, inside, host>>

Init ==
  /\ accepted \subseteq Headers
  /\ source \in [pkt : Headers, pos : {0}]
  /\ inside = <<>>
  /\ host.pos = 0 /\ host.last

(* A phit of a packet enters; that of a packet not accepted is gone.       *)
Send(pkt, data, last) ==
  /\ source.pos > 0 => pkt = source.pkt
  /\ source.pos = 0 => data = pkt
  /\ source' = [pkt |-> pkt, pos |-> IF last THEN 0 ELSE source.pos + 1]
  /\ inside' = IF pkt \in accepted
               THEN Append(inside, [data |-> data, pkt |-> pkt,
                                    pos |-> source.pos, last |-> last])
               ELSE inside
  /\ UNCHANGED <<accepted, host>>

(* The host receives the oldest phit.                                      *)
Take ==
  /\ inside # <<>>
  /\ host' = Head(inside)
  /\ inside' = Tail(inside)
  /\ UNCHANGED <<accepted, source>>

Next ==
  \/ \E pkt, data \in Headers, last \in BOOLEAN : Send(pkt, data, last)
  \/ Take

Safety == Init /\ [][Next]_gate

(* What was accepted arrives.                                              *)
Spec == Safety /\ WF_gate(Take)
=============================================================================
