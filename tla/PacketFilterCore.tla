-------------------------- MODULE PacketFilterCore --------------------------
(***************************************************************************)
(* The HLS packet-filter core (hardware/src/hls/packet_filter.cc with      *)
(* hash.cc and network.cc): a free-running function that, at each call,    *)
(* either copies the AXI-Lite rule registers into the rule table and       *)
(* publishes the counters (no phit waiting), or takes one phit of the      *)
(* stream, decides on it and updates the counters.                         *)
(*                                                                         *)
(* The software side (the MMIO writes) is an open environment here;        *)
(* RuleProgramming.tla closes it with the writes of PacketFilter.  The     *)
(* CMAC adapter feeding s_axis and the QDMA draining m_axis are external.  *)
(***************************************************************************)
EXTENDS Integers, Sequences

CONSTANTS
  Ips, Ports,        \* destination addresses and UDP ports, network order
  ZeroIp, ZeroPort,  \* the value 0 of the two rule registers
  Slots,             \* the indices of ToeplitzHash::table
  Index,             \* compute_hash(ip, port) & HASH_MASK, see ToeplitzHash
  Headers,           \* what the first 336 bits of a phit can parse to
  MaxPhits,          \* bound: phits of the longest packet (MTU / 64 bytes)
  SDepth, MDepth,    \* bounds: phits held in front of and behind the core
  StatMod            \* 2^64 in the code: modulus of the counters

EthTypes  == {"IPV4", "other"}
Protocols == {"UDP", "other"}
DROP      == 0
FORWARD   == 1
RuleActions == {DROP, FORWARD}

HeaderType == [eth_type : EthTypes, protocol : Protocols,
               dest_ip : Ips, dest_port : Ports]

\* static NetworkPacket network: zero before the first packet.
NoHeader == [eth_type |-> "other", protocol |-> "other",
             dest_ip |-> ZeroIp, dest_port |-> ZeroPort]

ASSUME CoreAssumption ==
  /\ ZeroIp \in Ips
  /\ ZeroPort \in Ports
  /\ Index \in [Ips \X Ports -> Slots]
  /\ Headers \subseteq HeaderType
  /\ MaxPhits \in Nat \ {0}
  /\ SDepth \in Nat \ {0}
  /\ MDepth \in Nat \ {0}
  /\ StatMod \in Nat \ {0}

\* A phit on the wire is its data and last bits; pkt and pos are auxiliary
\* (the packet it belongs to and its place in it) and no action reads them
\* except to fill them in.
Phit == [data : Headers, pkt : Headers, pos : Nat, last : BOOLEAN]

VARIABLES
  cfg,          \* the s_axilite registers ipv4_addr, udp_port and action
  table,        \* ToeplitzHash::table
  local_stats,  \* the static counters
  stats,        \* the s_axilite registers the software reads
  phit_idx,     \* place of the next phit in its packet
  network,      \* headers of the packet in flight
  s_axis,       \* phits waiting in front of the core
  m_axis,       \* phits written by the core, not yet taken by the QDMA
  rx,           \* packet the CMAC adapter is sending: its header, next place
  c2h           \* the last phit the QDMA took

core   == <<table, local_stats, stats, phit_idx, network>>
stream == <<s_axis, m_axis, rx, c2h>>
vars   == <<cfg, core, stream>>

Counters  == {"pkt_in", "phit_in", "pkt_forward", "pkt_drop"}
StatsType == [Counters -> 0 .. StatMod - 1]
ZeroStats == [c \in Counters |-> 0]

-----------------------------------------------------------------------------
(* The hash table: one action per slot, no key stored beside it. *)

lookup(t, ip, port) == t[Index[<<ip, port>>]]

insert_ip_only(t, ip, port, value) ==
  [t EXCEPT ![Index[<<ip, ZeroPort>>]] = value]

insert(t, ip, port, value) == [t EXCEPT ![Index[<<ip, port>>]] = value]

(* The headers are parsed on the first phit only. *)
deserialize_every_phit(net, data, idx) == data

deserialize(net, data, idx) == IF idx = 0 THEN data ELSE net

is_ipv4(hdr) == hdr.eth_type = "IPV4"
is_udp(hdr)  == hdr.protocol = "UDP"

table_action_ip_only(net) ==
  IF is_ipv4(net) THEN lookup(table, net.dest_ip, net.dest_port) ELSE DROP

table_action(net) ==
  IF is_ipv4(net) /\ is_udp(net)
  THEN lookup(table, net.dest_ip, net.dest_port)
  ELSE DROP

NextPhitIdx_no_reset(phit) == phit_idx + 1

NextPhitIdx(phit) == IF phit.last THEN 0 ELSE phit_idx + 1

CountPacket_carry(idx, act) ==
  [local_stats EXCEPT !["phit_in"] = @ + idx + 1]

CountPacket_no_drop(idx, act) ==
  [local_stats EXCEPT
     !["pkt_in"]      = (@ + 1) % StatMod,
     !["phit_in"]     = (@ + idx + 1) % StatMod,
     !["pkt_forward"] = (@ + (IF act = FORWARD THEN 1 ELSE 0)) % StatMod]

\* local_stats at the last phit; idx is phit_idx after its reset to 0.
CountPacket(idx, act) ==
  [local_stats EXCEPT
     !["pkt_in"]      = (@ + 1) % StatMod,
     !["phit_in"]     = (@ + idx + 1) % StatMod,
     !["pkt_forward"] = (@ + (IF act = FORWARD THEN 1 ELSE 0)) % StatMod,
     !["pkt_drop"]    = (@ + (IF act = FORWARD THEN 0 ELSE 1)) % StatMod]
-----------------------------------------------------------------------------
Init ==
  /\ cfg = [ip |-> ZeroIp, port |-> ZeroPort, action |-> DROP]
  /\ table = [s \in Slots |-> DROP]
  /\ local_stats = ZeroStats
  /\ stats = ZeroStats
  /\ phit_idx = 0
  /\ network = NoHeader
  /\ s_axis = <<>>
  /\ m_axis = <<>>
  /\ rx \in [pkt : Headers, pos : {0}]
  /\ c2h \in [data : Headers, pkt : Headers, pos : {0}, last : {TRUE}]

(* Environment: one AXI-Lite write reaches one register. *)
WriteIp(ip) ==
  /\ cfg' = [cfg EXCEPT !.ip = ip]
  /\ UNCHANGED <<core, stream>>

WritePort(port) ==
  /\ cfg' = [cfg EXCEPT !.port = port]
  /\ UNCHANGED <<core, stream>>

WriteAction(act) ==
  /\ cfg' = [cfg EXCEPT !.action = act]
  /\ UNCHANGED <<core, stream>>

(* Environment: the CMAC adapter offers the next phit of the stream. *)
Arrive(data, last) ==
  LET pkt == IF rx.pos = 0 THEN data ELSE rx.pkt
  IN  /\ Len(s_axis) < SDepth
      /\ last \/ rx.pos + 1 < MaxPhits
      /\ s_axis' = Append(s_axis, [data |-> data, pkt |-> pkt,
                                   pos |-> rx.pos, last |-> last])
      /\ rx' = [pkt |-> pkt, pos |-> IF last THEN 0 ELSE rx.pos + 1]
      /\ UNCHANGED <<cfg, core, m_axis, c2h>>

(* Environment: the QDMA takes one phit of the filtered stream. *)
Deliver ==
  /\ m_axis # <<>>
  /\ c2h' = Head(m_axis)
  /\ m_axis' = Tail(m_axis)
  /\ UNCHANGED <<cfg, core, s_axis, rx>>

(* process_packet with s_axis empty: insert the rule in the registers,     *)
(* whatever they hold at this moment, and publish the counters.            *)
ProcessIdle_stats_once ==
  /\ s_axis = <<>>
  /\ table' = insert(table, cfg.ip, cfg.port, cfg.action)
  /\ stats' = IF table' = table THEN stats ELSE local_stats
  /\ UNCHANGED <<cfg, local_stats, phit_idx, network, stream>>

ProcessIdle ==
  /\ s_axis = <<>>
  /\ table' = insert(table, cfg.ip, cfg.port, cfg.action)
  /\ stats' = local_stats
  /\ UNCHANGED <<cfg, local_stats, phit_idx, network, stream>>

(* process_packet with a phit waiting.  The write to m_axis blocks while   *)
(* the QDMA does not take phits, and the whole call with it.               *)
ProcessPhit_keeps_dropped ==
  /\ s_axis # <<>>
  /\ LET net == deserialize(network, Head(s_axis).data, phit_idx)
     IN  /\ table_action(net) = FORWARD
         /\ Len(m_axis) < MDepth
         /\ network' = net
         /\ m_axis' = Append(m_axis, Head(s_axis))
         /\ phit_idx' = NextPhitIdx(Head(s_axis))
  /\ s_axis' = Tail(s_axis)
  /\ UNCHANGED <<cfg, table, local_stats, stats, rx, c2h>>

ProcessPhit_full_loses ==
  /\ s_axis # <<>>
  /\ LET phit == Head(s_axis)
         net  == deserialize(network, phit.data, phit_idx)
         act  == table_action(net)
         idx  == NextPhitIdx(phit)
     IN  /\ network' = net
         /\ m_axis' = IF act = FORWARD /\ Len(m_axis) < MDepth
                      THEN Append(m_axis, phit) ELSE m_axis
         /\ phit_idx' = idx
         /\ local_stats' = IF phit.last THEN CountPacket(idx, act)
                                        ELSE local_stats
  /\ s_axis' = Tail(s_axis)
  /\ UNCHANGED <<cfg, table, stats, rx, c2h>>

ProcessPhit ==
  /\ s_axis # <<>>
  /\ LET phit == Head(s_axis)
         net  == deserialize(network, phit.data, phit_idx)
         act  == table_action(net)
         idx  == NextPhitIdx(phit)
     IN  /\ act = FORWARD => Len(m_axis) < MDepth
         /\ network' = net
         /\ m_axis' = IF act = FORWARD THEN Append(m_axis, phit) ELSE m_axis
         /\ phit_idx' = idx
         /\ local_stats' = IF phit.last THEN CountPacket(idx, act)
                                        ELSE local_stats
  /\ s_axis' = Tail(s_axis)
  /\ UNCHANGED <<cfg, table, stats, rx, c2h>>

process_packet == ProcessIdle \/ ProcessPhit

Registers ==
  \/ \E ip \in Ips : WriteIp(ip)
  \/ \E port \in Ports : WritePort(port)
  \/ \E act \in RuleActions : WriteAction(act)

Traffic ==
  \/ \E data \in Headers, last \in BOOLEAN : Arrive(data, last)
  \/ Deliver

Next == process_packet \/ Registers \/ Traffic

Spec == Init /\ [][Next]_vars

(* The core is called at every clock cycle (ap_ctrl_none, II = 1) and the  *)
(* QDMA keeps draining; neither the traffic nor the software need go on.   *)
Fairness == WF_vars(process_packet) /\ WF_vars(Deliver)

FairSpec == Spec /\ Fairness

(* The filter once its software has written its last rule and the core has *)
(* inserted it: any table, the registers holding a rule that is in it.     *)
SettledInit ==
  \E c \in [ip : Ips, port : Ports, action : RuleActions],
     t \in [Slots -> RuleActions] :
    /\ insert(t, c.ip, c.port, c.action) = t
    /\ cfg = c
    /\ table = t
    /\ local_stats = ZeroStats
    /\ stats = ZeroStats
    /\ phit_idx = 0
    /\ network = NoHeader
    /\ s_axis = <<>>
    /\ m_axis = <<>>
    /\ rx \in [pkt : Headers, pos : {0}]
    /\ c2h \in [data : Headers, pkt : Headers, pos : {0}, last : {TRUE}]

SettledNext == process_packet \/ Traffic

SettledSpec == SettledInit /\ [][SettledNext]_vars
-----------------------------------------------------------------------------
(* Types of the state. *)
TypeOK ==
  /\ cfg \in [ip : Ips, port : Ports, action : RuleActions]
  /\ table \in [Slots -> RuleActions]
  /\ local_stats \in StatsType
  /\ stats \in StatsType
  /\ phit_idx \in Nat
  /\ network \in HeaderType
  /\ s_axis \in Seq(Phit)
  /\ m_axis \in Seq(Phit)
  /\ rx \in [pkt : Headers, pos : Nat]
  /\ c2h \in Phit

(* q can follow p on an AXI stream: the next phit of the same packet, or   *)
(* the first of another one after a last phit.                             *)
Follows(p, q) ==
  IF p.last THEN q.pos = 0 ELSE q.pos = p.pos + 1 /\ q.pkt = p.pkt

(* The core never loses its place in the stream: phit_idx is the place of  *)
(* the phit it takes next, and within a packet network holds that packet's *)
(* own headers, however phits, stalls and idle calls interleave.           *)
ChainOk ==
  \A i \in 1 .. Len(s_axis) - 1 : Follows(s_axis[i], s_axis[i + 1])

FirstPhitOk ==
  \A i \in 1 .. Len(s_axis) : s_axis[i].pos = 0 => s_axis[i].data = s_axis[i].pkt

HeadOk ==
  LET at == IF s_axis = <<>> THEN rx ELSE s_axis[1]
  IN  /\ at.pos = phit_idx
      /\ phit_idx > 0 => network = at.pkt

LastOk == s_axis # <<>> => Follows(s_axis[Len(s_axis)], rx)

Framing == ChainOk /\ FirstPhitOk /\ HeadOk /\ LastOk

(* Each phit is judged by the header of the packet it belongs to: the      *)
(* phit_idx reset on last and the header kept in a static variable never   *)
(* let one packet be decided by another one's addresses.                   *)
OwnHeader ==
  s_axis # <<>> =>
    deserialize(network, Head(s_axis).data, phit_idx) = Head(s_axis).pkt

(* Nothing but phits of IPv4/UDP packets leaves the core, whatever their   *)
(* place in the packet and whatever the later phits contain.               *)
ForwardedAreUdp ==
  \A i \in 1 .. Len(m_axis) :
    is_ipv4(m_axis[i].pkt) /\ is_udp(m_axis[i].pkt)

(* The counters the software reads are one consistent snapshot: every      *)
(* packet counted in is counted once as forwarded or as dropped, also      *)
(* after the counters wrap and while later packets are in flight.          *)
Balanced(st) == st["pkt_in"] = (st["pkt_forward"] + st["pkt_drop"]) % StatMod
StatsBalanced == Balanced(local_stats) /\ Balanced(stats)

(* What phit_in means to its reader ("Phits In"): the end of a packet adds *)
(* the number of phits the packet had.                                     *)
PhitInCountsPhits ==
  [][\A n \in 1 .. MaxPhits :
       /\ Len(s_axis') < Len(s_axis)
       /\ Head(s_axis).last
       /\ Head(s_axis).pos + 1 = n
       => local_stats'["phit_in"] = (local_stats["phit_in"] + n) % StatMod]_vars

(* The filtering decision is taken once per packet, "on the first phit":   *)
(* the host receives whole packets or nothing of them.                     *)
WholeFrames ==
  /\ m_axis # <<>> => Follows(c2h, m_axis[1])
  /\ \A i \in 1 .. Len(m_axis) - 1 : Follows(m_axis[i], m_axis[i + 1])

(* Once the rules are settled, the phit forwarded last and the packet in   *)
(* flight agree: a packet begun is the one in flight and is forwarded, and *)
(* one in flight of which nothing was begun is dropped.                    *)
GateOk ==
  LET out == IF m_axis = <<>> THEN c2h ELSE m_axis[Len(m_axis)]
  IN  IF out.last
      THEN phit_idx > 0 => table_action(network) # FORWARD
      ELSE /\ phit_idx = out.pos + 1
           /\ network = out.pkt
           /\ table_action(network) = FORWARD

(* Back-pressure never wedges the stream: a full input is taken up again.  *)
BackpressureEnds ==
  (Len(s_axis) = SDepth) ~> (Len(s_axis) < SDepth)

(* When the traffic stops, the published counters catch up for good.       *)
StatsCatchUp ==
  <>[](s_axis = <<>>) => <>[](stats = local_stats)
=============================================================================
