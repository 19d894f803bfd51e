----------------------- MODULE PacketFilterCoreProofs -----------------------
(***************************************************************************)
(* Proofs about PacketFilterCore for every table size, address set, hash   *)
(* and FIFO depth: types, the framing of the stream, the header each phit  *)
(* is judged by, and the balance of the counters.                          *)
(***************************************************************************)
EXTENDS PacketFilterCore, TLAPS

(* The result of table_action is always one of the two actions.            *)
LEMMA TableActionType ==
  ASSUME TypeOK, NEW net \in HeaderType
  PROVE  table_action(net) \in RuleActions
<1>1. lookup(table, net.dest_ip, net.dest_port) \in RuleActions
  BY CoreAssumption DEF TypeOK, lookup, HeaderType
<1> QED
  BY <1>1 DEF table_action, RuleActions

(* What the place counter and the header register become.                  *)
LEMMA DeserializeType ==
  ASSUME NEW net \in HeaderType, NEW data \in HeaderType, NEW idx
  PROVE  deserialize(net, data, idx) \in HeaderType
BY DEF deserialize

LEMMA NoHeaderType == NoHeader \in HeaderType
BY CoreAssumption DEF NoHeader, HeaderType, EthTypes, Protocols

(* A counter stays below the modulus.                                      *)
LEMMA ModRange ==
  ASSUME NEW a \in Nat
  PROVE  a % StatMod \in 0 .. StatMod - 1
BY CoreAssumption

LEMMA CountPacketType ==
  ASSUME TypeOK, NEW idx \in Nat, NEW act
  PROVE  CountPacket(idx, act) \in StatsType
<1> DEFINE one == IF act = FORWARD THEN 1 ELSE 0
           two == IF act = FORWARD THEN 0 ELSE 1
<1>1. local_stats \in StatsType
  BY DEF TypeOK
<1>2. \A c \in Counters : local_stats[c] \in Nat
  BY <1>1, CoreAssumption DEF StatsType
<1>3. (local_stats["pkt_in"] + 1) % StatMod \in 0 .. StatMod - 1
  BY <1>2, ModRange DEF Counters
<1>4. (local_stats["phit_in"] + idx + 1) % StatMod \in 0 .. StatMod - 1
  BY <1>2, ModRange DEF Counters
<1>5. (local_stats["pkt_forward"] + one) % StatMod \in 0 .. StatMod - 1
  BY <1>2, ModRange DEF Counters
<1>6. (local_stats["pkt_drop"] + two) % StatMod \in 0 .. StatMod - 1
  BY <1>2, ModRange DEF Counters
<1> QED
  BY <1>1, <1>3, <1>4, <1>5, <1>6 DEF CountPacket, StatsType, Counters

(* Appending to and taking from a stream of phits.                         *)
LEMMA TailType ==
  ASSUME NEW S, NEW q \in Seq(S), q # <<>>
  PROVE  /\ Head(q) \in S
         /\ Tail(q) \in Seq(S)
         /\ Len(q) > 0
         /\ Len(Tail(q)) = Len(q) - 1
         /\ \A i \in 1 .. Len(q) - 1 : Tail(q)[i] = q[i + 1]
         /\ Head(q) = q[1]
OBVIOUS

LEMMA AppendType ==
  ASSUME NEW S, NEW q \in Seq(S), NEW e \in S
  PROVE  /\ Append(q, e) \in Seq(S)
         /\ Len(Append(q, e)) = Len(q) + 1
         /\ Append(q, e) # <<>>
         /\ \A i \in 1 .. Len(q) : Append(q, e)[i] = q[i]
         /\ Append(q, e)[Len(q) + 1] = e
OBVIOUS

LEMMA InitTypeOK == Init => TypeOK
<1> SUFFICES ASSUME Init PROVE TypeOK
  OBVIOUS
<1>1. cfg \in [ip : Ips, port : Ports, action : RuleActions]
  BY CoreAssumption DEF Init, RuleActions
<1>2. table \in [Slots -> RuleActions]
  BY DEF Init, RuleActions
<1>3. local_stats \in StatsType /\ stats \in StatsType
  BY CoreAssumption DEF Init, StatsType, ZeroStats
<1>4. phit_idx \in Nat /\ network \in HeaderType
  BY NoHeaderType DEF Init
<1>5. s_axis \in Seq(Phit) /\ m_axis \in Seq(Phit)
  BY DEF Init
<1>6. rx \in [pkt : Headers, pos : Nat]
  BY DEF Init
<1>7. c2h \in Phit
  <2>1. PICK d \in Headers, p \in Headers :
          c2h = [data |-> d, pkt |-> p, pos |-> 0, last |-> TRUE]
    BY DEF Init
  <2> QED
    BY <2>1 DEF Phit
<1> QED
  BY <1>1, <1>2, <1>3, <1>4, <1>5, <1>6, <1>7 DEF TypeOK

LEMMA ArriveTypeOK ==
  ASSUME TypeOK, NEW data \in Headers, NEW last \in BOOLEAN, Arrive(data, last)
  PROVE  TypeOK'
<1> DEFINE pkt == IF rx.pos = 0 THEN data ELSE rx.pkt
           phit == [data |-> data, pkt |-> pkt, pos |-> rx.pos, last |-> last]
<1>1. pkt \in Headers /\ rx.pos \in Nat
  BY DEF TypeOK
<1>2. phit \in Phit
  BY <1>1 DEF Phit
<1>3. s_axis' \in Seq(Phit)
  BY <1>2, AppendType DEF Arrive, TypeOK
<1>4. rx' \in [pkt : Headers, pos : Nat]
  BY <1>1 DEF Arrive
<1> QED
  BY <1>3, <1>4 DEF Arrive, TypeOK, core

LEMMA DeliverTypeOK ==
  ASSUME TypeOK, Deliver
  PROVE  TypeOK'
BY TailType DEF TypeOK, Deliver, core

LEMMA ProcessIdleTypeOK ==
  ASSUME TypeOK, ProcessIdle
  PROVE  TypeOK'
<1>1. table' \in [Slots -> RuleActions]
  BY DEF TypeOK, ProcessIdle, insert
<1> QED
  BY <1>1 DEF TypeOK, ProcessIdle, stream

LEMMA ProcessPhitTypeOK ==
  ASSUME TypeOK, ProcessPhit
  PROVE  TypeOK'
<1> DEFINE phit == Head(s_axis)
           net  == deserialize(network, phit.data, phit_idx)
           act  == table_action(net)
           idx  == NextPhitIdx(phit)
<1>1. phit \in Phit /\ s_axis' \in Seq(Phit)
  BY TailType DEF TypeOK, ProcessPhit
<1>2. phit.data \in HeaderType
  BY <1>1, CoreAssumption DEF Phit
<1>3. network' \in HeaderType
  BY <1>2, DeserializeType DEF TypeOK, ProcessPhit
<1>4. idx \in Nat
  BY DEF NextPhitIdx, TypeOK
<1>5. m_axis' \in Seq(Phit)
  BY <1>1, AppendType DEF TypeOK, ProcessPhit
<1>6. local_stats' \in StatsType
  BY <1>4, CountPacketType DEF TypeOK, ProcessPhit
<1> QED
  BY <1>1, <1>3, <1>4, <1>5, <1>6 DEF TypeOK, ProcessPhit

LEMMA RegistersTypeOK ==
  ASSUME TypeOK, Registers
  PROVE  TypeOK'
BY DEF TypeOK, Registers, WriteIp, WritePort, WriteAction, core, stream

LEMMA StutterTypeOK ==
  ASSUME TypeOK, UNCHANGED vars
  PROVE  TypeOK'
BY DEF TypeOK, vars, core, stream

(* Types of the state hold in every reachable state: registers, table,     *)
(* counters and streams of process_packet keep their shape.                *)
THEOREM TypeCorrect == Spec => []TypeOK
<1>1. Init => TypeOK
  BY InitTypeOK
<1>2. TypeOK /\ [Next]_vars => TypeOK'
  <2> SUFFICES ASSUME TypeOK, [Next]_vars PROVE TypeOK'
    OBVIOUS
  <2>1. CASE process_packet
    BY <2>1, ProcessIdleTypeOK, ProcessPhitTypeOK DEF process_packet
  <2>2. CASE Registers
    BY <2>2, RegistersTypeOK
  <2>3. CASE Traffic
    BY <2>3, ArriveTypeOK, DeliverTypeOK DEF Traffic
  <2>4. CASE UNCHANGED vars
    BY <2>4, StutterTypeOK
  <2> QED
    BY <2>1, <2>2, <2>3, <2>4 DEF Next
<1> QED
  BY <1>1, <1>2, PTL DEF Spec
-----------------------------------------------------------------------------
LEMMA InitFraming == Init => Framing
BY DEF Init, Framing, ChainOk, FirstPhitOk, HeadOk, LastOk

LEMMA ArriveFraming ==
  ASSUME TypeOK, Framing,
         NEW data \in Headers, NEW last \in BOOLEAN, Arrive(data, last)
  PROVE  Framing'
<1> DEFINE pkt  == IF rx.pos = 0 THEN data ELSE rx.pkt
           phit == [data |-> data, pkt |-> pkt, pos |-> rx.pos, last |-> last]
           n    == Len(s_axis)
<1>1. s_axis \in Seq(Phit) /\ phit \in Phit /\ rx.pos \in Nat /\ n \in Nat
  BY DEF TypeOK, Phit
<1>2. s_axis' = Append(s_axis, phit)
  BY DEF Arrive
<1>3. /\ Len(s_axis') = n + 1
      /\ s_axis' # <<>>
      /\ \A i \in 1 .. n : s_axis'[i] = s_axis[i]
      /\ s_axis'[n + 1] = phit
  BY <1>1, <1>2, AppendType
<1>4. s_axis # <<>> => n > 0 /\ s_axis[n] \in Phit
  BY <1>1
<1>5. s_axis # <<>> => Follows(s_axis[n], phit)
  BY <1>1, <1>4 DEF Framing, LastOk, Follows, Phit
<1>6. ChainOk'
  <2> SUFFICES ASSUME NEW i \in 1 .. n PROVE Follows(s_axis'[i], s_axis'[i + 1])
    BY <1>1, <1>3 DEF ChainOk, Follows
  <2>1. CASE i = n
    BY <2>1, <1>1, <1>3, <1>5
  <2>2. CASE i < n
    BY <2>2, <1>1, <1>3 DEF Framing, ChainOk
  <2> QED
    BY <2>1, <2>2, <1>1
<1>7. FirstPhitOk'
  BY <1>1, <1>3 DEF Framing, FirstPhitOk
<1>8. HeadOk'
  <2>1. phit_idx' = phit_idx /\ network' = network
    BY DEF Arrive, core
  <2>2. CASE s_axis = <<>>
    BY <2>1, <2>2, <1>1, <1>3 DEF Framing, HeadOk
  <2>3. CASE s_axis # <<>>
    BY <2>1, <2>3, <1>1, <1>3, <1>4 DEF Framing, HeadOk
  <2> QED
    BY <2>2, <2>3
<1>9. LastOk'
  BY <1>1, <1>3 DEF LastOk, Follows, Arrive
<1> QED
  BY <1>6, <1>7, <1>8, <1>9 DEF Framing

LEMMA ProcessPhitFraming ==
  ASSUME TypeOK, Framing, ProcessPhit
  PROVE  Framing'
<1> DEFINE phit == Head(s_axis)
           n    == Len(s_axis)
<1>1. /\ s_axis \in Seq(Phit)
      /\ s_axis # <<>>
      /\ s_axis' = Tail(s_axis)
      /\ rx' = rx
      /\ phit_idx \in Nat
  BY DEF TypeOK, ProcessPhit
<1>2. /\ phit \in Phit
      /\ phit = s_axis[1]
      /\ n \in Nat
      /\ n > 0
      /\ Len(s_axis') = n - 1
      /\ \A i \in 1 .. n - 1 : s_axis'[i] = s_axis[i + 1]
      /\ s_axis' \in Seq(Phit)
  BY <1>1, TailType
<1>3. s_axis' = <<>> <=> n = 1
  BY <1>2
<1>4. phit.pos = phit_idx /\ phit.pos \in Nat /\ phit.last \in BOOLEAN
  BY <1>1, <1>2 DEF Framing, HeadOk, Phit
<1>5. network' = phit.pkt
  BY <1>1, <1>2, <1>4 DEF ProcessPhit, deserialize, Framing, HeadOk, FirstPhitOk
<1>6. phit_idx' = IF phit.last THEN 0 ELSE phit.pos + 1
  BY <1>4 DEF ProcessPhit, NextPhitIdx
<1>7. ChainOk'
  BY <1>2 DEF Framing, ChainOk, Follows
<1>8. FirstPhitOk'
  BY <1>2 DEF Framing, FirstPhitOk
<1>9. HeadOk'
  <2>1. CASE n = 1
    <3>1. Follows(phit, rx)
      BY <2>1, <1>1, <1>2 DEF Framing, LastOk
    <3> QED
      BY <2>1, <3>1, <1>1, <1>3, <1>4, <1>5, <1>6 DEF HeadOk, Follows
  <2>2. CASE n > 1
    <3>1. Follows(phit, s_axis'[1])
      BY <2>2, <1>2 DEF Framing, ChainOk
    <3>2. s_axis' # <<>>
      BY <2>2, <1>2, <1>3
    <3> QED
      BY <3>1, <3>2, <1>4, <1>5, <1>6 DEF HeadOk, Follows
  <2> QED
    BY <2>1, <2>2, <1>2
<1>10. LastOk'
  BY <1>1, <1>2, <1>3 DEF Framing, LastOk, Follows
<1> QED
  BY <1>7, <1>8, <1>9, <1>10 DEF Framing

LEMMA OtherFraming ==
  ASSUME Framing,
         UNCHANGED <<s_axis, rx, phit_idx, network>>
  PROVE  Framing'
BY DEF Framing, ChainOk, FirstPhitOk, HeadOk, LastOk, Follows

(* The core never loses its place in the stream: phit_idx and network      *)
(* always belong to the phit process_packet takes next.                    *)
THEOREM FramingCorrect == Spec => []Framing
<1>1. Init => Framing
  BY InitFraming
<1>2. TypeOK /\ Framing /\ [Next]_vars => Framing'
  <2> SUFFICES ASSUME TypeOK, Framing, [Next]_vars PROVE Framing'
    OBVIOUS
  <2>1. CASE ProcessPhit
    BY <2>1, ProcessPhitFraming
  <2>2. CASE ProcessIdle
    BY <2>2, OtherFraming DEF ProcessIdle, stream
  <2>3. CASE Registers
    BY <2>3, OtherFraming
       DEF Registers, WriteIp, WritePort, WriteAction, core, stream
  <2>4. CASE Deliver
    BY <2>4, OtherFraming DEF Deliver, core
  <2>5. CASE \E data \in Headers, last \in BOOLEAN : Arrive(data, last)
    BY <2>5, ArriveFraming
  <2>6. CASE UNCHANGED vars
    BY <2>6, OtherFraming DEF vars, core, stream
  <2> QED
    BY <2>1, <2>2, <2>3, <2>4, <2>5, <2>6 DEF Next, process_packet, Traffic
<1> QED
  BY <1>1, <1>2, TypeCorrect, PTL DEF Spec
-----------------------------------------------------------------------------
(* The header a phit is judged by, from the framing.                       *)
LEMMA FramingOwnHeader == TypeOK /\ Framing => OwnHeader
<1> SUFFICES ASSUME TypeOK, Framing, s_axis # <<>>
             PROVE  deserialize(network, Head(s_axis).data, phit_idx)
                      = Head(s_axis).pkt
  BY DEF OwnHeader
<1>1. s_axis \in Seq(Phit) /\ phit_idx \in Nat
  BY DEF TypeOK
<1>2. Head(s_axis) = s_axis[1] /\ 1 \in 1 .. Len(s_axis)
  BY <1>1, TailType
<1> QED
  BY <1>1, <1>2 DEF Framing, HeadOk, FirstPhitOk, deserialize

(* Each phit is judged by the header of the packet it belongs to.          *)
THEOREM OwnHeaderCorrect == Spec => []OwnHeader
BY TypeCorrect, FramingCorrect, FramingOwnHeader, PTL

LEMMA ForwardedAreUdpStep ==
  ASSUME TypeOK, OwnHeader, ForwardedAreUdp, [Next]_vars
  PROVE  ForwardedAreUdp'
<1> DEFINE IsUdp(p) == is_ipv4(p.pkt) /\ is_udp(p.pkt)
<1>1. m_axis \in Seq(Phit) /\ \A i \in 1 .. Len(m_axis) : IsUdp(m_axis[i])
  BY DEF TypeOK, ForwardedAreUdp
<1>2. CASE ProcessPhit
  <2> DEFINE phit == Head(s_axis)
             net  == deserialize(network, phit.data, phit_idx)
  <2>1. phit \in Phit /\ net = phit.pkt
    BY <1>2, TailType DEF ProcessPhit, TypeOK, OwnHeader
  <2>2. CASE table_action(net) = FORWARD
    <3>1. IsUdp(phit)
      BY <2>1, <2>2 DEF table_action, FORWARD, DROP
    <3>2. m_axis' = Append(m_axis, phit)
      BY <1>2, <2>2 DEF ProcessPhit
    <3>3. /\ Len(m_axis') = Len(m_axis) + 1
          /\ \A i \in 1 .. Len(m_axis) : m_axis'[i] = m_axis[i]
          /\ m_axis'[Len(m_axis) + 1] = phit
      BY <1>1, <2>1, <3>2, AppendType
    <3> QED
      BY <1>1, <3>1, <3>3 DEF ForwardedAreUdp
  <2>3. CASE table_action(net) # FORWARD
    BY <1>1, <1>2, <2>3 DEF ProcessPhit, ForwardedAreUdp
  <2> QED
    BY <2>2, <2>3
<1>3. CASE Deliver
  <2>1. /\ Len(m_axis') = Len(m_axis) - 1
        /\ \A i \in 1 .. Len(m_axis) - 1 : m_axis'[i] = m_axis[i + 1]
    BY <1>1, <1>3, TailType DEF Deliver
  <2>2. Len(m_axis) \in Nat
    BY <1>1
  <2>3. ASSUME NEW i \in 1 .. Len(m_axis) - 1
        PROVE  IsUdp(m_axis'[i])
    <3>1. i + 1 \in 1 .. Len(m_axis)
      BY <2>2
    <3> QED
      BY <1>1, <2>1, <3>1
  <2> QED
    BY <2>1, <2>3 DEF ForwardedAreUdp
<1>4. CASE UNCHANGED m_axis
  BY <1>4 DEF ForwardedAreUdp
<1> QED
  BY <1>2, <1>3, <1>4
     DEF Next, process_packet, ProcessIdle, Registers, WriteIp, WritePort,
         WriteAction, Traffic, Arrive, vars, stream

(* Only phits of IPv4/UDP packets leave the core.                          *)
THEOREM ForwardedAreUdpCorrect == Spec => []ForwardedAreUdp
<1>1. Init => ForwardedAreUdp
  BY DEF Init, ForwardedAreUdp
<1> QED
  BY <1>1, TypeCorrect, OwnHeaderCorrect, ForwardedAreUdpStep, PTL DEF Spec
-----------------------------------------------------------------------------
(* Incrementing below the modulus, with its wrap.                          *)
LEMMA ModSmall ==
  ASSUME NEW m \in Nat \ {0}, NEW a \in 0 .. m - 1
  PROVE  a % m = a
OBVIOUS

(* Counting one packet on either side keeps in = forward + drop.           *)
LEMMA ModBalance ==
  ASSUME NEW m \in Nat \ {0}, NEW f \in 0 .. m - 1, NEW d \in 0 .. m - 1
  PROVE  /\ (((f + d) % m) + 1) % m = (((f + 1) % m) + d) % m
         /\ (((f + d) % m) + 1) % m = (f + ((d + 1) % m)) % m
OBVIOUS

LEMMA StatsBalancedStep ==
  ASSUME TypeOK, StatsBalanced, [Next]_vars
  PROVE  StatsBalanced'
<1>1. CASE ProcessPhit /\ Head(s_axis).last
  <2> DEFINE phit == Head(s_axis)
             act  == table_action(deserialize(network, phit.data, phit_idx))
             idx  == NextPhitIdx(phit)
             f    == local_stats["pkt_forward"]
             d    == local_stats["pkt_drop"]
  <2>1. local_stats' = CountPacket(idx, act) /\ stats' = stats
    BY <1>1 DEF ProcessPhit
  <2>2. /\ f \in 0 .. StatMod - 1
        /\ d \in 0 .. StatMod - 1
        /\ local_stats["pkt_in"] = (f + d) % StatMod
        /\ DOMAIN local_stats = Counters
    BY DEF TypeOK, StatsType, Counters, StatsBalanced, Balanced
  <2>3. /\ local_stats'["pkt_in"] = (((f + d) % StatMod) + 1) % StatMod
        /\ local_stats'["pkt_forward"]
             = (f + (IF act = FORWARD THEN 1 ELSE 0)) % StatMod
        /\ local_stats'["pkt_drop"]
             = (d + (IF act = FORWARD THEN 0 ELSE 1)) % StatMod
    BY <2>1, <2>2 DEF CountPacket, Counters
  <2>4. f % StatMod = f /\ d % StatMod = d
    BY <2>2, ModSmall, CoreAssumption
  <2>5. /\ (((f + d) % StatMod) + 1) % StatMod = (((f + 1) % StatMod) + d) % StatMod
        /\ (((f + d) % StatMod) + 1) % StatMod = (f + ((d + 1) % StatMod)) % StatMod
    BY <2>2, ModBalance, CoreAssumption
  <2>6. f + 0 = f /\ d + 0 = d
    BY <2>2
  <2>7. Balanced(local_stats')
    <3>1. CASE act = FORWARD
      <4>1. /\ local_stats'["pkt_forward"] = (f + 1) % StatMod
            /\ local_stats'["pkt_drop"] = d
        BY <3>1, <2>3, <2>4, <2>6
      <4>2. local_stats'["pkt_in"] = (((f + 1) % StatMod) + d) % StatMod
        BY <2>3, <2>5
      <4> QED
        BY <4>1, <4>2 DEF Balanced
    <3>2. CASE act # FORWARD
      <4>1. /\ local_stats'["pkt_forward"] = f
            /\ local_stats'["pkt_drop"] = (d + 1) % StatMod
        BY <3>2, <2>3, <2>4, <2>6
      <4>2. local_stats'["pkt_in"] = (f + ((d + 1) % StatMod)) % StatMod
        BY <2>3, <2>5
      <4> QED
        BY <4>1, <4>2 DEF Balanced
    <3> QED
      BY <3>1, <3>2
  <2> QED
    BY <2>1, <2>7 DEF StatsBalanced
<1>2. CASE ProcessPhit /\ ~Head(s_axis).last
  BY <1>2 DEF ProcessPhit, StatsBalanced
<1>3. CASE ProcessIdle
  BY <1>3 DEF ProcessIdle, StatsBalanced
<1>4. CASE UNCHANGED <<local_stats, stats>>
  BY <1>4 DEF StatsBalanced
<1> QED
  BY <1>1, <1>2, <1>3, <1>4
     DEF Next, process_packet, Registers, WriteIp, WritePort, WriteAction,
         Traffic, Arrive, Deliver, vars, core

(* Every packet counted in is counted once as forwarded or dropped, in the *)
(* counters of the core and in the registers the software reads, whatever  *)
(* the width of the counters.                                              *)
THEOREM StatsBalancedCorrect == Spec => []StatsBalanced
<1>1. Init => StatsBalanced
  <2>1. 0 = (0 + 0) % StatMod
    BY ModSmall, CoreAssumption
  <2> QED
    BY <2>1 DEF Init, StatsBalanced, Balanced, ZeroStats, Counters
<1> QED
  BY <1>1, TypeCorrect, StatsBalancedStep, PTL DEF Spec
-----------------------------------------------------------------------------
(* The settled filter: no register is written any more and the last rule   *)
(* is in the table, so an insertion changes nothing.                       *)
TableSettled == insert(table, cfg.ip, cfg.port, cfg.action) = table

SettledInv == TypeOK /\ Framing /\ TableSettled /\ GateOk /\ WholeFrames

LEMMA SettledInitInv == SettledInit => SettledInv
<1> SUFFICES ASSUME SettledInit PROVE SettledInv
  OBVIOUS
<1>1. TypeOK
  <2>1. local_stats \in StatsType /\ stats \in StatsType
    BY CoreAssumption DEF SettledInit, StatsType, ZeroStats
  <2>2. s_axis \in Seq(Phit) /\ m_axis \in Seq(Phit)
    BY DEF SettledInit
  <2>3. c2h \in Phit
    <3>1. PICK d \in Headers, p \in Headers :
            c2h = [data |-> d, pkt |-> p, pos |-> 0, last |-> TRUE]
      BY DEF SettledInit
    <3> QED
      BY <3>1 DEF Phit
  <2>4. /\ cfg \in [ip : Ips, port : Ports, action : RuleActions]
        /\ table \in [Slots -> RuleActions]
        /\ rx \in [pkt : Headers, pos : Nat]
        /\ phit_idx \in Nat
        /\ network \in HeaderType
    BY NoHeaderType DEF SettledInit
  <2> QED
    BY <2>1, <2>2, <2>3, <2>4 DEF TypeOK
<1>2. Framing
  BY DEF SettledInit, Framing, ChainOk, FirstPhitOk, HeadOk, LastOk
<1>3. TableSettled
  BY DEF SettledInit, TableSettled
<1>4. GateOk
  <2>1. c2h.last /\ phit_idx = 0 /\ m_axis = <<>>
    BY DEF SettledInit
  <2> QED
    BY <2>1 DEF GateOk
<1>5. WholeFrames
  BY DEF SettledInit, WholeFrames
<1> QED
  BY <1>1, <1>2, <1>3, <1>4, <1>5 DEF SettledInv

LEMMA SettledTypeFraming ==
  ASSUME TypeOK, Framing, [SettledNext]_vars
  PROVE  TypeOK' /\ Framing'
<1>1. CASE ProcessPhit
  BY <1>1, ProcessPhitTypeOK, ProcessPhitFraming
<1>2. CASE ProcessIdle
  BY <1>2, ProcessIdleTypeOK, OtherFraming DEF ProcessIdle, stream
<1>3. CASE Deliver
  BY <1>3, DeliverTypeOK, OtherFraming DEF Deliver, core
<1>4. CASE \E data \in Headers, last \in BOOLEAN : Arrive(data, last)
  BY <1>4, ArriveTypeOK, ArriveFraming
<1>5. CASE UNCHANGED vars
  BY <1>5, StutterTypeOK, OtherFraming DEF vars, core, stream
<1> QED
  BY <1>1, <1>2, <1>3, <1>4, <1>5 DEF SettledNext, process_packet, Traffic

LEMMA SettledTable ==
  ASSUME TableSettled, [SettledNext]_vars
  PROVE  TableSettled' /\ table' = table
<1>1. cfg' = cfg /\ table' = table
  BY DEF TableSettled, SettledNext, process_packet, ProcessIdle, ProcessPhit,
         Traffic, Arrive, Deliver, vars, core
<1> QED
  BY <1>1 DEF TableSettled

(* A phit forwarded follows the one forwarded before it.                   *)
LEMMA ProcessPhitGate ==
  ASSUME TypeOK, Framing, GateOk, WholeFrames, ProcessPhit
  PROVE  GateOk' /\ WholeFrames'
<1> DEFINE phit == Head(s_axis)
           net  == deserialize(network, phit.data, phit_idx)
           out  == IF m_axis = <<>> THEN c2h ELSE m_axis[Len(m_axis)]
           n    == Len(m_axis)
<1>1. /\ phit \in Phit
      /\ phit.pos = phit_idx
      /\ phit_idx \in Nat
      /\ net = phit.pkt
  <2>1. OwnHeader /\ s_axis \in Seq(Phit) /\ s_axis # <<>>
    BY FramingOwnHeader DEF ProcessPhit, TypeOK
  <2> QED
    BY <2>1, TailType DEF OwnHeader, TypeOK, Framing, HeadOk
<1>2. /\ m_axis \in Seq(Phit)
      /\ n \in Nat
      /\ m_axis = <<>> <=> n = 0
      /\ out \in Phit
  BY DEF TypeOK
<1>3. /\ network' = net
      /\ phit_idx' = IF phit.last THEN 0 ELSE phit_idx + 1
      /\ table' = table
      /\ c2h' = c2h
  BY DEF ProcessPhit, NextPhitIdx
<1>4. phit_idx > 0 => net = network
  BY <1>1 DEF deserialize
<1>5. out.pos \in Nat /\ out.last \in BOOLEAN /\ phit.last \in BOOLEAN
  BY <1>1, <1>2 DEF Phit
<1>6. CASE table_action(net) = FORWARD
  <2>1. Follows(out, phit)
    BY <1>1, <1>4, <1>5, <1>6 DEF GateOk, Follows
  <2>2. m_axis' = Append(m_axis, phit)
    BY <1>6 DEF ProcessPhit
  <2>3. /\ Len(m_axis') = n + 1
        /\ m_axis' # <<>>
        /\ \A i \in 1 .. n : m_axis'[i] = m_axis[i]
        /\ m_axis'[n + 1] = phit
    BY <1>1, <1>2, <2>2, AppendType
  <2>4. WholeFrames'
    <3>1. Follows(c2h', m_axis'[1])
      BY <1>2, <1>3, <2>1, <2>3 DEF WholeFrames
    <3>2. ASSUME NEW i \in 1 .. n PROVE Follows(m_axis'[i], m_axis'[i + 1])
      <4>1. CASE i = n
        BY <4>1, <1>2, <2>1, <2>3
      <4>2. CASE i < n
        BY <4>2, <1>2, <2>3 DEF WholeFrames
      <4> QED
        BY <4>1, <4>2, <1>2
    <3> QED
      BY <1>2, <2>3, <3>1, <3>2 DEF WholeFrames, Follows
  <2>5. table_action(network)' = FORWARD
    BY <1>3, <1>6 DEF table_action, lookup
  <2>6. GateOk'
    BY <1>1, <1>2, <1>3, <1>5, <2>3, <2>5 DEF GateOk
  <2> QED
    BY <2>4, <2>6
<1>7. CASE table_action(net) # FORWARD
  <2>1. m_axis' = m_axis
    BY <1>7 DEF ProcessPhit
  <2>2. out.last
    BY <1>4, <1>5, <1>7 DEF GateOk
  <2>3. table_action(network)' # FORWARD
    BY <1>3, <1>7 DEF table_action, lookup
  <2>4. GateOk'
    BY <1>3, <2>1, <2>2, <2>3 DEF GateOk
  <2> QED
    BY <1>3, <2>1, <2>4 DEF WholeFrames, Follows
<1> QED
  BY <1>6, <1>7

LEMMA DeliverGate ==
  ASSUME TypeOK, GateOk, WholeFrames, Deliver
  PROVE  GateOk' /\ WholeFrames'
<1> DEFINE n == Len(m_axis)
<1>1. /\ m_axis \in Seq(Phit)
      /\ m_axis # <<>>
      /\ m_axis' = Tail(m_axis)
      /\ c2h' = Head(m_axis)
  BY DEF TypeOK, Deliver
<1>2. /\ n \in Nat
      /\ n > 0
      /\ Len(m_axis') = n - 1
      /\ \A i \in 1 .. n - 1 : m_axis'[i] = m_axis[i + 1]
      /\ c2h' = m_axis[1]
      /\ m_axis' \in Seq(Phit)
      /\ m_axis' = <<>> <=> n = 1
  <2>1. /\ n \in Nat
        /\ n > 0
        /\ Len(m_axis') = n - 1
        /\ \A i \in 1 .. n - 1 : m_axis'[i] = m_axis[i + 1]
        /\ c2h' = m_axis[1]
        /\ m_axis' \in Seq(Phit)
    BY <1>1, TailType
  <2> QED
    BY <2>1
<1>3. network' = network /\ phit_idx' = phit_idx /\ table' = table
  BY DEF Deliver, core
<1>4. WholeFrames'
  <2>1. n > 1 => Follows(c2h', m_axis'[1])
    BY <1>2 DEF WholeFrames
  <2>2. ASSUME NEW i \in 1 .. n - 2 PROVE Follows(m_axis'[i], m_axis'[i + 1])
    <3>1. i + 1 \in 1 .. n - 1 /\ i \in 1 .. n - 1
      BY <1>2
    <3> QED
      BY <3>1, <1>2 DEF WholeFrames
  <2> QED
    BY <1>2, <2>1, <2>2 DEF WholeFrames, Follows
<1>5. GateOk'
  <2>1. table_action(network)' = table_action(network)
    BY <1>3 DEF table_action, lookup
  <2>2. (IF m_axis' = <<>> THEN c2h' ELSE m_axis'[Len(m_axis')]) = m_axis[n]
    BY <1>2
  <2> QED
    BY <1>1, <1>3, <2>1, <2>2 DEF GateOk
<1> QED
  BY <1>4, <1>5

LEMMA OtherGate ==
  ASSUME GateOk, WholeFrames,
         UNCHANGED <<table, phit_idx, network, m_axis, c2h>>
  PROVE  GateOk' /\ WholeFrames'
<1>1. table_action(network)' = table_action(network)
  BY DEF table_action, lookup
<1> QED
  BY <1>1 DEF GateOk, WholeFrames, Follows

LEMMA SettledStep ==
  ASSUME SettledInv, [SettledNext]_vars
  PROVE  SettledInv'
<1>1. TypeOK' /\ Framing'
  BY SettledTypeFraming DEF SettledInv
<1>2. TableSettled' /\ table' = table
  BY SettledTable DEF SettledInv
<1>3. GateOk' /\ WholeFrames'
  <2>1. CASE ProcessPhit
    BY <2>1, ProcessPhitGate DEF SettledInv
  <2>2. CASE Deliver
    BY <2>2, DeliverGate DEF SettledInv
  <2>3. CASE UNCHANGED <<phit_idx, network, m_axis, c2h>>
    BY <2>3, <1>2, OtherGate DEF SettledInv
  <2> QED
    BY <2>1, <2>2, <2>3
       DEF SettledNext, process_packet, ProcessIdle, Traffic, Arrive,
           vars, core, stream
<1> QED
  BY <1>1, <1>2, <1>3 DEF SettledInv

(* With the rules settled, the host receives whole packets or nothing of   *)
(* them: the decision process_packet retakes on each phit is the same one. *)
THEOREM SettledWholeFrames == SettledSpec => []WholeFrames
<1>1. SettledInit => SettledInv
  BY SettledInitInv
<1>2. SettledInv /\ [SettledNext]_vars => SettledInv'
  BY SettledStep
<1>3. SettledInv => WholeFrames
  BY DEF SettledInv
<1> QED
  BY <1>1, <1>2, <1>3, PTL DEF SettledSpec

(* The output and the phit index of the core agree at every moment on      *)
(* whether a packet the table forwards is under way, and on which phit.    *)
THEOREM GateCorrect == SettledSpec => []GateOk
<1>1. SettledInit => SettledInv
  BY SettledInitInv
<1>2. SettledInv /\ [SettledNext]_vars => SettledInv'
  BY SettledStep
<1>3. SettledInv => GateOk
  BY DEF SettledInv
<1> QED
  BY <1>1, <1>2, <1>3, PTL DEF SettledSpec
=============================================================================
