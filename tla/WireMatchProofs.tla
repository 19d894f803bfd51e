-------------------------- MODULE WireMatchProofs --------------------------
(***************************************************************************)
(* Proofs about WireMatch, for every key of the hash, every filter and     *)
(* every packet: the decision on a packet is the filter's, and the hash    *)
(* behind it is the Toeplitz product of what the wire carries.             *)
(***************************************************************************)
EXTENDS WireMatch, ToeplitzHashProofs

(* Swapping the octets of a word is its own inverse.                       *)
LEMMA SwapInjective ==
  ASSUME NEW a \in Word16, NEW b \in Word16, bswap16(a) = bswap16(b)
  PROVE  a = b
<1>1. \A w \in Word16 : \A c \in 0 .. 7 :
        /\ c \in w <=> c + 8 \in bswap16(w)
        /\ c + 8 \in w <=> c \in bswap16(w)
  BY DEF Word16, bswap16, Pair, High, Low
<1>2. \A c \in 0 .. 15 : c \in a <=> c \in b
  <2> SUFFICES ASSUME NEW c \in 0 .. 15 PROVE c \in a <=> c \in b
    OBVIOUS
  <2>1. CASE c \in 0 .. 7
    BY <1>1, <2>1
  <2>2. CASE c \in 8 .. 15
    <3>1. c - 8 \in 0 .. 7 /\ (c - 8) + 8 = c
      BY <2>2
    <3> QED
      BY <1>1, <3>1
  <2> QED
    BY <2>1, <2>2
<1> QED
  BY <1>2 DEF Word16

(* Every octet of a frame is one.                                          *)
LEMMA FrameType ==
  ASSUME NEW p \in PacketType, NEW k \in 0 .. 63
  PROVE  Frame(p)[k] \subseteq 0 .. 7
<1>1. /\ High(p.eth_type) \subseteq 0 .. 7 /\ Low(p.eth_type) \subseteq 0 .. 7
      /\ High(p.dport) \subseteq 0 .. 7 /\ Low(p.dport) \subseteq 0 .. 7
      /\ p.protocol \subseteq 0 .. 7
      /\ \A j \in 1 .. 4 : p.dst[j] \subseteq 0 .. 7
      /\ \A n \in {0, 1} : p.fill[n] \subseteq 0 .. 7
  BY DEF PacketType, Octet, High, Low
<1>2. k % 2 \in {0, 1}
  OBVIOUS
<1>3. k \in 30 .. 33 => k - 29 \in 1 .. 4
  OBVIOUS
<1>4. VersionIhl(p.ihl) \subseteq 0 .. 7
  BY DEF VersionIhl
<1>5. \/ Frame(p)[k] \in {High(p.eth_type), Low(p.eth_type), VersionIhl(p.ihl),
                          p.protocol, High(p.dport), Low(p.dport), p.fill[k % 2]}
      \/ k \in 30 .. 33 /\ Frame(p)[k] = p.dst[k - 29]
  BY DEF Frame
<1> QED
  BY <1>1, <1>2, <1>3, <1>4, <1>5

(* Bit b of octet k is bit 8 * k + b of the phit.                          *)
LEMMA PhitBit ==
  ASSUME NEW p \in PacketType, NEW k \in 0 .. 63, NEW b \in 0 .. 7
  PROVE  8 * k + b \in Phit(p) <=> b \in Frame(p)[k]
<1>1. ASSUME 8 * k + b \in Phit(p) PROVE b \in Frame(p)[k]
  <2>1. PICK m \in 0 .. 63 : \E c \in Frame(p)[m] : 8 * k + b = 8 * m + c
    BY <1>1 DEF Phit
  <2>2. PICK c \in Frame(p)[m] : 8 * k + b = 8 * m + c
    BY <2>1
  <2>3. c \in 0 .. 7
    BY <2>2, FrameType
  <2>4. ~(m < k) /\ ~(k < m)
    BY <2>2, <2>3
  <2>5. m = k /\ c = b
    BY <2>2, <2>3, <2>4
  <2> QED
    BY <2>2, <2>5
<1>2. ASSUME b \in Frame(p)[k] PROVE 8 * k + b \in Phit(p)
  BY <1>2 DEF Phit
<1> QED
  BY <1>1, <1>2

(* The octets the core reads.                                              *)
LEMMA FrameOctets ==
  ASSUME NEW p \in PacketType
  PROVE  /\ Frame(p)[12] = High(p.eth_type) /\ Frame(p)[13] = Low(p.eth_type)
         /\ Frame(p)[23] = p.protocol
         /\ Frame(p)[30] = p.dst[1] /\ Frame(p)[31] = p.dst[2]
         /\ Frame(p)[32] = p.dst[3] /\ Frame(p)[33] = p.dst[4]
         /\ Plain(p) => /\ Frame(p)[36] = High(p.dport)
                        /\ Frame(p)[37] = Low(p.dport)
<1> DEFINE udp == 14 + 4 * p.ihl
<1>1. udp \in Nat /\ udp >= 34
  BY DEF PacketType
<1>2. /\ \A n \in 0 .. 35 : n # udp + 2 /\ n # udp + 3
      /\ udp + 2 # udp + 3
  BY <1>1
<1>3. Frame(p) =
        [k \in 0 .. 63 |->
           CASE k = 12 -> High(p.eth_type)
             [] k = 13 -> Low(p.eth_type)
             [] k = 14 -> VersionIhl(p.ihl)
             [] k = 23 -> p.protocol
             [] k \in 30 .. 33 -> p.dst[k - 29]
             [] p.first /\ k = udp + 2 -> High(p.dport)
             [] p.first /\ k = udp + 3 -> Low(p.dport)
             [] OTHER -> p.fill[k % 2]]
  BY DEF Frame
<1> HIDE DEF udp
<1>4. /\ Frame(p)[12] = High(p.eth_type)
      /\ Frame(p)[13] = Low(p.eth_type)
      /\ Frame(p)[23] = p.protocol
  BY <1>2, <1>3
<1>5. \A k \in 30 .. 33 : Frame(p)[k] = p.dst[k - 29]
  BY <1>2, <1>3
<1>6. /\ 30 - 29 = 1 /\ 31 - 29 = 2 /\ 32 - 29 = 3 /\ 33 - 29 = 4
      /\ \A k \in {30, 31, 32, 33} : k \in 30 .. 33
  OBVIOUS
<1>7. ASSUME Plain(p) PROVE Frame(p)[36] = High(p.dport) /\ Frame(p)[37] = Low(p.dport)
  <2>1. p.ihl = 5 /\ p.first
    BY <1>7 DEF Plain
  <2>2. 14 + 4 * p.ihl + 2 = 36 /\ 14 + 4 * p.ihl + 3 = 37
    BY <2>1
  <2> QED
    BY <2>1, <2>2 DEF Frame
<1> QED
  BY <1>4, <1>5, <1>6, <1>7

(* Two octets read as a little-endian word.                                *)
LEMMA RangeWord ==
  ASSUME NEW p \in PacketType, NEW k \in 0 .. 62
  PROVE  range(Phit(p), <<8 * k + 15, 8 * k>>) = Pair(Frame(p)[k], Frame(p)[k + 1])
<1> SUFFICES ASSUME NEW b \in Int
             PROVE  (b \in 0 .. 15 /\ 8 * k + b \in Phit(p))
                      <=> (b \in Frame(p)[k] \/ \E c \in Frame(p)[k + 1] : b = c + 8)
  <2>1. Pair(Frame(p)[k], Frame(p)[k + 1]) \subseteq Int
    BY FrameType DEF Pair
  <2>2. range(Phit(p), <<8 * k + 15, 8 * k>>)
          = {b \in 0 .. 15 : 8 * k + b \in Phit(p)}
    <3>1. (8 * k + 15) - 8 * k = 15
      OBVIOUS
    <3> QED
      BY <3>1 DEF range
  <2> QED
    BY <2>1, <2>2 DEF Pair
<1>1. Frame(p)[k] \subseteq 0 .. 7 /\ Frame(p)[k + 1] \subseteq 0 .. 7
  BY FrameType
<1>2. CASE b \in 0 .. 7
  BY <1>1, <1>2, PhitBit
<1>3. CASE b \in 8 .. 15
  <2>1. b - 8 \in 0 .. 7 /\ 8 * (k + 1) + (b - 8) = 8 * k + b /\ k + 1 \in 0 .. 63
    BY <1>3
  <2>2. 8 * k + b \in Phit(p) <=> b - 8 \in Frame(p)[k + 1]
    BY <2>1, PhitBit
  <2> QED
    BY <1>1, <1>3, <2>2
<1>4. CASE b \notin 0 .. 15
  BY <1>1, <1>4
<1> QED
  BY <1>2, <1>3, <1>4

(* What deserialize makes of the bits of the header the decision uses.     *)
LEMMA Deserialized ==
  ASSUME NEW p \in PacketType
  PROVE  LET net == deserialize(Phit(p))
         IN  /\ net.eth_type = bswap16(p.eth_type)
             /\ net.protocol = p.protocol
             /\ net.dest_ip = inet_addr(p.dst)
             /\ Plain(p) => net.dest_port = bswap16(p.dport)
<1> DEFINE d == Phit(p)
<1>1. /\ deserialize(d).eth_type = range(d, <<111, 96>>)
      /\ deserialize(d).protocol = range(d, <<191, 184>>)
      /\ deserialize(d).dest_ip = range(d, <<271, 240>>)
      /\ deserialize(d).dest_port = range(d, <<303, 288>>)
  <2> HIDE DEF d
  <2>1. /\ deserialize(d).eth_type = range(d, <<111, 96>>) \cap (0 .. 15)
        /\ deserialize(d).protocol = range(d, <<191, 184>>) \cap (0 .. 7)
        /\ deserialize(d).dest_ip = range(d, <<271, 240>>) \cap (0 .. 31)
        /\ deserialize(d).dest_port = range(d, <<303, 288>>) \cap (0 .. 15)
    BY DEF deserialize, Fields, Width
  <2>2. /\ range(d, <<111, 96>>) \subseteq 0 .. 15
        /\ range(d, <<191, 184>>) \subseteq 0 .. 7
        /\ range(d, <<271, 240>>) \subseteq 0 .. 31
        /\ range(d, <<303, 288>>) \subseteq 0 .. 15
    BY DEF range
  <2> QED
    BY <2>1, <2>2
<1>2. range(d, <<111, 96>>) = bswap16(p.eth_type)
  <2>1. range(d, <<8 * 12 + 15, 8 * 12>>) = Pair(Frame(p)[12], Frame(p)[12 + 1])
    BY RangeWord
  <2>2. 8 * 12 + 15 = 111 /\ 8 * 12 = 96 /\ 12 + 1 = 13
    OBVIOUS
  <2> HIDE DEF d
  <2> QED
    BY <2>1, <2>2, FrameOctets DEF bswap16
<1>3. range(d, <<191, 184>>) = p.protocol
  <2>1. Frame(p)[23] = p.protocol /\ p.protocol \subseteq 0 .. 7
    BY FrameOctets DEF PacketType, Octet
  <2>2. \A b \in 0 .. 7 : 184 + b \in d <=> b \in p.protocol
    <3> SUFFICES ASSUME NEW b \in 0 .. 7 PROVE 184 + b \in d <=> b \in p.protocol
      OBVIOUS
    <3>1. 8 * 23 + b = 184 + b
      OBVIOUS
    <3> QED
      BY <2>1, <3>1, PhitBit
  <2> HIDE DEF d
  <2>3. range(d, <<191, 184>>) = {b \in 0 .. 7 : 184 + b \in d}
    <3>1. 191 - 184 = 7
      OBVIOUS
    <3> QED
      BY <3>1 DEF range
  <2> QED
    BY <2>1, <2>2, <2>3
<1>4. range(d, <<271, 240>>) = inet_addr(p.dst)
  <2>1. range(d, <<271, 240>>) = {b \in 0 .. 31 : 240 + b \in d}
    <3> HIDE DEF d
    <3>1. 271 - 240 = 31
      OBVIOUS
    <3> QED
      BY <3>1 DEF range
  <2>2. \A j \in 1 .. 4, c \in 0 .. 7 :
          240 + (8 * (j - 1) + c) \in d <=> c \in p.dst[j]
    <3> SUFFICES ASSUME NEW j \in 1 .. 4, NEW c \in 0 .. 7
                 PROVE  240 + (8 * (j - 1) + c) \in d <=> c \in p.dst[j]
      OBVIOUS
    <3>1. 29 + j \in 0 .. 63 /\ 8 * (29 + j) + c = 240 + (8 * (j - 1) + c)
      OBVIOUS
    <3>2. Frame(p)[29 + j] = p.dst[j]
      <4>1. j = 1 \/ j = 2 \/ j = 3 \/ j = 4
        OBVIOUS
      <4>2. 29 + 1 = 30 /\ 29 + 2 = 31 /\ 29 + 3 = 32 /\ 29 + 4 = 33
        OBVIOUS
      <4> QED
        BY <4>1, <4>2, FrameOctets
    <3> QED
      BY <3>1, <3>2, PhitBit
  <2>3. \A j \in 1 .. 4 : p.dst[j] \subseteq 0 .. 7
    BY DEF PacketType, Octet
  <2> HIDE DEF d
  <2>4. ASSUME NEW b \in 0 .. 31, 240 + b \in d
        PROVE  b \in inet_addr(p.dst)
    <3>1. PICK j \in 1 .. 4, c \in 0 .. 7 : b = 8 * (j - 1) + c
      <4>1. (b \div 8) + 1 \in 1 .. 4 /\ b % 8 \in 0 .. 7
            /\ b = 8 * (((b \div 8) + 1) - 1) + (b % 8)
        OBVIOUS
      <4> QED
        BY <4>1
    <3>2. c \in p.dst[j]
      BY <2>2, <2>4, <3>1
    <3> QED
      BY <3>1, <3>2 DEF inet_addr
  <2>5. ASSUME NEW b \in inet_addr(p.dst)
        PROVE  b \in 0 .. 31 /\ 240 + b \in d
    <3>1. PICK j \in 1 .. 4 : \E c \in p.dst[j] : b = 8 * (j - 1) + c
      BY <2>5 DEF inet_addr
    <3>2. PICK c \in p.dst[j] : b = 8 * (j - 1) + c
      BY <3>1
    <3>3. c \in 0 .. 7
      BY <2>3, <3>2
    <3>4. b \in 0 .. 31
      BY <3>2, <3>3
    <3> QED
      BY <2>2, <3>2, <3>3, <3>4
  <2> QED
    BY <2>1, <2>4, <2>5
<1>5. Plain(p) => range(d, <<303, 288>>) = bswap16(p.dport)
  <2>1. range(d, <<8 * 36 + 15, 8 * 36>>) = Pair(Frame(p)[36], Frame(p)[36 + 1])
    BY RangeWord
  <2>2. 8 * 36 + 15 = 303 /\ 8 * 36 = 288 /\ 36 + 1 = 37
    OBVIOUS
  <2> HIDE DEF d
  <2> QED
    BY <2>1, <2>2, FrameOctets DEF bswap16
<1> HIDE DEF d
<1> QED
  BY <1>1, <1>2, <1>3, <1>4, <1>5 DEF d

(* The tests of the core are those of the packet.                          *)
LEMMA Tested ==
  ASSUME NEW p \in PacketType
  PROVE  /\ is_ipv4(deserialize(Phit(p))) <=> p.eth_type = IPV4
         /\ is_udp(deserialize(Phit(p))) <=> p.protocol = UDP
<1>1. p.eth_type \in Word16 /\ IPV4 \in Word16
  BY DEF PacketType, IPV4, Word16
<1>2. bswap16(p.eth_type) = bswap16(IPV4) <=> p.eth_type = IPV4
  BY <1>1, SwapInjective
<1> QED
  BY <1>2, Deserialized DEF is_ipv4, is_udp
-----------------------------------------------------------------------------
(* What is being hashed belongs to the phase, and the table holds the      *)
(* filter's index alone.                                                   *)
PhaseInv ==
  /\ phase \in {"idle", "decided"} => loop = "done"
  /\ phase = "insert" => /\ ip = inet_addr(filter.ip)
                         /\ port = bswap16(filter.port)
                         /\ table = {}
  /\ phase # "insert" => table = {IndexOf(filter.ip, filter.port)}
  /\ phase \in {"lookup", "decided"} => pkt \in Packets
  /\ phase = "lookup" =>
       /\ pkt.eth_type = IPV4 /\ pkt.protocol = UDP
       /\ Plain(pkt) => ip = inet_addr(pkt.dst) /\ port = bswap16(pkt.dport)

WireInv == HashTypeOK /\ LoopInvariant /\ PhaseInv /\ WireDecision

(* The Toeplitz product and its index depend on no variable but size.      *)
LEMMA IndexRigid ==
  ASSUME size' = size, filter' = filter
  PROVE  /\ \A a, n : IndexOf(a, n)' = IndexOf(a, n)
         /\ IndexOf(filter.ip, filter.port)' = IndexOf(filter.ip, filter.port)
BY DEF IndexOf, Toeplitz, Vector, Hits, inet_addr, bswap16, Pair, High, Low,
       HASH_BITS, clz

(* The index of a finished hash is that of what was hashed.                *)
LEMMA IndexDone ==
  ASSUME LoopInvariant, loop = "done", NEW a, NEW n,
         ip = inet_addr(a), port = bswap16(n)
  PROVE  index = IndexOf(a, n)
BY DEF LoopInvariant, Visited, index, IndexOf

LEMMA WireInitInv == WireInit => WireInv
<1> SUFFICES ASSUME WireInit PROVE WireInv
  OBVIOUS
<1>1. HashTypeOK
  BY HashTypeInit DEF WireInit
<1>2. LoopInvariant
  <2>1. Visited = {} /\ hash = {}
    BY DEF WireInit, HashInit, Visited
  <2> QED
    BY <2>1, ToeplitzEmpty DEF LoopInvariant
<1>3. PhaseInv /\ WireDecision
  BY DEF WireInit, HashInit, PhaseInv, WireDecision, htons
<1> QED
  BY <1>1, <1>2, <1>3 DEF WireInv

LEMMA HashStepInv ==
  ASSUME WireInv, Hash
  PROVE  WireInv'
<1>1. HashTypeOK' /\ LoopInvariant'
  BY HashTypeStep, LoopInvariantStep DEF WireInv, Hash
<1>2. /\ ip' = ip /\ port' = port /\ size' = size
      /\ loop # "done"
      /\ UNCHANGED <<phase, filter, table, pkt, table_action>>
  BY DEF Hash, HashNext, IpBit, IpDone, PortBit, PortDone, wire
<1>3. phase \in {"insert", "lookup"} \/ phase \notin WirePhases
  BY <1>2 DEF WireInv, PhaseInv, WirePhases
<1>4. PhaseInv'
  <2>1. IndexOf(filter.ip, filter.port)' = IndexOf(filter.ip, filter.port)
    BY <1>2, IndexRigid
  <2> QED
    BY <1>2, <2>1 DEF WireInv, PhaseInv, Plain
<1>5. WireDecision'
  BY <1>2 DEF WireInv, PhaseInv, WireDecision
<1> QED
  BY <1>1, <1>4, <1>5 DEF WireInv

LEMMA InsertStepInv ==
  ASSUME WireInv, insert
  PROVE  WireInv'
<1>1. /\ UNCHANGED hvars /\ UNCHANGED <<filter, pkt, table_action>>
      /\ size' = size /\ loop' = loop /\ loop = "done"
      /\ phase = "insert" /\ phase' = "idle"
  BY DEF insert, hvars
<1>2. HashTypeOK' /\ LoopInvariant'
  BY <1>1, HashTypeStep, LoopInvariantStep DEF WireInv
<1>3. table' = {IndexOf(filter.ip, filter.port)}
  <2>1. table = {} /\ index = IndexOf(filter.ip, filter.port)
    BY <1>1, IndexDone DEF WireInv, PhaseInv
  <2> QED
    BY <2>1 DEF insert
<1>4. PhaseInv'
  <2>1. IndexOf(filter.ip, filter.port)' = IndexOf(filter.ip, filter.port)
    BY <1>1, IndexRigid
  <2> QED
    BY <1>1, <1>3, <2>1 DEF PhaseInv
<1>5. WireDecision'
  BY <1>1 DEF WireDecision
<1> QED
  BY <1>2, <1>4, <1>5 DEF WireInv

LEMMA ReceiveStepInv ==
  ASSUME WireInv, Receive
  PROVE  WireInv'
<1>1. PICK p \in Packets :
        /\ pkt' = p
        /\ network' = deserialize(Phit(p))
        /\ IF is_ipv4(deserialize(Phit(p))) /\ is_udp(deserialize(Phit(p)))
           THEN /\ phase' = "lookup"
                /\ ip' = deserialize(Phit(p)).dest_ip
                /\ port' = deserialize(Phit(p)).dest_port
                /\ hash' = {} /\ loop' = "ip" /\ i' = 0
           ELSE /\ phase' = "decided"
                /\ UNCHANGED <<ip, port, hash, loop, i>>
  BY DEF Receive
<1>2. /\ phase = "idle" /\ table_action' = 0
      /\ size' = size /\ filter' = filter /\ table' = table
      /\ loop = "done"
  BY DEF Receive, WireInv, PhaseInv
<1>3. p \in PacketType
  BY <1>1, WireAssumption
<1>4. table' = {IndexOf(filter.ip, filter.port)'}
  BY <1>2, IndexRigid DEF WireInv, PhaseInv
<1>5. CASE p.eth_type = IPV4 /\ p.protocol = UDP
  <2>1. /\ phase' = "lookup"
        /\ ip' = deserialize(Phit(p)).dest_ip
        /\ port' = deserialize(Phit(p)).dest_port
        /\ hash' = {} /\ loop' = "ip" /\ i' = 0
    BY <1>1, <1>3, <1>5, Tested
  <2>2. /\ ip' = inet_addr(p.dst)
        /\ Plain(p) => port' = bswap16(p.dport)
    BY <1>3, <2>1, Deserialized
  <2>3. ip' \in SUBSET Ip /\ port' \in SUBSET Port
    <3>1. /\ deserialize(Phit(p)).dest_ip \subseteq 0 .. 31
          /\ deserialize(Phit(p)).dest_port \subseteq 0 .. 15
      BY DEF deserialize, Fields, Width
    <3> QED
      BY <2>1, <3>1, WireAssumption DEF Ip, Port
  <2>4. HashTypeOK'
    BY <1>2, <2>1, <2>3, HashAssumption DEF WireInv, HashTypeOK
  <2>5. LoopInvariant'
    <3>1. Visited' = {}
      BY <2>1 DEF Visited
    <3>2. hash' = Toeplitz(Visited')
      BY <2>1, <3>1, ToeplitzEmpty
    <3> QED
      BY <3>2, LoopInvariantNext
  <2>6. PhaseInv'
    BY <1>1, <1>2, <1>4, <1>5, <2>1, <2>2 DEF PhaseInv, Plain
  <2>7. WireDecision'
    BY <2>1 DEF WireDecision
  <2> QED
    BY <2>4, <2>5, <2>6, <2>7 DEF WireInv
<1>6. CASE ~(p.eth_type = IPV4 /\ p.protocol = UDP)
  <2>1. phase' = "decided" /\ UNCHANGED hvars
    BY <1>1, <1>2, <1>3, <1>6, Tested DEF hvars
  <2>2. HashTypeOK' /\ LoopInvariant'
    BY <2>1, HashTypeStep, LoopInvariantStep DEF WireInv
  <2>3. loop' = "done"
    BY <1>2, <2>1 DEF hvars
  <2>4. PhaseInv'
    BY <1>1, <1>4, <2>1, <2>3 DEF PhaseInv
  <2>5. WireDecision'
    BY <1>1, <1>2, <1>6 DEF WireDecision
  <2> QED
    BY <2>2, <2>4, <2>5 DEF WireInv
<1> QED
  BY <1>5, <1>6

LEMMA LookupStepInv ==
  ASSUME WireInv, lookup
  PROVE  WireInv'
<1>1. /\ UNCHANGED hvars /\ UNCHANGED <<filter, pkt, table>>
      /\ size' = size /\ loop' = loop /\ loop = "done"
      /\ phase = "lookup" /\ phase' = "decided"
      /\ table_action' = IF index \in table THEN 1 ELSE 0
  BY DEF lookup, hvars
<1>2. HashTypeOK' /\ LoopInvariant'
  BY <1>1, HashTypeStep, LoopInvariantStep DEF WireInv
<1>3. /\ table = {IndexOf(filter.ip, filter.port)}
      /\ pkt \in Packets /\ pkt.eth_type = IPV4 /\ pkt.protocol = UDP
  BY <1>1 DEF WireInv, PhaseInv
<1>4. IndexOf(filter.ip, filter.port)' = IndexOf(filter.ip, filter.port)
  BY <1>1, IndexRigid
<1>5. PhaseInv'
  BY <1>1, <1>3, <1>4 DEF PhaseInv
<1>6. WireDecision'
  <2>1. Plain(pkt) => index = IndexOf(pkt.dst, pkt.dport)
    BY <1>1, IndexDone DEF WireInv, PhaseInv
  <2>2. IndexOf(pkt.dst, pkt.dport)' = IndexOf(pkt.dst, pkt.dport)
    BY <1>1, IndexRigid
  <2>3. Plain(pkt') <=> Plain(pkt)
    BY <1>1
  <2> QED
    BY <1>1, <1>3, <1>4, <2>1, <2>2, <2>3 DEF WireDecision
<1> QED
  BY <1>2, <1>5, <1>6 DEF WireInv

LEMMA WireStep ==
  ASSUME WireInv, [WireNext]_wvars
  PROVE  WireInv'
<1>1. CASE UNCHANGED wvars
  <2>1. UNCHANGED hvars
    BY <1>1 DEF wvars
  <2>2. /\ UNCHANGED <<phase, filter, table, pkt, table_action>>
        /\ size' = size /\ ip' = ip /\ port' = port /\ loop' = loop
    BY <1>1 DEF wvars, hvars, wire
  <2>3. HashTypeOK' /\ LoopInvariant'
    BY <2>1, HashTypeStep, LoopInvariantStep DEF WireInv
  <2>4. /\ IndexOf(filter.ip, filter.port)' = IndexOf(filter.ip, filter.port)
        /\ IndexOf(pkt.dst, pkt.dport)' = IndexOf(pkt.dst, pkt.dport)
    BY <2>2, IndexRigid
  <2>5. PhaseInv'
    BY <2>2, <2>4 DEF WireInv, PhaseInv, Plain
  <2>6. WireDecision'
    BY <2>2, <2>4 DEF WireInv, WireDecision, Plain
  <2> QED
    BY <2>3, <2>5, <2>6 DEF WireInv
<1> QED
  BY <1>1, HashStepInv, InsertStepInv, ReceiveStepInv, LookupStepInv DEF WireNext

(* Every decision of the core on a packet is the filter's, for every key   *)
(* of the hash, every table size, filter and packet: the software's byte   *)
(* order and the bits the core reads fit together (packet_filter.cc:37-41, *)
(* network.cc:17-95), and only options or a later fragment mislead it.     *)
THEOREM WireDecisionCorrect == WireSpec => []WireDecision
<1>1. WireInv => WireDecision
  BY DEF WireInv
<1> QED
  BY <1>1, WireInitInv, WireStep, PTL DEF WireSpec

(* In both uses of the hash, for the key of a filter and for what was read *)
(* from the wire, the loops keep their invariant (hash.cc:21-33) and the   *)
(* index stays inside the table (hash.cc:35-45).                           *)
THEOREM WireHashCorrect ==
  WireSpec => [](HashTypeOK /\ LoopInvariant /\ HashCorrect /\ IndexInTable)
<1>1. WireInv => HashTypeOK /\ LoopInvariant /\ HashCorrect /\ IndexInTable
  BY IndexBelowSize DEF WireInv, LoopInvariant, HashCorrect, Visited
<1> QED
  BY <1>1, WireInitInv, WireStep, PTL DEF WireSpec
-----------------------------------------------------------------------------
FieldNames ==
  {"dest_mac", "src_mac", "eth_type", "version",
   "ihl", "dscp_ecn", "total_length", "identification",
   "flags", "fragment_offset", "ttl", "protocol",
   "header_checksum", "src_ip", "dest_ip", "src_port",
   "dest_port", "length", "checksum"}

(* Write n is of a whole member, from the bits it is read from.            *)
Agrees(n) ==
  /\ Written[n][1] \in DOMAIN Fields
  /\ Fields[Written[n][1]] = <<Written[n][2], Written[n][3]>>
  /\ Written[n][2] \in 0 .. 335 /\ Written[n][3] \in 0 .. 335
  /\ Width[Written[n][1]] = Written[n][2] - Written[n][3] + 1

(* The three lists agree, field for field.                                 *)
LEMMA TablesAgree == \A n \in 1 .. 19 : Agrees(n)
<1>1. DOMAIN Fields = FieldNames
  BY DEF Fields, FieldNames
<1>2. Agrees(1) /\ Agrees(2) /\ Agrees(3) /\ Agrees(4) /\ Agrees(5)
  BY <1>1 DEF Agrees, FieldNames, Fields, Written, Width
<1>3. Agrees(6) /\ Agrees(7) /\ Agrees(8) /\ Agrees(9) /\ Agrees(10)
  BY <1>1 DEF Agrees, FieldNames, Fields, Written, Width
<1>4. Agrees(11) /\ Agrees(12) /\ Agrees(13) /\ Agrees(14) /\ Agrees(15)
  BY <1>1 DEF Agrees, FieldNames, Fields, Written, Width
<1>5. Agrees(16) /\ Agrees(17) /\ Agrees(18) /\ Agrees(19)
  BY <1>1 DEF Agrees, FieldNames, Fields, Written, Width
<1>6. \A n \in 1 .. 19 :
        n \in {1, 2, 3, 4, 5} \/ n \in {6, 7, 8, 9, 10}
          \/ n \in {11, 12, 13, 14, 15} \/ n \in {16, 17, 18, 19}
  OBVIOUS
<1> QED
  BY <1>2, <1>3, <1>4, <1>5, <1>6

(* Every bit of the 42 octets of the headers is written, and only once.    *)
LEMMA WritesTile ==
  /\ DOMAIN Written = 1 .. 19
  /\ \A b \in 0 .. 335 : \E n \in 1 .. 19 : Writes(b) = {n}
<1>1. DOMAIN Written = 1 .. 19
  BY DEF Written
<1>2. /\ Written[1][3] = 0 /\ Written[1][2] = 47
      /\ Written[2][3] = 48 /\ Written[2][2] = 95
      /\ Written[3][3] = 96 /\ Written[3][2] = 111
      /\ Written[4][3] = 112 /\ Written[4][2] = 115
      /\ Written[5][3] = 116 /\ Written[5][2] = 119
      /\ Written[6][3] = 120 /\ Written[6][2] = 127
      /\ Written[7][3] = 128 /\ Written[7][2] = 143
      /\ Written[8][3] = 144 /\ Written[8][2] = 159
      /\ Written[9][3] = 160 /\ Written[9][2] = 162
      /\ Written[10][3] = 163 /\ Written[10][2] = 175
      /\ Written[11][3] = 176 /\ Written[11][2] = 183
      /\ Written[12][3] = 184 /\ Written[12][2] = 191
      /\ Written[13][3] = 192 /\ Written[13][2] = 207
      /\ Written[14][3] = 208 /\ Written[14][2] = 239
      /\ Written[15][3] = 240 /\ Written[15][2] = 271
      /\ Written[16][3] = 272 /\ Written[16][2] = 287
      /\ Written[17][3] = 288 /\ Written[17][2] = 303
      /\ Written[18][3] = 304 /\ Written[18][2] = 319
      /\ Written[19][3] = 320 /\ Written[19][2] = 335
  BY DEF Written
<1>3. ASSUME NEW b \in 0 .. 335
      PROVE  \E n \in 1 .. 19 : b \in Written[n][3] .. Written[n][2]
  BY <1>2
<1>4. ASSUME NEW b \in 0 .. 335, NEW n \in 1 .. 19, NEW m \in 1 .. 19, m < n,
             b \in Written[n][3] .. Written[n][2],
             b \in Written[m][3] .. Written[m][2]
      PROVE  FALSE
  BY <1>2, <1>4
<1>5. ASSUME NEW b \in 0 .. 335
      PROVE  \E n \in 1 .. 19 : Writes(b) = {n}
  <2>1. PICK n \in 1 .. 19 : b \in Written[n][3] .. Written[n][2]
    BY <1>3
  <2>2. ASSUME NEW m \in 1 .. 19, b \in Written[m][3] .. Written[m][2]
        PROVE  m = n
    <3>1. ~(m < n) /\ ~(n < m)
      BY <1>4, <2>1, <2>2
    <3> QED
      BY <3>1
  <2>3. Writes(b) = {n}
    BY <1>1, <2>1, <2>2 DEF Writes
  <2> QED
    BY <2>3
<1> QED
  BY <1>1, <1>5

(* Bit b written back from what was read is the bit that was there.        *)
LEMMA BitBack ==
  ASSUME NEW data \in SUBSET (0 .. 511), NEW n \in 1 .. 19,
         NEW b \in Written[n][3] .. Written[n][2]
  PROVE  b - Written[n][3] \in deserialize(data)[Written[n][1]] <=> b \in data
<1> DEFINE f  == Written[n][1]
           lo == Written[n][3]
           hi == Written[n][2]
<1>1. /\ f \in DOMAIN Fields /\ Fields[f] = <<hi, lo>>
      /\ hi \in 0 .. 335 /\ lo \in 0 .. 335 /\ Width[f] = hi - lo + 1
  <2>1. Agrees(n)
    BY TablesAgree
  <2> QED
    BY <2>1 DEF Agrees
<1>2. b \in lo .. hi
  OBVIOUS
<1> HIDE DEF f, lo, hi
<1>3. deserialize(data)[f] = {c \in 0 .. hi - lo : lo + c \in data} \cap (0 .. hi - lo)
  <2>1. Width[f] - 1 = hi - lo
    BY <1>1
  <2> QED
    BY <1>1, <2>1 DEF deserialize, range
<1>4. b - lo \in 0 .. hi - lo /\ lo + (b - lo) = b
  BY <1>1, <1>2
<1>5. b - lo \in deserialize(data)[f] <=> b \in data
  BY <1>3, <1>4
<1> QED
  BY <1>5 DEF f, lo

(* Reading all fields and writing them back: for whatever was on the wire. *)
LEMMA RoundTrip ==
  ASSUME NEW data \in SUBSET (0 .. 511)
  PROVE  /\ serialize({}, deserialize(data)) = data \cap (0 .. HeaderBits - 1)
         /\ serialize(data, deserialize(data)) = data
<1> DEFINE net == deserialize(data)
<1>1. HeaderBits - 1 = 335
  BY DEF HeaderBits
<1>2. ASSUME NEW d, NEW b \in 0 .. 335
      PROVE  b \in serialize(d, net) <=> b \in data
  <2>1. PICK n \in 1 .. 19 : Writes(b) = {n}
    BY WritesTile
  <2>2. b \in Written[n][3] .. Written[n][2]
    BY <2>1 DEF Writes
  <2>3. b - Written[n][3] \in net[Written[n][1]] <=> b \in data
    BY <2>2, BitBack
  <2> HIDE DEF net
  <2>4. b \in serialize(d, net) <=> b - Written[n][3] \in net[Written[n][1]]
    BY <2>1 DEF serialize
  <2> QED
    BY <2>3, <2>4
<1>3. ASSUME NEW d, NEW b \in 0 .. 511, b \notin 0 .. 335
      PROVE  b \in serialize(d, net) <=> b \in d
  <2>1. Writes(b) = {}
    <3>1. ASSUME NEW n \in 1 .. 19, b \in Written[n][3] .. Written[n][2]
          PROVE  FALSE
      <4>1. Agrees(n)
        BY TablesAgree
      <4>2. Written[n][2] \in 0 .. 335 /\ Written[n][3] \in 0 .. 335
        BY <4>1 DEF Agrees
      <4> QED
        BY <1>3, <3>1, <4>2
    <3>2. DOMAIN Written = 1 .. 19
      BY WritesTile
    <3> QED
      BY <3>1, <3>2 DEF Writes
  <2> QED
    BY <2>1 DEF serialize
<1>4. \A d : serialize(d, net) \subseteq 0 .. 511
  BY DEF serialize
<1> HIDE DEF net
<1>5. serialize({}, net) = data \cap (0 .. 335)
  <2>1. ASSUME NEW b \in 0 .. 511
        PROVE  b \in serialize({}, net) <=> b \in data \cap (0 .. 335)
    BY <1>2, <1>3
  <2> QED
    BY <1>4, <2>1
<1>6. serialize(data, net) = data
  <2>1. ASSUME NEW b \in 0 .. 511
        PROVE  b \in serialize(data, net) <=> b \in data
    BY <1>2, <1>3
  <2> QED
    BY <1>4, <2>1
<1> QED
  BY <1>1, <1>5, <1>6 DEF net

\* The core keeps what it read of the packet.
NetworkKept ==
  /\ phase \in WirePhases
  /\ phase \in {"lookup", "decided"} =>
       pkt \in Packets /\ network = deserialize(Phit(pkt))

LEMMA NetworkKeptStep ==
  ASSUME NetworkKept, [WireNext]_wvars
  PROVE  NetworkKept'
<1>1. CASE Receive
  BY <1>1 DEF Receive, NetworkKept, WirePhases
<1>2. CASE Hash \/ lookup \/ UNCHANGED wvars
  BY <1>2 DEF Hash, lookup, wvars, wire, NetworkKept, WirePhases
<1>3. CASE insert
  BY <1>3 DEF insert, NetworkKept, WirePhases
<1> QED
  BY <1>1, <1>2, <1>3 DEF WireNext

(* The ranges that network.cc writes, those it reads and the widths of     *)
(* network.h agree: serialize and deserialize are inverse on the bits of   *)
(* the headers, and serialize leaves the rest of the phit alone.           *)
THEOREM HeaderRoundTripCorrect == WireSpec => []HeaderRoundTrip
<1>1. WireInit => NetworkKept
  BY DEF WireInit, NetworkKept, WirePhases
<1>2. NetworkKept => HeaderRoundTrip
  <2> SUFFICES ASSUME NetworkKept, phase = "decided"
               PROVE  /\ serialize({}, network)
                           = Phit(pkt) \cap (0 .. HeaderBits - 1)
                      /\ serialize(Phit(pkt), network) = Phit(pkt)
    BY DEF HeaderRoundTrip
  <2>1. pkt \in PacketType /\ network = deserialize(Phit(pkt))
    BY WireAssumption DEF NetworkKept
  <2>2. Phit(pkt) \in SUBSET (0 .. 511)
    <3>1. \A k \in 0 .. 63 : Frame(pkt)[k] \subseteq 0 .. 7
      BY <2>1, FrameType
    <3> HIDE DEF Frame
    <3>2. ASSUME NEW k \in 0 .. 63, NEW b \in Frame(pkt)[k]
          PROVE  8 * k + b \in 0 .. 511
      BY <3>1
    <3> QED
      BY <3>2 DEF Phit
  <2> QED
    BY <2>1, <2>2, RoundTrip
<1> QED
  BY <1>1, <1>2, NetworkKeptStep, PTL DEF WireSpec
=============================================================================
