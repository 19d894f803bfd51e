----------------------------- MODULE WireMatch -----------------------------
(***************************************************************************)
(* From the text of a filter to the decision on a packet, bit by bit: the  *)
(* software turns the filter into a key (software/src/packet_filter.cc),   *)
(* the core hashes the key into a slot, reads the headers of a packet at   *)
(* the fixed bits of hardware/src/hls/network.cc and hashes what it read.  *)
(* Words and octets are the sets of their 1 bits.                          *)
(***************************************************************************)
EXTENDS ToeplitzHash

CONSTANTS
  Filters,  \* [ip, port] as written: four octets, and the port's number
  Packets   \* the packets of the wire

Octet  == SUBSET (0 .. 7)
Word16 == SUBSET (0 .. 15)

PacketType ==
  [eth_type : Word16, ihl : 5 .. 15, first : BOOLEAN, protocol : Octet,
   dst : [1 .. 4 -> Octet], dport : Word16, fill : [{0, 1} -> Octet]]

VARIABLES
  phase,    \* what the core does: see WirePhases
  filter,   \* the filter of this build's only rule
  table,    \* the indexes of the table whose value is RULE_ACTION_FORWARD
  pkt,      \* the packet received, or none yet
  network,  \* the static NetworkPacket: the bits of each field
  table_action

WirePhases == {"insert", "idle", "lookup", "decided"}

wire  == <<phase, filter, table, pkt, network, table_action>>
wvars == <<hvars, wire>>
-----------------------------------------------------------------------------
Low(w)  == w \cap (0 .. 7)
High(w) == {b \in 0 .. 7 : b + 8 \in w}

\* An octet and the one after it, in a little-endian word.
Pair(first, second) == first \cup {b + 8 : b \in second}

bswap16(w) == Pair(High(w), Low(w))

htons_none(n) == n

htons(n) == bswap16(n)

inet_addr(octets) ==
  UNION {{8 * (j - 1) + b : b \in octets[j]} : j \in 1 .. 4}

VersionIhl(ihl) == {6} \cup {b \in 0 .. 3 : (ihl \div 2 ^ b) % 2 = 1}

(* The wire (external): octet k of a frame.  Octets the filter does not    *)
(* care about, the options and the payload among them, are pkt.fill.       *)
Frame(p) ==
  LET udp == 14 + 4 * p.ihl
  IN  [k \in 0 .. 63 |->
         CASE k = 12 -> High(p.eth_type)
           [] k = 13 -> Low(p.eth_type)
           [] k = 14 -> VersionIhl(p.ihl)
           [] k = 23 -> p.protocol
           [] k \in 30 .. 33 -> p.dst[k - 29]
           [] p.first /\ k = udp + 2 -> High(p.dport)
           [] p.first /\ k = udp + 3 -> Low(p.dport)
           [] OTHER -> p.fill[k % 2]]

\* Octet k of a frame arrives on byte lane k of the stream (external).
Phit(p) == UNION {{8 * k + b : b \in Frame(p)[k]} : k \in 0 .. 63}

\* The width of each member of the three headers (network.h).
Width ==
  [dest_mac |-> 48, src_mac |-> 48, eth_type |-> 16, version |-> 4, ihl |-> 4,
   dscp_ecn |-> 8, total_length |-> 16, identification |-> 16, flags |-> 3,
   fragment_offset |-> 13, ttl |-> 8, protocol |-> 8, header_checksum |-> 16,
   src_ip |-> 32, dest_ip |-> 32, src_port |-> 16, dest_port |-> 16,
   length |-> 16, checksum |-> 16]

\* The bits of the first phit the deserialize functions read: [last, first].
Fields ==
  [dest_mac |-> <<47, 0>>, src_mac |-> <<95, 48>>, eth_type |-> <<111, 96>>,
   version |-> <<115, 112>>, ihl |-> <<119, 116>>, dscp_ecn |-> <<127, 120>>,
   total_length |-> <<143, 128>>, identification |-> <<159, 144>>,
   flags |-> <<162, 160>>, fragment_offset |-> <<175, 163>>, ttl |-> <<183, 176>>,
   protocol |-> <<191, 184>>, header_checksum |-> <<207, 192>>,
   src_ip |-> <<239, 208>>, dest_ip |-> <<271, 240>>, src_port |-> <<287, 272>>,
   dest_port |-> <<303, 288>>, length |-> <<319, 304>>, checksum |-> <<335, 320>>]

HeaderBits == 8 * (14 + 20 + 8)  \* NetworkPacket::size()

range_exclusive(data, r) == {b \in 0 .. r[1] - r[2] - 1 : r[2] + b \in data}

range(data, r) == {b \in 0 .. r[1] - r[2] : r[2] + b \in data}

\* Assigned to a member, a range keeps as many bits as the member has.
deserialize(data) ==
  [f \in DOMAIN Fields |-> range(data, Fields[f]) \cap (0 .. Width[f] - 1)]

\* The bits the serialize functions write, in their order; the first of these
\* lists is a slip one could make in the second copy of the ranges.
Written_flags_wide ==
  <<<<"dest_mac", 47, 0>>, <<"src_mac", 95, 48>>, <<"eth_type", 111, 96>>,
    <<"version", 115, 112>>, <<"ihl", 119, 116>>, <<"dscp_ecn", 127, 120>>,
    <<"total_length", 143, 128>>, <<"identification", 159, 144>>,
    <<"flags", 162, 160>>, <<"fragment_offset", 175, 162>>, <<"ttl", 183, 176>>,
    <<"protocol", 191, 184>>, <<"header_checksum", 207, 192>>,
    <<"src_ip", 239, 208>>, <<"dest_ip", 271, 240>>, <<"src_port", 287, 272>>,
    <<"dest_port", 303, 288>>, <<"length", 319, 304>>, <<"checksum", 335, 320>>>>

Written ==
  <<<<"dest_mac", 47, 0>>, <<"src_mac", 95, 48>>, <<"eth_type", 111, 96>>,
    <<"version", 115, 112>>, <<"ihl", 119, 116>>, <<"dscp_ecn", 127, 120>>,
    <<"total_length", 143, 128>>, <<"identification", 159, 144>>,
    <<"flags", 162, 160>>, <<"fragment_offset", 175, 163>>, <<"ttl", 183, 176>>,
    <<"protocol", 191, 184>>, <<"header_checksum", 207, 192>>,
    <<"src_ip", 239, 208>>, <<"dest_ip", 271, 240>>, <<"src_port", 287, 272>>,
    <<"dest_port", 303, 288>>, <<"length", 319, 304>>, <<"checksum", 335, 320>>>>

\* The writes that touch bit b of the phit; the last of them stands.
Writes(b) == {n \in DOMAIN Written : b \in Written[n][3] .. Written[n][2]}

serialize(data, net) ==
  {b \in 0 .. 511 :
     \/ Writes(b) = {} /\ b \in data
     \/ \E n \in Writes(b) : /\ \A m \in Writes(b) : m <= n
                             /\ b - Written[n][3] \in net[Written[n][1]]}

IPV4 == {11}    \* 0x0800
UDP  == {0, 4}  \* 17

is_ipv4(net) == net.eth_type = bswap16(IPV4)
is_udp(net)  == net.protocol = UDP
-----------------------------------------------------------------------------
NoPacket == <<>>

(* update_rule has turned the filter into the key the core inserts.        *)
WireInit ==
  /\ HashInit
  /\ filter \in Filters
  /\ ip = inet_addr(filter.ip)
  /\ port = htons(filter.port)
  /\ phase = "insert"
  /\ table = {}
  /\ pkt = NoPacket
  /\ network = deserialize({})
  /\ table_action = 0

(* compute_hash, called by insert and by lookup.                           *)
Hash ==
  /\ HashNext
  /\ UNCHANGED wire

insert ==
  /\ phase = "insert" /\ loop = "done"
  /\ table' = table \cup {index}
  /\ phase' = "idle"
  /\ UNCHANGED <<hvars, filter, pkt, network, table_action>>

(* The first phit of a packet: its headers, and the call of lookup.        *)
Receive ==
  /\ phase = "idle"
  /\ \E p \in Packets :
       LET net == deserialize(Phit(p))
       IN  /\ pkt' = p
           /\ network' = net
           /\ IF is_ipv4(net) /\ is_udp(net)
              THEN /\ phase' = "lookup"
                   /\ ip' = net.dest_ip /\ port' = net.dest_port
                   /\ hash' = {} /\ loop' = "ip" /\ i' = 0
              ELSE /\ phase' = "decided"
                   /\ UNCHANGED <<ip, port, hash, loop, i>>
  /\ table_action' = 0
  /\ UNCHANGED <<size, filter, table>>

lookup ==
  /\ phase = "lookup" /\ loop = "done"
  /\ table_action' = IF index \in table THEN 1 ELSE 0
  /\ phase' = "decided"
  /\ UNCHANGED <<hvars, filter, table, pkt, network>>

WireNext == Hash \/ insert \/ Receive \/ lookup

WireSpec == WireInit /\ [][WireNext]_wvars

ASSUME WireAssumption ==
  /\ IpBits = 32 /\ PortBits = 16
  /\ Filters \subseteq [ip : [1 .. 4 -> Octet], port : Word16]
  /\ Packets \subseteq PacketType
-----------------------------------------------------------------------------
IndexOf(a, n) ==
  Toeplitz(Vector(inet_addr(a), bswap16(n))) \cap (0 .. HASH_BITS(size) - 1)

\* No options, and not a later fragment: its UDP header is at octet 34.
Plain(p) == p.ihl = 5 /\ p.first

(* The core forwards nothing but IPv4 UDP packets, and of those without    *)
(* options that are no later fragment exactly the ones whose address and   *)
(* port, as written in the filter, have the filter's index: the byte order *)
(* of inet_addr and htons (packet_filter.cc:37-41) is the one in which     *)
(* network.cc reads the wire.  A wrong decision takes options or a later   *)
(* fragment, whose ports are not at the fixed bits (network.cc:87-88).     *)
WireDecision ==
  phase = "decided" =>
    /\ table_action = 1 => pkt.eth_type = IPV4 /\ pkt.protocol = UDP
    /\ Plain(pkt) =>
         (table_action = 1
            <=> /\ pkt.eth_type = IPV4 /\ pkt.protocol = UDP
                /\ IndexOf(pkt.dst, pkt.dport) = IndexOf(filter.ip, filter.port))

(* The two copies of the field ranges in network.cc, the one that reads    *)
(* and the one that writes, and the widths of network.h agree and tile the *)
(* 42 octets of the headers: writing back what was read restores every bit *)
(* of them and touches no other.                                           *)
HeaderRoundTrip ==
  phase = "decided" =>
    LET data == Phit(pkt)
    IN  /\ serialize({}, network) = data \cap (0 .. HeaderBits - 1)
        /\ serialize(data, network) = data
=============================================================================
