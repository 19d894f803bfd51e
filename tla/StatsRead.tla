----------------------------- MODULE StatsRead -----------------------------
(***************************************************************************)
(* The reports at the end of main (software/src/packet_filter.cc) while    *)
(* the core runs: PacketAdapter::show_stats, then PacketFilter::show_stats.*)
(* Each of their 64-bit counters is read by MMIO in two 32-bit halves, low *)
(* half first, from registers that may change between any two reads.  The  *)
(* rules are settled by then.  Each run of the server ends with these two  *)
(* calls.                                                                  *)
(***************************************************************************)
EXTENDS PacketFilterCore, AddressMap, FiniteSets

CONSTANTS
  Half,        \* 2^32 in the code: modulus of one MMIO read
  MaxPackets,  \* bound: packets counted, fewer than make a counter wrap
  RxLost       \* frames the adapter dropped, and as many it found in error

ASSUME StatsAssumption ==
  /\ Half \in Nat \ {0}
  /\ StatMod = Half * Half
  /\ MaxPackets \in Nat /\ MaxPackets < StatMod - 1
  /\ RxLost \in 0 .. StatMod - 1

VARIABLES
  ard, alow, aval, ashown,  \* the adapter's report: as rd, low, val, shown
  began,  \* auxiliary: packets the core had published at the first read
  rd,     \* halves read so far; Done once the report is printed
  low,    \* the low half of the counter being read
  val,    \* pkt_in, phit_in, pkt_forwd and pkt_drop as read
  shown,  \* the counters printed
  seen    \* auxiliary: each counter as it was when its read began

adapter == <<ard, alow, aval, ashown, began>>
reader  == <<rd, low, val, shown, seen>>

AdapterRegs ==
  <<"tx_packet_sent", "tx_packet_dropped", "rx_packet_recv",
    "rx_packet_dropped", "rx_packet_error">>

AdapterCounters == {AdapterRegs[n] : n \in 1 .. Len(AdapterRegs)}
ZeroAdapter     == [c \in AdapterCounters |-> 0]
AdapterDone     == 2 * Len(AdapterRegs) + 1

Regs_in_last == <<"phit_in", "pkt_forward", "pkt_drop", "pkt_in">>

\* The counters in the order of the reads.
Regs == <<"pkt_in", "phit_in", "pkt_forward", "pkt_drop">>

Done == 2 * Len(Regs) + 1

StatsInit ==
  /\ SettledInit
  /\ ard = 0 /\ alow = 0
  /\ aval = ZeroAdapter
  /\ ashown = {}
  /\ began = 0
  /\ rd = 0 /\ low = 0
  /\ val = ZeroStats
  /\ shown = {}
  /\ seen = ZeroStats

(* The adapter hands every frame it receives to the core; nothing is sent. *)
Received ==
  local_stats["pkt_in"] + Cardinality({n \in 1 .. Len(s_axis) : s_axis[n].last})

AdapterCount(c) ==
  CASE c = "rx_packet_recv" -> Received
    [] c \in {"rx_packet_dropped", "rx_packet_error"} -> RxLost
    [] OTHER -> 0

(* v is what a read of the 32-bit word at addr returns: a half of a counter*)
(* of the core or of the adapter, or 0 where nothing answers.              *)
mmio_reg_read(addr, v) ==
  LET CoreLow(c)     == Reaches(0, HlsStatsReg[c], addr)
      CoreHigh(c)    == Reaches(0, HlsStatsReg[c] + 4, addr)
      AdapterLow(c)  == addr = AdapterBase + AdapterWord[c]
      AdapterHigh(c) == addr = AdapterBase + AdapterWord[c] + 4
  IN  \/ \E c \in Counters : CoreLow(c) /\ v = stats[c] % Half
      \/ \E c \in Counters : CoreHigh(c) /\ v = stats[c] \div Half
      \/ \E c \in AdapterCounters : AdapterLow(c) /\ v = AdapterCount(c) % Half
      \/ \E c \in AdapterCounters :
           AdapterHigh(c) /\ v = AdapterCount(c) \div Half
      \/ /\ \A c \in Counters : ~CoreLow(c) /\ ~CoreHigh(c)
         /\ \A c \in AdapterCounters : ~AdapterLow(c) /\ ~AdapterHigh(c)
         /\ v = 0

PRINT_STAT(values) == {c \in DOMAIN values : values[c] \notin {0, StatMod - 1}}
-----------------------------------------------------------------------------
(* PacketAdapter::show_stats.                                              *)
AdapterHalf ==
  /\ ard < 2 * Len(AdapterRegs)
  /\ LET c    == AdapterRegs[(ard \div 2) + 1]
         addr == OPENNIC_ADAP_BASE_ADDR + AdapterReg[c]
     IN  IF ard % 2 = 0
         THEN mmio_reg_read(addr, alow') /\ UNCHANGED aval
         ELSE /\ \E high \in 0 .. Half - 1 :
                   /\ mmio_reg_read(addr + 4, high)
                   /\ aval' = [aval EXCEPT ![c] = high * Half + alow]
              /\ UNCHANGED alow
  /\ ard' = ard + 1
  /\ began' = IF ard = 0 THEN stats["pkt_in"] ELSE began
  /\ UNCHANGED <<ashown, reader, vars>>

\* Nothing is printed when rx_packet_recv and tx_packet_sent are both 0.
AdapterReport ==
  /\ ard = 2 * Len(AdapterRegs)
  /\ ashown' = IF aval["rx_packet_recv"] = 0 /\ aval["tx_packet_sent"] = 0
               THEN {} ELSE PRINT_STAT(aval)
  /\ ard' = AdapterDone
  /\ UNCHANGED <<alow, aval, began, reader, vars>>

(* PacketFilter::show_stats; read<uint64_t> is two reads of a half.        *)
ReadHalf_high_first ==
  /\ ard = AdapterDone
  /\ rd < 2 * Len(Regs)
  /\ LET c == Regs[(rd \div 2) + 1]
     IN  IF rd % 2 = 0
         THEN /\ low' = stats[c] \div Half
              /\ seen' = [seen EXCEPT ![c] = stats[c]]
              /\ UNCHANGED val
         ELSE /\ val' = [val EXCEPT ![c] = (low * Half) + (stats[c] % Half)]
              /\ UNCHANGED <<low, seen>>
  /\ rd' = rd + 1
  /\ UNCHANGED <<shown, adapter, vars>>

ReadHalf ==
  /\ ard = AdapterDone
  /\ rd < 2 * Len(Regs)
  /\ LET c    == Regs[(rd \div 2) + 1]
         addr == filter_base_addr + StatsReg[c]
     IN  IF rd % 2 = 0
         THEN /\ mmio_reg_read(addr, low')
              /\ seen' = [seen EXCEPT ![c] = stats[c]]
              /\ UNCHANGED val
         ELSE /\ \E high \in 0 .. Half - 1 :
                   /\ mmio_reg_read(addr + 4, high)
                   /\ val' = [val EXCEPT ![c] = high * Half + low]
              /\ UNCHANGED <<low, seen>>
  /\ rd' = rd + 1
  /\ UNCHANGED <<shown, adapter, vars>>

Printed_if_all == IF \E c \in Counters \ {"phit_in"} : val[c] = 0
                  THEN {} ELSE PRINT_STAT(val)

\* Nothing is printed when pkt_in, pkt_forwd and pkt_drop are all 0.
Printed == IF \A c \in Counters \ {"phit_in"} : val[c] = 0
           THEN {} ELSE PRINT_STAT(val)

Report ==
  /\ rd = 2 * Len(Regs)
  /\ shown' = Printed
  /\ rd' = Done
  /\ UNCHANGED <<low, val, seen, adapter, vars>>

(* The next run of the server comes to its reports.                        *)
NextRun ==
  /\ rd = Done
  /\ ard' = 0 /\ alow' = 0
  /\ aval' = ZeroAdapter
  /\ ashown' = {}
  /\ began' = 0
  /\ rd' = 0 /\ low' = 0
  /\ val' = ZeroStats
  /\ shown' = {}
  /\ seen' = ZeroStats
  /\ UNCHANGED vars

show_stats == AdapterHalf \/ AdapterReport \/ ReadHalf \/ Report \/ NextRun

(* The core goes on, up to MaxPackets packets in all.                      *)
Counting ==
  /\ SettledNext
  /\ local_stats["pkt_in"] + Len(s_axis') <= MaxPackets
  /\ UNCHANGED <<adapter, reader>>

StatsNext == show_stats \/ Counting

svars == <<vars, adapter, reader>>

StatsSpec == StatsInit /\ [][StatsNext]_svars

(* The core is called at every clock, the QDMA drains, and main makes its  *)
(* calls; neither waits for the other.                                     *)
StatsFairSpec ==
  /\ StatsSpec
  /\ Fairness
  /\ WF_svars(show_stats)
-----------------------------------------------------------------------------
BeenRead(c) == \E i \in 1 .. Len(Regs) : Regs[i] = c /\ rd >= 2 * i

(* A carry into the high half fell between the two reads of c.             *)
Torn(c) == seen[c] \div Half # val[c] \div Half

(* What show_stats makes of a counter is the value the counter had when    *)
(* its read began, or, if a carry fell between the halves, a value above   *)
(* it that exceeds the counter by less than 2^32: the order of the halves  *)
(* in packet_filter.h:42-43 never makes it too small.                      *)
ReadExact ==
  \A c \in Counters : BeenRead(c) =>
    IF Torn(c) THEN seen[c] < val[c] /\ val[c] < stats[c] + Half
               ELSE val[c] = seen[c]

(* A report never shows packets that neither were forwarded nor dropped:   *)
(* pkt_in is read first, and what is read later can only have grown        *)
(* (packet_filter.cc:51-54), unless the read of pkt_in was torn.           *)
NothingUnaccounted ==
  rd >= 2 * Len(Regs) /\ ~Torn("pkt_in") =>
    val["pkt_in"] <= val["pkt_forward"] + val["pkt_drop"]

(* A report is left out (packet_filter.cc:56-58, 73-75) only if, when its  *)
(* reads began, the core had published no packet; the adapter's then too.  *)
SilentOnlyIfIdle ==
  /\ rd = Done /\ shown = {} => seen["pkt_in"] = 0
  /\ ard = AdapterDone /\ ashown = {} => began = 0

(* When the traffic has stopped, the two reports become exact, agree on    *)
(* the packets received and stay so.                                       *)
QuietReportsExact ==
  <>[](s_axis = <<>>) =>
    <>[](rd = Done => /\ val = local_stats
                      /\ aval["rx_packet_recv"] = val["pkt_in"])
=============================================================================
