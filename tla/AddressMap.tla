----------------------------- MODULE AddressMap -----------------------------
(***************************************************************************)
(* Which register an MMIO access of the server reaches.  The addresses the *)
(* software uses are the constants of software/src/packet_filter.h; the    *)
(* decoding is that of the 250 MHz user box as patches/opennic_shell.patch *)
(* changes it, one 4 KiB window for each function's core.  The registers   *)
(* of the core are laid out by HLS; the base of the box and the registers  *)
(* of the packet adapter are OpenNIC's.                                    *)
(***************************************************************************)
EXTENDS Integers

(* The software's view. *)
OPENNIC_USER_250_BASE_ADDR == 1048576  \* 0x100000

PACKET_FILTER_OFFSET_port1 == 12288    \* 0x3000

PACKET_FILTER_OFFSET == 8192           \* 0x2000

filter_base_addr == OPENNIC_USER_250_BASE_ADDR + PACKET_FILTER_OFFSET

\* IPV4_ADDR_REG, UDP_PORT_REG and RULE_ACTION_REG: 0x10, 0x18, 0x20
RuleReg == [ip |-> 16, port |-> 24, action |-> 32]

StatsReg_packed ==
  [pkt_in |-> 40, phit_in |-> 48, pkt_forward |-> 56, pkt_drop |-> 64]

\* STATS_PKT_IN_REG to STATS_PKT_DROP_REG: 0x28, 0x40, 0x58, 0x70
StatsReg ==
  [pkt_in |-> 40, phit_in |-> 64, pkt_forward |-> 88, pkt_drop |-> 112]

\* TX_PACKET_SENT_REG to RX_PACKET_ERROR_REG of the packet adapter at
\* OPENNIC_ADAP_BASE_ADDR, outside the user box: 0x00, 0x10, .. 0x40.
OPENNIC_ADAP_BASE_ADDR == 45056        \* 0xB000

AdapterReg ==
  [tx_packet_sent |-> 0, tx_packet_dropped |-> 16, rx_packet_recv |-> 32,
   rx_packet_dropped |-> 48, rx_packet_error |-> 64]

(* The hardware's view: where the box starts, the registers of a core (one *)
(* 32-bit word each, a counter two), and the window of function j, which   *)
(* the crossbar selects and whose start the box subtracts.                 *)
BoxBase == 1048576

HlsRuleReg  == [ip |-> 16, port |-> 24, action |-> 32]
HlsStatsReg ==
  [pkt_in |-> 40, phit_in |-> 64, pkt_forward |-> 88, pkt_drop |-> 112]

AdapterBase == 45056
AdapterWord ==
  [tx_packet_sent |-> 0, tx_packet_dropped |-> 16, rx_packet_recv |-> 32,
   rx_packet_dropped |-> 48, rx_packet_error |-> 64]

C_USER_BASE_ADDR == 8192
C_USER_SIZE      == 4096

WindowOffset(j, addr) == addr - BoxBase - C_USER_SIZE * j - C_USER_BASE_ADDR

\* An access to addr is one to the word at offset of function j's core.
Reaches(j, offset, addr) ==
  /\ WindowOffset(j, addr) \in 0 .. C_USER_SIZE - 1
  /\ WindowOffset(j, addr) = offset
=============================================================================
