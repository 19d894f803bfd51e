-------------------------- MODULE RuleProgramming --------------------------
(***************************************************************************)
(* The software side of the rules (software/src/main.cc, packet_filter.cc) *)
(* against the free-running core of PacketFilterCore: parse_args collects  *)
(* the filters of the command line, the PacketFilter constructor parses    *)
(* each and update_rule writes it as three separate MMIO writes, while the *)
(* core inserts whatever the registers hold at each of its idle calls.     *)
(* The process can end anywhere, between two writes too, and be started    *)
(* again: the registers and the rule table outlive it.                     *)
(***************************************************************************)
EXTENDS PacketFilterCore, AddressMap

CONSTANTS
  ByteMod,      \* 2^8: the values of a byte; a port is two of them
  InaddrNone,   \* INADDR_NONE, inet_addr's answer to a malformed address
  NoNumber,     \* text on which std::stoi throws
  Numbers,      \* integers a filter can spell as its port
  CommandLines, \* the options the server can be started with
  MaxRuns       \* bound: how often the process is started

(* A filter of the list: has it a ':', what inet_addr and stoi make of it. *)
Filter == [colon : BOOLEAN, ip : Ips \cup {InaddrNone},
           number : Numbers \cup {NoNumber}]

(* An option getopt returns: its letter, "?" for one it does not know;     *)
(* whether stoi takes its argument; the filters of its argument.           *)
Option == [opt : {"c", "t", "d", "f", "?"}, number : BOOLEAN,
           list : Seq(Filter)]

ASSUME RulesAssumption ==
  /\ ByteMod \in Nat \ {0}
  /\ Ports = 0 .. ByteMod * ByteMod - 1
  /\ ZeroPort = 0
  /\ InaddrNone \notin Ips
  /\ Numbers \subseteq Int
  /\ NoNumber \notin Int
  /\ CommandLines \subseteq Seq(Option)
  /\ MaxRuns \in Nat

VARIABLES
  pc,    \* where the process is: not running, in parse_args, in the loop over
         \* the filters, before each write of update_rule, or past them
  argv,  \* options getopt has still to return
  dpdk_config,  \* nullptr, or the argument of -c
  todo,  \* filter_list, then the filters of it still to visit
  rule,  \* ip and port, the locals of update_rule
  runs,  \* how often the process was started
  cmd,   \* auxiliary: the whole command line of this run
  hist   \* auxiliary: the rules update_rule parsed, with their run and how
         \* many of the three writes were done

args  == <<argv, dpdk_config, cmd>>
sw    == <<pc, args, todo, rule, runs, hist>>
hw    == vars
rvars == <<hw, sw>>

Pcs  == {"off", "args", "next", "ip", "port", "action", "running"}
Rule == [ip : Ips, port : Ports]
NoRule == [ip |-> ZeroIp, port |-> ZeroPort]
Entry == [ip : Ips, port : Ports, run : Nat, wrote : 0 .. 3]
-----------------------------------------------------------------------------
htons(p) == (p % ByteMod) * ByteMod + (p \div ByteMod)

to_port_no_cast(number) == htons(number)

\* htons(static_cast<uint16_t>(number))
to_port(number) == htons(number % (ByteMod * ByteMod))

Valid(f) ==
  /\ f.colon
  /\ f.ip # InaddrNone
  /\ f.number # NoNumber
  /\ to_port(f.number) # 0

Last(s) == s[Len(s)]
-----------------------------------------------------------------------------
RulesInit ==
  /\ Init
  /\ pc = "off"
  /\ argv = <<>> /\ dpdk_config = "nullptr" /\ cmd = <<>>
  /\ todo = <<>>
  /\ rule = NoRule
  /\ runs = 0
  /\ hist = <<>>

Start ==
  /\ pc = "off"
  /\ runs < MaxRuns
  /\ cmd' \in CommandLines
  /\ argv' = cmd'
  /\ dpdk_config' = "nullptr"
  /\ todo' = <<>>
  /\ pc' = "args"
  /\ runs' = runs + 1
  /\ UNCHANGED <<hw, rule, hist>>

\* Arguments and locals live as long as the process.
ForgetLocals == /\ argv' = <<>> /\ dpdk_config' = "nullptr" /\ cmd' = <<>>
                /\ todo' = <<>>
                /\ rule' = NoRule

(* parse_args: one option of getopt after the other.  A -t or -d argument  *)
(* that is no number ends the process in the exception of stoi, an unknown *)
(* option and a missing -c in log_fatal.                                   *)
BadOption(o) == o.opt = "?" \/ (o.opt \in {"t", "d"} /\ ~o.number)

ParseOption_last_f ==
  /\ pc = "args"
  /\ argv # <<>>
  /\ LET o == Head(argv)
     IN  /\ ~BadOption(o)
         /\ dpdk_config' = IF o.opt = "c" THEN "given" ELSE dpdk_config
         /\ todo' = IF o.opt = "f" THEN o.list ELSE todo
  /\ argv' = Tail(argv)
  /\ UNCHANGED <<hw, pc, cmd, rule, runs, hist>>

ParseOption ==
  /\ pc = "args"
  /\ argv # <<>>
  /\ LET o == Head(argv)
     IN  /\ ~BadOption(o)
         /\ dpdk_config' = IF o.opt = "c" THEN "given" ELSE dpdk_config
         /\ todo' = IF o.opt = "f" THEN todo \o o.list ELSE todo
  /\ argv' = Tail(argv)
  /\ UNCHANGED <<hw, pc, cmd, rule, runs, hist>>

ArgsRefused ==
  /\ pc = "args"
  /\ IF argv = <<>> THEN dpdk_config = "nullptr" ELSE BadOption(Head(argv))
  /\ pc' = "off"
  /\ ForgetLocals
  /\ UNCHANGED <<hw, runs, hist>>

(* parse_args returns; DPDK comes up and the constructor begins.           *)
ArgsParsed ==
  /\ pc = "args"
  /\ argv = <<>>
  /\ dpdk_config # "nullptr"
  /\ pc' = "next"
  /\ UNCHANGED <<hw, args, todo, rule, runs, hist>>

(* update_rule up to its first write; an invalid filter ends the process   *)
(* in log_assert or in the exception of stoi, later filters unvisited.     *)
ParseValid ==
  /\ pc = "next"
  /\ todo # <<>>
  /\ Valid(Head(todo))
  /\ LET f == Head(todo)
     IN  /\ rule' = [ip |-> f.ip, port |-> to_port(f.number)]
         /\ hist' = Append(hist, [ip |-> f.ip, port |-> to_port(f.number),
                                  run |-> runs, wrote |-> 0])
  /\ todo' = Tail(todo)
  /\ pc' = "ip"
  /\ UNCHANGED <<hw, args, runs>>

\* The plausible kindness of skipping a filter that does not parse.
ParseInvalid_skip ==
  /\ pc = "next"
  /\ todo # <<>>
  /\ ~Valid(Head(todo))
  /\ todo' = Tail(todo)
  /\ UNCHANGED <<hw, pc, args, rule, runs, hist>>

ParseInvalid ==
  /\ pc = "next"
  /\ todo # <<>>
  /\ ~Valid(Head(todo))
  /\ pc' = "off"
  /\ ForgetLocals
  /\ UNCHANGED <<hw, runs, hist>>

(* MMIO::write of at most 32 bits: one write on the bus, which reaches the *)
(* register at its address or none.                                        *)
mmio_reg_write(offset, value) ==
  LET addr == filter_base_addr + offset
  IN  /\ \/ \E r \in DOMAIN HlsRuleReg :
              /\ Reaches(0, HlsRuleReg[r], addr)
              /\ cfg' = [cfg EXCEPT ![r] = value]
         \/ /\ \A r \in DOMAIN HlsRuleReg : ~Reaches(0, HlsRuleReg[r], addr)
            /\ UNCHANGED cfg
      /\ UNCHANGED <<core, stream>>

\* The history: n writes of the rule in hand are done.
Wrote(n) == hist' = [hist EXCEPT ![Len(hist)].wrote = n]

\* A plausible repair of the write order that is wrong: disarm, then write.
WriteIpReg_disarm ==
  /\ pc = "ip"
  /\ cfg' = [cfg EXCEPT !.ip = rule.ip, !.action = DROP]
  /\ pc' = "port"
  /\ Wrote(1)
  /\ UNCHANGED <<core, stream, args, todo, rule, runs>>

WriteIpReg ==
  /\ pc = "ip"
  /\ mmio_reg_write(RuleReg.ip, rule.ip)
  /\ Wrote(1)
  /\ pc' = "port"
  /\ UNCHANGED <<args, todo, rule, runs>>

WritePortReg ==
  /\ pc = "port"
  /\ mmio_reg_write(RuleReg.port, rule.port)
  /\ Wrote(2)
  /\ pc' = "action"
  /\ UNCHANGED <<args, todo, rule, runs>>

WriteActionReg ==
  /\ pc = "action"
  /\ mmio_reg_write(RuleReg.action, FORWARD)
  /\ Wrote(3)
  /\ pc' = "next"
  /\ UNCHANGED <<args, todo, rule, runs>>

Constructed ==
  /\ pc = "next"
  /\ todo = <<>>
  /\ pc' = "running"
  /\ UNCHANGED <<hw, args, todo, rule, runs, hist>>

(* The process ends: main returns, or earlier, wherever main is, log_fatal *)
(* in init_dpdk on its own thread (which launches the rx loops after it    *)
(* woke the constructor), a crash of an rx thread or a signal ends it.     *)
(* Nothing puts the registers or the table back.                           *)
ProcessEnds ==
  /\ pc # "off"
  /\ pc' = "off"
  /\ ForgetLocals
  /\ UNCHANGED <<hw, runs, hist>>

ParseArgs == ParseOption \/ ArgsRefused \/ ArgsParsed
Parse == ParseValid \/ ParseInvalid
MmioWrite == WriteIpReg \/ WritePortReg \/ WriteActionReg
Software == Start \/ ParseArgs \/ Parse \/ MmioWrite \/ Constructed \/ ProcessEnds

Hardware == (process_packet \/ Traffic) /\ UNCHANGED sw

RulesNext == Software \/ Hardware

RulesSpec == RulesInit /\ [][RulesNext]_rvars

(* While it lives the software runs on, and so does the hardware; nothing  *)
(* obliges the process to end.                                             *)
RulesFairSpec ==
  /\ RulesSpec
  /\ WF_rvars(ParseArgs \/ Parse \/ MmioWrite \/ Constructed)
  /\ WF_rvars(process_packet /\ UNCHANGED sw)
  /\ WF_rvars(Deliver /\ UNCHANGED sw)
-----------------------------------------------------------------------------
(* Types of the software's state.                                          *)
RulesTypeOK ==
  /\ pc \in Pcs
  /\ argv \in Seq(Option)
  /\ dpdk_config \in {"nullptr", "given"}
  /\ cmd \in Seq(Option)
  /\ todo \in Seq(Filter)
  /\ rule \in Rule
  /\ runs \in Nat
  /\ hist \in Seq(Entry)

Slot(ip, port) == Index[<<ip, port>>]

(* The addresses the registers can hold together while armed: the address  *)
(* of rule i with the port of rule j, which is i itself or the last before *)
(* it whose port was written: those between were cut off by the end of     *)
(* their process, after the address at most.                               *)
Explained(s) ==
  \E i \in 1 .. Len(hist) : \E j \in 1 .. i :
    /\ s = Slot(hist[i].ip, hist[j].port)
    /\ hist[i].wrote >= 1 /\ hist[j].wrote >= 2
    /\ \A k \in j + 1 .. i - 1 : hist[k].wrote < 2

(* A slot forwards only because of a rule written, or of a mixture of two  *)
(* that the order of the writes allows, in this or an earlier run and with *)
(* processes that die between any two writes: no third source of           *)
(* forwarding.                                                             *)
Provenance == \A s \in Slots : table[s] = FORWARD => Explained(s)

(* main only ever adds rules: no insertion, of a whole or of a half        *)
(* written rule, takes a slot back, so no filter is lost once in force.    *)
NoRuleRemoved ==
  [][\A s \in Slots : table[s] = FORWARD => table'[s] = FORWARD]_rvars

(* Rules may appear in the middle of a packet, so a packet can lose its    *)
(* first phits, but one that was begun is carried through to its last.     *)
NoTruncatedFrame ==
  LET out == IF m_axis = <<>> THEN c2h ELSE m_axis[Len(m_axis)]
  IN  ~out.last => /\ phit_idx = out.pos + 1
                   /\ network = out.pkt
                   /\ table_action(network) = FORWARD

(* Once the constructor returns every filter but the last is in the table  *)
(* (the last one is still in the registers and follows).                   *)
FiltersApplied ==
  pc = "running" =>
    \A i \in 1 .. Len(hist) - 1 :
      hist[i].run = runs
        => lookup(table, hist[i].ip, hist[i].port) = FORWARD

(* Entry h of the history is the rule of filter f, in this very run.       *)
RuleOf(h, f) == /\ hist[h].run = runs
                /\ hist[h].ip = f.ip
                /\ hist[h].port = to_port(f.number)

(* The server serves with all the filters of its command line, those of    *)
(* every -f and wherever the other options stand between them (main.cc:    *)
(* 87-95): each was written in this very run, all three registers of it.   *)
EveryFilterWritten ==
  pc = "running" =>
    \A n \in 1 .. Len(cmd) : cmd[n].opt = "f" =>
      \A m \in 1 .. Len(cmd[n].list) :
        \E h \in 1 .. Len(hist) :
          RuleOf(h, cmd[n].list[m]) /\ hist[h].wrote = 3

\* An address, and a port that is a number and none of those that the cast
\* of packet_filter.cc:41 makes 0.
Sound(f) == /\ f.colon
            /\ f.ip # InaddrNone
            /\ f.number # NoNumber
            /\ f.number % (ByteMod * ByteMod) # 0

\* Every filter of the command line up to place m of option n is sound.
SoundUpTo(n, m) ==
  \A n2 \in 1 .. n : cmd[n2].opt = "f" =>
    \A m2 \in 1 .. Len(cmd[n2].list) :
      n2 < n \/ m2 <= m => Sound(cmd[n2].list[m2])

(* A filter of update_rule that is malformed ends the run where it stands: *)
(* whatever a run writes is a filter of its own command line, with no      *)
(* malformed one at its place or anywhere in front of it.                  *)
NothingPastInvalid ==
  pc # "off" =>
    \A h \in 1 .. Len(hist) : hist[h].run = runs =>
      \E n \in 1 .. Len(cmd) : /\ cmd[n].opt = "f"
                                /\ \E m \in 1 .. Len(cmd[n].list) :
                                     /\ RuleOf(h, cmd[n].list[m])
                                     /\ SoundUpTo(n, m)

(* The filters specified are what is applied to the hardware: a slot       *)
(* forwards only if a filter hashes to it.                                 *)
OnlyConfigured ==
  \A s \in Slots : table[s] = FORWARD =>
    \E i \in 1 .. Len(hist) : s = Slot(hist[i].ip, hist[i].port)

\* Rule i is the last of which n writes were done.
Latest(n, i) ==
  /\ hist[i].wrote >= n
  /\ \A k \in i + 1 .. Len(hist) : hist[k].wrote < n

(* What the rules written left in the registers is in force: the last      *)
(* filter, or the mixture a process left that died between its writes.     *)
LastInForce ==
  (\E k \in 1 .. Len(hist) : hist[k].wrote = 3) =>
    \A i, j \in 1 .. Len(hist) :
      Latest(1, i) /\ Latest(2, j)
        => lookup(table, hist[i].ip, hist[j].port) = FORWARD

(* The last filter stays in the registers, so it takes effect for good     *)
(* when the traffic pauses while the server runs.                          *)
LastFilterTakesEffect ==
  <>[](pc = "running" /\ s_axis = <<>>) => <>[]LastInForce
=============================================================================
