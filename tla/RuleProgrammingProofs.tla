----------------------- MODULE RuleProgrammingProofs -----------------------
(***************************************************************************)
(* Proofs about RuleProgramming for every list of filters, hash, number of *)
(* runs and traffic: the composition implements PacketFilterCore (so all   *)
(* its theorems hold of it), the provenance of every forwarding slot, and  *)
(* what an addition of rules under traffic can and cannot do to a packet.  *)
(***************************************************************************)
EXTENDS RuleProgramming, PacketFilterCoreProofs

(* The byte swap of a port is a port.                                      *)
LEMMA HtonsType ==
  ASSUME NEW p \in 0 .. ByteMod * ByteMod - 1
  PROVE  htons(p) \in 0 .. ByteMod * ByteMod - 1
<1> DEFINE q == p \div ByteMod
           r == p % ByteMod
<1>1. ByteMod \in Nat \ {0} /\ p \in Nat
  BY RulesAssumption
<1>2. q \in Nat /\ r \in 0 .. ByteMod - 1 /\ p = ByteMod * q + r
  BY <1>1
<1>3. q \in 0 .. ByteMod - 1
  <2>1. ByteMod * q < ByteMod * ByteMod
    BY <1>1, <1>2
  <2>2. CASE q >= ByteMod
    <3>1. ByteMod * q >= ByteMod * ByteMod
      BY <2>2, <1>1, <1>2
    <3> QED
      BY <3>1, <2>1, <1>1, <1>2
  <2> QED
    BY <2>2, <1>1, <1>2
<1>4. r * ByteMod + q \in 0 .. ByteMod * ByteMod - 1
  <2>1. r * ByteMod <= (ByteMod - 1) * ByteMod
    BY <1>1, <1>2
  <2>2. (ByteMod - 1) * ByteMod = ByteMod * ByteMod - ByteMod
    BY <1>1
  <2>3. r * ByteMod >= 0 /\ r * ByteMod \in Int /\ ByteMod * ByteMod \in Int
    BY <1>1, <1>2
  <2> HIDE DEF q, r
  <2> QED
    BY <2>1, <2>2, <2>3, <1>1, <1>3
<1> QED
  BY <1>4 DEF htons

LEMMA ToPortType ==
  ASSUME NEW n \in Int
  PROVE  to_port(n) \in Ports
<1>1. ByteMod * ByteMod \in Nat \ {0}
  BY RulesAssumption
<1>2. n % (ByteMod * ByteMod) \in 0 .. ByteMod * ByteMod - 1
  <2> DEFINE m == ByteMod * ByteMod
  <2>1. m \in Nat \ {0}
    BY <1>1
  <2> HIDE DEF m
  <2>2. n % m \in 0 .. m - 1
    BY <2>1
  <2> QED
    BY <2>2 DEF m
<1> QED
  BY <1>2, HtonsType, RulesAssumption DEF to_port

(* A filter that parses gives a rule.                                      *)
LEMMA ValidRule ==
  ASSUME NEW f \in Filter, Valid(f)
  PROVE  f.ip \in Ips /\ to_port(f.number) \in Ports
<1>1. f.ip \in Ips /\ f.number \in Int
  BY RulesAssumption DEF Valid, Filter
<1> QED
  BY <1>1, ToPortType

(* The three addresses of update_rule decode to the three registers of the *)
(* core of port 0: each write is the one PacketFilterCore describes.       *)
LEMMA MmioWritesDecode ==
  ASSUME NEW v
  PROVE  /\ mmio_reg_write(RuleReg.ip, v) => WriteIp(v)
         /\ mmio_reg_write(RuleReg.port, v) => WritePort(v)
         /\ mmio_reg_write(RuleReg.action, v) => WriteAction(v)
<1>1. DOMAIN HlsRuleReg = {"ip", "port", "action"}
  BY DEF HlsRuleReg
<1>2. ASSUME NEW r \in {"ip", "port", "action"}, NEW q \in {"ip", "port", "action"}
      PROVE  Reaches(0, HlsRuleReg[q], filter_base_addr + RuleReg[r]) <=> q = r
  <2>1. /\ RuleReg[r] \in {16, 24, 32}
        /\ HlsRuleReg[q] = RuleReg[r] <=> q = r
    BY DEF HlsRuleReg, RuleReg
  <2>2. WindowOffset(0, filter_base_addr + RuleReg[r]) = RuleReg[r]
    BY <2>1
       DEF WindowOffset, filter_base_addr, OPENNIC_USER_250_BASE_ADDR,
           PACKET_FILTER_OFFSET, BoxBase, C_USER_SIZE, C_USER_BASE_ADDR
  <2>3. RuleReg[r] \in 0 .. C_USER_SIZE - 1
    BY <2>1 DEF C_USER_SIZE
  <2>4. Reaches(0, HlsRuleReg[q], filter_base_addr + RuleReg[r])
          <=> HlsRuleReg[q] = RuleReg[r]
    BY <2>2, <2>3 DEF Reaches
  <2> QED
    BY <2>1, <2>4
<1>3. ASSUME NEW r \in {"ip", "port", "action"}, mmio_reg_write(RuleReg[r], v)
      PROVE  cfg' = [cfg EXCEPT ![r] = v] /\ UNCHANGED <<core, stream>>
  BY <1>1, <1>2, <1>3 DEF mmio_reg_write
<1>4. /\ RuleReg["ip"] = RuleReg.ip
      /\ RuleReg["port"] = RuleReg.port
      /\ RuleReg["action"] = RuleReg.action
  OBVIOUS
<1> QED
  BY <1>3, <1>4 DEF WriteIp, WritePort, WriteAction

LEMMA WriteSteps ==
  /\ WriteIpReg => WriteIp(rule.ip)
  /\ WritePortReg => WritePort(rule.port)
  /\ WriteActionReg => WriteAction(FORWARD)
BY MmioWritesDecode DEF WriteIpReg, WritePortReg, WriteActionReg
-----------------------------------------------------------------------------
(* The history grows by the rule just parsed, none of its writes done.     *)
LEMMA HistGrows ==
  ASSUME RulesTypeOK, ParseValid
  PROVE  /\ hist \in Seq(Entry) /\ hist' \in Seq(Entry)
         /\ Len(hist) \in Nat /\ Len(hist') = Len(hist) + 1
         /\ \A k \in 1 .. Len(hist) : hist'[k] = hist[k]
         /\ hist'[Len(hist) + 1] =
              [ip |-> Head(todo).ip, port |-> to_port(Head(todo).number),
               run |-> runs, wrote |-> 0]
<1> DEFINE e == [ip |-> Head(todo).ip, port |-> to_port(Head(todo).number),
                 run |-> runs, wrote |-> 0]
<1>1. Head(todo) \in Filter
  BY TailType DEF ParseValid, RulesTypeOK
<1>2. Head(todo).ip \in Ips /\ to_port(Head(todo).number) \in Ports
  BY <1>1, ValidRule DEF ParseValid
<1>3. e \in Entry
  BY <1>2 DEF RulesTypeOK, Entry
<1>4. hist' = Append(hist, e) /\ hist \in Seq(Entry)
  BY DEF ParseValid, RulesTypeOK
<1> HIDE DEF e
<1>5. /\ hist' \in Seq(Entry) /\ Len(hist) \in Nat /\ Len(hist') = Len(hist) + 1
      /\ \A k \in 1 .. Len(hist) : hist'[k] = hist[k]
      /\ hist'[Len(hist) + 1] = e
  BY SMTT(30), <1>3, <1>4, AppendType
<1> QED
  BY <1>4, <1>5 DEF e

(* A write is noted in the last entry and changes no other.                *)
LEMMA HistWrote ==
  ASSUME RulesTypeOK, NEW n \in 1 .. 3, Wrote(n)
  PROVE  /\ hist \in Seq(Entry) /\ hist' \in Seq(Entry)
         /\ Len(hist) \in Nat /\ Len(hist') = Len(hist)
         /\ \A k \in 1 .. Len(hist) :
              /\ hist'[k].ip = hist[k].ip
              /\ hist'[k].port = hist[k].port
              /\ hist'[k].run = hist[k].run
              /\ hist'[k].wrote = IF k = Len(hist) THEN n ELSE hist[k].wrote
<1> DEFINE h == [k \in 1 .. Len(hist) |->
                   IF k = Len(hist) THEN [hist[k] EXCEPT !.wrote = n] ELSE hist[k]]
<1>1. /\ hist \in Seq(Entry) /\ Len(hist) \in Nat
      /\ DOMAIN hist = 1 .. Len(hist)
      /\ \A k \in 1 .. Len(hist) : hist[k] \in Entry
  BY DEF RulesTypeOK
<1>2. hist' = h
  BY <1>1 DEF Wrote
<1>3. \A k \in 1 .. Len(hist) : h[k] \in Entry
  <2> SUFFICES ASSUME NEW k \in 1 .. Len(hist) PROVE h[k] \in Entry
    OBVIOUS
  <2>1. hist[k] \in Entry
    BY <1>1
  <2> QED
    BY <2>1 DEF Entry
<1>4. h \in Seq(Entry) /\ Len(h) = Len(hist)
  <2>1. h \in [1 .. Len(hist) -> Entry]
    BY <1>3
  <2> HIDE DEF h
  <2> QED
    BY <1>1, <2>1
<1>5. ASSUME NEW k \in 1 .. Len(hist)
      PROVE  /\ h[k].ip = hist[k].ip
             /\ h[k].port = hist[k].port
             /\ h[k].run = hist[k].run
             /\ h[k].wrote = IF k = Len(hist) THEN n ELSE hist[k].wrote
  <2>1. hist[k] \in Entry
    BY <1>1, <1>5
  <2> QED
    BY <2>1, <1>5 DEF Entry
<1> HIDE DEF h
<1> QED
  BY <1>1, <1>2, <1>4, <1>5

LEMMA RulesTypeStep ==
  ASSUME RulesTypeOK, [RulesNext]_rvars
  PROVE  RulesTypeOK'
<1>1. CASE Start
  BY <1>1, RulesAssumption DEF Start, RulesTypeOK, Pcs
<1>2. CASE ParseOption
  <2>1. Head(argv) \in Option /\ argv' \in Seq(Option)
    BY <1>2, TailType DEF ParseOption, RulesTypeOK
  <2>2. todo' \in Seq(Filter) /\ dpdk_config' \in {"nullptr", "given"}
    BY <1>2, <2>1 DEF ParseOption, RulesTypeOK, Option
  <2> QED
    BY <1>2, <2>1, <2>2 DEF ParseOption, RulesTypeOK
<1>3. CASE ArgsRefused \/ ParseInvalid \/ ProcessEnds
  <2>1. /\ pc' = "off" /\ argv' = <<>> /\ cmd' = <<>> /\ todo' = <<>>
        /\ dpdk_config' = "nullptr" /\ rule' = NoRule
        /\ UNCHANGED <<runs, hist>>
    BY <1>3 DEF ArgsRefused, ParseInvalid, ProcessEnds, ForgetLocals
  <2>2. NoRule \in Rule
    BY CoreAssumption DEF NoRule, Rule
  <2> QED
    BY <2>1, <2>2 DEF RulesTypeOK, Pcs
<1>4. CASE ArgsParsed
  BY <1>4 DEF ArgsParsed, args, RulesTypeOK, Pcs
<1>5. CASE ParseValid
  <2>1. Head(todo) \in Filter /\ todo' \in Seq(Filter)
    BY <1>5, TailType DEF ParseValid, RulesTypeOK
  <2>2. /\ Head(todo).ip \in Ips
        /\ to_port(Head(todo).number) \in Ports
    BY <1>5, <2>1, ValidRule DEF ParseValid
  <2>3. rule' \in Rule
    BY <1>5, <2>2 DEF ParseValid, Rule
  <2>4. hist' \in Seq(Entry)
    BY <1>5, HistGrows
  <2> QED
    BY <1>5, <2>1, <2>3, <2>4 DEF ParseValid, args, RulesTypeOK, Pcs
<1>7. CASE MmioWrite
  <2>1. PICK n \in 1 .. 3 : Wrote(n)
    BY <1>7 DEF MmioWrite, WriteIpReg, WritePortReg, WriteActionReg
  <2>2. hist' \in Seq(Entry)
    BY <2>1, HistWrote
  <2> QED
    BY <1>7, <2>2 DEF MmioWrite, WriteIpReg, WritePortReg, WriteActionReg, args,
                      RulesTypeOK, Pcs
<1>8. CASE Constructed
  BY <1>8 DEF Constructed, args, RulesTypeOK, Pcs
<1>10. CASE UNCHANGED sw
  BY <1>10 DEF sw, args, RulesTypeOK
<1> QED
  BY <1>1, <1>2, <1>3, <1>4, <1>5, <1>7, <1>8, <1>10
     DEF RulesNext, Software, ParseArgs, Parse, Hardware, rvars

(* The software's variables keep their types; in particular every port     *)
(* update_rule computes is 16 bits, whatever number the filter spells.     *)
THEOREM RulesTypeCorrect == RulesSpec => []RulesTypeOK
<1>1. RulesInit => RulesTypeOK
  BY CoreAssumption DEF RulesInit, RulesTypeOK, Pcs, Rule, NoRule
<1> QED
  BY <1>1, RulesTypeStep, PTL DEF RulesSpec

LEMMA RulesRefineStep ==
  ASSUME RulesTypeOK, [RulesNext]_rvars
  PROVE  [Next]_vars
<1>1. CASE MmioWrite
  BY <1>1, WriteSteps
     DEF MmioWrite, RulesTypeOK, Rule, Next, Registers, RuleActions
<1>2. CASE Hardware
  BY <1>2 DEF Hardware, Next
<1>3. CASE UNCHANGED hw
  BY <1>3 DEF hw
<1> QED
  BY <1>1, <1>2, <1>3
     DEF RulesNext, Software, Start, ParseArgs, ParseOption, ArgsRefused,
         ArgsParsed, Parse, ParseValid, ParseInvalid, Constructed, ProcessEnds, rvars

(* The filter under its own software is one of the filters under any       *)
(* register writes that PacketFilterCore describes.                        *)
THEOREM RulesImplementCore == RulesSpec => Spec
<1>1. RulesInit => Init
  BY DEF RulesInit
<1> QED
  BY <1>1, RulesTypeCorrect, RulesRefineStep, PTL DEF RulesSpec, Spec
-----------------------------------------------------------------------------
(* Nothing forwards before the registers are armed, and they stay armed.   *)
Armed == cfg.action = DROP => \A s \in Slots : table[s] = DROP

(* update_rule between its writes: the rule in hand is the last of the     *)
(* history, with as many writes done as the place says.                    *)
Progress ==
  /\ pc \in {"ip", "port", "action"} =>
       /\ Len(hist) > 0
       /\ rule.ip = hist[Len(hist)].ip
       /\ rule.port = hist[Len(hist)].port
  /\ pc = "ip" => hist[Len(hist)].wrote = 0
  /\ pc = "port" => hist[Len(hist)].wrote = 1
  /\ pc = "action" => hist[Len(hist)].wrote = 2

(* At every moment the address register holds the address last written,    *)
(* the port register the port last written, by whichever run, and the      *)
(* action is FORWARD from the first rule on that was written whole.        *)
RegistersHold ==
  /\ \/ cfg.ip = ZeroIp /\ \A k \in 1 .. Len(hist) : hist[k].wrote < 1
     \/ \E i \in 1 .. Len(hist) : Latest(1, i) /\ cfg.ip = hist[i].ip
  /\ \/ cfg.port = ZeroPort /\ \A k \in 1 .. Len(hist) : hist[k].wrote < 2
     \/ \E i \in 1 .. Len(hist) : Latest(2, i) /\ cfg.port = hist[i].port
  /\ cfg.action = FORWARD <=> \E k \in 1 .. Len(hist) : hist[k].wrote = 3

(* The hardware neither writes the registers nor moves the software.       *)
LEMMA HardwareFrame ==
  ASSUME Hardware
  PROVE  UNCHANGED <<cfg, sw>>
BY DEF Hardware, process_packet, ProcessIdle, ProcessPhit, Traffic, Arrive,
       Deliver

(* The steps of the software that change neither registers nor history.    *)
LEMMA QuietFrame ==
  ASSUME \/ Start \/ ParseArgs \/ ParseInvalid \/ Constructed \/ ProcessEnds
         \/ Hardware \/ UNCHANGED rvars
  PROVE  /\ UNCHANGED <<cfg, hist>>
         /\ pc' \in {"ip", "port", "action"} => UNCHANGED <<pc, rule>>
BY HardwareFrame
   DEF Start, ParseArgs, ParseOption, ArgsRefused, ArgsParsed, ParseInvalid,
       Constructed, ProcessEnds, ForgetLocals, hw, vars, sw, rvars

LEMMA ProgressStep ==
  ASSUME RulesTypeOK, Progress, [RulesNext]_rvars
  PROVE  Progress'
<1>1. CASE ParseValid
  <2>1. /\ pc' = "ip"
        /\ rule' = [ip |-> Head(todo).ip, port |-> to_port(Head(todo).number)]
    BY <1>1 DEF ParseValid
  <2> QED
    BY <1>1, <2>1, HistGrows DEF Progress
<1>2. CASE MmioWrite
  <2>1. PICK n \in 1 .. 3 :
          /\ Wrote(n)
          /\ rule' = rule
          /\ pc \in {"ip", "port", "action"}
          /\ pc' = CASE n = 1 -> "port" [] n = 2 -> "action" [] n = 3 -> "next"
    BY <1>2 DEF MmioWrite, WriteIpReg, WritePortReg, WriteActionReg
  <2> QED
    BY <2>1, HistWrote DEF Progress
<1>3. CASE \/ Start \/ ParseArgs \/ ParseInvalid \/ Constructed \/ ProcessEnds
           \/ Hardware \/ UNCHANGED rvars
  BY <1>3, QuietFrame DEF Progress
<1> QED
  BY <1>1, <1>2, <1>3 DEF RulesNext, Software, Parse

(* How the history grows: not, by a rule of which nothing is written yet,  *)
(* or by one write of the last rule.                                       *)
Parsed ==
  /\ Len(hist') = Len(hist) + 1
  /\ \A k \in 1 .. Len(hist) : hist'[k] = hist[k]
  /\ hist'[Len(hist) + 1].wrote = 0

WroteMore(n) ==
  /\ Len(hist) > 0
  /\ Len(hist') = Len(hist)
  /\ hist[Len(hist)].wrote = n - 1
  /\ \A k \in 1 .. Len(hist) :
       /\ hist'[k].ip = hist[k].ip
       /\ hist'[k].port = hist[k].port
       /\ hist'[k].run = hist[k].run
       /\ hist'[k].wrote = IF k = Len(hist) THEN n ELSE hist[k].wrote

LEMMA HistStep ==
  ASSUME RulesTypeOK, Progress, [RulesNext]_rvars
  PROVE  \/ UNCHANGED <<cfg, hist>>
         \/ UNCHANGED cfg /\ Parsed
         \/ WroteMore(1) /\ cfg' = [cfg EXCEPT !.ip = hist[Len(hist)].ip]
         \/ WroteMore(2) /\ cfg' = [cfg EXCEPT !.port = hist[Len(hist)].port]
         \/ WroteMore(3) /\ cfg' = [cfg EXCEPT !.action = FORWARD]
<1>1. CASE ParseValid
  <2>1. cfg' = cfg
    BY <1>1 DEF ParseValid, hw, vars
  <2> QED
    BY <1>1, <2>1, HistGrows DEF Parsed
<1>2. CASE WriteIpReg
  <2>1. /\ Wrote(1) /\ pc = "ip"
        /\ cfg' = [cfg EXCEPT !.ip = rule.ip]
    BY <1>2, WriteSteps DEF WriteIpReg, WriteIp
  <2> QED
    BY <2>1, HistWrote DEF Progress, WroteMore
<1>3. CASE WritePortReg
  <2>1. /\ Wrote(2) /\ pc = "port"
        /\ cfg' = [cfg EXCEPT !.port = rule.port]
    BY <1>3, WriteSteps DEF WritePortReg, WritePort
  <2> QED
    BY <2>1, HistWrote DEF Progress, WroteMore
<1>4. CASE WriteActionReg
  <2>1. /\ Wrote(3) /\ pc = "action"
        /\ cfg' = [cfg EXCEPT !.action = FORWARD]
    BY <1>4, WriteSteps DEF WriteActionReg, WriteAction
  <2> QED
    BY <2>1, HistWrote DEF Progress, WroteMore
<1>5. CASE \/ Start \/ ParseArgs \/ ParseInvalid \/ Constructed \/ ProcessEnds
           \/ Hardware \/ UNCHANGED rvars
  BY <1>5, QuietFrame
<1> QED
  BY <1>1, <1>2, <1>3, <1>4, <1>5 DEF RulesNext, Software, Parse, MmioWrite

LEMMA HistType ==
  ASSUME RulesTypeOK
  PROVE  /\ Len(hist) \in Nat
         /\ \A k \in 1 .. Len(hist) : hist[k] \in Entry /\ hist[k].wrote \in 0 .. 3
<1>1. hist \in Seq(Entry)
  BY DEF RulesTypeOK
<1>2. Len(hist) \in Nat /\ \A k \in 1 .. Len(hist) : hist[k] \in Entry
  BY <1>1
<1> QED
  BY <1>2 DEF Entry

(* Only the n-th write of another rule takes the place of the last rule    *)
(* with n writes.                                                          *)
LEMMA LatestStays ==
  ASSUME RulesTypeOK, RulesTypeOK', NEW n \in 1 .. 2, NEW i \in 1 .. Len(hist), Latest(n, i),
         \/ UNCHANGED hist
         \/ Parsed
         \/ \E w \in 1 .. 3 : w # n /\ WroteMore(w)
  PROVE  /\ i \in 1 .. Len(hist')
         /\ Latest(n, i)'
         /\ hist'[i].ip = hist[i].ip
         /\ hist'[i].port = hist[i].port
<1>1. /\ Len(hist) \in Nat
      /\ \A k \in 1 .. Len(hist) : hist[k].wrote \in 0 .. 3
  BY HistType
<1>2. CASE UNCHANGED hist
  BY <1>2 DEF Latest
<1>3. CASE Parsed
  <2>1. /\ i \in 1 .. Len(hist') /\ hist'[i] = hist[i] /\ hist'[i].wrote >= n
    BY <1>1, <1>3 DEF Parsed, Latest
  <2>2. ASSUME NEW k \in i + 1 .. Len(hist') PROVE hist'[k].wrote < n
    <3>1. CASE k = Len(hist) + 1
      BY <3>1, <1>3 DEF Parsed
    <3>2. CASE k # Len(hist) + 1
      <4>1. k \in i + 1 .. Len(hist) /\ k \in 1 .. Len(hist)
        BY SMTT(30), <1>1, <1>3, <2>2, <3>2 DEF Parsed
      <4> QED
        BY <4>1, <1>3 DEF Parsed, Latest
    <3> QED
      BY <3>1, <3>2
  <2> QED
    BY <2>1, <2>2 DEF Latest
<1>4. ASSUME NEW w \in 1 .. 3, w # n, WroteMore(w)
      PROVE  /\ i \in 1 .. Len(hist')
             /\ Latest(n, i)'
             /\ hist'[i].ip = hist[i].ip
             /\ hist'[i].port = hist[i].port
  <2>1. \A k \in 1 .. Len(hist) : hist'[k].wrote >= n <=> hist[k].wrote >= n
    BY <1>1, <1>4 DEF WroteMore
  <2>2. \A k \in 1 .. Len(hist) : hist'[k].wrote \in 0 .. 3
    BY <1>1, <1>4 DEF WroteMore
  <2>3. hist'[i].wrote >= n
    BY <2>1 DEF Latest
  <2>4. ASSUME NEW k \in i + 1 .. Len(hist') PROVE hist'[k].wrote < n
    <3>1. k \in 1 .. Len(hist) /\ k \in i + 1 .. Len(hist)
      BY <1>1, <1>4, <2>4 DEF WroteMore
    <3>2. hist[k].wrote < n
      BY <3>1 DEF Latest
    <3> QED
      BY SMTT(30), <1>1, <2>1, <2>2, <3>1, <3>2
  <2> QED
    BY <1>4, <2>3, <2>4 DEF WroteMore, Latest
<1> QED
  BY <1>2, <1>3, <1>4

(* The n-th write makes its rule the last one with n writes.               *)
LEMMA LatestWritten ==
  ASSUME RulesTypeOK, NEW n \in 1 .. 2, WroteMore(n)
  PROVE  /\ Len(hist) \in 1 .. Len(hist')
         /\ Latest(n, Len(hist))'
<1>1. Len(hist) \in Nat
  BY DEF RulesTypeOK
<1>2. /\ Len(hist') = Len(hist)
      /\ Len(hist) \in 1 .. Len(hist)
      /\ hist'[Len(hist)].wrote = n
  BY <1>1 DEF WroteMore
<1>3. \A k \in Len(hist') + 1 .. Len(hist') : FALSE
  BY <1>1, <1>2
<1>4. Latest(n, Len(hist))' <=> /\ hist'[Len(hist')].wrote >= n
                               /\ \A k \in Len(hist') + 1 .. Len(hist') : hist'[k].wrote < n
  BY DEF Latest
<1> QED
  BY <1>2, <1>3, <1>4

LEMMA RegistersHoldStep ==
  ASSUME TypeOK, RulesTypeOK, RulesTypeOK', Progress, RegistersHold,
         [RulesNext]_rvars
  PROVE  RegistersHold'
<1>1. /\ Len(hist) \in Nat
      /\ cfg \in [ip : Ips, port : Ports, action : RuleActions]
      /\ \A k \in 1 .. Len(hist) : hist[k].wrote \in 0 .. 3
  BY HistType DEF TypeOK
<1>2. \/ UNCHANGED <<cfg, hist>>
      \/ UNCHANGED cfg /\ Parsed
      \/ WroteMore(1) /\ cfg' = [cfg EXCEPT !.ip = hist[Len(hist)].ip]
      \/ WroteMore(2) /\ cfg' = [cfg EXCEPT !.port = hist[Len(hist)].port]
      \/ WroteMore(3) /\ cfg' = [cfg EXCEPT !.action = FORWARD]
  BY HistStep
<1>3. ASSUME NEW n \in 1 .. 2,
             \/ UNCHANGED hist
             \/ Parsed
             \/ \E w \in 1 .. 3 : w # n /\ WroteMore(w),
             \A k \in 1 .. Len(hist) : hist[k].wrote < n
      PROVE  \A k \in 1 .. Len(hist') : hist'[k].wrote < n
  <2>1. CASE UNCHANGED hist
    BY <1>3, <2>1
  <2>2. CASE Parsed
    <3>1. \A k \in 1 .. Len(hist') : k \in 1 .. Len(hist) \/ k = Len(hist) + 1
      BY <1>1, <2>2 DEF Parsed
    <3> QED
      BY <1>3, <2>2, <3>1 DEF Parsed
  <2>3. ASSUME NEW w \in 1 .. 3, w # n, WroteMore(w)
        PROVE  \A k \in 1 .. Len(hist') : hist'[k].wrote < n
    <3>1. Len(hist) \in 1 .. Len(hist) /\ hist[Len(hist)].wrote = w - 1
      BY <1>1, <2>3 DEF WroteMore
    <3>2. w < n
      BY <1>3, <2>3, <3>1
    <3> QED
      BY <1>3, <2>3, <3>2 DEF WroteMore
  <2> QED
    BY <1>3, <2>1, <2>2, <2>3
<1>4. \/ cfg'.ip = ZeroIp /\ \A k \in 1 .. Len(hist') : hist'[k].wrote < 1
      \/ \E i \in 1 .. Len(hist') : Latest(1, i)' /\ cfg'.ip = hist'[i].ip
  <2>1. CASE WroteMore(1) /\ cfg' = [cfg EXCEPT !.ip = hist[Len(hist)].ip]
    <3>1. Len(hist') \in 1 .. Len(hist') /\ Latest(1, Len(hist))'
      BY <2>1, LatestWritten DEF WroteMore
    <3>2. cfg'.ip = hist'[Len(hist')].ip
      BY <1>1, <2>1, <3>1 DEF WroteMore
    <3> QED
      BY <3>1, <3>2
  <2>2. CASE ~(WroteMore(1) /\ cfg' = [cfg EXCEPT !.ip = hist[Len(hist)].ip])
    <3>1. /\ cfg'.ip = cfg.ip
          /\ \/ UNCHANGED hist
             \/ Parsed
             \/ \E w \in 1 .. 3 : w # 1 /\ WroteMore(w)
      BY <1>1, <1>2, <2>2
    <3>2. CASE cfg.ip = ZeroIp /\ \A k \in 1 .. Len(hist) : hist[k].wrote < 1
      BY <1>3, <3>1, <3>2
    <3>3. CASE \E i \in 1 .. Len(hist) : Latest(1, i) /\ cfg.ip = hist[i].ip
      BY <3>1, <3>3, LatestStays
    <3> QED
      BY <3>2, <3>3 DEF RegistersHold
  <2> QED
    BY <2>1, <2>2
<1>5. \/ cfg'.port = ZeroPort /\ \A k \in 1 .. Len(hist') : hist'[k].wrote < 2
      \/ \E i \in 1 .. Len(hist') : Latest(2, i)' /\ cfg'.port = hist'[i].port
  <2>1. CASE WroteMore(2) /\ cfg' = [cfg EXCEPT !.port = hist[Len(hist)].port]
    <3>1. Len(hist') \in 1 .. Len(hist') /\ Latest(2, Len(hist))'
      BY <2>1, LatestWritten DEF WroteMore
    <3>2. cfg'.port = hist'[Len(hist')].port
      BY <1>1, <2>1, <3>1 DEF WroteMore
    <3> QED
      BY <3>1, <3>2
  <2>2. CASE ~(WroteMore(2) /\ cfg' = [cfg EXCEPT !.port = hist[Len(hist)].port])
    <3>1. /\ cfg'.port = cfg.port
          /\ \/ UNCHANGED hist
             \/ Parsed
             \/ \E w \in 1 .. 3 : w # 2 /\ WroteMore(w)
      BY <1>1, <1>2, <2>2
    <3>2. CASE cfg.port = ZeroPort /\ \A k \in 1 .. Len(hist) : hist[k].wrote < 2
      BY <1>3, <3>1, <3>2
    <3>3. CASE \E i \in 1 .. Len(hist) : Latest(2, i) /\ cfg.port = hist[i].port
      BY <3>1, <3>3, LatestStays
    <3> QED
      BY <3>2, <3>3 DEF RegistersHold
  <2> QED
    BY <2>1, <2>2
<1>6. cfg'.action = FORWARD <=> \E k \in 1 .. Len(hist') : hist'[k].wrote = 3
  <2>1. CASE WroteMore(3) /\ cfg' = [cfg EXCEPT !.action = FORWARD]
    <3>1. Len(hist) \in 1 .. Len(hist') /\ hist'[Len(hist)].wrote = 3
      BY <1>1, <2>1 DEF WroteMore
    <3> QED
      BY <1>1, <2>1, <3>1
  <2>2. ASSUME NEW w \in 1 .. 2, WroteMore(w), cfg'.action = cfg.action
        PROVE  cfg'.action = FORWARD <=> \E k \in 1 .. Len(hist') : hist'[k].wrote = 3
    <3>1. \A k \in 1 .. Len(hist) : hist'[k].wrote = 3 <=> hist[k].wrote = 3
      BY <2>2 DEF WroteMore
    <3> QED
      BY <2>2, <3>1 DEF WroteMore, RegistersHold
  <2>3. CASE Parsed /\ UNCHANGED cfg
    <3>1. \A k \in 1 .. Len(hist') : hist'[k].wrote = 3
            => k \in 1 .. Len(hist) /\ hist[k].wrote = 3
      <4>1. \A k \in 1 .. Len(hist') : k \in 1 .. Len(hist) \/ k = Len(hist) + 1
        BY <1>1, <2>3 DEF Parsed
      <4> QED
        BY <2>3, <4>1 DEF Parsed
    <3>2. \A k \in 1 .. Len(hist) : k \in 1 .. Len(hist') /\ hist'[k] = hist[k]
      BY <1>1, <2>3 DEF Parsed
    <3> QED
      BY <2>3, <3>1, <3>2 DEF RegistersHold
  <2>4. CASE UNCHANGED <<cfg, hist>>
    BY <2>4 DEF RegistersHold
  <2> QED
    BY <1>1, <1>2, <2>1, <2>2, <2>3, <2>4
<1> QED
  BY <1>4, <1>5, <1>6 DEF RegistersHold

LEMMA ArmedStep ==
  ASSUME TypeOK, Armed, [RulesNext]_rvars
  PROVE  /\ Armed'
         /\ \A s \in Slots : table[s] = FORWARD => table'[s] = FORWARD
<1>1. CASE Hardware /\ ProcessIdle
  <2>1. /\ table' = insert(table, cfg.ip, cfg.port, cfg.action)
        /\ cfg' = cfg
    BY <1>1 DEF ProcessIdle
  <2>2. /\ table \in [Slots -> RuleActions]
        /\ cfg.action \in RuleActions
    BY DEF TypeOK
  <2> QED
    BY <2>1, <2>2 DEF insert, Armed, RuleActions, DROP, FORWARD
<1>2. CASE MmioWrite
  BY <1>2, WriteSteps
     DEF MmioWrite, WriteIp, WritePort, WriteAction, core, Armed, TypeOK, DROP,
         FORWARD
<1>3. CASE UNCHANGED <<cfg, table>>
  BY <1>3 DEF Armed
<1> QED
  BY <1>1, <1>2, <1>3
     DEF RulesNext, Software, Start, ParseArgs, ParseOption, ArgsRefused,
         ArgsParsed, Parse, ParseValid, ParseInvalid, Constructed, ProcessEnds, Hardware, process_packet, ProcessPhit, Traffic,
         Arrive, Deliver, rvars, hw, vars, core

LEMMA ArmedInit == RulesInit => Armed /\ Progress /\ RegistersHold /\ Provenance
BY DEF RulesInit, Init, Armed, Progress, RegistersHold, Provenance, DROP, FORWARD

LEMMA RulesCore == RulesSpec => [](TypeOK /\ RulesTypeOK)
BY RulesImplementCore, TypeCorrect, RulesTypeCorrect, PTL

(* main only ever adds rules: no insertion takes a slot back.              *)
THEOREM RulesOnlyAdded == RulesSpec => NoRuleRemoved
<1>1. TypeOK /\ Armed /\ [RulesNext]_rvars => Armed'
  BY ArmedStep
<1>2. TypeOK /\ Armed /\ [RulesNext]_rvars
        => [\A s \in Slots : table[s] = FORWARD => table'[s] = FORWARD]_rvars
  BY ArmedStep
<1>3. RulesInit => Armed
  BY ArmedInit
<1> QED
  BY <1>1, <1>2, <1>3, RulesCore, PTL DEF RulesSpec, NoRuleRemoved
-----------------------------------------------------------------------------
(* What the armed registers name is explained by the rules written.        *)
LEMMA HeldExplained ==
  ASSUME RulesTypeOK, RegistersHold, cfg.action = FORWARD
  PROVE  Explained(Slot(cfg.ip, cfg.port))
<1>1. /\ Len(hist) \in Nat
      /\ \A k \in 1 .. Len(hist) : hist[k].wrote \in 0 .. 3
  BY HistType
<1>2. PICK k \in 1 .. Len(hist) : hist[k].wrote = 3
  BY DEF RegistersHold
<1>3. PICK i \in 1 .. Len(hist) : Latest(1, i) /\ cfg.ip = hist[i].ip
  BY <1>2 DEF RegistersHold
<1>4. PICK j \in 1 .. Len(hist) : Latest(2, j) /\ cfg.port = hist[j].port
  BY <1>2 DEF RegistersHold
<1>5. hist[i].wrote >= 1 /\ hist[j].wrote >= 2
  BY <1>3, <1>4 DEF Latest
<1>6. j \in 1 .. i
  <2>1. CASE j > i
    <3>1. j \in i + 1 .. Len(hist)
      BY <1>1, <2>1
    <3>2. hist[j].wrote < 1
      BY <1>3, <3>1 DEF Latest
    <3> QED
      BY <1>1, <1>5, <3>2
  <2> QED
    BY <1>1, <2>1
<1>7. \A m \in j + 1 .. i - 1 : hist[m].wrote < 2
  <2>1. \A m \in j + 1 .. i - 1 : m \in j + 1 .. Len(hist)
    BY <1>1
  <2> QED
    BY <1>4, <2>1 DEF Latest
<1> QED
  BY <1>3, <1>4, <1>5, <1>6, <1>7 DEF Explained

(* Neither a rule begun later nor a write takes an explanation away.       *)
LEMMA ExplainedStays ==
  ASSUME RulesTypeOK, Progress, [RulesNext]_rvars, NEW s, Explained(s)
  PROVE  Explained(s)'
<1>1. /\ Len(hist) \in Nat
      /\ \A k \in 1 .. Len(hist) : hist[k].wrote \in 0 .. 3
  BY HistType
<1> DEFINE Explains(i, j) == /\ s = Slot(hist[i].ip, hist[j].port)
                             /\ hist[i].wrote >= 1 /\ hist[j].wrote >= 2
                             /\ \A k \in j + 1 .. i - 1 : hist[k].wrote < 2
<1>0. PICK i \in 1 .. Len(hist) : \E j \in 1 .. i : Explains(i, j)
  BY DEF Explained
<1>2. PICK j \in 1 .. i : Explains(i, j)
  BY <1>0
<1>3. j \in 1 .. Len(hist) /\ \A k \in j + 1 .. i - 1 : k \in 1 .. Len(hist) /\ k # Len(hist)
  BY <1>1
<1>4. CASE UNCHANGED hist
  BY <1>4 DEF Explained, Slot
<1>5. CASE Parsed
  <2>1. i \in 1 .. Len(hist') /\ hist'[i] = hist[i] /\ hist'[j] = hist[j]
    BY <1>1, <1>3, <1>5 DEF Parsed
  <2>2. \A k \in j + 1 .. i - 1 : hist'[k].wrote < 2
    BY <1>2, <1>3, <1>5 DEF Parsed
  <2> QED
    BY <1>2, <2>1, <2>2 DEF Explained, Slot
<1>6. ASSUME NEW n \in 1 .. 3, WroteMore(n) PROVE Explained(s)'
  <2>1. /\ i \in 1 .. Len(hist')
        /\ hist'[i].ip = hist[i].ip /\ hist'[j].port = hist[j].port
        /\ hist'[i].wrote >= hist[i].wrote /\ hist'[j].wrote >= hist[j].wrote
        /\ hist'[i].wrote \in 0 .. 3 /\ hist'[j].wrote \in 0 .. 3
    BY SMTT(30), <1>1, <1>3, <1>6 DEF WroteMore
  <2>2. hist'[i].wrote >= 1 /\ hist'[j].wrote >= 2
    <3>1. hist[i].wrote \in 0 .. 3 /\ hist[j].wrote \in 0 .. 3
      BY <1>1, <1>3
    <3>2. hist[i].wrote >= 1 /\ hist[j].wrote >= 2
      BY <1>2
    <3> QED
      BY <2>1, <3>1, <3>2
  <2>3. \A k \in j + 1 .. i - 1 : hist'[k].wrote < 2
    BY <1>2, <1>3, <1>6 DEF WroteMore
  <2> QED
    BY <1>2, <2>1, <2>2, <2>3 DEF Explained, Slot
<1> QED
  BY <1>4, <1>5, <1>6, HistStep

LEMMA ProvenanceStep ==
  ASSUME TypeOK, RulesTypeOK, Progress, RegistersHold, Provenance, [RulesNext]_rvars
  PROVE  Provenance'
<1> SUFFICES ASSUME NEW s \in Slots, table'[s] = FORWARD
             PROVE  Explained(s)'
  BY DEF Provenance
<1>1. CASE table' = table
  BY <1>1, ExplainedStays DEF Provenance
<1>2. CASE Hardware /\ ProcessIdle
  <2>1. /\ table' = insert(table, cfg.ip, cfg.port, cfg.action)
        /\ table \in [Slots -> RuleActions]
    BY <1>2 DEF ProcessIdle, TypeOK
  <2>2. CASE s = Slot(cfg.ip, cfg.port)
    <3>1. cfg.action = FORWARD
      BY <2>1, <2>2 DEF insert, Slot
    <3> QED
      BY <2>2, <3>1, HeldExplained, ExplainedStays
  <2>3. CASE s # Slot(cfg.ip, cfg.port)
    <3>1. table[s] = FORWARD
      BY <2>1, <2>3 DEF insert, Slot
    <3> QED
      BY <3>1, ExplainedStays DEF Provenance
  <2> QED
    BY <2>2, <2>3
<1> QED
  BY <1>1, <1>2, WriteSteps
     DEF RulesNext, Software, Start, ParseArgs, ParseOption, ArgsRefused,
         ArgsParsed, Parse, ParseValid, ParseInvalid, MmioWrite, WriteIp, WritePort,
         WriteAction, Constructed, ProcessEnds, Hardware, process_packet, ProcessPhit,
         Traffic, Arrive, Deliver, rvars, hw, vars, core

LEMMA RegistersInductive ==
  RulesSpec => [](TypeOK /\ RulesTypeOK /\ Progress /\ RegistersHold)
<1>1. RulesInit => Progress /\ RegistersHold
  BY ArmedInit
<1>2. RulesTypeOK /\ Progress /\ [RulesNext]_rvars => Progress'
  BY ProgressStep
<1>3. TypeOK /\ RulesTypeOK /\ RulesTypeOK' /\ Progress /\ RegistersHold /\ [RulesNext]_rvars
        => RegistersHold'
  BY RegistersHoldStep
<1> QED
  BY <1>1, <1>2, <1>3, RulesCore, PTL DEF RulesSpec

(* What the registers hold at every moment, with runs that end wherever    *)
(* they are: the address and the port last written, not necessarily of one *)
(* rule, armed for good once any rule was written whole.                   *)
THEOREM RegistersCorrect == RulesSpec => []RegistersHold
BY RegistersInductive, PTL

(* Every forwarding slot comes from a rule written or from a mixture that  *)
(* the order of the three writes and the ends of the runs allow, whatever  *)
(* the filters, the hash and the traffic.                                  *)
THEOREM ProvenanceCorrect == RulesSpec => []Provenance
<1>1. TypeOK /\ RulesTypeOK /\ Progress /\ RegistersHold /\ Provenance /\ [RulesNext]_rvars
        => Provenance'
  BY ProvenanceStep
<1>2. RulesInit => Provenance
  BY ArmedInit
<1> QED
  BY <1>1, <1>2, RegistersInductive, PTL DEF RulesSpec
-----------------------------------------------------------------------------
LEMMA NoTruncatedFrameStep ==
  ASSUME TypeOK, Framing, Armed, NoTruncatedFrame, [RulesNext]_rvars
  PROVE  NoTruncatedFrame'
<1> DEFINE out == IF m_axis = <<>> THEN c2h ELSE m_axis[Len(m_axis)]
           n   == Len(m_axis)
<1>1. /\ m_axis \in Seq(Phit)
      /\ n \in Nat
      /\ m_axis = <<>> <=> n = 0
      /\ out \in Phit
      /\ out.last \in BOOLEAN
      /\ out.pos \in Nat
  <2>1. m_axis \in Seq(Phit) /\ c2h \in Phit
    BY DEF TypeOK
  <2>2. n \in Nat /\ (m_axis = <<>> <=> n = 0) /\ out \in Phit
    BY <2>1
  <2> QED
    BY <2>1, <2>2 DEF Phit
<1>2. CASE Hardware /\ ProcessPhit
  <2> DEFINE phit == Head(s_axis)
             net  == deserialize(network, phit.data, phit_idx)
  <2>1. /\ phit \in Phit
        /\ phit.pos = phit_idx
        /\ phit_idx \in Nat
        /\ net = phit.pkt
    <3>1. OwnHeader /\ s_axis \in Seq(Phit) /\ s_axis # <<>>
      BY <1>2, FramingOwnHeader DEF ProcessPhit, TypeOK
    <3> QED
      BY <3>1, TailType DEF OwnHeader, TypeOK, Framing, HeadOk
  <2>2. /\ network' = net
        /\ phit_idx' = IF phit.last THEN 0 ELSE phit_idx + 1
        /\ table' = table
        /\ c2h' = c2h
    BY <1>2 DEF ProcessPhit, NextPhitIdx
  <2>3. CASE table_action(net) = FORWARD
    <3>1. m_axis' = Append(m_axis, phit)
      BY <1>2, <2>3 DEF ProcessPhit
    <3>2. m_axis' # <<>> /\ m_axis'[Len(m_axis')] = phit
      BY <1>1, <2>1, <3>1, AppendType
    <3>3. table_action(network)' = FORWARD
      BY <2>2, <2>3 DEF table_action, lookup
    <3> QED
      BY <2>1, <2>2, <3>2, <3>3 DEF NoTruncatedFrame
  <2>4. CASE table_action(net) # FORWARD
    <3>1. m_axis' = m_axis
      BY <1>2, <2>4 DEF ProcessPhit
    <3>2. out.last
      BY <1>1, <2>1, <2>4 DEF NoTruncatedFrame, deserialize
    <3> QED
      BY <2>2, <3>1, <3>2 DEF NoTruncatedFrame
  <2> QED
    BY <2>3, <2>4
<1>3. CASE Hardware /\ Deliver
  <2>1. /\ m_axis # <<>>
        /\ m_axis' = Tail(m_axis)
        /\ c2h' = Head(m_axis)
        /\ network' = network /\ phit_idx' = phit_idx /\ table' = table
    BY <1>3 DEF Deliver, core
  <2>2. (IF m_axis' = <<>> THEN c2h' ELSE m_axis'[Len(m_axis')]) = out
    <3>1. /\ n > 0
          /\ Len(m_axis') = n - 1
          /\ \A i \in 1 .. n - 1 : m_axis'[i] = m_axis[i + 1]
          /\ c2h' = m_axis[1]
          /\ m_axis' \in Seq(Phit)
      BY <1>1, <2>1, TailType
    <3>2. m_axis' = <<>> <=> n = 1
      BY <1>1, <3>1
    <3> QED
      BY <1>1, <2>1, <3>1, <3>2
  <2>3. table_action(network)' = table_action(network)
    BY <2>1 DEF table_action, lookup
  <2> QED
    BY <2>1, <2>2, <2>3 DEF NoTruncatedFrame
<1>4. CASE UNCHANGED <<phit_idx, network, m_axis, c2h>>
  <2>1. ASSUME table_action(network) = FORWARD
        PROVE  table_action(network)' = FORWARD
    <3>1. /\ is_ipv4(network) /\ is_udp(network)
          /\ lookup(table, network.dest_ip, network.dest_port) = FORWARD
      BY <2>1 DEF table_action, DROP, FORWARD
    <3>2. Index[<<network.dest_ip, network.dest_port>>] \in Slots
      BY CoreAssumption DEF TypeOK, HeaderType
    <3>3. lookup(table', network.dest_ip, network.dest_port) = FORWARD
      BY <3>1, <3>2, ArmedStep DEF lookup
    <3> QED
      BY <1>4, <3>1, <3>3 DEF table_action, lookup, is_ipv4, is_udp
  <2> QED
    BY <1>4, <2>1 DEF NoTruncatedFrame
<1> QED
  BY <1>2, <1>3, <1>4, WriteSteps
     DEF RulesNext, Software, Start, ParseArgs, ParseOption, ArgsRefused,
         ArgsParsed, Parse, ParseValid, ParseInvalid, MmioWrite, WriteIp, WritePort,
         WriteAction, Constructed, ProcessEnds, Hardware, process_packet, ProcessIdle,
         Traffic, Arrive, rvars, hw, vars, core, stream

(* A rule that comes into force in the middle of a packet never truncates  *)
(* one: what the core began to forward it forwards to its last phit.       *)
THEOREM NoTruncatedFrameCorrect == RulesSpec => []NoTruncatedFrame
<1>1. TypeOK /\ Armed /\ [RulesNext]_rvars => Armed'
  BY ArmedStep
<1>2. TypeOK /\ Framing /\ Armed /\ NoTruncatedFrame /\ [RulesNext]_rvars
        => NoTruncatedFrame'
  BY NoTruncatedFrameStep
<1>3. RulesInit => Armed /\ NoTruncatedFrame
  <2>1. RulesInit => c2h.last /\ m_axis = <<>>
    BY DEF RulesInit, Init
  <2> QED
    BY <2>1, ArmedInit DEF NoTruncatedFrame
<1>4. RulesSpec => []Framing
  BY RulesImplementCore, FramingCorrect, PTL
<1> QED
  BY <1>1, <1>2, <1>3, <1>4, RulesCore, PTL DEF RulesSpec
-----------------------------------------------------------------------------
\* f was written in this run, or is the one being written.
Written(f) ==
  \E h \in 1 .. Len(hist) :
    /\ RuleOf(h, f)
    /\ \/ hist[h].wrote = 3
       \/ h = Len(hist) /\ pc \in {"ip", "port", "action"}

\* Where a filter of option o is on its way from the command line.
OnItsWay(o, f) ==
  \/ \E k \in 1 .. Len(argv) : argv[k] = o
  \/ \E k \in 1 .. Len(todo) : todo[k] = f
  \/ Written(f)

(* No filter of the command line gets lost between getopt and the last     *)
(* write of update_rule.                                                   *)
NoneForgotten ==
  /\ pc \notin {"off", "args"} => argv = <<>>
  /\ pc = "running" => todo = <<>>
  /\ pc # "off" =>
       \A n \in 1 .. Len(cmd) : cmd[n].opt = "f" =>
         \A m \in 1 .. Len(cmd[n].list) : OnItsWay(cmd[n], cmd[n].list[m])

LEMMA ParseOptionKeeps ==
  ASSUME RulesTypeOK, NoneForgotten, ParseOption
  PROVE  NoneForgotten'
<1>1. /\ pc = "args" /\ pc' = "args" /\ argv # <<>> /\ argv' = Tail(argv)
      /\ UNCHANGED <<cmd, hist, runs>>
  BY DEF ParseOption
<1>2. todo' = IF Head(argv).opt = "f" THEN todo \o Head(argv).list ELSE todo
  BY DEF ParseOption
<1>3. /\ argv \in Seq(Option) /\ cmd \in Seq(Option) /\ todo \in Seq(Filter)
      /\ Head(argv) \in Option /\ Head(argv) = argv[1]
  BY <1>1 DEF RulesTypeOK
<1>4. Head(argv).list \in Seq(Filter)
  BY <1>3 DEF Option
<1>5. ASSUME NEW n \in 1 .. Len(cmd), cmd[n].opt = "f",
             NEW m \in 1 .. Len(cmd[n].list)
      PROVE  OnItsWay(cmd[n], cmd[n].list[m])'
  <2>1. OnItsWay(cmd[n], cmd[n].list[m])
    BY <1>1, <1>5 DEF NoneForgotten
  <2>2. CASE Written(cmd[n].list[m])
    BY <2>2, <1>1 DEF OnItsWay, Written, RuleOf
  <2>3. ASSUME NEW k \in 1 .. Len(todo), todo[k] = cmd[n].list[m]
        PROVE  OnItsWay(cmd[n], cmd[n].list[m])'
    <3>1. k \in 1 .. Len(todo') /\ todo'[k] = todo[k]
      BY <1>2, <1>3, <1>4
    <3> QED
      BY <3>1, <2>3, <1>1 DEF OnItsWay
  <2>4. ASSUME argv[1] = cmd[n]
        PROVE  OnItsWay(cmd[n], cmd[n].list[m])'
    <3>1. todo' = todo \o cmd[n].list /\ cmd[n].list \in Seq(Filter)
      BY <1>2, <1>3, <1>4, <1>5, <2>4
    <3>2. /\ Len(todo) + m \in 1 .. Len(todo')
          /\ todo'[Len(todo) + m] = cmd[n].list[m]
      BY SMTT(30), <3>1, <1>3
    <3> QED
      BY <3>2, <1>1 DEF OnItsWay
  <2>5. ASSUME NEW k \in 2 .. Len(argv), argv[k] = cmd[n]
        PROVE  OnItsWay(cmd[n], cmd[n].list[m])'
    <3>1. k - 1 \in 1 .. Len(argv') /\ argv'[k - 1] = argv[k]
      BY <1>1, <1>3
    <3> QED
      BY <3>1, <2>5, <1>1 DEF OnItsWay
  <2>6. ASSUME NEW k \in 1 .. Len(argv), argv[k] = cmd[n]
        PROVE  OnItsWay(cmd[n], cmd[n].list[m])'
    <3>1. k = 1 \/ k \in 2 .. Len(argv)
      BY <1>3
    <3> QED
      BY <3>1, <2>4, <2>5, <2>6
  <2> QED
    BY <2>1, <2>2, <2>3, <2>6 DEF OnItsWay
<1> QED
  BY <1>1, <1>5 DEF NoneForgotten

LEMMA ParseValidKeeps ==
  ASSUME RulesTypeOK, NoneForgotten, ParseValid
  PROVE  NoneForgotten'
<1>1. /\ pc = "next" /\ pc' = "ip" /\ todo # <<>> /\ todo' = Tail(todo)
      /\ UNCHANGED <<argv, cmd, runs>>
  BY DEF ParseValid, args
<1>2. /\ argv = <<>> /\ todo \in Seq(Filter)
      /\ Len(hist) \in Nat
  BY <1>1 DEF NoneForgotten, RulesTypeOK
<1>3. /\ Len(hist') = Len(hist) + 1
      /\ \A h \in 1 .. Len(hist) : hist'[h] = hist[h]
      /\ hist'[Len(hist) + 1].ip = todo[1].ip
      /\ hist'[Len(hist) + 1].port = to_port(todo[1].number)
      /\ hist'[Len(hist) + 1].run = runs
  BY <1>1, <1>2, HistGrows
<1>4. ASSUME NEW o, NEW f, OnItsWay(o, f)
      PROVE  \/ \E k \in 1 .. Len(todo') : todo'[k] = f
             \/ Written(f)'
  <2>1. CASE Written(f)
    BY <2>1, <1>1, <1>2, <1>3 DEF Written, RuleOf, to_port, htons
  <2>2. CASE todo[1] = f
    <3>1. Len(hist) + 1 \in 1 .. Len(hist')
      BY <1>2, <1>3
    <3> QED
      BY <3>1, <2>2, <1>1, <1>3 DEF Written, RuleOf, to_port, htons
  <2>3. ASSUME NEW k \in 2 .. Len(todo), todo[k] = f
        PROVE  \E j \in 1 .. Len(todo') : todo'[j] = f
    <3>1. k - 1 \in 1 .. Len(todo') /\ todo'[k - 1] = todo[k]
      BY <1>1, <1>2
    <3> QED
      BY <3>1, <2>3
  <2>4. Written(f) \/ \E k \in 1 .. Len(todo) : todo[k] = f
    <3>1. \A k \in 1 .. Len(argv) : FALSE
      BY <1>2
    <3> QED
      BY <3>1, <1>4 DEF OnItsWay
  <2>5. \A k \in 1 .. Len(todo) : k = 1 \/ k \in 2 .. Len(todo)
    BY <1>2
  <2> QED
    BY <2>1, <2>2, <2>3, <2>4, <2>5
<1>5. ASSUME NEW n \in 1 .. Len(cmd), cmd[n].opt = "f",
             NEW m \in 1 .. Len(cmd[n].list)
      PROVE  OnItsWay(cmd[n], cmd[n].list[m])'
  <2>1. OnItsWay(cmd[n], cmd[n].list[m])
    BY <1>1, <1>5 DEF NoneForgotten
  <2> QED
    BY <2>1, <1>1, <1>4 DEF OnItsWay
<1> QED
  BY <1>1, <1>2, <1>5 DEF NoneForgotten

(* Each write keeps what was written; the third finishes the rule in hand. *)
LEMMA MmioWriteKeeps ==
  ASSUME RulesTypeOK, NoneForgotten, MmioWrite
  PROVE  NoneForgotten'
<1>1. PICK w \in 1 .. 3 :
        /\ Wrote(w)
        /\ UNCHANGED <<argv, cmd, todo, runs>>
        /\ pc \in {"ip", "port", "action"}
        /\ pc' = CASE w = 1 -> "port" [] w = 2 -> "action" [] w = 3 -> "next"
  BY DEF MmioWrite, WriteIpReg, WritePortReg, WriteActionReg, args
<1>2. ASSUME NEW f, Written(f) PROVE Written(f)'
  <2>1. PICK h \in 1 .. Len(hist) :
          /\ RuleOf(h, f)
          /\ hist[h].wrote = 3 \/ h = Len(hist)
    BY <1>2 DEF Written
  <2>2. /\ Len(hist') = Len(hist) /\ Len(hist) \in Nat
        /\ hist'[h].ip = hist[h].ip
        /\ hist'[h].port = hist[h].port
        /\ hist'[h].run = hist[h].run
        /\ hist'[h].wrote = IF h = Len(hist) THEN w ELSE hist[h].wrote
    BY <1>1, HistWrote
  <2>3. RuleOf(h, f)'
    BY <1>1, <2>1, <2>2 DEF RuleOf, to_port, htons
  <2>4. \/ hist'[h].wrote = 3
        \/ h = Len(hist') /\ pc' \in {"ip", "port", "action"}
    BY <1>1, <2>1, <2>2
  <2> QED
    BY <2>2, <2>3, <2>4 DEF Written
<1>3. ASSUME NEW n \in 1 .. Len(cmd), cmd[n].opt = "f",
             NEW m \in 1 .. Len(cmd[n].list)
      PROVE  OnItsWay(cmd[n], cmd[n].list[m])'
  <2>1. OnItsWay(cmd[n], cmd[n].list[m])
    BY <1>1, <1>3 DEF NoneForgotten
  <2> QED
    BY <2>1, <1>1, <1>2 DEF OnItsWay
<1> QED
  BY <1>1, <1>3 DEF NoneForgotten

LEMMA NoneForgottenStep ==
  ASSUME RulesTypeOK, NoneForgotten, [RulesNext]_rvars
  PROVE  NoneForgotten'
<1>1. CASE Start
  <2>1. pc' = "args" /\ argv' = cmd'
    BY <1>1 DEF Start
  <2> QED
    BY <2>1 DEF NoneForgotten, OnItsWay
<1>2. CASE ParseOption
  BY <1>2, ParseOptionKeeps
<1>3. CASE ArgsRefused \/ ParseInvalid \/ ProcessEnds
  BY <1>3 DEF ArgsRefused, ParseInvalid, ProcessEnds, NoneForgotten
<1>4. CASE ParseValid
  BY <1>4, ParseValidKeeps
<1>7. CASE MmioWrite
  BY <1>7, MmioWriteKeeps
<1>5. CASE ArgsParsed \/ Constructed
  <2>1. /\ UNCHANGED <<argv, cmd, todo, hist, runs>>
        /\ pc \in {"args", "next"} /\ pc' # "off"
        /\ pc' = "running" => todo = <<>>
        /\ argv = <<>>
    BY <1>5 DEF ArgsParsed, Constructed, args, NoneForgotten
  <2> QED
    BY SMTT(30), <2>1 DEF NoneForgotten, OnItsWay, Written, RuleOf
<1>6. CASE UNCHANGED sw
  BY <1>6 DEF sw, args, NoneForgotten, OnItsWay, Written, RuleOf
<1> QED
  BY <1>1, <1>2, <1>3, <1>4, <1>5, <1>6, <1>7
     DEF RulesNext, Software, ParseArgs, Parse, Hardware, rvars

(* A server that serves has written every filter of its command line, for  *)
(* every number and order of the options and every length of the lists.    *)
THEOREM EveryFilterWrittenCorrect == RulesSpec => []EveryFilterWritten
<1>1. RulesInit => NoneForgotten
  BY DEF RulesInit, NoneForgotten
<1>2. NoneForgotten => EveryFilterWritten
  <2> SUFFICES ASSUME NoneForgotten, pc = "running",
                      NEW n \in 1 .. Len(cmd), cmd[n].opt = "f",
                      NEW m \in 1 .. Len(cmd[n].list)
               PROVE  \E h \in 1 .. Len(hist) :
                        RuleOf(h, cmd[n].list[m]) /\ hist[h].wrote = 3
    BY DEF EveryFilterWritten
  <2>1. argv = <<>> /\ todo = <<>> /\ OnItsWay(cmd[n], cmd[n].list[m])
    BY DEF NoneForgotten
  <2> QED
    BY <2>1 DEF OnItsWay, Written
<1> QED
  BY <1>1, <1>2, RulesTypeCorrect, NoneForgottenStep, PTL DEF RulesSpec
-----------------------------------------------------------------------------
\* Filter m of option n of the command line comes before filter m2 of n2.
Before(n, m, n2, m2) == n < n2 \/ (n = n2 /\ m < m2)

\* The options getopt has returned are the first ones of the command line.
Seen == Len(cmd) - Len(argv)

(* The k-th filter still to visit is filter m of option n, and all of the  *)
(* command line that comes before it is in front of it in todo, or passed. *)
Passed(k, n, m) ==
  \/ Sound(cmd[n].list[m])
  \/ \E k2 \in 1 .. k - 1 : todo[k2] = cmd[n].list[m]

Stands(k, n, m) ==
  /\ todo[k] = cmd[n].list[m]
  /\ \A n2 \in 1 .. Seen : cmd[n2].opt = "f" =>
       \A m2 \in 1 .. Len(cmd[n2].list) :
         Before(n2, m2, n, m) => Passed(k, n2, m2)

InOrder ==
  \A k \in 1 .. Len(todo) :
    \E n \in 1 .. Seen : cmd[n].opt = "f" /\ \E m \in 1 .. Len(cmd[n].list) :
      Stands(k, n, m)

ArgvIsRest ==
  /\ Len(argv) <= Len(cmd)
  /\ \A k \in 1 .. Len(argv) : argv[k] = cmd[Seen + k]

AllSeenInTodo ==
  \A n \in 1 .. Seen : cmd[n].opt = "f" =>
    \A m \in 1 .. Len(cmd[n].list) :
      \E k \in 1 .. Len(todo) : todo[k] = cmd[n].list[m]

(* The strengthening of NothingPastInvalid.                                *)
VisitInOrder ==
  /\ \A h \in 1 .. Len(hist) : hist[h].run <= runs
  /\ pc = "args" => AllSeenInTodo /\ \A h \in 1 .. Len(hist) : hist[h].run # runs
  /\ pc # "off" => ArgvIsRest /\ InOrder
  /\ NothingPastInvalid

(* A filter that update_rule accepts is sound.                             *)
LEMMA ValidIsSound ==
  ASSUME NEW f \in Filter, Valid(f)
  PROVE  Sound(f)
<1>1. f.number \in Int
  BY RulesAssumption DEF Valid, Filter
<1>2. ASSUME f.number % (ByteMod * ByteMod) = 0 PROVE FALSE
  <2>1. to_port(f.number) = htons(0)
    BY <1>2 DEF to_port
  <2>2. 0 % ByteMod = 0 /\ 0 \div ByteMod = 0 /\ 0 * ByteMod = 0
    BY RulesAssumption
  <2>3. htons(0) = 0
    BY <2>2 DEF htons
  <2> QED
    BY <2>1, <2>3 DEF Valid
<1> QED
  BY <1>2 DEF Valid, Sound

(* What depends only on the command line stays with it.                    *)
LEMMA CmdFrame ==
  ASSUME UNCHANGED cmd, NEW n, NEW m
  PROVE  /\ Sound(cmd[n].list[m])' <=> Sound(cmd[n].list[m])
         /\ SoundUpTo(n, m)' <=> SoundUpTo(n, m)
BY DEF SoundUpTo, Sound

LEMMA OrderFrame ==
  ASSUME UNCHANGED <<argv, cmd, todo>>
  PROVE  /\ ArgvIsRest => ArgvIsRest'
         /\ InOrder => InOrder'
         /\ AllSeenInTodo => AllSeenInTodo'
<1>1. Seen' = Seen
  BY DEF Seen
<1>2. \A k, n, m : Stands(k, n, m) => Stands(k, n, m)'
  BY <1>1, CmdFrame DEF Stands, Passed, Before
<1> QED
  BY <1>1, <1>2 DEF ArgvIsRest, InOrder, AllSeenInTodo

LEMMA PastFrame ==
  ASSUME UNCHANGED <<cmd, runs>>, NothingPastInvalid, pc # "off",
         NEW h \in 1 .. Len(hist), hist[h].run = runs,
         hist'[h].ip = hist[h].ip, hist'[h].port = hist[h].port, hist'[h].run = hist[h].run
  PROVE  \E n \in 1 .. Len(cmd') : /\ cmd'[n].opt = "f"
                                   /\ \E m \in 1 .. Len(cmd'[n].list) :
                                        /\ RuleOf(h, cmd[n].list[m])'
                                        /\ SoundUpTo(n, m)'
<1>1. PICK n \in 1 .. Len(cmd) :
        cmd[n].opt = "f" /\ \E m \in 1 .. Len(cmd[n].list) :
                              RuleOf(h, cmd[n].list[m]) /\ SoundUpTo(n, m)
  BY DEF NothingPastInvalid
<1>2. PICK m \in 1 .. Len(cmd[n].list) : RuleOf(h, cmd[n].list[m]) /\ SoundUpTo(n, m)
  BY <1>1
<1>3. SoundUpTo(n, m)'
  BY <1>2, CmdFrame
<1>4. RuleOf(h, cmd[n].list[m])'
  BY <1>2 DEF RuleOf, to_port, htons
<1> QED
  BY <1>1, <1>3, <1>4

(* What the concatenation of two sequences holds, and where.               *)
LEMMA Concatenated ==
  ASSUME NEW S, NEW a \in Seq(S), NEW b \in Seq(S)
  PROVE  /\ Len(a \o b) = Len(a) + Len(b)
         /\ \A k \in 1 .. Len(a) : (a \o b)[k] = a[k]
         /\ \A m \in 1 .. Len(b) : (a \o b)[Len(a) + m] = b[m]
OBVIOUS

LEMMA OptionInOrder ==
  ASSUME RulesTypeOK, VisitInOrder, ParseOption
  PROVE  VisitInOrder'
<1> DEFINE o == argv[1]
           L == Len(todo)
<1>1. /\ pc = "args" /\ pc' = "args" /\ argv # <<>> /\ argv' = Tail(argv)
      /\ UNCHANGED <<cmd, hist, runs>>
      /\ todo' = IF o.opt = "f" THEN todo \o o.list ELSE todo
  BY DEF ParseOption
<1>2. /\ argv \in Seq(Option) /\ cmd \in Seq(Option) /\ todo \in Seq(Filter)
      /\ o \in Option /\ Len(argv) \in Nat /\ Len(argv) > 0
      /\ Len(cmd) \in Nat /\ L \in Nat
  BY <1>1 DEF RulesTypeOK
<1>3. o.list \in Seq(Filter) /\ Len(o.list) \in Nat
  BY <1>2 DEF Option
<1>4. /\ ArgvIsRest /\ InOrder /\ AllSeenInTodo
      /\ Seen \in Nat /\ Seen' = Seen + 1 /\ Len(argv') = Len(argv) - 1
      /\ \A k \in 1 .. Len(argv') : k + 1 \in 1 .. Len(argv) /\ argv'[k] = argv[k + 1]
  <2>1. ArgvIsRest /\ InOrder /\ AllSeenInTodo
    BY <1>1 DEF VisitInOrder
  <2>2. /\ Len(argv') = Len(argv) - 1
        /\ \A k \in 1 .. Len(argv') : argv'[k] = argv[k + 1]
    BY <1>1, <1>2
  <2> QED
    BY <1>1, <1>2, <2>1, <2>2 DEF ArgvIsRest, Seen
<1>5. o = cmd[Seen + 1]
  BY <1>2, <1>4 DEF ArgvIsRest
<1>6. ArgvIsRest'
  <2>1. Len(argv') <= Len(cmd')
    BY <1>1, <1>2, <1>4 DEF ArgvIsRest
  <2>2. ASSUME NEW k \in 1 .. Len(argv') PROVE argv'[k] = cmd'[Seen' + k]
    <3>1. argv'[k] = cmd[Seen + (k + 1)] /\ Seen + (k + 1) = Seen' + k
      BY <1>4, <2>2 DEF ArgvIsRest
    <3> QED
      BY <1>1, <3>1
  <2> QED
    BY <2>1, <2>2 DEF ArgvIsRest
<1>7. CASE o.opt # "f"
  <2>1. todo' = todo /\ \A n \in 1 .. Seen' : cmd[n].opt = "f" => n \in 1 .. Seen
    BY <1>1, <1>4, <1>5, <1>7
  <2>2. 1 .. Seen \subseteq 1 .. Seen'
    BY <1>4
  <2>3. AllSeenInTodo'
    <3> SUFFICES ASSUME NEW n \in 1 .. Seen', cmd[n].opt = "f",
                        NEW m \in 1 .. Len(cmd[n].list)
                 PROVE  \E k \in 1 .. Len(todo) : todo[k] = cmd[n].list[m]
      BY <1>1, <2>1 DEF AllSeenInTodo
    <3> QED
      BY <1>4, <2>1 DEF AllSeenInTodo
  <2>4. InOrder'
    <3> SUFFICES ASSUME NEW k \in 1 .. Len(todo)
                 PROVE  \E n \in 1 .. Seen' : cmd[n].opt = "f" /\ \E m \in 1 .. Len(cmd[n].list) :
                          Stands(k, n, m)'
      BY <1>1, <2>1 DEF InOrder
    <3>1. PICK n \in 1 .. Seen :
            cmd[n].opt = "f" /\ \E m \in 1 .. Len(cmd[n].list) : Stands(k, n, m)
      BY <1>4 DEF InOrder
    <3>2. PICK m \in 1 .. Len(cmd[n].list) : Stands(k, n, m)
      BY <3>1
    <3>3. ASSUME NEW n2 \in 1 .. Seen', cmd[n2].opt = "f",
                 NEW m2 \in 1 .. Len(cmd[n2].list), Before(n2, m2, n, m)
          PROVE  Passed(k, n2, m2)'
      <4>1. Passed(k, n2, m2)
        BY <2>1, <3>2, <3>3 DEF Stands
      <4>2. UNCHANGED <<cmd, todo>>
        BY <1>1, <2>1
      <4>3. Sound(cmd[n2].list[m2])' <=> Sound(cmd[n2].list[m2])
        BY <4>2, CmdFrame
      <4> QED
        BY <4>1, <4>2, <4>3 DEF Passed
    <3>4. todo'[k] = cmd'[n].list[m]
      BY <1>1, <2>1, <3>2 DEF Stands
    <3>5. Stands(k, n, m)'
      BY <1>1, <3>3, <3>4 DEF Stands, Before
    <3> QED
      BY <2>2, <3>1, <3>5
  <2> QED
    BY <1>1, <1>6, <2>3, <2>4 DEF VisitInOrder, NothingPastInvalid, RuleOf
<1>8. CASE o.opt = "f"
  <2>1. /\ todo' = todo \o o.list
        /\ Len(todo') = L + Len(o.list)
        /\ \A k \in 1 .. L : k \in 1 .. Len(todo') /\ todo'[k] = todo[k]
        /\ \A m \in 1 .. Len(o.list) :
             L + m \in 1 .. Len(todo') /\ todo'[L + m] = o.list[m]
    <3>1. todo' = todo \o o.list /\ L \in Nat /\ Len(o.list) \in Nat
      BY <1>1, <1>2, <1>3, <1>8
    <3>2. /\ Len(todo \o o.list) = L + Len(o.list)
          /\ \A k \in 1 .. L : (todo \o o.list)[k] = todo[k]
          /\ \A m \in 1 .. Len(o.list) : (todo \o o.list)[L + m] = o.list[m]
      BY <1>2, <1>3, Concatenated
    <3> QED
      BY SMTT(30), <3>1, <3>2
  <2>2. Seen + 1 \in 1 .. Seen' /\ \A n \in 1 .. Seen' : n \in 1 .. Seen \/ n = Seen + 1
    BY <1>4
  <2>3. AllSeenInTodo'
    <3> SUFFICES ASSUME NEW n \in 1 .. Seen', cmd[n].opt = "f",
                        NEW m \in 1 .. Len(cmd[n].list)
                 PROVE  \E k \in 1 .. Len(todo') : todo'[k] = cmd[n].list[m]
      BY <1>1 DEF AllSeenInTodo
    <3>1. CASE n \in 1 .. Seen
      <4>1. PICK k \in 1 .. L : todo[k] = cmd[n].list[m]
        BY <1>4, <3>1 DEF AllSeenInTodo
      <4> QED
        BY <2>1, <4>1
    <3>2. CASE n = Seen + 1
      BY <1>5, <2>1, <3>2
    <3> QED
      BY <2>2, <3>1, <3>2
  <2>4. InOrder'
    <3> SUFFICES ASSUME NEW k \in 1 .. Len(todo')
                 PROVE  \E n \in 1 .. Seen' : cmd[n].opt = "f" /\ \E m \in 1 .. Len(cmd[n].list) :
                          Stands(k, n, m)'
      BY <1>1 DEF InOrder
    <3>1. CASE k \in 1 .. L
      <4>1. PICK n \in 1 .. Seen :
              cmd[n].opt = "f" /\ \E m \in 1 .. Len(cmd[n].list) : Stands(k, n, m)
        BY <1>4, <3>1 DEF InOrder
      <4>2. PICK m \in 1 .. Len(cmd[n].list) : Stands(k, n, m)
        BY <4>1
      <4>3. n \in 1 .. Seen' /\ todo'[k] = cmd[n].list[m]
        BY <1>4, <2>1, <3>1, <4>2 DEF Stands
      <4>4. ASSUME NEW n2 \in 1 .. Seen', cmd[n2].opt = "f",
                   NEW m2 \in 1 .. Len(cmd[n2].list), Before(n2, m2, n, m)
            PROVE  Passed(k, n2, m2)'
        <5>1. n2 \in 1 .. Seen
          BY <1>4, <4>4 DEF Before
        <5>2. Passed(k, n2, m2)
          BY <4>2, <4>4, <5>1 DEF Stands
        <5>3. \A k2 \in 1 .. k - 1 : todo'[k2] = todo[k2]
          BY <1>2, <2>1, <3>1
        <5> QED
          BY <1>1, <5>2, <5>3 DEF Passed, Sound
      <4>5. Stands(k, n, m)'
        BY <1>1, <4>3, <4>4 DEF Stands, Before
      <4> QED
        BY <4>1, <4>3, <4>5
    <3>2. CASE k \notin 1 .. L
      <4>0. PICK n \in 1 .. Seen' : n = Seen + 1
        BY <2>2
      <4>1. PICK m \in 1 .. Len(cmd[n].list) : L + m = k /\ todo'[k] = cmd[n].list[m]
        <5>1. k - L \in 1 .. Len(o.list) /\ L + (k - L) = k
          BY <1>2, <1>3, <2>1, <3>2
        <5> QED
          BY SMTT(30), <1>5, <2>1, <4>0, <5>1
      <4>2. ASSUME NEW n2 \in 1 .. Seen', cmd[n2].opt = "f",
                   NEW m2 \in 1 .. Len(cmd[n2].list), Before(n2, m2, n, m)
            PROVE  Passed(k, n2, m2)'
        <5>1. CASE n2 \in 1 .. Seen
          <6>1. PICK k2 \in 1 .. L : todo[k2] = cmd[n2].list[m2]
            BY <1>4, <4>2, <5>1 DEF AllSeenInTodo
          <6>2. k2 \in 1 .. k - 1 /\ todo'[k2] = todo[k2]
            BY <1>2, <2>1, <3>2
          <6> QED
            BY <1>1, <6>1, <6>2 DEF Passed
        <5>2. CASE n2 = n
          <6>1. m2 < m /\ m2 \in 1 .. Len(o.list)
            BY <1>4, <1>5, <4>0, <4>2, <5>2 DEF Before
          <6>2. L + m2 \in 1 .. k - 1 /\ todo'[L + m2] = cmd[n2].list[m2]
            <7>1. L + m2 \in 1 .. k - 1
              BY SMTT(30), <1>2, <1>3, <4>1, <6>1
            <7>2. todo'[L + m2] = o.list[m2] /\ cmd[n2].list = o.list
              BY <1>5, <2>1, <4>0, <5>2, <6>1
            <7> QED
              BY <7>1, <7>2
          <6> QED
            BY <1>1, <6>2 DEF Passed
        <5> QED
          BY <2>2, <4>0, <5>1, <5>2
      <4>3. Stands(k, n, m)'
        BY <1>1, <4>1, <4>2 DEF Stands, Before
      <4> QED
        BY <1>5, <1>8, <4>0, <4>1, <4>3
    <3> QED
      BY <3>1, <3>2
  <2> QED
    BY <1>1, <1>6, <2>3, <2>4 DEF VisitInOrder, NothingPastInvalid, RuleOf
<1> QED
  BY <1>7, <1>8

LEMMA ValidInOrder ==
  ASSUME RulesTypeOK, VisitInOrder, ParseValid
  PROVE  VisitInOrder'
<1>1. /\ pc = "next" /\ pc' = "ip" /\ todo # <<>> /\ todo' = Tail(todo)
      /\ UNCHANGED <<argv, cmd, runs>>
      /\ Valid(todo[1])
  BY DEF ParseValid, args
<1>2. /\ Len(argv) \in Nat /\ Len(cmd) \in Nat /\ runs \in Nat /\ todo \in Seq(Filter)
      /\ todo[1] \in Filter
      /\ Len(todo) \in Nat /\ Len(todo) > 0 /\ Len(todo') = Len(todo) - 1
      /\ \A k \in 1 .. Len(todo') : k + 1 \in 1 .. Len(todo) /\ todo'[k] = todo[k + 1]
  BY <1>1 DEF RulesTypeOK
<1>3. ArgvIsRest /\ InOrder /\ NothingPastInvalid /\ Seen \in 0 .. Len(cmd) /\ Seen' = Seen
  BY <1>1, <1>2 DEF VisitInOrder, ArgvIsRest, Seen
<1>4. Sound(todo[1])
  BY <1>1, <1>2, ValidIsSound
<1>5. /\ Len(hist) \in Nat /\ Len(hist') = Len(hist) + 1
      /\ \A h \in 1 .. Len(hist) : hist'[h] = hist[h]
      /\ hist'[Len(hist) + 1].ip = todo[1].ip
      /\ hist'[Len(hist) + 1].port = to_port(todo[1].number)
      /\ hist'[Len(hist) + 1].run = runs
  BY <1>1, <1>2, HistGrows
<1>6. \A h \in 1 .. Len(hist') : h \in 1 .. Len(hist) \/ h = Len(hist) + 1
  BY <1>5
<1>7. \A h \in 1 .. Len(hist') : hist'[h].run <= runs'
  BY <1>1, <1>2, <1>5, <1>6 DEF VisitInOrder
<1>8. InOrder'
  <2> SUFFICES ASSUME NEW k \in 1 .. Len(todo')
               PROVE  \E n \in 1 .. Seen : cmd[n].opt = "f" /\ \E m \in 1 .. Len(cmd[n].list) :
                        Stands(k, n, m)'
    BY <1>1, <1>3 DEF InOrder
  <2>1. k + 1 \in 1 .. Len(todo) /\ todo'[k] = todo[k + 1]
    BY <1>2
  <2>2. PICK n \in 1 .. Seen :
          cmd[n].opt = "f" /\ \E m \in 1 .. Len(cmd[n].list) : Stands(k + 1, n, m)
    BY <1>3, <2>1 DEF InOrder
  <2>3. PICK m \in 1 .. Len(cmd[n].list) : Stands(k + 1, n, m)
    BY <2>2
  <2>4. ASSUME NEW n2, NEW m2, Passed(k + 1, n2, m2)
        PROVE  Passed(k, n2, m2)'
    <3>1. CASE Sound(cmd[n2].list[m2])
      BY <1>1, <3>1 DEF Passed, Sound
    <3>2. ASSUME NEW k2 \in 1 .. (k + 1) - 1, todo[k2] = cmd[n2].list[m2]
          PROVE  Passed(k, n2, m2)'
      <4>1. CASE k2 = 1
        BY <1>1, <1>4, <3>2, <4>1 DEF Passed, Sound
      <4>2. CASE k2 # 1
        <5>1. k2 - 1 \in 1 .. k - 1 /\ k2 - 1 \in 1 .. Len(todo') /\ (k2 - 1) + 1 = k2
          BY SMTT(30), <1>2, <3>2, <4>2
        <5>2. todo'[k2 - 1] = cmd[n2].list[m2]
          BY <1>2, <3>2, <5>1
        <5> QED
          BY <1>1, <5>1, <5>2 DEF Passed
      <4> QED
        BY <4>1, <4>2
    <3> QED
      BY <2>4, <3>1, <3>2 DEF Passed
  <2>5. Stands(k, n, m)'
    BY <1>1, <1>3, <2>1, <2>3, <2>4 DEF Stands, Before
  <2> QED
    BY <2>2, <2>5
<1>9. NothingPastInvalid'
  <2> SUFFICES ASSUME NEW h \in 1 .. Len(hist'), hist'[h].run = runs
               PROVE  \E n \in 1 .. Len(cmd') : /\ cmd'[n].opt = "f"
                                                /\ \E m \in 1 .. Len(cmd'[n].list) :
                                                     /\ RuleOf(h, cmd[n].list[m])'
                                                     /\ SoundUpTo(n, m)'
    BY <1>1 DEF NothingPastInvalid, RuleOf
  <2>1. CASE h \in 1 .. Len(hist)
    BY <1>1, <1>3, <1>5, <2>1, PastFrame
  <2>2. CASE h = Len(hist) + 1
    <3>0. PICK n \in 1 .. Seen :
            cmd[n].opt = "f" /\ \E m \in 1 .. Len(cmd[n].list) : Stands(1, n, m)
      <4>1. 1 \in 1 .. Len(todo)
        BY <1>2
      <4> QED
        BY <1>3, <4>1 DEF InOrder
    <3>1. PICK m \in 1 .. Len(cmd[n].list) : Stands(1, n, m)
      BY <3>0
    <3>2. n \in 1 .. Len(cmd) /\ \A n2 \in 1 .. n : n2 \in 1 .. Seen
      BY <1>3
    <3>3. RuleOf(h, cmd[n].list[m])'
      BY <1>1, <1>5, <2>2, <3>1 DEF Stands, RuleOf, to_port, htons
    <3>4. ASSUME NEW n2 \in 1 .. n, cmd[n2].opt = "f",
                 NEW m2 \in 1 .. Len(cmd[n2].list), n2 < n \/ m2 <= m
          PROVE  Sound(cmd[n2].list[m2])
      <4>1. CASE Before(n2, m2, n, m)
        BY <3>1, <3>2, <3>4, <4>1 DEF Stands, Passed
      <4>2. CASE ~Before(n2, m2, n, m)
        <5>1. n2 = n /\ m2 = m
          BY <1>3, <3>4, <4>2 DEF Before
        <5> QED
          BY <1>4, <3>1, <5>1 DEF Stands
      <4> QED
        BY <4>1, <4>2
    <3>5. SoundUpTo(n, m)'
      BY <1>1, <3>4, CmdFrame DEF SoundUpTo
    <3> QED
      BY <1>1, <3>0, <3>2, <3>3, <3>5
  <2> QED
    BY <1>6, <2>1, <2>2
<1>10. ArgvIsRest'
  BY <1>1, <1>3 DEF ArgvIsRest
<1> QED
  BY <1>1, <1>7, <1>8, <1>9, <1>10 DEF VisitInOrder

LEMMA VisitInOrderStep ==
  ASSUME RulesTypeOK, RulesTypeOK', VisitInOrder, [RulesNext]_rvars
  PROVE  VisitInOrder'
<1>1. CASE Start
  <2>1. /\ pc' = "args" /\ argv' = cmd' /\ todo' = <<>> /\ runs' = runs + 1
        /\ hist' = hist /\ runs \in Nat /\ Len(cmd') \in Nat
    BY <1>1 DEF Start, RulesTypeOK
  <2>2. \A h \in 1 .. Len(hist) : hist[h].run <= runs /\ hist[h].run \in Nat
    <3>1. \A h \in 1 .. Len(hist) : hist[h].run \in Nat
      BY HistType DEF Entry
    <3> QED
      BY <3>1 DEF VisitInOrder
  <2>3. Seen' = 0
    BY <2>1 DEF Seen
  <2>4. \A h \in 1 .. Len(hist') : hist'[h].run <= runs' /\ hist'[h].run # runs'
    BY <2>1, <2>2
  <2>5. ArgvIsRest' /\ InOrder' /\ AllSeenInTodo'
    BY <2>1, <2>3 DEF ArgvIsRest, InOrder, AllSeenInTodo
  <2> QED
    BY <2>1, <2>4, <2>5 DEF VisitInOrder, NothingPastInvalid
<1>2. CASE ParseOption
  BY <1>2, OptionInOrder
<1>3. CASE ArgsRefused \/ ParseInvalid \/ ProcessEnds
  <2>1. pc' = "off" /\ UNCHANGED <<hist, runs>>
    BY <1>3 DEF ArgsRefused, ParseInvalid, ProcessEnds
  <2> QED
    BY <2>1 DEF VisitInOrder, NothingPastInvalid
<1>4. CASE ParseValid
  BY <1>4, ValidInOrder
<1>5. CASE MmioWrite
  <2>1. PICK w \in 1 .. 3 :
          /\ Wrote(w)
          /\ UNCHANGED <<argv, cmd, todo, runs>>
          /\ pc \notin {"off", "args"} /\ pc' \notin {"off", "args"}
    BY <1>5 DEF MmioWrite, WriteIpReg, WritePortReg, WriteActionReg, args
  <2>2. /\ Len(hist') = Len(hist)
        /\ \A h \in 1 .. Len(hist) : /\ hist'[h].ip = hist[h].ip
                                     /\ hist'[h].port = hist[h].port
                                     /\ hist'[h].run = hist[h].run
    BY <2>1, HistWrote
  <2>3. NothingPastInvalid'
    BY SMTT(30), <2>1, <2>2, PastFrame
       DEF VisitInOrder, NothingPastInvalid, RuleOf
  <2>4. ArgvIsRest' /\ InOrder'
    BY <2>1, OrderFrame DEF VisitInOrder
  <2> QED
    BY <2>1, <2>2, <2>3, <2>4 DEF VisitInOrder
<1>6. CASE ArgsParsed \/ Constructed \/ UNCHANGED sw
  <2>1. /\ UNCHANGED <<argv, cmd, todo, runs, hist>>
        /\ pc' = "off" => pc = "off"
        /\ pc' = "args" => pc = "args"
        /\ pc' # "off" => pc # "off"
    BY <1>6 DEF ArgsParsed, Constructed, args, sw
  <2>2. NothingPastInvalid'
    BY <2>1, PastFrame DEF VisitInOrder, NothingPastInvalid, RuleOf
  <2>3. pc' # "off" => ArgvIsRest' /\ InOrder'
    BY <2>1, OrderFrame DEF VisitInOrder
  <2>4. pc' = "args" => AllSeenInTodo'
    BY <2>1, OrderFrame DEF VisitInOrder
  <2> QED
    BY <2>1, <2>2, <2>3, <2>4 DEF VisitInOrder
<1> QED
  BY <1>1, <1>2, <1>3, <1>4, <1>5, <1>6
     DEF RulesNext, Software, ParseArgs, Parse, Hardware, rvars

(* A malformed filter ends the run where it stands: for every command line *)
(* a run writes only filters of its own that no malformed one precedes.    *)
THEOREM NothingPastInvalidCorrect == RulesSpec => []NothingPastInvalid
<1>1. RulesInit => VisitInOrder
  BY DEF RulesInit, VisitInOrder, NothingPastInvalid
<1>2. VisitInOrder => NothingPastInvalid
  BY DEF VisitInOrder
<1> QED
  BY <1>1, <1>2, RulesTypeCorrect, VisitInOrderStep, PTL DEF RulesSpec
-----------------------------------------------------------------------------
(* The phits of IPv4/UDP packets whose address hashes to a slot that the   *)
(* rules written explain.                                                  *)
ExplainedPhits ==
  {phit \in Phit :
     /\ is_ipv4(phit.pkt) /\ is_udp(phit.pkt)
     /\ Explained(Slot(phit.pkt.dest_ip, phit.pkt.dest_port))}

(* Nothing else waits for the host.                                        *)
ForwardedExplained ==
  \A k \in 1 .. Len(m_axis) : m_axis[k] \in ExplainedPhits

LEMMA ExplainedPhitsStay ==
  ASSUME RulesTypeOK, Progress, [RulesNext]_rvars
  PROVE  ExplainedPhits \subseteq ExplainedPhits'
<1> SUFFICES ASSUME NEW phit \in ExplainedPhits PROVE phit \in ExplainedPhits'
  OBVIOUS
<1> DEFINE s == Slot(phit.pkt.dest_ip, phit.pkt.dest_port)
<1>1. Explained(s)
  BY DEF ExplainedPhits
<1>2. Explained(s)'
  BY <1>1, ExplainedStays
<1> QED
  BY <1>2 DEF ExplainedPhits, is_ipv4, is_udp, Slot

LEMMA ForwardedExplainedStep ==
  ASSUME TypeOK, Framing, RulesTypeOK, Progress, Provenance, ForwardedExplained,
         [RulesNext]_rvars
  PROVE  ForwardedExplained'
<1>0. /\ m_axis \in Seq(Phit)
      /\ \A k \in 1 .. Len(m_axis) : m_axis[k] \in ExplainedPhits'
  BY ExplainedPhitsStay DEF TypeOK, ForwardedExplained
<1>2. CASE Hardware /\ ProcessPhit
  <2> DEFINE phit == Head(s_axis)
             hdr  == phit.pkt
  <2>1. phit \in Phit /\ deserialize(network, phit.data, phit_idx) = hdr
    <3>1. OwnHeader /\ s_axis \in Seq(Phit) /\ s_axis # <<>>
      BY <1>2, FramingOwnHeader DEF ProcessPhit, TypeOK
    <3> QED
      BY <3>1, TailType DEF OwnHeader
  <2>2. CASE table_action(hdr) = FORWARD
    <3>1. m_axis' = Append(m_axis, phit)
      BY <1>2, <2>1, <2>2 DEF ProcessPhit
    <3>2. /\ is_ipv4(hdr) /\ is_udp(hdr)
          /\ table[Slot(hdr.dest_ip, hdr.dest_port)] = FORWARD
      BY <2>2 DEF table_action, lookup, Slot, DROP, FORWARD
    <3>3. Slot(hdr.dest_ip, hdr.dest_port) \in Slots
      <4>1. hdr \in HeaderType
        BY <2>1, CoreAssumption DEF Phit
      <4> QED
        BY <4>1, CoreAssumption DEF HeaderType, Slot
    <3>4. phit \in ExplainedPhits'
      <4>1. phit \in ExplainedPhits
        BY <2>1, <3>2, <3>3 DEF Provenance, ExplainedPhits
      <4> QED
        BY <4>1, ExplainedPhitsStay
    <3>5. \A k \in 1 .. Len(m_axis') : m_axis'[k] \in ExplainedPhits'
      <4>1. /\ Len(m_axis') = Len(m_axis) + 1 /\ Len(m_axis) \in Nat
            /\ \A k \in 1 .. Len(m_axis) : m_axis'[k] = m_axis[k]
            /\ m_axis'[Len(m_axis) + 1] = phit
        BY <1>0, <2>1, <3>1, AppendType
      <4>2. \A k \in 1 .. Len(m_axis') : k \in 1 .. Len(m_axis) \/ k = Len(m_axis) + 1
        BY <4>1
      <4> HIDE DEF phit
      <4> QED
        BY <1>0, <3>4, <4>1, <4>2
    <3> QED
      BY <3>5 DEF ForwardedExplained
  <2>3. CASE table_action(hdr) # FORWARD
    <3>1. m_axis' = m_axis
      BY <1>2, <2>1, <2>3 DEF ProcessPhit
    <3> QED
      BY <1>0, <3>1 DEF ForwardedExplained
  <2> QED
    BY <2>2, <2>3
<1>3. CASE Hardware /\ Deliver
  <2>1. m_axis # <<>> /\ m_axis' = Tail(m_axis)
    BY <1>3 DEF Deliver
  <2>2. \A k \in 1 .. Len(m_axis') :
          k + 1 \in 1 .. Len(m_axis) /\ m_axis'[k] = m_axis[k + 1]
    BY <1>0, <2>1, TailType
  <2> QED
    BY <1>0, <2>2 DEF ForwardedExplained
<1>4. CASE m_axis' = m_axis
  BY <1>0, <1>4 DEF ForwardedExplained
<1> QED
  BY <1>2, <1>3, <1>4, WriteSteps
     DEF RulesNext, Software, Start, ParseArgs, ParseOption, ArgsRefused,
         ArgsParsed, Parse, ParseValid, ParseInvalid, MmioWrite, WriteIp, WritePort,
         WriteAction, Constructed, ProcessEnds, Hardware, process_packet, ProcessIdle,
         Traffic, Arrive, rvars, hw, vars, core, stream

(* End to end: from the command line to the stream of the host, whatever   *)
(* the traffic and the moments the core reads its registers at, no phit of *)
(* a packet is forwarded that no rule written explains.                    *)
THEOREM ForwardedExplainedCorrect == RulesSpec => []ForwardedExplained
<1>1. RulesInit => ForwardedExplained
  <2>1. RulesInit => m_axis = <<>>
    BY DEF RulesInit, Init
  <2> QED
    BY <2>1 DEF ForwardedExplained
<1>2. RulesSpec => []Framing
  BY RulesImplementCore, FramingCorrect, PTL
<1> QED
  BY <1>1, <1>2, ForwardedExplainedStep, RegistersInductive, ProvenanceCorrect, PTL
     DEF RulesSpec
-----------------------------------------------------------------------------
(* An idle call puts the registers in force as they were left by the rules *)
(* written, and in force it stays until the next write: what               *)
(* LastFilterTakesEffect leaves to fairness is that one idle call.         *)
LastFilterKept ==
  [][/\ ProcessIdle /\ UNCHANGED sw => LastInForce'
     /\ LastInForce /\ hist' = hist => LastInForce']_rvars

\* The rule that is the last one with n writes is unique.
LEMMA LatestUnique ==
  ASSUME RulesTypeOK, NEW n \in 1 .. 2, NEW i \in 1 .. Len(hist),
         NEW j \in 1 .. Len(hist), Latest(n, i), Latest(n, j)
  PROVE  i = j
<1>1. /\ Len(hist) \in Nat
      /\ \A k \in 1 .. Len(hist) : hist[k].wrote \in 0 .. 3
  BY HistType
<1>2. ASSUME NEW a \in 1 .. Len(hist), NEW b \in 1 .. Len(hist), a < b,
             Latest(n, a), Latest(n, b)
      PROVE  FALSE
  <2>1. b \in a + 1 .. Len(hist)
    BY <1>1, <1>2
  <2> QED
    BY <1>1, <1>2, <2>1 DEF Latest
<1> QED
  BY <1>1, <1>2

LEMMA HeldSlot ==
  ASSUME RulesTypeOK, NEW i \in 1 .. Len(hist), NEW j \in 1 .. Len(hist)
  PROVE  Index[<<hist[i].ip, hist[j].port>>] \in Slots
<1>1. hist[i] \in Entry /\ hist[j] \in Entry
  BY DEF RulesTypeOK
<1> QED
  BY <1>1, CoreAssumption DEF Entry

LEMMA LastFilterKeptStep ==
  ASSUME TypeOK, RulesTypeOK, Armed, RegistersHold, [RulesNext]_rvars
  PROVE  /\ ProcessIdle /\ UNCHANGED sw => LastInForce'
         /\ LastInForce /\ hist' = hist => LastInForce'
<1>1. ASSUME ProcessIdle, UNCHANGED sw PROVE LastInForce'
  <2> SUFFICES ASSUME NEW k \in 1 .. Len(hist), hist[k].wrote = 3,
                      NEW i \in 1 .. Len(hist), Latest(1, i),
                      NEW j \in 1 .. Len(hist), Latest(2, j)
               PROVE  table'[Index[<<hist[i].ip, hist[j].port>>]] = FORWARD
    BY <1>1 DEF LastInForce, Latest, lookup, sw
  <2>1. cfg.action = FORWARD
    BY DEF RegistersHold
  <2>2. cfg.ip = hist[i].ip
    <3>1. ~(\A m \in 1 .. Len(hist) : hist[m].wrote < 1)
      BY SMT
    <3>2. PICK m \in 1 .. Len(hist) : Latest(1, m) /\ cfg.ip = hist[m].ip
      BY <3>1 DEF RegistersHold
    <3> QED
      BY <3>2, LatestUnique
  <2>3. cfg.port = hist[j].port
    <3>1. ~(\A m \in 1 .. Len(hist) : hist[m].wrote < 2)
      BY SMT
    <3>2. PICK m \in 1 .. Len(hist) : Latest(2, m) /\ cfg.port = hist[m].port
      BY <3>1 DEF RegistersHold
    <3> QED
      BY <3>2, LatestUnique
  <2>4. table' = insert(table, cfg.ip, cfg.port, cfg.action)
    BY <1>1 DEF ProcessIdle
  <2> QED
    BY <2>1, <2>2, <2>3, <2>4, HeldSlot DEF insert, TypeOK
<1>2. ASSUME LastInForce, hist' = hist PROVE LastInForce'
  <2> SUFFICES ASSUME NEW k \in 1 .. Len(hist), hist[k].wrote = 3,
                      NEW i \in 1 .. Len(hist), Latest(1, i),
                      NEW j \in 1 .. Len(hist), Latest(2, j)
               PROVE  table'[Index[<<hist[i].ip, hist[j].port>>]] = FORWARD
    BY SMTT(30), <1>2 DEF LastInForce, Latest, lookup
  <2>1. table[Index[<<hist[i].ip, hist[j].port>>]] = FORWARD
    BY <1>2 DEF LastInForce, lookup
  <2> QED
    BY <2>1, HeldSlot, ArmedStep
<1> QED
  BY <1>1, <1>2

(* The safety half of LastFilterTakesEffect.                               *)
THEOREM LastFilterKeptCorrect == RulesSpec => LastFilterKept
<1>1. TypeOK /\ RulesTypeOK /\ Armed /\ RegistersHold /\ [RulesNext]_rvars
        => [/\ ProcessIdle /\ UNCHANGED sw => LastInForce'
            /\ LastInForce /\ hist' = hist => LastInForce']_rvars
  BY LastFilterKeptStep
<1>2. RulesInit => Armed
  BY ArmedInit
<1>3. TypeOK /\ Armed /\ [RulesNext]_rvars => Armed'
  BY ArmedStep
<1> QED
  BY <1>1, <1>2, <1>3, RegistersInductive, PTL DEF RulesSpec, LastFilterKept
-----------------------------------------------------------------------------
(* A number below M * M is its two digits.                                 *)
LEMMA Digits ==
  ASSUME NEW M \in Nat \ {0}, NEW x \in 0 .. M - 1, NEW y \in 0 .. M - 1
  PROVE  (x * M + y) \div M = x /\ (x * M + y) % M = y
<1> DEFINE n == x * M + y
           q == n \div M
           r == n % M
<1>1. n \in Nat /\ x * M \in Nat
  BY SMT
<1>2. q \in Nat /\ r \in 0 .. M - 1 /\ n = M * q + r
  BY <1>1
<1>3. ASSUME q < x PROVE FALSE
  <2>1. M * (q + 1) <= M * x
    BY <1>2, <1>3
  <2>2. M * (q + 1) = M * q + M
    BY <1>2
  <2>3. M * x = x * M /\ M * q \in Nat /\ M * x \in Nat
    BY <1>2
  <2> HIDE DEF q, r
  <2> QED
    BY <1>1, <1>2, <2>1, <2>2, <2>3
<1>4. ASSUME x < q PROVE FALSE
  <2>1. M * (x + 1) <= M * q
    BY <1>2, <1>4
  <2>2. M * (x + 1) = M * x + M
    BY <1>2
  <2>3. M * x = x * M /\ M * q \in Nat /\ M * x \in Nat
    BY <1>2
  <2> HIDE DEF q, r
  <2> QED
    BY <1>1, <1>2, <2>1, <2>2, <2>3
<1>5. q = x
  <2> HIDE DEF q, r
  <2> QED
    BY <1>2, <1>3, <1>4
<1>6. r = y
  <2>1. M * q = x * M
    BY <1>5
  <2> HIDE DEF q, r
  <2> QED
    BY <1>1, <1>2, <2>1
<1> QED
  BY <1>5, <1>6

(* htons is its own inverse.                                               *)
LEMMA HtonsInvolution ==
  ASSUME NEW p \in 0 .. ByteMod * ByteMod - 1
  PROVE  htons(htons(p)) = p
<1> DEFINE q == p \div ByteMod
           r == p % ByteMod
<1>1. ByteMod \in Nat \ {0} /\ p \in Nat /\ p < ByteMod * ByteMod
  BY RulesAssumption
<1>2. q \in Nat /\ r \in 0 .. ByteMod - 1 /\ p = ByteMod * q + r
  BY <1>1
<1>3. q \in 0 .. ByteMod - 1
  <2>1. ByteMod * q < ByteMod * ByteMod
    BY <1>1, <1>2
  <2>2. CASE q >= ByteMod
    <3>1. ByteMod * q >= ByteMod * ByteMod
      BY <2>2, <1>1, <1>2
    <3> QED
      BY <3>1, <2>1, <1>1, <1>2
  <2> QED
    BY <2>2, <1>1, <1>2
<1>4. htons(p) = r * ByteMod + q
  BY DEF htons
<1>5. (r * ByteMod + q) \div ByteMod = r /\ (r * ByteMod + q) % ByteMod = q
  <2> HIDE DEF q, r
  <2> QED
    BY <1>1, <1>2, <1>3, Digits
<1>6. q * ByteMod + r = p
  <2>1. q * ByteMod = ByteMod * q
    BY <1>1, <1>2
  <2> HIDE DEF q, r
  <2> QED
    BY <1>2, <2>1
<1> HIDE DEF q, r
<1>7. htons(r * ByteMod + q) = q * ByteMod + r
  BY <1>5 DEF htons
<1> QED
  BY <1>4, <1>6, <1>7

(* Two numbers of the command line program the same port exactly if they   *)
(* agree in their low 16 bits: 8500 and 74036 are one filter, and no other *)
(* two are (packet_filter.cc:40-41).                                       *)
THEOREM PortAliases ==
  ASSUME NEW a \in Int, NEW b \in Int
  PROVE  to_port(a) = to_port(b)
           <=> a % (ByteMod * ByteMod) = b % (ByteMod * ByteMod)
<1> DEFINE M == ByteMod * ByteMod
<1>1. M \in Nat \ {0}
  BY RulesAssumption
<1>2. a % M \in 0 .. M - 1 /\ b % M \in 0 .. M - 1
  <2> HIDE DEF M
  <2> QED
    BY <1>1
<1>3. htons(htons(a % M)) = a % M /\ htons(htons(b % M)) = b % M
  BY <1>2, HtonsInvolution
<1>4. to_port(a) = htons(a % M) /\ to_port(b) = htons(b % M)
  BY DEF to_port
<1> HIDE DEF M
<1>5. to_port(a) = to_port(b) <=> a % M = b % M
  BY <1>3, <1>4
<1> QED
  BY <1>5 DEF M
=============================================================================
