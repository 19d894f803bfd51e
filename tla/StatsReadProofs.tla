-------------------------- MODULE StatsReadProofs --------------------------
(***************************************************************************)
(* Proofs about StatsRead, for every width of the counters and of the MMIO *)
(* reads and any traffic: what the report of show_stats can show.          *)
(***************************************************************************)
EXTENDS StatsRead, PacketFilterCoreProofs, FiniteSetTheorems

(* No counter wraps, and each is the sum the others make it.               *)
Agree(st) ==
  /\ st["pkt_in"] = st["pkt_forward"] + st["pkt_drop"]
  /\ st["phit_in"] = st["pkt_in"]

CountInv ==
  /\ Agree(local_stats)
  /\ Agree(stats)
  /\ local_stats["pkt_in"] + Len(s_axis) <= MaxPackets
  /\ \A c \in Counters : stats[c] <= local_stats[c]

ReaderType ==
  /\ rd \in 0 .. Done
  /\ low \in 0 .. Half - 1
  /\ val \in [Counters -> Nat]
  /\ seen \in [Counters -> Nat]

(* The read of counter i has begun: the low half it took, or the value it  *)
(* made, fits what the counter was then.                                   *)
ReadInv ==
  \A i \in 1 .. Len(Regs) :
    /\ rd >= (2 * i) - 1 => seen[Regs[i]] <= stats[Regs[i]]
    /\ rd = (2 * i) - 1 => low = seen[Regs[i]] % Half
    /\ rd >= 2 * i =>
         IF Torn(Regs[i])
         THEN seen[Regs[i]] < val[Regs[i]] /\ val[Regs[i]] < stats[Regs[i]] + Half
         ELSE val[Regs[i]] = seen[Regs[i]]

(* What was counted in when pkt_in was read is accounted for by the        *)
(* outcomes read since, or still to be read.                               *)
OrderInv ==
  rd >= 1 =>
    seen["pkt_in"] <= (IF rd >= 5 THEN seen["pkt_forward"] ELSE stats["pkt_forward"])
                      + (IF rd >= 7 THEN seen["pkt_drop"] ELSE stats["pkt_drop"])

StatsInv ==
  /\ TypeOK
  /\ Framing
  /\ CountInv
  /\ ReaderType
  /\ ReadInv
  /\ OrderInv
-----------------------------------------------------------------------------
(* Division with remainder, which splits a counter into its halves.        *)
LEMMA HalfDivMod ==
  ASSUME NEW a \in Nat, NEW b \in Nat \ {0}
  PROVE  /\ a \div b \in Nat
         /\ a % b \in 0 .. b - 1
         /\ a = b * (a \div b) + (a % b)
  BY Z3

(* The high half of a number made of two halves is the high one.           *)
LEMMA HighOfPair ==
  ASSUME NEW b \in Nat \ {0}, NEW q \in Nat, NEW n \in 0 .. b - 1
  PROVE  (q * b + n) \div b = q
<1> DEFINE t == q * b + n
<1>1. /\ t \in Nat
      /\ t \div b \in Nat
      /\ t % b \in 0 .. b - 1
      /\ t = b * (t \div b) + (t % b)
  <2>1. q * b \in Nat
    OBVIOUS
  <2>2. t \in Nat
    BY <2>1
  <2> QED
    BY <2>2, HalfDivMod
<1>2. ~(t \div b > q)
  <2>1. SUFFICES ASSUME t \div b >= q + 1 PROVE FALSE
    BY <1>1
  <2>2. b * (t \div b) >= b * (q + 1)
    BY <1>1, <2>1
  <2> QED
    BY <1>1, <2>2
<1>3. ~(t \div b < q)
  <2>1. SUFFICES ASSUME t \div b + 1 <= q PROVE FALSE
    BY <1>1
  <2>2. b * (t \div b + 1) <= b * q
    BY <1>1, <2>1
  <2> QED
    BY <1>1, <2>2
<1> QED
  BY <1>1, <1>2, <1>3

\* A value made of the low half of a and the high half of a later b.
Stitched(a, b) == ((b \div Half) * Half) + (a % Half)

(* Such a value is a, or above a by a carry between the halves.            *)
LEMMA TornValue ==
  ASSUME NEW a \in Nat, NEW b \in Nat, a <= b
  PROVE  /\ Stitched(a, b) \in Nat
         /\ a \div Half = Stitched(a, b) \div Half => Stitched(a, b) = a
         /\ a \div Half # Stitched(a, b) \div Half
              => a < Stitched(a, b) /\ Stitched(a, b) < b + Half
<1> DEFINE h == Half
           v == Stitched(a, b)
<1>0. h \in Nat \ {0} /\ v = ((b \div h) * h) + (a % h)
  BY StatsAssumption DEF Stitched
<1> HIDE DEF h, v
<1>1. /\ a \div h \in Nat /\ a % h \in 0 .. h - 1
      /\ a = h * (a \div h) + (a % h)
  BY <1>0, HalfDivMod
<1>2. /\ b \div h \in Nat /\ b % h \in 0 .. h - 1
      /\ b = h * (b \div h) + (b % h)
  BY <1>0, HalfDivMod
<1>3. v \div h = b \div h
  BY <1>0, <1>1, <1>2, HighOfPair
<1>4. v \in Nat
  <2>1. (b \div h) * h \in Nat
    BY <1>0, <1>2
  <2> QED
    BY <1>0, <2>1, <1>1
<1>5. a \div h = v \div h => v = a
  <2> SUFFICES ASSUME a \div h = b \div h PROVE v = a
    BY <1>0, <1>3
  <2>1. (b \div h) * h = h * (a \div h)
    BY <1>0, <1>1
  <2> QED
    BY <1>0, <2>1, <1>1
<1>6. a \div h # v \div h => a < v /\ v < b + h
  <2> SUFFICES ASSUME a \div h # b \div h PROVE a < v /\ v < b + h
    BY <1>0, <1>3
  <2>1. ~(b \div h < a \div h)
    <3>1. SUFFICES ASSUME (b \div h) + 1 <= a \div h PROVE FALSE
      BY <1>0, <1>1, <1>2
    <3>2. h * ((b \div h) + 1) <= h * (a \div h)
      BY <1>0, <1>1, <1>2, <3>1
    <3> QED
      BY <1>0, <1>1, <1>2, <3>2
  <2>2. (a \div h) + 1 <= b \div h
    BY <1>0, <1>1, <1>2, <2>1
  <2>3. h * ((a \div h) + 1) <= h * (b \div h)
    BY <1>0, <1>1, <1>2, <2>2
  <2>4. (b \div h) * h = h * (b \div h)
    BY <1>0, <1>2
  <2> QED
    BY <1>0, <1>1, <1>2, <2>3, <2>4
<1> QED
  BY <1>3, <1>4, <1>5, <1>6 DEF h, v
-----------------------------------------------------------------------------
(* The last phit of a packet adds one to pkt_in, one to phit_in and one to *)
(* what became of the packet; below the bound nothing wraps.               *)
LEMMA CountOne ==
  ASSUME TypeOK, CountInv, NEW act, local_stats["pkt_in"] < MaxPackets,
         local_stats' = CountPacket(0, act)
  PROVE  /\ Agree(local_stats')
         /\ local_stats'["pkt_in"] = local_stats["pkt_in"] + 1
         /\ \A c \in Counters : local_stats[c] <= local_stats'[c]
<1> DEFINE f == local_stats["pkt_forward"]
           d == local_stats["pkt_drop"]
           n == local_stats["pkt_in"]
           one == IF act = FORWARD THEN 1 ELSE 0
           two == IF act = FORWARD THEN 0 ELSE 1
<1>1. /\ f \in Nat /\ d \in Nat /\ n \in Nat
      /\ n = f + d /\ local_stats["phit_in"] = n
      /\ DOMAIN local_stats = Counters
  BY CoreAssumption DEF TypeOK, StatsType, Counters, CountInv, Agree
<1>2. MaxPackets \in Nat /\ StatMod \in Nat \ {0} /\ MaxPackets < StatMod - 1
  BY StatsAssumption, CoreAssumption
<1>3. /\ one \in {0, 1} /\ two \in {0, 1} /\ one + two = 1
  OBVIOUS
<1>4. /\ n + 1 \in 0 .. StatMod - 1
      /\ f + one \in 0 .. StatMod - 1
      /\ d + two \in 0 .. StatMod - 1
  BY <1>1, <1>2, <1>3
<1>5. /\ (n + 1) % StatMod = n + 1
      /\ (f + one) % StatMod = f + one
      /\ (d + two) % StatMod = d + two
  BY <1>2, <1>4, ModSmall
<1>6. n + 0 + 1 = n + 1
  BY <1>1
<1>7. /\ local_stats'["pkt_in"] = n + 1
      /\ local_stats'["phit_in"] = n + 1
      /\ local_stats'["pkt_forward"] = f + one
      /\ local_stats'["pkt_drop"] = d + two
  BY <1>1, <1>5, <1>6 DEF CountPacket, Counters
<1>8. \A c \in Counters : local_stats[c] <= local_stats'[c]
  BY <1>1, <1>3, <1>7 DEF Counters
<1>9. n + 1 = (f + one) + (d + two)
  BY <1>1, <1>3
<1> QED
  BY <1>7, <1>8, <1>9 DEF Agree

(* Counting keeps the counters exact, and what is published only grows.    *)
LEMMA CountingStep ==
  ASSUME TypeOK, CountInv, Counting
  PROVE  /\ CountInv'
         /\ \A c \in Counters : stats[c] <= stats'[c]
<1> DEFINE phit == Head(s_axis)
           act  == table_action(deserialize(network, phit.data, phit_idx))
<1>1. /\ \A c \in Counters : local_stats[c] \in Nat /\ stats[c] \in Nat
      /\ MaxPackets \in Nat
      /\ Len(s_axis) \in Nat
  BY CoreAssumption, StatsAssumption DEF TypeOK, StatsType
<1>2. CASE ProcessPhit /\ phit.last
  <2>1. /\ Len(s_axis) > 0 /\ Len(s_axis') = Len(s_axis) - 1
        /\ stats' = stats
    BY <1>2, TailType DEF ProcessPhit, TypeOK
  <2>2. local_stats' = CountPacket(0, act)
    BY <1>2 DEF ProcessPhit, NextPhitIdx
  <2>3. local_stats["pkt_in"] < MaxPackets
    BY <1>1, <2>1 DEF CountInv, Counters
  <2>4. /\ Agree(local_stats')
        /\ local_stats'["pkt_in"] = local_stats["pkt_in"] + 1
        /\ \A c \in Counters : local_stats[c] <= local_stats'[c]
    BY <2>2, <2>3, CountOne
  <2>5. local_stats'["pkt_in"] + Len(s_axis') <= MaxPackets
    BY <1>1, <2>1, <2>4 DEF CountInv, Counters
  <2>6. \A c \in Counters : local_stats'[c] \in Nat
    BY <2>2, CountPacketType, CoreAssumption DEF StatsType
  <2>7. \A c \in Counters : stats'[c] <= local_stats'[c] /\ stats[c] <= stats'[c]
    BY <1>1, <2>1, <2>4, <2>6 DEF CountInv
  <2> QED
    BY <2>1, <2>4, <2>5, <2>7 DEF CountInv
<1>3. CASE ProcessPhit /\ ~phit.last
  <2>1. /\ Len(s_axis') = Len(s_axis) - 1
        /\ UNCHANGED <<local_stats, stats>>
    BY <1>3, TailType DEF ProcessPhit, TypeOK
  <2>2. local_stats["pkt_in"] + Len(s_axis') <= MaxPackets
    BY <1>1, <2>1 DEF CountInv, Counters
  <2> QED
    BY <1>1, <2>1, <2>2 DEF CountInv, Agree
<1>4. CASE ProcessIdle
  <2>1. stats' = local_stats /\ UNCHANGED <<local_stats, s_axis>>
    BY <1>4 DEF ProcessIdle, stream
  <2> QED
    BY <1>1, <2>1 DEF CountInv
<1>5. CASE UNCHANGED <<local_stats, stats>>
  BY <1>1, <1>5 DEF CountInv, Counting, Agree
<1> QED
  BY <1>2, <1>3, <1>4, <1>5
     DEF Counting, SettledNext, process_packet, Traffic, Arrive, Deliver, core
-----------------------------------------------------------------------------
(* The reads are eight, two for each counter of the list.                  *)
LEMMA RegsFacts ==
  /\ Len(Regs) = 4 /\ Done = 9
  /\ Regs[1] = "pkt_in" /\ Regs[2] = "phit_in"
  /\ Regs[3] = "pkt_forward" /\ Regs[4] = "pkt_drop"
  /\ \A i \in 1 .. 4 : Regs[i] \in Counters
  /\ \A i, j \in 1 .. 4 : Regs[i] = Regs[j] => i = j
BY DEF Regs, Done, Counters

(* Each address of show_stats decodes to a half of its own counter.        *)
LEMMA ReadsDecode ==
  ASSUME NEW c \in Counters, NEW v
  PROVE  /\ mmio_reg_read(filter_base_addr + StatsReg[c], v)
              => v = stats[c] % Half
         /\ mmio_reg_read(filter_base_addr + StatsReg[c] + 4, v)
              => v = stats[c] \div Half
<1> DEFINE addr == filter_base_addr + StatsReg[c]
<1>1. addr \in 1056768 .. 1056896
  BY SMT DEF filter_base_addr, OPENNIC_USER_250_BASE_ADDR, PACKET_FILTER_OFFSET,
             StatsReg, Counters
<1>2. \A d \in Counters :
        /\ Reaches(0, HlsStatsReg[d], addr) <=> d = c
        /\ Reaches(0, HlsStatsReg[d] + 4, addr + 4) <=> d = c
        /\ ~Reaches(0, HlsStatsReg[d] + 4, addr)
        /\ ~Reaches(0, HlsStatsReg[d], addr + 4)
  <2>1. addr = 1056768 + StatsReg[c]
    BY SMT DEF filter_base_addr, OPENNIC_USER_250_BASE_ADDR, PACKET_FILTER_OFFSET,
               StatsReg, Counters
  <2>2. \A d \in Counters : /\ StatsReg[d] \in {40, 64, 88, 112}
                            /\ HlsStatsReg[d] = StatsReg[d]
                            /\ StatsReg[d] = StatsReg[c] => d = c
    BY SMT DEF Counters, HlsStatsReg, StatsReg
  <2> HIDE DEF addr
  <2>3. \A n \in Nat, w \in 0 .. 200 :
          Reaches(0, w, 1056768 + n) <=> n = w
    BY SMT DEF Reaches, WindowOffset, BoxBase, C_USER_SIZE, C_USER_BASE_ADDR
  <2>4. \A d \in Counters : StatsReg[d] \in 0 .. 200 /\ StatsReg[d] + 4 \in 0 .. 200
    BY <2>2
  <2>5. addr + 4 = 1056768 + (StatsReg[c] + 4)
    BY <2>1, <2>4, SMT
  <2>6. StatsReg[c] \in Nat /\ StatsReg[c] + 4 \in Nat
    BY <2>4
  <2>7. \A w \in 0 .. 200 : Reaches(0, w, addr) <=> StatsReg[c] = w
    BY <2>1, <2>3, <2>6, SMT
  <2>8. \A w \in 0 .. 200 : Reaches(0, w, addr + 4) <=> StatsReg[c] + 4 = w
    BY <2>3, <2>5, <2>6, SMT
  <2> SUFFICES ASSUME NEW d \in Counters
               PROVE  /\ Reaches(0, StatsReg[d], addr) <=> d = c
                      /\ Reaches(0, StatsReg[d] + 4, addr + 4) <=> d = c
                      /\ ~Reaches(0, StatsReg[d] + 4, addr)
                      /\ ~Reaches(0, StatsReg[d], addr + 4)
    BY <2>2
  <2> DEFINE m == StatsReg[c]
             n == StatsReg[d]
  <2>9. m \in {40, 64, 88, 112} /\ n \in {40, 64, 88, 112} /\ (n = m => d = c)
    BY <2>2
  <2>10. m # n + 4 /\ m + 4 # n /\ (m + 4 = n + 4 => m = n)
    BY <2>9, SMT
  <2> HIDE DEF m, n
  <2>11. n \in 0 .. 200 /\ n + 4 \in 0 .. 200
    BY <2>4 DEF n
  <2>12. /\ Reaches(0, n, addr) <=> m = n
         /\ Reaches(0, n + 4, addr + 4) <=> m + 4 = n + 4
         /\ Reaches(0, n + 4, addr) <=> m = n + 4
         /\ Reaches(0, n, addr + 4) <=> m + 4 = n
    BY <2>7, <2>8, <2>11 DEF m
  <2>13. d = c => m = n
    BY DEF m, n
  <2> QED
    BY <2>9, <2>10, <2>12, <2>13 DEF n
<1>3. \A d \in AdapterCounters : AdapterWord[d] \in 0 .. 64
  <2>1. AdapterCounters = {"tx_packet_sent", "tx_packet_dropped", "rx_packet_recv",
                           "rx_packet_dropped", "rx_packet_error"}
    BY DEF AdapterCounters, AdapterRegs
  <2> QED
    BY <2>1 DEF AdapterWord
<1> HIDE DEF addr
<1>4. \A d \in AdapterCounters :
        /\ addr # AdapterBase + AdapterWord[d]
        /\ addr # AdapterBase + AdapterWord[d] + 4
        /\ addr + 4 # AdapterBase + AdapterWord[d]
        /\ addr + 4 # AdapterBase + AdapterWord[d] + 4
  BY <1>1, <1>3, SMT DEF AdapterBase
<1>5. mmio_reg_read(addr, v) => v = stats[c] % Half
  BY <1>2, <1>4, SMT DEF mmio_reg_read
<1>6. mmio_reg_read(addr + 4, v) => v = stats[c] \div Half
  BY <1>2, <1>4, SMT DEF mmio_reg_read
<1> QED
  BY <1>5, <1>6 DEF addr

LEMMA StatsInitOk == StatsInit => StatsInv
<1> SUFFICES ASSUME StatsInit PROVE StatsInv
  OBVIOUS
<1>1. TypeOK /\ Framing
  BY SettledInitInv DEF StatsInit, SettledInv
<1>2. /\ local_stats = ZeroStats /\ stats = ZeroStats /\ s_axis = <<>>
      /\ rd = 0 /\ low = 0 /\ val = ZeroStats /\ seen = ZeroStats
  BY DEF StatsInit, SettledInit
<1>3. CountInv
  BY <1>2, StatsAssumption DEF CountInv, Agree, ZeroStats, Counters
<1>4. ReaderType
  BY <1>2, StatsAssumption, RegsFacts DEF ReaderType, ZeroStats
<1>5. ReadInv /\ OrderInv
  BY <1>2, RegsFacts DEF ReadInv, OrderInv
<1> QED
  BY <1>1, <1>3, <1>4, <1>5 DEF StatsInv

(* While nothing is read, growing registers keep what was read in its      *)
(* bounds.                                                                 *)
LEMMA ReaderDuringCounting ==
  ASSUME StatsInv, CountInv', TypeOK',
         \A c \in Counters : stats[c] <= stats'[c], UNCHANGED reader
  PROVE  ReaderType' /\ ReadInv' /\ OrderInv'
<1>1. /\ \A c \in Counters : stats[c] \in Nat /\ stats'[c] \in Nat
      /\ \A c \in Counters : seen[c] \in Nat /\ val[c] \in Nat
      /\ rd \in Nat /\ Half \in Nat
  <2>1. stats \in [Counters -> Nat] /\ stats' \in [Counters -> Nat]
    BY CoreAssumption DEF StatsInv, TypeOK, StatsType
  <2>2. rd \in 0 .. 9 /\ seen \in [Counters -> Nat] /\ val \in [Counters -> Nat]
    BY RegsFacts DEF StatsInv, ReaderType
  <2> QED
    BY <2>1, <2>2, StatsAssumption
<1>2. ReaderType'
  BY DEF StatsInv, ReaderType, reader, Done
<1>3. ReadInv'
  <2> SUFFICES ASSUME NEW i \in 1 .. 4
               PROVE  /\ rd >= (2 * i) - 1 => seen[Regs[i]] <= stats'[Regs[i]]
                      /\ rd = (2 * i) - 1 => low = seen[Regs[i]] % Half
                      /\ rd >= 2 * i =>
                           IF Torn(Regs[i])
                           THEN /\ seen[Regs[i]] < val[Regs[i]]
                                /\ val[Regs[i]] < stats'[Regs[i]] + Half
                           ELSE val[Regs[i]] = seen[Regs[i]]
    BY RegsFacts DEF ReadInv, Torn, reader, Regs
  <2>1. Regs[i] \in Counters
    BY RegsFacts
  <2>2. stats[Regs[i]] <= stats'[Regs[i]]
    BY <2>1
  <2> QED
    BY <1>1, <2>1, <2>2, RegsFacts DEF StatsInv, ReadInv
<1>4. OrderInv'
  BY <1>1 DEF StatsInv, OrderInv, reader, Counters
<1> QED
  BY <1>2, <1>3, <1>4

(* The low half is read: the counter as it is now is what its read began   *)
(* with.                                                                   *)
LEMMA ReadLowStep ==
  ASSUME StatsInv, ReadHalf, NEW j \in 1 .. 4, rd = (2 * j) - 2
  PROVE  ReaderType' /\ ReadInv' /\ OrderInv'
<1>1. /\ \A c \in Counters : stats[c] \in Nat
      /\ \A c \in Counters : seen[c] \in Nat /\ val[c] \in Nat
      /\ Half \in Nat \ {0}
  BY CoreAssumption, StatsAssumption DEF StatsInv, TypeOK, StatsType, ReaderType
<1>2. rd % 2 = 0 /\ (rd \div 2) + 1 = j
  OBVIOUS
<1>3. /\ low' = stats[Regs[j]] % Half
      /\ seen' = [seen EXCEPT ![Regs[j]] = stats[Regs[j]]]
      /\ val' = val /\ rd' = (2 * j) - 1 /\ stats' = stats
  <2>1. Regs[j] \in Counters
    BY RegsFacts
  <2>2. /\ mmio_reg_read(filter_base_addr + StatsReg[Regs[j]], low')
        /\ seen' = [seen EXCEPT ![Regs[j]] = stats[Regs[j]]]
        /\ val' = val /\ rd' = rd + 1
    BY <1>2 DEF ReadHalf
  <2>3. stats' = stats
    BY DEF ReadHalf, vars, core
  <2>4. low' = stats[Regs[j]] % Half
    BY <2>1, <2>2, ReadsDecode
  <2> QED
    BY <2>2, <2>3, <2>4
<1>4. Regs[j] \in Counters
  BY RegsFacts
<1>5. /\ seen' \in [Counters -> Nat]
      /\ seen'[Regs[j]] = stats[Regs[j]]
      /\ \A c \in Counters : c # Regs[j] => seen'[c] = seen[c]
  BY <1>1, <1>3, <1>4 DEF StatsInv, ReaderType
<1>6. ReaderType'
  <2>1. low' \in 0 .. Half - 1
    BY <1>1, <1>3, <1>4, HalfDivMod
  <2> QED
    BY <1>3, <1>5, <2>1, RegsFacts DEF StatsInv, ReaderType
<1>7. ReadInv'
  <2> SUFFICES ASSUME NEW i \in 1 .. 4
               PROVE  /\ rd' >= (2 * i) - 1 => seen'[Regs[i]] <= stats[Regs[i]]
                      /\ rd' = (2 * i) - 1 => low' = seen'[Regs[i]] % Half
                      /\ rd' >= 2 * i =>
                           IF seen'[Regs[i]] \div Half # val[Regs[i]] \div Half
                           THEN /\ seen'[Regs[i]] < val[Regs[i]]
                                /\ val[Regs[i]] < stats[Regs[i]] + Half
                           ELSE val[Regs[i]] = seen'[Regs[i]]
    BY <1>3, RegsFacts DEF ReadInv, Torn, Regs
  <2>1. CASE i = j
    BY <1>1, <1>3, <1>4, <1>5, <2>1
  <2>2. CASE i # j
    <3>1. Regs[i] \in Counters /\ Regs[i] # Regs[j]
      BY <2>2, RegsFacts
    <3>2. seen'[Regs[i]] = seen[Regs[i]]
      BY <1>5, <3>1
    <3>3. /\ rd' >= (2 * i) - 1 => rd >= (2 * i) - 1 /\ rd >= 2 * i
          /\ rd' # (2 * i) - 1
          /\ rd' >= 2 * i => rd >= 2 * i
      BY <1>3, <2>2
    <3> QED
      BY <3>2, <3>3, RegsFacts DEF StatsInv, ReadInv, Torn
  <2> QED
    BY <2>1, <2>2
<1>8. OrderInv'
  <2>1. /\ stats["pkt_in"] = stats["pkt_forward"] + stats["pkt_drop"]
        /\ {"pkt_in", "pkt_forward", "pkt_drop"} \subseteq Counters
    BY DEF StatsInv, CountInv, Agree, Counters
  <2>2. CASE j = 1
    BY <1>1, <1>3, <1>5, <2>1, <2>2, RegsFacts DEF OrderInv
  <2>3. CASE j = 2
    BY <1>1, <1>3, <1>5, <2>1, <2>3, RegsFacts DEF StatsInv, OrderInv
  <2>4. CASE j = 3
    BY <1>1, <1>3, <1>5, <2>1, <2>4, RegsFacts DEF StatsInv, OrderInv
  <2>5. CASE j = 4
    BY <1>1, <1>3, <1>5, <2>1, <2>5, RegsFacts DEF StatsInv, OrderInv
  <2> QED
    BY <2>2, <2>3, <2>4, <2>5
<1> QED
  BY <1>6, <1>7, <1>8

(* The high half is read, from a counter that can only have grown.         *)
LEMMA ReadHighStep ==
  ASSUME StatsInv, ReadHalf, NEW j \in 1 .. 4, rd = (2 * j) - 1
  PROVE  ReaderType' /\ ReadInv' /\ OrderInv'
<1>1. /\ \A c \in Counters : stats[c] \in Nat
      /\ \A c \in Counters : seen[c] \in Nat /\ val[c] \in Nat
      /\ Half \in Nat \ {0}
  BY CoreAssumption, StatsAssumption DEF StatsInv, TypeOK, StatsType, ReaderType
<1>2. rd % 2 = 1 /\ (rd \div 2) + 1 = j
  OBVIOUS
<1> DEFINE c == Regs[j]
           v == ((stats[c] \div Half) * Half) + low
<1>3. /\ val' = [val EXCEPT ![c] = v]
      /\ seen' = seen /\ low' = low /\ rd' = 2 * j /\ stats' = stats
  <2>1. Regs[j] \in Counters
    BY RegsFacts
  <2>2. /\ \E high \in 0 .. Half - 1 :
              /\ mmio_reg_read(filter_base_addr + StatsReg[Regs[j]] + 4, high)
              /\ val' = [val EXCEPT ![Regs[j]] = high * Half + low]
        /\ seen' = seen /\ low' = low /\ rd' = rd + 1
    BY <1>2 DEF ReadHalf
  <2>3. stats' = stats
    BY DEF ReadHalf, vars, core
  <2>4. PICK high \in 0 .. Half - 1 :
          /\ mmio_reg_read(filter_base_addr + StatsReg[Regs[j]] + 4, high)
          /\ val' = [val EXCEPT ![Regs[j]] = high * Half + low]
    BY <2>2
  <2>5. high = stats[Regs[j]] \div Half
    BY <2>1, <2>4, ReadsDecode
  <2>6. val' = [val EXCEPT ![c] = v]
    BY <2>4, <2>5
  <2>7. rd' = 2 * j
    BY <2>2
  <2> QED
    BY <2>2, <2>3, <2>6, <2>7
<1>4. c \in Counters
  BY RegsFacts
<1>5. seen[c] <= stats[c] /\ low = seen[c] % Half
  BY RegsFacts DEF StatsInv, ReadInv
<1>6. /\ v \in Nat
      /\ seen[c] \div Half = v \div Half => v = seen[c]
      /\ seen[c] \div Half # v \div Half => seen[c] < v /\ v < stats[c] + Half
  <2>1. v = Stitched(seen[c], stats[c])
    BY <1>5 DEF Stitched
  <2> HIDE DEF v
  <2> QED
    BY <1>1, <1>4, <1>5, <2>1, TornValue
<1> HIDE DEF v
<1>7. /\ val' \in [Counters -> Nat]
      /\ val'[c] = v
      /\ \A d \in Counters : d # c => val'[d] = val[d]
  BY <1>3, <1>4, <1>6 DEF StatsInv, ReaderType
<1>8. ReaderType'
  BY <1>3, <1>7, RegsFacts DEF StatsInv, ReaderType
<1>9. ReadInv'
  <2> SUFFICES ASSUME NEW i \in 1 .. 4
               PROVE  /\ rd' >= (2 * i) - 1 => seen[Regs[i]] <= stats[Regs[i]]
                      /\ rd' = (2 * i) - 1 => low = seen[Regs[i]] % Half
                      /\ rd' >= 2 * i =>
                           IF seen[Regs[i]] \div Half # val'[Regs[i]] \div Half
                           THEN /\ seen[Regs[i]] < val'[Regs[i]]
                                /\ val'[Regs[i]] < stats[Regs[i]] + Half
                           ELSE val'[Regs[i]] = seen[Regs[i]]
    BY <1>3, RegsFacts DEF ReadInv, Torn, Regs
  <2>1. CASE i = j
    BY <1>3, <1>5, <1>6, <1>7, <2>1
  <2>2. CASE i # j
    <3>1. Regs[i] \in Counters /\ Regs[i] # c
      BY <2>2, RegsFacts
    <3>2. val'[Regs[i]] = val[Regs[i]]
      BY <1>7, <3>1
    <3>3. /\ rd' >= (2 * i) - 1 => rd >= (2 * i) - 1
          /\ rd' # (2 * i) - 1
          /\ rd' >= 2 * i => rd >= 2 * i
      BY <1>3, <2>2
    <3> QED
      BY <3>2, <3>3, RegsFacts DEF StatsInv, ReadInv, Torn
  <2> QED
    BY <2>1, <2>2
<1>10. OrderInv'
  <2>1. /\ rd >= 1 /\ rd' >= 1
        /\ rd' >= 5 <=> rd >= 5
        /\ rd' >= 7 <=> rd >= 7
    BY <1>3
  <2> QED
    BY <1>3, <2>1 DEF StatsInv, OrderInv
<1> QED
  BY <1>8, <1>9, <1>10

(* The report and the next run read nothing.                               *)
LEMMA ReportStep ==
  ASSUME StatsInv, Report
  PROVE  ReaderType' /\ ReadInv' /\ OrderInv'
<1>1. rd = 8 /\ rd' = 9 /\ UNCHANGED <<low, val, seen, stats>>
  BY RegsFacts DEF Report, vars, core
<1>2. ReaderType'
  BY <1>1, RegsFacts DEF StatsInv, ReaderType
<1>3. ReadInv'
  <2>1. ASSUME NEW i \in 1 .. 4
        PROVE  /\ rd' >= (2 * i) - 1 <=> rd >= (2 * i) - 1
               /\ rd' # (2 * i) - 1
               /\ rd' >= 2 * i <=> rd >= 2 * i
    BY <1>1
  <2> QED
    BY <1>1, <2>1, RegsFacts DEF StatsInv, ReadInv, Torn, Regs
<1>4. OrderInv'
  BY <1>1 DEF StatsInv, OrderInv
<1> QED
  BY <1>2, <1>3, <1>4

LEMMA NextRunStep ==
  ASSUME StatsInv, NextRun
  PROVE  ReaderType' /\ ReadInv' /\ OrderInv'
<1>1. rd' = 0 /\ low' = 0 /\ val' = ZeroStats /\ seen' = ZeroStats
  BY DEF NextRun
<1> QED
  BY <1>1, StatsAssumption, RegsFacts
     DEF ReaderType, ReadInv, OrderInv, ZeroStats, Regs

LEMMA StatsStep ==
  ASSUME StatsInv, [StatsNext]_svars
  PROVE  StatsInv'
<1>1. CASE Counting
  <2>1. TypeOK' /\ Framing'
    BY <1>1, SettledTypeFraming DEF StatsInv, Counting
  <2>2. CountInv' /\ \A c \in Counters : stats[c] <= stats'[c]
    BY <1>1, CountingStep DEF StatsInv
  <2>3. UNCHANGED reader
    BY <1>1 DEF Counting
  <2> QED
    BY <2>1, <2>2, <2>3, ReaderDuringCounting DEF StatsInv
<1>2. CASE UNCHANGED vars
  <2>1. TypeOK' /\ Framing'
    BY <1>2, SettledTypeFraming DEF StatsInv
  <2>2. CountInv'
    BY <1>2 DEF StatsInv, CountInv, Agree, vars, core, stream
  <2>3. CASE UNCHANGED reader
    <3>1. \A c \in Counters : stats[c] \in Nat
      BY CoreAssumption DEF StatsInv, TypeOK, StatsType
    <3>2. \A c \in Counters : stats[c] <= stats'[c]
      BY <1>2, <3>1 DEF vars, core
    <3> QED
      BY <2>1, <2>2, <2>3, <3>2, ReaderDuringCounting DEF StatsInv
  <2>4. CASE show_stats
    <3>1. CASE ReadHalf
      <4>1. rd \in 0 .. 7
        BY <3>1, RegsFacts DEF ReadHalf, StatsInv, ReaderType
      <4>2. \E j \in 1 .. 4 : rd = (2 * j) - 2 \/ rd = (2 * j) - 1
        BY <4>1
      <4> QED
        BY <3>1, <4>2, <2>1, <2>2, ReadLowStep, ReadHighStep DEF StatsInv
    <3>2. CASE Report
      BY <3>2, <2>1, <2>2, ReportStep DEF StatsInv
    <3>3. CASE NextRun
      BY <3>3, <2>1, <2>2, NextRunStep DEF StatsInv
    <3>4. CASE UNCHANGED reader
      BY <1>2, <2>3, <3>4
    <3> QED
      BY <2>4, <3>1, <3>2, <3>3, <3>4 DEF show_stats, AdapterHalf, AdapterReport
  <2> QED
    BY <1>1, <2>3, <2>4 DEF StatsNext, svars
<1> QED
  BY <1>1, <1>2
     DEF StatsNext, show_stats, AdapterHalf, AdapterReport, ReadHalf, Report,
         NextRun, svars
-----------------------------------------------------------------------------
(* The counters are exact, and what was read fits them.                    *)
THEOREM StatsInvariant == StatsSpec => []StatsInv
<1>1. StatsInit => StatsInv
  BY StatsInitOk
<1>2. StatsInv /\ [StatsNext]_svars => StatsInv'
  BY StatsStep
<1> QED
  BY <1>1, <1>2, PTL DEF StatsSpec

(* A counter read in two halves, low half first (packet_filter.h:42-43),   *)
(* is the value it had when its read began, or lies above that and less    *)
(* than one half above the counter, whatever is published meanwhile.       *)
THEOREM ReadExactCorrect == StatsSpec => []ReadExact
<1>1. StatsInv => ReadExact
  <2> SUFFICES ASSUME StatsInv, NEW i \in 1 .. 4, rd >= 2 * i
               PROVE  IF Torn(Regs[i])
                      THEN /\ seen[Regs[i]] < val[Regs[i]]
                           /\ val[Regs[i]] < stats[Regs[i]] + Half
                      ELSE val[Regs[i]] = seen[Regs[i]]
    BY RegsFacts DEF ReadExact, BeenRead
  <2> QED
    BY RegsFacts DEF StatsInv, ReadInv
<1> QED
  BY <1>1, StatsInvariant, PTL

(* The report shows no packet that was neither forwarded nor dropped: the  *)
(* order of the reads in show_stats (packet_filter.cc:51-54) is right,     *)
(* however long they take.                                                 *)
THEOREM NothingUnaccountedCorrect == StatsSpec => []NothingUnaccounted
<1>1. StatsInv => NothingUnaccounted
  <2> SUFFICES ASSUME StatsInv, rd >= 8, ~Torn("pkt_in")
               PROVE  val["pkt_in"] <= val["pkt_forward"] + val["pkt_drop"]
    BY RegsFacts DEF NothingUnaccounted
  <2>1. /\ rd >= 1 /\ rd >= 2 * 1 /\ rd >= 5 /\ rd >= 2 * 3
        /\ rd >= 7 /\ rd >= 2 * 4
    BY RegsFacts DEF StatsInv, ReaderType
  <2>2. seen["pkt_in"] <= seen["pkt_forward"] + seen["pkt_drop"]
    BY <2>1 DEF StatsInv, OrderInv
  <2>3. val["pkt_in"] = seen["pkt_in"]
    BY <2>1, RegsFacts DEF StatsInv, ReadInv
  <2>4. \A c \in Counters : val[c] \in Nat /\ seen[c] \in Nat
    BY DEF StatsInv, ReaderType
  <2>5. seen["pkt_forward"] <= val["pkt_forward"]
    BY <2>1, <2>4, RegsFacts DEF StatsInv, ReadInv
  <2>6. seen["pkt_drop"] <= val["pkt_drop"]
    BY <2>1, <2>4, RegsFacts DEF StatsInv, ReadInv
  <2> QED
    BY <2>2, <2>3, <2>4, <2>5, <2>6 DEF Counters
<1> QED
  BY <1>1, StatsInvariant, PTL
-----------------------------------------------------------------------------
\* The phits of s that end a packet.
Lasts(s) == {n \in 1 .. Len(s) : s[n].last}

(* There are no more packets ending in a queue than phits.                 *)
LEMMA LastsFinite ==
  ASSUME NEW S, NEW s \in Seq(S)
  PROVE  /\ IsFiniteSet(Lasts(s))
         /\ Cardinality(Lasts(s)) \in Nat
         /\ Cardinality(Lasts(s)) <= Len(s)
<1>1. Len(s) \in Nat
  OBVIOUS
<1>2. IsFiniteSet(1 .. Len(s)) /\ Cardinality(1 .. Len(s)) = Len(s)
  <2> DEFINE k == Len(s)
             c == Cardinality(1 .. k)
  <2>1. k \in Nat
    BY <1>1
  <2> HIDE DEF k
  <2>2. IsFiniteSet(1 .. k) /\ c = IF 1 > k THEN 0 ELSE k - 1 + 1
    BY <2>1, FS_Interval
  <2> HIDE DEF c
  <2>3. c = k
    BY <2>1, <2>2
  <2> QED
    BY <2>2, <2>3 DEF c, k
<1>3. Lasts(s) \in SUBSET (1 .. Len(s))
  BY DEF Lasts
<1>4. IsFiniteSet(Lasts(s)) /\ Cardinality(Lasts(s)) <= Cardinality(1 .. Len(s))
  BY <1>2, <1>3, FS_Subset
<1> QED
  BY <1>2, <1>4, FS_CardinalityType

(* A phit that arrives takes no packet away from those still in the queue. *)
LEMMA LastsAppend ==
  ASSUME NEW S, NEW s \in Seq(S), NEW e \in S
  PROVE  Cardinality(Lasts(s)) <= Cardinality(Lasts(Append(s, e)))
<1>1. Append(s, e) \in Seq(S)
  OBVIOUS
<1>2. Lasts(s) \in SUBSET Lasts(Append(s, e))
  BY DEF Lasts
<1> QED
  BY <1>1, <1>2, LastsFinite, FS_Subset

(* A phit that is taken is one packet less if it ends one.                 *)
LEMMA LastsTail ==
  ASSUME NEW S, NEW s \in Seq(S), s # <<>>
  PROVE  Cardinality(Lasts(s)) =
           Cardinality(Lasts(Tail(s))) + (IF s[1].last THEN 1 ELSE 0)
<1> DEFINE rest == Lasts(s) \ {1}
           shift == [n \in rest |-> n - 1]
<1>1. /\ IsFiniteSet(Lasts(s)) /\ Cardinality(Lasts(s)) \in Nat
      /\ Tail(s) \in Seq(S) /\ Len(s) \in Nat \ {0}
      /\ Len(Tail(s)) = Len(s) - 1
      /\ \A n \in 1 .. Len(s) - 1 : Tail(s)[n] = s[n + 1]
  BY LastsFinite
<1>2. 1 \in Lasts(s) <=> s[1].last
  BY <1>1 DEF Lasts
<1>3. /\ IsFiniteSet(rest)
      /\ Cardinality(rest) = IF s[1].last THEN Cardinality(Lasts(s)) - 1
                                          ELSE Cardinality(Lasts(s))
  BY <1>1, <1>2, FS_RemoveElement
<1>4. \A n \in rest : n \in 2 .. Len(s) /\ s[n].last
  BY <1>1 DEF Lasts
<1>5. \A n \in rest : n - 1 \in Lasts(Tail(s))
  <2> SUFFICES ASSUME NEW n \in rest PROVE n - 1 \in Lasts(Tail(s))
    OBVIOUS
  <2>1. n - 1 \in 1 .. Len(s) - 1 /\ (n - 1) + 1 = n
    BY <1>1, <1>4
  <2> QED
    BY <1>1, <1>4, <2>1 DEF Lasts
<1>6. ASSUME NEW m \in Lasts(Tail(s)) PROVE m + 1 \in rest /\ (m + 1) - 1 = m
  <2>1. m \in 1 .. Len(s) - 1 /\ s[m + 1].last
    BY <1>1 DEF Lasts
  <2> QED
    BY <1>1, <2>1 DEF Lasts
<1>7. shift \in Bijection(rest, Lasts(Tail(s)))
  <2>1. shift \in [rest -> Lasts(Tail(s))]
    BY <1>5
  <2>2. IsInjective(shift)
    BY <1>4 DEF IsInjective
  <2>3. \A m \in Lasts(Tail(s)) : \E n \in rest : shift[n] = m
    BY <1>6
  <2> QED
    BY <2>1, <2>2, <2>3 DEF Bijection, Injection, Surjection
<1>8. Cardinality(Lasts(Tail(s))) = Cardinality(rest)
  BY <1>3, <1>7, FS_Bijection DEF ExistsBijection
<1> QED
  BY <1>1, <1>3, <1>8

(* The adapter has received what the core published, and no more than the  *)
(* bound.                                                                  *)
LEMMA ReceivedType ==
  ASSUME TypeOK, CountInv
  PROVE  /\ Received \in Nat
         /\ stats["pkt_in"] <= Received
         /\ Received <= MaxPackets
         /\ Received = local_stats["pkt_in"] + Cardinality(Lasts(s_axis))
<1>1. /\ local_stats["pkt_in"] \in Nat /\ stats["pkt_in"] \in Nat
      /\ MaxPackets \in Nat
  BY CoreAssumption, StatsAssumption DEF TypeOK, StatsType, Counters
<1>2. s_axis \in Seq(Phit)
  BY DEF TypeOK
<1>3. /\ Cardinality(Lasts(s_axis)) \in Nat
      /\ Cardinality(Lasts(s_axis)) <= Len(s_axis)
      /\ Len(s_axis) \in Nat
  BY <1>2, LastsFinite
<1>4. Received = local_stats["pkt_in"] + Cardinality(Lasts(s_axis))
  BY DEF Received, Lasts
<1>5. /\ local_stats["pkt_in"] + Len(s_axis) <= MaxPackets
      /\ stats["pkt_in"] <= local_stats["pkt_in"]
  BY DEF CountInv, Counters
<1> DEFINE n == Cardinality(Lasts(s_axis))
<1> HIDE DEF n
<1>6. n \in Nat /\ n <= Len(s_axis) /\ Received = local_stats["pkt_in"] + n
  BY <1>3, <1>4 DEF n
<1>7. /\ Received \in Nat
      /\ stats["pkt_in"] <= Received
      /\ Received <= MaxPackets
  BY <1>1, <1>3, <1>5, <1>6
<1> QED
  BY <1>4, <1>7

(* What the adapter has received the core counts or still has before it.   *)
LEMMA ReceivedGrows ==
  ASSUME TypeOK, CountInv, TypeOK', CountInv', Counting
  PROVE  Received <= Received'
<1>1. /\ Received \in Nat
      /\ Received = local_stats["pkt_in"] + Cardinality(Lasts(s_axis))
  BY ReceivedType
<1>2. Received' = local_stats'["pkt_in"] + Cardinality(Lasts(s_axis'))
  BY ReceivedType DEF Lasts, Received
<1>3. /\ s_axis \in Seq(Phit) /\ s_axis' \in Seq(Phit)
      /\ local_stats["pkt_in"] \in Nat /\ local_stats'["pkt_in"] \in Nat
  BY CoreAssumption DEF TypeOK, StatsType, Counters
<1>4. /\ Cardinality(Lasts(s_axis)) \in Nat
      /\ Cardinality(Lasts(s_axis')) \in Nat
  BY <1>3, LastsFinite
<1> DEFINE m == Cardinality(Lasts(s_axis))
           n == Cardinality(Lasts(s_axis'))
<1> HIDE DEF m, n
<1>5. /\ m \in Nat /\ n \in Nat
      /\ Received = local_stats["pkt_in"] + m
      /\ Received' = local_stats'["pkt_in"] + n
  BY <1>1, <1>2, <1>4 DEF m, n
<1>6. CASE ProcessPhit
  <2>1. s_axis # <<>> /\ s_axis' = Tail(s_axis)
    BY <1>6 DEF ProcessPhit
  <2>2. Cardinality(Lasts(s_axis)) =
          Cardinality(Lasts(s_axis')) + (IF s_axis[1].last THEN 1 ELSE 0)
    BY <1>3, <2>1, LastsTail
  <2>3. local_stats'["pkt_in"] =
          local_stats["pkt_in"] + (IF s_axis[1].last THEN 1 ELSE 0)
    <3>1. CASE s_axis[1].last
      <4> DEFINE act == table_action(deserialize(network, Head(s_axis).data, phit_idx))
      <4>1. local_stats' = CountPacket(0, act)
        BY <1>3, <1>6, <2>1, <3>1 DEF ProcessPhit, NextPhitIdx
      <4>2. local_stats["pkt_in"] < MaxPackets
        <5>1. Len(s_axis) \in Nat \ {0}
          BY <1>3, <2>1
        <5> QED
          BY <1>3, <5>1, StatsAssumption DEF CountInv
      <4> HIDE DEF act
      <4> QED
        BY <3>1, <4>1, <4>2, <1>3, CountOne
    <3>2. CASE ~s_axis[1].last
      BY <1>3, <1>6, <2>1, <3>2 DEF ProcessPhit
    <3> QED
      BY <3>1, <3>2
  <2> QED
    <3>1. m = n + (IF s_axis[1].last THEN 1 ELSE 0)
      BY <2>2 DEF m, n
    <3> QED
      BY <1>3, <1>5, <2>3, <3>1
<1>7. ASSUME NEW data \in Headers, NEW last \in BOOLEAN, Arrive(data, last)
      PROVE  Received <= Received'
  <2>1. /\ local_stats' = local_stats
        /\ \E e : s_axis' = Append(s_axis, e)
    BY <1>7 DEF Arrive, core
  <2>2. PICK e : s_axis' = Append(s_axis, e)
    BY <2>1
  <2>3. e \in Phit
    <3>1. /\ Len(s_axis') = Len(s_axis) + 1 /\ s_axis'[Len(s_axis) + 1] = e
          /\ Len(s_axis) + 1 \in 1 .. Len(s_axis')
      BY <1>3, <2>2
    <3> QED
      BY <1>3, <3>1
  <2>4. Cardinality(Lasts(s_axis)) <= Cardinality(Lasts(s_axis'))
    BY <1>3, <2>2, <2>3, LastsAppend
  <2> QED
    <3>1. m <= n
      BY <2>4 DEF m, n
    <3> QED
      BY <1>3, <1>5, <2>1, <3>1
<1>8. CASE ProcessIdle \/ Deliver
  <2>1. s_axis' = s_axis /\ local_stats' = local_stats
    BY <1>8 DEF ProcessIdle, Deliver, stream, core
  <2> QED
    BY <1>3, <1>5, <2>1 DEF m, n
<1> QED
  BY <1>6, <1>7, <1>8 DEF Counting, SettledNext, process_packet, Traffic
-----------------------------------------------------------------------------
(* The reports printed, and what the read of rx_packet_recv makes of what  *)
(* the adapter has received.                                               *)
AdapterShown ==
  IF aval["rx_packet_recv"] = 0 /\ aval["tx_packet_sent"] = 0
  THEN {} ELSE PRINT_STAT(aval)

SilentInv ==
  /\ rd = Done => shown = Printed
  /\ ard \in 0 .. 11
  /\ DOMAIN aval = AdapterCounters
  /\ began \in Nat
  /\ ard >= 1 => began <= Received
  /\ ard = 5 => \E a \in Nat : began <= a /\ a <= Received /\ alow = a % Half
  /\ ard >= 6 => /\ aval["rx_packet_recv"] \in Nat
                 /\ began <= aval["rx_packet_recv"]
                 /\ aval["rx_packet_recv"] < MaxPackets + Half
  /\ ard = 11 => ashown = AdapterShown

LEMMA AdapterFacts ==
  /\ AdapterDone = 11 /\ Len(AdapterRegs) = 5
  /\ AdapterRegs[3] = "rx_packet_recv"
  /\ \A n \in 1 .. 5 : /\ AdapterRegs[n] \in AdapterCounters
                       /\ AdapterRegs[n] = "rx_packet_recv" => n = 3
  /\ AdapterCounters = {"tx_packet_sent", "tx_packet_dropped", "rx_packet_recv",
                        "rx_packet_dropped", "rx_packet_error"}
<1>1. AdapterCounters = {"tx_packet_sent", "tx_packet_dropped", "rx_packet_recv",
                         "rx_packet_dropped", "rx_packet_error"}
  BY DEF AdapterCounters, AdapterRegs
<1> QED
  BY <1>1 DEF AdapterRegs, AdapterDone

(* The address of rx_packet_recv reaches that counter of the adapter and   *)
(* no register of a core.                                                  *)
LEMMA RecvDecodes ==
  ASSUME NEW v
  PROVE  LET addr == OPENNIC_ADAP_BASE_ADDR + AdapterReg["rx_packet_recv"]
         IN  /\ mmio_reg_read(addr, v) => v = Received % Half
             /\ mmio_reg_read(addr + 4, v) => v = Received \div Half
<1>1. OPENNIC_ADAP_BASE_ADDR + AdapterReg["rx_packet_recv"] = 45088
  BY DEF OPENNIC_ADAP_BASE_ADDR, AdapterReg
<1>2. \A c \in Counters : HlsStatsReg[c] \in 40 .. 112
  BY DEF Counters, HlsStatsReg
<1>3. \A c \in Counters : /\ ~Reaches(0, HlsStatsReg[c], 45088)
                          /\ ~Reaches(0, HlsStatsReg[c] + 4, 45088)
                          /\ ~Reaches(0, HlsStatsReg[c], 45092)
                          /\ ~Reaches(0, HlsStatsReg[c] + 4, 45092)
  BY <1>2 DEF Reaches, WindowOffset, BoxBase, C_USER_SIZE, C_USER_BASE_ADDR
<1>4. \A d \in AdapterCounters :
        /\ 45088 = AdapterBase + AdapterWord[d] <=> d = "rx_packet_recv"
        /\ 45092 = AdapterBase + AdapterWord[d] + 4 <=> d = "rx_packet_recv"
        /\ 45088 # AdapterBase + AdapterWord[d] + 4
        /\ 45092 # AdapterBase + AdapterWord[d]
  BY AdapterFacts DEF AdapterBase, AdapterWord
<1>5. AdapterCount("rx_packet_recv") = Received
  BY DEF AdapterCount
<1>6. "rx_packet_recv" \in AdapterCounters /\ 45088 + 4 = 45092
  BY AdapterFacts
<1>7. mmio_reg_read(45088, v) => v = Received % Half
  BY <1>3, <1>4, <1>5, <1>6 DEF mmio_reg_read
<1>8. mmio_reg_read(45092, v) => v = Received \div Half
  BY <1>3, <1>4, <1>5, <1>6 DEF mmio_reg_read
<1> QED
  BY <1>1, <1>6, <1>7, <1>8

LEMMA AdapterHalfSilent ==
  ASSUME StatsInv, SilentInv, AdapterHalf
  PROVE  SilentInv'
<1>1. /\ ard \in 0 .. 9 /\ ard' = ard + 1
      /\ began' = IF ard = 0 THEN stats["pkt_in"] ELSE began
      /\ UNCHANGED <<ashown, reader, vars>>
      /\ ard % 2 = 0 => UNCHANGED aval
  BY AdapterFacts DEF AdapterHalf, SilentInv
<1>2. /\ Received \in Nat /\ stats["pkt_in"] <= Received /\ Received <= MaxPackets
      /\ stats["pkt_in"] \in Nat /\ Half \in Nat \ {0} /\ MaxPackets \in Nat
  BY ReceivedType, CoreAssumption, StatsAssumption
     DEF StatsInv, TypeOK, StatsType, Counters
<1>3. Received' = Received
  BY <1>1 DEF Received, vars, core, stream
<1>4. /\ began' \in Nat /\ began' <= Received'
      /\ ard >= 1 => began' = began
  BY <1>1, <1>2, <1>3 DEF SilentInv
<1>5. rd' = Done => shown' = Printed'
  BY <1>1 DEF SilentInv, reader, Printed, PRINT_STAT
<1>6. DOMAIN aval' = AdapterCounters
  BY <1>1 DEF SilentInv, AdapterHalf
<1>7. CASE ard = 4
  <2>1. (4 \div 2) + 1 = 3 /\ 4 % 2 = 0
    OBVIOUS
  <2>2. mmio_reg_read(OPENNIC_ADAP_BASE_ADDR + AdapterReg["rx_packet_recv"], alow')
    BY <1>7, <2>1, AdapterFacts DEF AdapterHalf
  <2>3. alow' = Received % Half
    BY <2>2, RecvDecodes
  <2> QED
    BY <1>1, <1>2, <1>3, <1>4, <1>5, <1>6, <1>7, <2>3 DEF SilentInv
<1>8. CASE ard = 5
  <2>1. (5 \div 2) + 1 = 3 /\ 5 % 2 = 1
    OBVIOUS
  <2>2. PICK high \in 0 .. Half - 1 :
          /\ mmio_reg_read(OPENNIC_ADAP_BASE_ADDR + AdapterReg["rx_packet_recv"] + 4,
                           high)
          /\ aval' = [aval EXCEPT !["rx_packet_recv"] = high * Half + alow]
    BY <1>8, <2>1, AdapterFacts DEF AdapterHalf
  <2>3. high = Received \div Half
    BY <2>2, RecvDecodes
  <2>4. PICK a \in Nat : began <= a /\ a <= Received /\ alow = a % Half
    BY <1>8 DEF SilentInv
  <2> DEFINE v == Stitched(a, Received)
  <2>5. /\ v \in Nat
        /\ a \div Half = v \div Half => v = a
        /\ a \div Half # v \div Half => a < v /\ v < Received + Half
    BY <1>2, <2>4, TornValue
  <2>6. aval'["rx_packet_recv"] = v
    BY <2>2, <2>3, <2>4, AdapterFacts DEF SilentInv, Stitched
  <2> HIDE DEF v
  <2>7. began <= v /\ v < MaxPackets + Half
    BY <1>2, <2>4, <2>5 DEF SilentInv
  <2>8. began' = began
    BY <1>4, <1>8
  <2> QED
    BY <1>1, <1>4, <1>5, <1>6, <1>8, <2>5, <2>6, <2>7, <2>8 DEF SilentInv
<1>9. CASE ard \notin {4, 5}
  <2>1. ard >= 6 => aval'["rx_packet_recv"] = aval["rx_packet_recv"]
    <3>1. CASE ard % 2 = 0
      BY <1>1, <3>1
    <3>2. CASE ard \in {7, 9}
      <4>1. (ard \div 2) + 1 \in {4, 5} /\ ard % 2 # 0
        BY <3>2
      <4>2. AdapterRegs[(ard \div 2) + 1] # "rx_packet_recv"
        BY <4>1, AdapterFacts
      <4> QED
        BY <4>1, <4>2, AdapterFacts DEF AdapterHalf, SilentInv
    <3> QED
      BY <1>1, <3>1, <3>2
  <2>2. ard' # 5 /\ ard' # 11 /\ ard' \in 0 .. 11
        /\ (ard' >= 6 => ard >= 6 /\ ard >= 1)
    BY <1>1, <1>9
  <2> QED
    BY <1>4, <1>5, <1>6, <2>1, <2>2 DEF SilentInv
<1> QED
  BY <1>7, <1>8, <1>9

LEMMA AdapterReportSilent ==
  ASSUME SilentInv, AdapterReport
  PROVE  SilentInv'
<1>1. /\ ard = 10 /\ ard' = 11 /\ ashown' = AdapterShown
      /\ UNCHANGED <<aval, began, rd, shown, val, local_stats, s_axis>>
  BY AdapterFacts
     DEF AdapterReport, AdapterShown, reader, vars, core, stream
<1>2. Received' = Received
  BY <1>1 DEF Received
<1> QED
  BY <1>1, <1>2 DEF SilentInv, AdapterShown, Printed, PRINT_STAT

LEMMA ReaderSilent ==
  ASSUME StatsInv, SilentInv, ReadHalf \/ Report
  PROVE  SilentInv'
<1>1. UNCHANGED <<ard, alow, aval, ashown, began, local_stats, s_axis>>
  BY DEF ReadHalf, Report, adapter, vars, core, stream
<1>2. Received' = Received
  BY <1>1 DEF Received
<1>3. rd' = Done => shown' = Printed'
  <2>1. CASE ReadHalf
    <3>1. rd \in 0 .. 7 /\ rd' = rd + 1
      BY <2>1, RegsFacts DEF ReadHalf, StatsInv, ReaderType
    <3> QED
      BY <3>1, RegsFacts
  <2>2. CASE Report
    BY <2>2 DEF Report, Printed, PRINT_STAT
  <2> QED
    BY <2>1, <2>2
<1> QED
  BY <1>1, <1>2, <1>3 DEF SilentInv, AdapterShown, PRINT_STAT

LEMMA NextRunSilent ==
  ASSUME NextRun
  PROVE  SilentInv'
BY RegsFacts DEF NextRun, SilentInv, ZeroAdapter

LEMMA CountingSilent ==
  ASSUME SilentInv, UNCHANGED <<adapter, reader>>,
         Received \in Nat, Received' \in Nat, Received <= Received'
  PROVE  SilentInv'
<1>1. UNCHANGED <<ard, alow, aval, ashown, began, rd, shown, val>>
  BY DEF adapter, reader
<1>2. rd' = Done => shown' = Printed'
  BY <1>1 DEF SilentInv, Printed, PRINT_STAT
<1>3. ard' >= 1 => began' <= Received'
  BY <1>1 DEF SilentInv
<1>4. ard' = 5 => \E a \in Nat : began' <= a /\ a <= Received' /\ alow' = a % Half
  BY <1>1 DEF SilentInv
<1>5. ard' = 11 => ashown' = AdapterShown'
  BY <1>1 DEF SilentInv, AdapterShown, PRINT_STAT
<1> QED
  BY <1>1, <1>2, <1>3, <1>4, <1>5 DEF SilentInv

LEMMA ReceivedNat == StatsInv => Received \in Nat
BY ReceivedType DEF StatsInv

LEMMA SilentStep ==
  ASSUME StatsInv, StatsInv', SilentInv, [StatsNext]_svars
  PROVE  SilentInv'
<1>1. Received \in Nat /\ (Received \in Nat)'
  BY ReceivedNat, PTL
<1>2. CASE Counting
  BY <1>1, <1>2, ReceivedGrows, CountingSilent DEF StatsInv, Counting
<1>3. CASE UNCHANGED svars
  <2>1. UNCHANGED <<adapter, reader, local_stats, s_axis>>
    BY <1>3 DEF svars, vars, core, stream
  <2>2. Received' = Received
    BY <2>1 DEF Received
  <2> QED
    BY <1>1, <2>1, <2>2, CountingSilent
<1>4. CASE show_stats
  BY <1>4, AdapterHalfSilent, AdapterReportSilent, ReaderSilent, NextRunSilent
     DEF show_stats
<1> QED
  BY <1>2, <1>3, <1>4 DEF StatsNext

(* PRINT_STAT takes a counter of 0 and one of all ones for an absent one   *)
(* (packet_filter.cc:12-14); as long as the counters stay a half below     *)
(* their width no torn read looks like that, and a report is left out only *)
(* when nothing had been counted.                                          *)
THEOREM SilentOnlyIfIdleCorrect ==
  ASSUME MaxPackets + Half < StatMod
  PROVE  StatsSpec => []SilentOnlyIfIdle
<1>1. StatsInit => SilentInv
  <2>1. StatsInit => /\ rd = 0 /\ ard = 0 /\ aval = ZeroAdapter /\ began = 0
    BY DEF StatsInit
  <2> QED
    BY <2>1, RegsFacts DEF SilentInv, ZeroAdapter
<1>2. StatsInv /\ SilentInv => SilentOnlyIfIdle
  <2> SUFFICES ASSUME StatsInv, SilentInv PROVE SilentOnlyIfIdle
    OBVIOUS
  <2>1. MaxPackets \in Nat /\ Half \in Nat \ {0} /\ StatMod \in Nat
    BY StatsAssumption, CoreAssumption
  <2>2. ASSUME rd = Done, shown = {}, seen["pkt_in"] # 0
        PROVE  FALSE
    <3>1. /\ seen["pkt_in"] \in Nat /\ val["pkt_in"] \in Nat
          /\ DOMAIN val = Counters /\ "pkt_in" \in Counters
          /\ stats["pkt_in"] \in Nat
      BY CoreAssumption DEF StatsInv, ReaderType, TypeOK, StatsType, Counters
    <3>2. /\ seen["pkt_in"] <= stats["pkt_in"]
          /\ IF Torn("pkt_in")
             THEN seen["pkt_in"] < val["pkt_in"] /\ val["pkt_in"] < stats["pkt_in"] + Half
             ELSE val["pkt_in"] = seen["pkt_in"]
      <4>1. rd >= (2 * 1) - 1 /\ rd >= 2 * 1 /\ 1 \in 1 .. Len(Regs)
        BY <2>2, RegsFacts
      <4> QED
        BY <4>1, RegsFacts DEF StatsInv, ReadInv
    <3>3. stats["pkt_in"] <= MaxPackets
      <4>1. stats["pkt_in"] <= Received /\ Received <= MaxPackets /\ Received \in Nat
        BY ReceivedType DEF StatsInv
      <4> QED
        BY <2>1, <3>1, <4>1
    <3>4. val["pkt_in"] # 0 /\ val["pkt_in"] # StatMod - 1
      BY <2>1, <2>2, <3>1, <3>2, <3>3
    <3>5. "pkt_in" \in shown
      BY <2>2, <3>1, <3>4 DEF SilentInv, Printed, PRINT_STAT, Counters
    <3> QED
      BY <2>2, <3>5
  <2>3. ASSUME ard = AdapterDone, ashown = {}, began # 0
        PROVE  FALSE
    <3>1. /\ ard = 11 /\ ard >= 6
      BY <2>3, AdapterFacts
    <3>2. /\ aval["rx_packet_recv"] \in Nat /\ began \in Nat
          /\ began <= aval["rx_packet_recv"]
          /\ aval["rx_packet_recv"] < MaxPackets + Half
          /\ ashown = AdapterShown
          /\ "rx_packet_recv" \in DOMAIN aval
      BY <3>1, AdapterFacts DEF SilentInv
    <3>3. aval["rx_packet_recv"] # 0 /\ aval["rx_packet_recv"] # StatMod - 1
      BY <2>1, <2>3, <3>2
    <3>4. "rx_packet_recv" \in ashown
      BY <3>2, <3>3 DEF AdapterShown, PRINT_STAT
    <3> QED
      BY <2>3, <3>4
  <2> QED
    BY <2>2, <2>3 DEF SilentOnlyIfIdle
<1>3. StatsInv /\ StatsInv' /\ SilentInv /\ [StatsNext]_svars => SilentInv'
  BY SilentStep
<1> QED
  BY <1>1, <1>2, <1>3, StatsInvariant, PTL DEF StatsSpec
=============================================================================
