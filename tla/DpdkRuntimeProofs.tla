------------------------- MODULE DpdkRuntimeProofs -------------------------
(***************************************************************************)
(* Proofs about DpdkRuntime, for any number of ports, threads and packets  *)
(* of a burst.                                                             *)
(***************************************************************************)
EXTENDS DpdkRuntime, TLAPS

(* What thread t works on once init_dpdk has come to it.                   *)
Own(t) == [port |-> t \div queue_num, queue |-> t % queue_num]

(* init_dpdk fills thread_infos_ port by port and launches afterwards.     *)
InitInv ==
  /\ init \in {"ports", "infos"} => p <= PortNum
  /\ init = "infos" => p < PortNum
  /\ init \in {"off", "eal", "resize"} => p = 0
  /\ main = "ctor" => init = "off"
  /\ \A t \in Threads : info[t] \in {NoInfo, Own(t)}
  /\ \A t \in Threads :
       init \in {"launch", "loop"} \/ (init # "off" /\ t \div queue_num < p)
         => info[t] = Own(t)
  /\ \A t \in Threads :
       rx[t] # "off" => init = "loop" \/ (init = "launch" /\ 1 <= t /\ t < p)
  /\ init = "launch" => p >= 1 /\ \A t \in Threads : 1 <= t /\ t < p => rx[t] # "off"
  /\ init = "loop" => \A t \in Threads : rx[t] # "off"

(* A rx thread is past its wait only with a callback or at the shutdown.   *)
CallbackInv ==
  \A t \in Threads :
    /\ rx[t] \in {"poll", "process"} => cb[t] # "null"
    /\ rx[t] = "loop" => cb[t] # "null" \/ force_quit

(* Main goes through the shutdown in its order.                            *)
ShutdownInv ==
  /\ (\E q \in PortIds : port[q] = "stopped") => main \in {"stop", "exited"}
  /\ main \in {"wait_lcore", "stop", "exited"} => init = "loop" /\ rx[0] = "done"
  /\ main \in {"stop", "exited"} => \A t \in Threads : rx[t] \in {"off", "done"}

(* A callback is registered, and so a filter constructed, only after the   *)
(* port of its thread was started.                                         *)
Registering == {"assigning", "notify", "mmio", "serve", "stats"}

PortInv ==
  /\ init = "infos" => port[p] # "down"
  /\ \A t \in Threads : info[t] # NoInfo => port[info[t].port] # "down"
  /\ main \in Registering => port[0] # "down"
  /\ main = "register" /\ k > 0 => port[0] # "down"

(* The counter of main: k of register_callback, port_id of shutdown.       *)
CounterInv ==
  /\ main \in {"assigning", "notify"} => k < NumThreads
  /\ main \in {"ctor", "spawned", "waiting"} => k = 0
  /\ main = "register" => k <= NumThreads
  /\ main = "stop" => k <= PortNum

(* port_init sets the queues of a port up before init_dpdk numbers their   *)
(* threads, after the vector it divides the size of got its final size.    *)
PoolInv ==
  /\ init \notin {"off", "eal", "resize"} => infos = adjusted_threads
  /\ \A t \in Threads :
       (\/ init \in {"launch", "loop"}
        \/ init \in {"ports", "infos"} /\ t \div queue_num < p
        \/ init = "infos" /\ t \div queue_num = p)
       => mempool[Own(t)] = t

RuntimeInv ==
  /\ RuntimeTypeOK
  /\ InitInv
  /\ CallbackInv
  /\ ShutdownInv
  /\ PortInv
  /\ CounterInv
  /\ PoolInv
-----------------------------------------------------------------------------
(* Division with remainder, which the thread ids are computed by.          *)
LEMMA DivMod ==
  ASSUME NEW a \in Nat, NEW b \in Nat \ {0}
  PROVE  /\ a \div b \in Nat
         /\ a % b \in 0 .. b - 1
         /\ a = b * (a \div b) + (a % b)
  BY Z3

(* Dividing a product by one factor gives the other.                       *)
LEMMA DivOfProduct ==
  ASSUME NEW m \in Nat, NEW b \in Nat \ {0}
  PROVE  (m * b) \div b = m
  BY Z3

(* Quotient and remainder are determined by the number.                    *)
LEMMA DivModUnique ==
  ASSUME NEW t \in Nat, NEW b \in Nat \ {0}, NEW q \in Nat, NEW n \in 0 .. b - 1,
         t = q * b + n
  PROVE  t \div b = q /\ t % b = n
<1>1. /\ t \div b \in Nat
      /\ t % b \in 0 .. b - 1
      /\ t = b * (t \div b) + (t % b)
  BY DivMod
<1>2. ~(t \div b > q)
  <2>1. SUFFICES ASSUME t \div b >= q + 1 PROVE FALSE
    BY <1>1
  <2>2. b * (t \div b) >= b * (q + 1)
    BY <1>1, <2>1
  <2> QED
    BY <1>1, <2>2
<1>3. ~(t \div b < q)
  <2>1. SUFFICES ASSUME t \div b + 1 <= q PROVE FALSE
    BY <1>1
  <2>2. b * (t \div b + 1) <= b * q
    BY <1>1, <2>1
  <2> QED
    BY <1>1, <2>2
<1>4. t \div b = q
  BY <1>1, <1>2, <1>3
<1> QED
  BY <1>1, <1>4

(* The rounding of init_dpdk gives every port the same number of queues,   *)
(* at least one, and no fewer threads than were asked for.                 *)
LEMMA Rounding ==
  /\ adjusted_threads \in Nat \ {0}
  /\ queue_num \in Nat \ {0}
  /\ adjusted_threads = queue_num * PortNum
  /\ NumThreads <= adjusted_threads
  /\ PortNum <= adjusted_threads
<1>1. PortNum \in Nat \ {0} /\ NumThreads \in Nat \ {0}
  BY RuntimeAssumption
<1>2. /\ NumThreads \div PortNum \in Nat
      /\ NumThreads % PortNum \in 0 .. PortNum - 1
      /\ NumThreads = PortNum * (NumThreads \div PortNum) + (NumThreads % PortNum)
  BY <1>1, DivMod
<1> DEFINE m == IF NumThreads % PortNum # 0 THEN (NumThreads \div PortNum) + 1
                                            ELSE NumThreads \div PortNum
<1>3. adjusted_threads = m * PortNum
  BY <1>1, <1>2 DEF adjusted_threads
<1>4. m \in Nat \ {0}
  BY <1>1, <1>2
<1>5. queue_num = m
  BY <1>1, <1>3, <1>4, DivOfProduct DEF queue_num
<1>6. NumThreads <= m * PortNum /\ PortNum <= m * PortNum
  BY <1>1, <1>2, <1>4
<1> QED
  BY <1>1, <1>3, <1>4, <1>5, <1>6

(* thread_id = port_id * queue_num + q is a bijection between threads and  *)
(* queues: each thread has its queue ...                                   *)
LEMMA OwnType ==
  ASSUME NEW t \in Threads
  PROVE  /\ t \div queue_num \in PortIds
         /\ t % queue_num \in 0 .. queue_num - 1
         /\ Own(t) \in Queues
         /\ Own(t) \in Info
         /\ Own(t) # NoInfo
<1>1. /\ t \in Nat /\ t < queue_num * PortNum
      /\ queue_num \in Nat \ {0} /\ PortNum \in Nat \ {0}
  BY Rounding, RuntimeAssumption DEF Threads
<1>2. /\ t \div queue_num \in Nat
      /\ t % queue_num \in 0 .. queue_num - 1
      /\ t = queue_num * (t \div queue_num) + (t % queue_num)
  BY <1>1, DivMod
<1>3. t \div queue_num < PortNum
  <2>1. SUFFICES ASSUME t \div queue_num >= PortNum PROVE FALSE
    BY <1>1, <1>2
  <2>2. queue_num * (t \div queue_num) >= queue_num * PortNum
    BY <1>1, <1>2, <2>1
  <2> QED
    BY <1>1, <1>2, <2>2
<1>4. t \div queue_num \in PortIds
  BY <1>1, <1>2, <1>3 DEF PortIds
<1> QED
  BY <1>1, <1>2, <1>4 DEF Own, Queues, Info, NoInfo

(* ... no two threads the same one ...                                     *)
LEMMA OwnInjective ==
  ASSUME NEW t \in Threads, NEW u \in Threads, Own(t) = Own(u)
  PROVE  t = u
<1>1. t \in Nat /\ u \in Nat /\ queue_num \in Nat \ {0}
  BY Rounding DEF Threads
<1>2. t \div queue_num = u \div queue_num /\ t % queue_num = u % queue_num
  BY DEF Own
<1>3. t = queue_num * (t \div queue_num) + (t % queue_num)
  BY <1>1, DivMod
<1>4. u = queue_num * (u \div queue_num) + (u % queue_num)
  BY <1>1, DivMod
<1> QED
  BY <1>2, <1>3, <1>4

(* ... and every queue its thread: the number that lines 170 and 231 of    *)
(* dpdk.cc compute is a thread id, and that thread owns the queue.         *)
LEMMA ThreadId ==
  ASSUME NEW q \in PortIds, NEW n \in 0 .. queue_num - 1
  PROVE  /\ q * queue_num + n \in Threads
         /\ Own(q * queue_num + n) = [port |-> q, queue |-> n]
<1> DEFINE t == q * queue_num + n
<1>1. /\ queue_num \in Nat \ {0} /\ PortNum \in Nat \ {0}
      /\ q \in Nat /\ q <= PortNum - 1 /\ n \in Nat /\ n < queue_num
  BY Rounding, RuntimeAssumption DEF PortIds
<1>2. t \in Threads
  <2>1. q * queue_num <= (PortNum - 1) * queue_num
    BY <1>1
  <2>2. t < queue_num * PortNum
    BY <1>1, <2>1
  <2>3. t \in Nat
    BY <1>1
  <2> QED
    BY <2>2, <2>3, Rounding DEF Threads
<1>3. t \div queue_num = q /\ t % queue_num = n
  <2>1. t \in Nat
    BY <1>2, Rounding DEF Threads
  <2>2. t = q * queue_num + n
    OBVIOUS
  <2> HIDE DEF t
  <2> QED
    BY <1>1, <2>1, <2>2, DivModUnique
<1> QED
  BY <1>2, <1>3 DEF Own

LEMMA OwnSurjective ==
  ASSUME NEW q \in PortIds, NEW n \in 0 .. queue_num - 1
  PROVE  \E t \in Threads : Own(t) = [port |-> q, queue |-> n]
BY ThreadId
-----------------------------------------------------------------------------
(* At the start of main nothing is allocated, started or registered.       *)
LEMMA RuntimeInitOk == RuntimeInit => RuntimeInv
<1> SUFFICES ASSUME RuntimeInit PROVE RuntimeInv
  OBVIOUS
<1> USE RuntimeAssumption, Rounding DEF RuntimeInit
<1>1. RuntimeTypeOK
  <2>1. /\ main \in MainPcs /\ k \in 0 .. adjusted_threads
        /\ init \in InitPcs /\ p \in 0 .. adjusted_threads
        /\ infos \in {0, adjusted_threads}
    BY DEF MainPcs, InitPcs
  <2>2. /\ info \in [Threads -> Info]
        /\ cb \in [Threads -> {"null", "half", "set"}]
        /\ rx \in [Threads -> RxPcs]
        /\ port \in [PortIds -> {"down", "started", "stopped"}]
        /\ mempool \in [Queues -> Threads \cup {NoPool}]
    BY DEF Info, RxPcs
  <2>3. /\ held \in [Threads -> 0 .. BurstSize]
        /\ \A t \in Threads : rx[t] = "process" <=> held[t] > 0
    OBVIOUS
  <2> QED
    BY <2>1, <2>2, <2>3 DEF RuntimeTypeOK
<1>2. InitInv
  BY DEF InitInv, Threads
<1>3. CallbackInv
  BY DEF CallbackInv
<1>4. ShutdownInv
  BY DEF ShutdownInv
<1>5. PortInv
  BY DEF PortInv, Registering
<1>6. CounterInv
  BY DEF CounterInv
<1>7. PoolInv
  BY DEF PoolInv
<1> QED
  BY <1>1, <1>2, <1>3, <1>4, <1>5, <1>6, <1>7 DEF RuntimeInv

(* The steps of the program, one disjunct per action.                      *)
LEMMA Actions ==
  ASSUME [RuntimeNext]_rt
  PROVE  \/ Spawn \/ WaitInit \/ RegisterBegin \/ RegisterEnd \/ RegisterNotify \/ MakeFilter
         \/ Serve \/ TimeUp \/ TriggerShutdown \/ Join \/ WaitLcore \/ StopPort \/ Cleanup
         \/ EalInit \/ Resize \/ PortInit \/ FillInfos \/ NotifyInit \/ Launch \/ EnterLoop
         \/ SpuriousInitWake \/ InitFails
         \/ \E t \in Threads : \/ CheckCallback(t) \/ TestQuit(t) \/ Burst(t)
                               \/ Process(t) \/ SpuriousWake(t)
         \/ UNCHANGED rt
BY DEF RuntimeNext, MainStep, Register, Shutdown, InitStep, RxStep, Environment

(* What port_init leaves in the table of pools.                            *)
LEMMA PoolsAfter ==
  ASSUME RuntimeInv, PortInit
  PROVE  /\ mempool' \in [Queues -> Threads \cup {NoPool}]
         /\ \A qu \in Queues :
              mempool'[qu] = IF qu.port = p THEN p * queue_num + qu.queue ELSE mempool[qu]
<1>1. /\ p \in PortIds
      /\ infos \div PortNum = queue_num
      /\ mempool \in [Queues -> Threads \cup {NoPool}]
  BY Rounding, RuntimeAssumption
     DEF RuntimeInv, RuntimeTypeOK, PoolInv, PortInit, PortIds, queue_num
<1>2. \A qu \in Queues : qu.queue \in 0 .. queue_num - 1
  BY DEF Queues
<1>3. \A qu \in Queues : qu.queue < queue_num
  BY <1>2, Rounding
<1>4. mempool' = [qu \in Queues |-> IF qu.port = p THEN p * queue_num + qu.queue
                                                  ELSE mempool[qu]]
  BY <1>1, <1>3 DEF PortInit
<1>5. \A qu \in Queues : p * queue_num + qu.queue \in Threads
  BY <1>1, <1>2, ThreadId
<1> QED
  BY <1>1, <1>4, <1>5

(* Every step of every thread keeps the types.                             *)
LEMMA TypeStep ==
  ASSUME RuntimeInv, [RuntimeNext]_rt
  PROVE  RuntimeTypeOK'
<1> USE RuntimeAssumption, Rounding
    DEF RuntimeInv, RuntimeTypeOK, MainPcs, InitPcs, RxPcs
<1>1. CASE Spawn
  BY <1>1 DEF Spawn
<1>2. CASE WaitInit
  BY <1>2 DEF WaitInit
<1>3. CASE RegisterBegin
  BY <1>3 DEF RegisterBegin
<1>4. CASE RegisterEnd
  BY <1>4 DEF RegisterEnd
<1>5. CASE RegisterNotify
  <2>1. k \in Threads /\ k + 1 \in 0 .. adjusted_threads
    BY <1>5 DEF RegisterNotify, CounterInv, Threads
  <2>2. rx' \in [Threads -> RxPcs]
    BY <1>5, <2>1 DEF RegisterNotify
  <2>3. \A t \in Threads : rx'[t] = "process" <=> held[t] > 0
    BY <1>5, <2>1 DEF RegisterNotify
  <2> QED
    BY <1>5, <2>1, <2>2, <2>3 DEF RegisterNotify
<1>6. CASE MakeFilter
  BY <1>6 DEF MakeFilter
<1>7. CASE Serve
  BY <1>7 DEF Serve
<1>8. CASE TimeUp
  BY <1>8 DEF TimeUp
<1>9. CASE TriggerShutdown
  BY <1>9 DEF TriggerShutdown
<1>10. CASE Join
  BY <1>10 DEF Join
<1>11. CASE WaitLcore
  BY <1>11 DEF WaitLcore
<1>12. CASE StopPort
  <2>1. k \in Nat /\ k < PortNum
    BY <1>12 DEF StopPort
  <2>2. k \in PortIds /\ k + 1 \in 0 .. adjusted_threads
    <3> HIDE DEF RuntimeInv, RuntimeTypeOK
    <3> QED
      BY <2>1 DEF PortIds
  <2> QED
    BY <1>12, <2>2 DEF StopPort
<1>13. CASE Cleanup
  BY <1>13 DEF Cleanup
<1>14. CASE EalInit
  BY <1>14 DEF EalInit
<1>15. CASE Resize
  BY <1>15 DEF Resize
<1>16. CASE PortInit
  <2>1. mempool' \in [Queues -> Threads \cup {NoPool}]
    BY <1>16, PoolsAfter
  <2> QED
    BY <1>16, <2>1 DEF PortInit, InitInv
<1>17. CASE FillInfos
  <2>1. p < PortNum
    BY <1>17 DEF FillInfos, InitInv
  <2>2. \A t \in Threads : t \div queue_num = p => info'[t] = Own(t)
    BY <1>17 DEF FillInfos, Own
  <2>3. \A t \in Threads : info'[t] \in Info
    BY <1>17, <2>2, OwnType DEF FillInfos
  <2>4. info' \in [Threads -> Info]
    BY <1>17, <2>3 DEF FillInfos
  <2> QED
    BY <1>17, <2>1, <2>4 DEF FillInfos
<1>18. CASE NotifyInit
  BY <1>18 DEF NotifyInit
<1>19. CASE Launch
  <2>1. p \in Threads /\ p + 1 \in 0 .. adjusted_threads
    BY <1>19 DEF Launch, Threads
  <2>2. rx[p] = "off"
    BY <1>19, <2>1 DEF Launch, InitInv
  <2> QED
    BY <1>19, <2>1, <2>2 DEF Launch
<1>20. CASE EnterLoop
  <2>1. 0 \in Threads
    BY DEF Threads
  <2>2. rx[0] = "off"
    BY <1>20, <2>1 DEF EnterLoop, InitInv
  <2> QED
    BY <1>20, <2>1, <2>2 DEF EnterLoop
<1>21. CASE SpuriousInitWake
  BY <1>21 DEF SpuriousInitWake
<1>22. CASE InitFails
  BY <1>22 DEF InitFails
<1>23. CASE \E t \in Threads : CheckCallback(t)
  BY <1>23 DEF CheckCallback
<1>24. CASE \E t \in Threads : TestQuit(t)
  BY <1>24 DEF TestQuit
<1>25. CASE \E t \in Threads : Burst(t)
  BY <1>25 DEF Burst
<1>26. CASE \E t \in Threads : Process(t)
  BY <1>26 DEF Process
<1>27. CASE \E t \in Threads : SpuriousWake(t)
  BY <1>27 DEF SpuriousWake
<1>28. CASE UNCHANGED rt
  BY <1>28 DEF rt
<1> QED
  BY Actions, <1>1, <1>2, <1>3, <1>4, <1>5, <1>6, <1>7, <1>8, <1>9, <1>10, <1>11,
     <1>12, <1>13, <1>14, <1>15, <1>16, <1>17, <1>18, <1>19, <1>20, <1>21,
     <1>22, <1>23, <1>24, <1>25, <1>26, <1>27, <1>28

(* init_dpdk fills thread_infos_ before it launches, thread by thread.     *)
LEMMA InitPhases ==
  ASSUME RuntimeInv, [RuntimeNext]_rt
  PROVE  InitInv'
<1> USE RuntimeAssumption, Rounding
    DEF RuntimeInv, RuntimeTypeOK, InitInv
<1>1. CASE Spawn
  <2>1. /\ main' = "spawned" /\ init = "off" /\ init' = "eal" /\ p = 0
        /\ UNCHANGED <<p, info, rx>>
    BY <1>1 DEF Spawn
  <2>2. \A t \in Threads : ~(t \div queue_num < 0)
    BY OwnType DEF PortIds
  <2> HIDE DEF Own
  <2> QED
    BY <2>1, <2>2
<1>2. CASE WaitInit
  BY <1>2 DEF WaitInit
<1>3. CASE RegisterBegin
  BY <1>3 DEF RegisterBegin
<1>4. CASE RegisterEnd
  BY <1>4 DEF RegisterEnd
<1>5. CASE RegisterNotify
  BY <1>5 DEF RegisterNotify
<1>6. CASE MakeFilter
  BY <1>6 DEF MakeFilter
<1>7. CASE Serve
  BY <1>7 DEF Serve
<1>8. CASE TimeUp
  BY <1>8 DEF TimeUp
<1>9. CASE TriggerShutdown
  BY <1>9 DEF TriggerShutdown
<1>10. CASE Join
  BY <1>10 DEF Join
<1>11. CASE WaitLcore
  BY <1>11 DEF WaitLcore
<1>12. CASE StopPort
  BY <1>12 DEF StopPort
<1>13. CASE Cleanup
  BY <1>13 DEF Cleanup
<1>14. CASE EalInit
  BY <1>14 DEF EalInit
<1>15. CASE Resize
  BY <1>15 DEF Resize
<1>16. CASE PortInit
  BY <1>16 DEF PortInit
<1>17. CASE FillInfos
  <2>1. /\ init = "infos" /\ init' = "ports" /\ p' = p + 1
        /\ UNCHANGED <<main, rx>> /\ p < PortNum /\ p \in Nat
    BY <1>17 DEF FillInfos
  <2>2. \A t \in Threads :
          info'[t] = IF t \div queue_num = p THEN Own(t) ELSE info[t]
    BY <1>17 DEF FillInfos, Own
  <2>3. \A t \in Threads : t \div queue_num \in Nat
    BY OwnType DEF PortIds
  <2> HIDE DEF Own
  <2>4. \A t \in Threads : info'[t] \in {NoInfo, Own(t)}
    BY <2>2
  <2>5. \A t \in Threads : t \div queue_num < p + 1 => info'[t] = Own(t)
    BY <2>1, <2>2, <2>3
  <2> QED
    BY <2>1, <2>4, <2>5
<1>18. CASE NotifyInit
  <2>1. \A t \in Threads : t \div queue_num < PortNum
    BY OwnType DEF PortIds
  <2>2. \A t \in Threads : info[t] = Own(t)
    BY <1>18, <2>1 DEF NotifyInit
  <2> HIDE DEF Own
  <2>3. /\ init = "ports" /\ init' = "launch" /\ p' = 1 /\ UNCHANGED <<info, rx>>
        /\ main' = IF main = "waiting" THEN "register" ELSE main
    BY <1>18 DEF NotifyInit
  <2>4. \A t \in Threads : rx[t] = "off"
    BY <2>3
  <2>5. main' # "ctor" /\ (\A t \in Threads : ~(1 <= t /\ t < p'))
    BY <2>3 DEF Threads
  <2> QED
    BY <2>2, <2>3, <2>4, <2>5
<1>19. CASE Launch
  <2>1. /\ init = "launch" /\ p \in Threads /\ p >= 1 /\ p' = p + 1
        /\ rx' = [rx EXCEPT ![p] = "check"] /\ UNCHANGED <<main, init, info>>
    BY <1>19 DEF Launch, Threads
  <2>2. \A t \in Threads : t \in Nat
    BY DEF Threads
  <2> HIDE DEF Own
  <2>3. \A t \in Threads : rx'[t] # "off" => 1 <= t /\ t < p'
    BY <2>1, <2>2
  <2>4. \A t \in Threads : 1 <= t /\ t < p' => rx'[t] # "off"
    BY <2>1, <2>2
  <2> QED
    BY <2>1, <2>3, <2>4
<1>20. CASE EnterLoop
  <2>1. /\ init = "launch" /\ init' = "loop" /\ p >= adjusted_threads
        /\ rx' = [rx EXCEPT ![0] = "check"] /\ UNCHANGED <<main, p, info>>
    BY <1>20 DEF EnterLoop
  <2>2. \A t \in Threads : t \in Nat /\ t < adjusted_threads
    BY DEF Threads
  <2> HIDE DEF Own
  <2>3. \A t \in Threads : rx'[t] # "off"
    BY <2>1, <2>2
  <2> QED
    BY <2>1, <2>3
<1>21. CASE SpuriousInitWake
  BY <1>21 DEF SpuriousInitWake
<1>22. CASE \E t \in Threads : CheckCallback(t)
  BY <1>22 DEF CheckCallback
<1>23. CASE \E t \in Threads : TestQuit(t)
  BY <1>23 DEF TestQuit
<1>24. CASE \E t \in Threads : Burst(t)
  BY <1>24 DEF Burst
<1>25. CASE \E t \in Threads : Process(t)
  BY <1>25 DEF Process
<1>26. CASE \E t \in Threads : SpuriousWake(t)
  BY <1>26 DEF SpuriousWake
<1>27. CASE \/ InitFails
            \/ UNCHANGED rt
  <2>1. UNCHANGED <<main, init, p, info, rx>>
    BY <1>27 DEF InitFails, rt
  <2> QED
    BY <2>1
<1> QED
  BY Actions, <1>1, <1>2, <1>3, <1>4, <1>5, <1>6, <1>7, <1>8, <1>9, <1>10, <1>11,
     <1>12, <1>13, <1>14, <1>15, <1>16, <1>17, <1>18, <1>19, <1>20, <1>21,
     <1>22, <1>23, <1>24, <1>25, <1>26, <1>27

(* port_init sets up the queues of port p, each with the pool of the thread*)
(* that will poll it, and no other step touches a queue's pool.            *)
LEMMA PoolStep ==
  ASSUME RuntimeInv, [RuntimeNext]_rt
  PROVE  PoolInv'
<1> USE DEF PoolInv
<1>0. PoolInv
  BY DEF RuntimeInv
<1>1. CASE Spawn \/ EalInit
  BY <1>1 DEF Spawn, EalInit
<1>2. CASE Resize
  <2>1. p = 0
    BY <1>2 DEF Resize, RuntimeInv, InitInv
  <2>2. \A t \in Threads : ~(t \div queue_num < 0)
    BY OwnType DEF PortIds
  <2> QED
    BY <1>2, <2>1, <2>2 DEF Resize
<1>3. CASE PortInit
  <2>1. /\ init = "ports" /\ init' = "infos" /\ UNCHANGED <<infos, p>> /\ p \in Nat
    BY <1>3 DEF PortInit, RuntimeInv, RuntimeTypeOK
  <2>2. ASSUME NEW t \in Threads, t \div queue_num <= p
        PROVE  mempool'[Own(t)] = t
    <3>1. /\ Own(t) \in Queues
          /\ t \div queue_num \in Nat
          /\ Own(t).port = t \div queue_num /\ Own(t).queue = t % queue_num
      BY OwnType DEF Own, PortIds
    <3>2. mempool'[Own(t)] = IF t \div queue_num = p THEN p * queue_num + (t % queue_num)
                                                    ELSE mempool[Own(t)]
      BY <1>3, <3>1, PoolsAfter
    <3>3. t = queue_num * (t \div queue_num) + (t % queue_num)
          /\ queue_num \in Nat /\ t % queue_num \in Nat
      BY DivMod, Rounding DEF Threads
    <3>4. CASE t \div queue_num = p
      <4>1. p * queue_num = queue_num * p
        BY <2>1, <3>3
      <4> QED
        BY <3>2, <3>3, <3>4, <4>1
    <3>5. CASE t \div queue_num < p
      <4>1. mempool'[Own(t)] = mempool[Own(t)]
        BY <2>1, <3>1, <3>2, <3>5
      <4>2. mempool[Own(t)] = t
        BY <1>0, <2>1, <3>5
      <4> QED
        BY <4>1, <4>2
    <3> QED
      BY <2>1, <2>2, <3>1, <3>4, <3>5
  <2>3. \A t \in Threads : t \div queue_num \in Nat
    BY OwnType DEF PortIds
  <2> HIDE DEF Own
  <2>4. \A t \in Threads :
          t \div queue_num < p \/ t \div queue_num = p => mempool'[Own(t)] = t
    BY <2>1, <2>2, <2>3
  <2> QED
    BY <1>0, <2>1, <2>4
<1>4. CASE FillInfos
  <2>1. /\ init = "infos" /\ init' = "ports" /\ p' = p + 1 /\ p \in Nat
        /\ UNCHANGED <<infos, mempool>>
    BY <1>4 DEF FillInfos, RuntimeInv, RuntimeTypeOK
  <2>2. \A t \in Threads : t \div queue_num \in Nat
    BY OwnType DEF PortIds
  <2> QED
    BY <1>0, <2>1, <2>2
<1>5. CASE NotifyInit
  <2>1. /\ init = "ports" /\ init' = "launch" /\ p = PortNum /\ UNCHANGED <<infos, mempool>>
    BY <1>5 DEF NotifyInit
  <2>2. \A t \in Threads : t \div queue_num < PortNum
    BY OwnType, RuntimeAssumption DEF PortIds
  <2> QED
    BY <1>0, <2>1, <2>2
<1>6. CASE Launch \/ EnterLoop
  BY <1>0, <1>6 DEF Launch, EnterLoop
<1>7. CASE \/ WaitInit \/ RegisterBegin \/ RegisterEnd \/ RegisterNotify \/ MakeFilter
            \/ Serve \/ TimeUp \/ TriggerShutdown \/ Join \/ WaitLcore \/ StopPort
            \/ Cleanup \/ SpuriousInitWake \/ InitFails
            \/ (\E t \in Threads : \/ CheckCallback(t) \/ TestQuit(t) \/ Burst(t)
                                   \/ Process(t) \/ SpuriousWake(t))
            \/ UNCHANGED rt
  <2>1. UNCHANGED <<init, p, infos, mempool>>
    BY <1>7 DEF WaitInit, RegisterBegin, RegisterEnd, RegisterNotify, MakeFilter, Serve,
       TimeUp, TriggerShutdown, Join, WaitLcore, StopPort, Cleanup, SpuriousInitWake,
       InitFails, CheckCallback, TestQuit, Burst, Process, SpuriousWake, rt
  <2> QED
    BY <1>0, <2>1
<1> QED
  BY Actions, <1>1, <1>2, <1>3, <1>4, <1>5, <1>6, <1>7

(* No step takes a callback back or force_quit_.                           *)
LEMMA CallbackStep ==
  ASSUME RuntimeInv, [RuntimeNext]_rt
  PROVE  CallbackInv'
<1> USE RuntimeAssumption, Rounding
    DEF RuntimeInv, RuntimeTypeOK, CallbackInv
<1>1. CASE RegisterBegin
  BY <1>1 DEF RegisterBegin
<1>2. CASE RegisterEnd
  BY <1>2 DEF RegisterEnd
<1>3. CASE RegisterNotify
  BY <1>3 DEF RegisterNotify
<1>4. CASE TriggerShutdown
  BY <1>4 DEF TriggerShutdown
<1>5. CASE Launch
  BY <1>5 DEF Launch
<1>6. CASE EnterLoop
  BY <1>6 DEF EnterLoop
<1>7. CASE \E t \in Threads : CheckCallback(t)
  BY <1>7 DEF CheckCallback
<1>8. CASE \E t \in Threads : TestQuit(t)
  BY <1>8 DEF TestQuit
<1>9. CASE \E t \in Threads : Burst(t)
  BY <1>9 DEF Burst
<1>10. CASE \E t \in Threads : Process(t)
  BY <1>10 DEF Process
<1>11. CASE \E t \in Threads : SpuriousWake(t)
  BY <1>11 DEF SpuriousWake
<1>12. CASE \/ Spawn \/ WaitInit \/ MakeFilter \/ Serve \/ TimeUp \/ Join
               \/ WaitLcore \/ StopPort \/ Cleanup \/ EalInit \/ Resize
               \/ PortInit \/ FillInfos \/ NotifyInit \/ SpuriousInitWake
               \/ InitFails
            \/ UNCHANGED rt
  <2>1. UNCHANGED <<cb, rx, force_quit>>
    BY <1>12 DEF Spawn, WaitInit, MakeFilter, Serve, TimeUp, Join, WaitLcore, StopPort,
      Cleanup, EalInit, Resize, PortInit, FillInfos, NotifyInit,
      SpuriousInitWake, InitFails, rt
  <2> QED
    BY <2>1
<1> QED
  BY Actions, <1>1, <1>2, <1>3, <1>4, <1>5, <1>6, <1>7, <1>8, <1>9, <1>10, <1>11,
     <1>12

(* Each step of the shutdown finds the one before it done.                 *)
LEMMA ShutdownStep ==
  ASSUME RuntimeInv, [RuntimeNext]_rt
  PROVE  ShutdownInv'
<1> USE RuntimeAssumption, Rounding
    DEF RuntimeInv, RuntimeTypeOK, InitInv, ShutdownInv
<1>1. CASE Spawn
  BY <1>1 DEF Spawn
<1>2. CASE WaitInit
  BY <1>2 DEF WaitInit
<1>3. CASE RegisterBegin
  BY <1>3 DEF RegisterBegin
<1>4. CASE RegisterEnd
  BY <1>4 DEF RegisterEnd
<1>5. CASE RegisterNotify
  BY <1>5 DEF RegisterNotify
<1>6. CASE MakeFilter
  BY <1>6 DEF MakeFilter
<1>7. CASE Serve
  BY <1>7 DEF Serve
<1>8. CASE TimeUp
  BY <1>8 DEF TimeUp
<1>9. CASE TriggerShutdown
  BY <1>9 DEF TriggerShutdown
<1>10. CASE Join
  BY <1>10 DEF Join
<1>11. CASE WaitLcore
  BY <1>11 DEF WaitLcore
<1>12. CASE StopPort
  BY <1>12 DEF StopPort
<1>13. CASE Cleanup
  BY <1>13 DEF Cleanup
<1>14. CASE EalInit
  BY <1>14 DEF EalInit
<1>15. CASE Resize
  BY <1>15 DEF Resize
<1>16. CASE PortInit
  BY <1>16 DEF PortInit
<1>17. CASE FillInfos
  BY <1>17 DEF FillInfos
<1>18. CASE NotifyInit
  BY <1>18 DEF NotifyInit
<1>19. CASE Launch
  BY <1>19 DEF Launch
<1>20. CASE EnterLoop
  BY <1>20 DEF EnterLoop
<1>21. CASE SpuriousInitWake
  BY <1>21 DEF SpuriousInitWake
<1>22. CASE \E t \in Threads : CheckCallback(t)
  BY <1>22 DEF CheckCallback
<1>23. CASE \E t \in Threads : TestQuit(t)
  BY <1>23 DEF TestQuit
<1>24. CASE \E t \in Threads : Burst(t)
  BY <1>24 DEF Burst
<1>25. CASE \E t \in Threads : Process(t)
  <2>1. PICK t \in Threads : Process(t)
    BY <1>25
  <2>2. main \notin {"stop", "exited"} /\ UNCHANGED <<main, init, port>>
    BY <2>1 DEF Process
  <2>3. main = "wait_lcore" => t # 0
    BY <2>1 DEF Process
  <2>4. rx' = rx \/ \E v \in RxPcs : rx' = [rx EXCEPT ![t] = v]
    BY <2>1 DEF Process, RxPcs
  <2>5. 0 \in Threads
    BY DEF Threads
  <2> QED
    BY <2>2, <2>3, <2>4, <2>5
<1>26. CASE \E t \in Threads : SpuriousWake(t)
  BY <1>26 DEF SpuriousWake
<1>27. CASE \/ InitFails
            \/ UNCHANGED rt
  <2>1. UNCHANGED <<main, init, rx, port>>
    BY <1>27 DEF InitFails, rt
  <2> QED
    BY <2>1
<1> QED
  BY Actions, <1>1, <1>2, <1>3, <1>4, <1>5, <1>6, <1>7, <1>8, <1>9, <1>10, <1>11,
     <1>12, <1>13, <1>14, <1>15, <1>16, <1>17, <1>18, <1>19, <1>20, <1>21,
     <1>22, <1>23, <1>24, <1>25, <1>26, <1>27

(* Ports are started before their threads are known to main.               *)
LEMMA PortStep ==
  ASSUME RuntimeInv, [RuntimeNext]_rt
  PROVE  PortInv'
<1> USE RuntimeAssumption, Rounding
    DEF RuntimeInv, RuntimeTypeOK, InitInv, ShutdownInv, PortInv, CounterInv, Registering
<1>1. CASE Spawn
  BY <1>1 DEF Spawn
<1>2. CASE WaitInit
  BY <1>2 DEF WaitInit
<1>3. CASE RegisterBegin
  <2>1. 0 \in Threads /\ Own(0).port = 0
    <3>1. 0 \in Threads /\ 0 = 0 * queue_num + 0
      BY DEF Threads
    <3> QED
      BY <3>1, DivModUnique DEF Own
  <2>2. main = "register" /\ k \in Nat /\ UNCHANGED <<k, init, p, info, port>>
    BY <1>3 DEF RegisterBegin
  <2>3. main' = "assigning" => port[0] # "down"
    <3>1. CASE k > 0
      BY <3>1, <2>2
    <3>2. CASE k = 0 /\ main' = "assigning"
      <4>1. info[0] # NoInfo
        BY <3>2, <1>3 DEF RegisterBegin
      <4> QED
        BY <4>1, <2>1
    <3> QED
      BY <3>1, <3>2, <2>2
  <2>4. main' \in {"register", "assigning"}
    BY <1>3 DEF RegisterBegin
  <2> QED
    BY <2>2, <2>3, <2>4
<1>4. CASE RegisterEnd
  BY <1>4 DEF RegisterEnd
<1>5. CASE RegisterNotify
  BY <1>5 DEF RegisterNotify
<1>6. CASE MakeFilter
  BY <1>6 DEF MakeFilter
<1>7. CASE Serve
  BY <1>7 DEF Serve
<1>8. CASE TimeUp
  BY <1>8 DEF TimeUp
<1>9. CASE TriggerShutdown
  BY <1>9 DEF TriggerShutdown
<1>10. CASE Join
  BY <1>10 DEF Join
<1>11. CASE WaitLcore
  BY <1>11 DEF WaitLcore
<1>12. CASE StopPort
  BY <1>12 DEF StopPort
<1>13. CASE Cleanup
  BY <1>13 DEF Cleanup
<1>14. CASE EalInit
  BY <1>14 DEF EalInit
<1>15. CASE Resize
  BY <1>15 DEF Resize
<1>16. CASE PortInit
  <2>1. /\ p \in PortIds /\ port' = [port EXCEPT ![p] = "started"]
        /\ init' = "infos" /\ UNCHANGED <<main, k, p, info>>
    BY <1>16 DEF PortInit, PortIds
  <2>2. \A q \in PortIds : port[q] # "down" => port'[q] # "down"
    BY <2>1
  <2>3. \A t \in Threads : info[t] # NoInfo => info[t].port \in PortIds
    BY OwnType DEF Own
  <2>4. 0 \in PortIds
    BY DEF PortIds
  <2> QED
    BY <2>1, <2>2, <2>3, <2>4
<1>17. CASE FillInfos
  BY <1>17 DEF FillInfos
<1>18. CASE NotifyInit
  BY <1>18 DEF NotifyInit
<1>19. CASE Launch
  BY <1>19 DEF Launch
<1>20. CASE EnterLoop
  BY <1>20 DEF EnterLoop
<1>21. CASE SpuriousInitWake
  BY <1>21 DEF SpuriousInitWake
<1>22. CASE \/ InitFails
            \/ \E t \in Threads : CheckCallback(t) \/ TestQuit(t) \/ Burst(t) \/ Process(t) \/ SpuriousWake(t)
            \/ UNCHANGED rt
  <2>1. UNCHANGED <<main, k, init, p, info, port>>
    BY <1>22 DEF InitFails, CheckCallback, TestQuit, Burst, Process, SpuriousWake, rt
  <2> QED
    BY <2>1
<1> QED
  BY Actions, <1>1, <1>2, <1>3, <1>4, <1>5, <1>6, <1>7, <1>8, <1>9, <1>10, <1>11,
     <1>12, <1>13, <1>14, <1>15, <1>16, <1>17, <1>18, <1>19, <1>20, <1>21,
     <1>22

(* The counter of main stays within its loop.                              *)
LEMMA CounterStep ==
  ASSUME RuntimeInv, [RuntimeNext]_rt
  PROVE  CounterInv'
<1> USE RuntimeAssumption, Rounding
    DEF RuntimeInv, RuntimeTypeOK, CounterInv
<1>1. CASE Spawn
  BY <1>1 DEF Spawn
<1>2. CASE WaitInit
  BY <1>2 DEF WaitInit
<1>3. CASE RegisterBegin
  BY <1>3 DEF RegisterBegin
<1>4. CASE RegisterEnd
  BY <1>4 DEF RegisterEnd
<1>5. CASE RegisterNotify
  BY <1>5 DEF RegisterNotify
<1>6. CASE MakeFilter
  BY <1>6 DEF MakeFilter
<1>7. CASE Serve
  BY <1>7 DEF Serve
<1>8. CASE TimeUp
  BY <1>8 DEF TimeUp
<1>9. CASE TriggerShutdown
  BY <1>9 DEF TriggerShutdown
<1>10. CASE Join
  BY <1>10 DEF Join
<1>11. CASE WaitLcore
  BY <1>11 DEF WaitLcore
<1>12. CASE StopPort
  BY <1>12 DEF StopPort
<1>13. CASE Cleanup
  BY <1>13 DEF Cleanup
<1>14. CASE NotifyInit
  BY <1>14 DEF NotifyInit
<1>15. CASE SpuriousInitWake
  BY <1>15 DEF SpuriousInitWake
<1>16. CASE \/ EalInit \/ Resize \/ PortInit \/ FillInfos \/ Launch
               \/ EnterLoop \/ InitFails
            \/ \E t \in Threads : CheckCallback(t) \/ TestQuit(t) \/ Burst(t) \/ Process(t) \/ SpuriousWake(t)
            \/ UNCHANGED rt
  <2>1. UNCHANGED <<main, k>>
    BY <1>16 DEF EalInit, Resize, PortInit, FillInfos, Launch, EnterLoop, InitFails,
      CheckCallback, TestQuit, Burst, Process, SpuriousWake, rt
  <2> QED
    BY <2>1
<1> QED
  BY Actions, <1>1, <1>2, <1>3, <1>4, <1>5, <1>6, <1>7, <1>8, <1>9, <1>10, <1>11,
     <1>12, <1>13, <1>14, <1>15, <1>16
-----------------------------------------------------------------------------
(* The invariant of the runtime, each conjunct of which the steps keep.    *)
THEOREM RuntimeInvariant == RuntimeSpec => []RuntimeInv
<1>1. RuntimeInv /\ [RuntimeNext]_rt => RuntimeInv'
  BY TypeStep, InitPhases, CallbackStep, ShutdownStep, PortStep, CounterStep, PoolStep
     DEF RuntimeInv
<1> QED
  BY RuntimeInitOk, <1>1, PTL DEF RuntimeSpec

(* Types: the counters of main and of init_dpdk stay in range, and a burst *)
(* is handled to its last packet (dpdk.cc:95-113).                         *)
THEOREM RuntimeTypeCorrect == RuntimeSpec => []RuntimeTypeOK
<1>1. RuntimeInv => RuntimeTypeOK
  BY DEF RuntimeInv
<1> QED
  BY RuntimeInvariant, <1>1, PTL

(* No thread ever holds packets without a callback, whatever the number of *)
(* threads that nobody registers (dpdk.cc:66-81).                          *)
THEOREM NeverCallsNullCorrect == RuntimeSpec => []NeverCallsNull
<1>1. RuntimeInv => NeverCallsNull
  BY DEF RuntimeInv, CallbackInv, NeverCallsNull
<1> QED
  BY RuntimeInvariant, <1>1, PTL

(* Ports are stopped only when every thread is out of its loop and has     *)
(* freed its packets (dpdk.cc:46-54).                                      *)
THEOREM DrainedBeforeStopCorrect == RuntimeSpec => []DrainedBeforeStop
<1>1. RuntimeInv => DrainedBeforeStop
  <2> SUFFICES ASSUME RuntimeInv, NEW q \in PortIds, port[q] = "stopped",
                      NEW t \in Threads
               PROVE  rx[t] \in {"off", "done"} /\ held[t] = 0
    BY DEF DrainedBeforeStop
  <2>1. rx[t] \in {"off", "done"}
    BY DEF RuntimeInv, ShutdownInv
  <2>2. held[t] \in Nat /\ ~(held[t] > 0)
    BY <2>1, RuntimeAssumption DEF RuntimeInv, RuntimeTypeOK
  <2> QED
    BY <2>1, <2>2
<1> QED
  BY RuntimeInvariant, <1>1, PTL

(* MMIO is used only between the start and the stop of port 0 (main.cc:58  *)
(* and 64-67), also after a spurious return from the constructor's wait.   *)
THEOREM MmioWhileUpCorrect == RuntimeSpec => []MmioWhileUp
<1>1. RuntimeInv => MmioWhileUp
  <2> SUFFICES ASSUME RuntimeInv, main \in {"mmio", "serve", "stats"}
               PROVE  port[0] = "started"
    BY DEF MmioWhileUp
  <2>1. 0 \in PortIds
    BY RuntimeAssumption DEF PortIds
  <2>2. port[0] \in {"down", "started", "stopped"}
    BY <2>1 DEF RuntimeInv, RuntimeTypeOK
  <2>3. port[0] # "down"
    BY DEF RuntimeInv, PortInv, Registering
  <2>4. port[0] # "stopped"
    BY <2>1 DEF RuntimeInv, ShutdownInv
  <2> QED
    BY <2>2, <2>3, <2>4
<1> QED
  BY RuntimeInvariant, <1>1, PTL

(* The thread ids computed at dpdk.cc:170 give each queue of each port one *)
(* thread and no two threads the same queue, for every number of ports and *)
(* of threads asked for.                                                   *)
THEOREM QueueOwnershipCorrect == RuntimeSpec => []QueueOwnership
<1>1. RuntimeInv => QueueOwnership
  <2> SUFFICES ASSUME RuntimeInv PROVE QueueOwnership
    OBVIOUS
  <2>1. ASSUME NEW t \in Threads, rx[t] # "off" PROVE info[t] = Own(t)
    BY <2>1 DEF RuntimeInv, InitInv
  <2>2. ASSUME NEW t \in Threads, NEW u \in Threads,
               t # u, rx[t] # "off", rx[u] # "off"
        PROVE  info[t] # info[u]
    <3>1. info[t] = Own(t) /\ info[u] = Own(u)
      BY <2>1, <2>2
    <3> QED
      BY <2>2, <3>1, OwnInjective
  <2>3. ASSUME init = "loop", NEW q \in PortIds, NEW n \in 0 .. queue_num - 1
        PROVE  \E t \in Threads : rx[t] # "off" /\ info[t] = [port |-> q, queue |-> n]
    <3>1. PICK t \in Threads : Own(t) = [port |-> q, queue |-> n]
      BY OwnSurjective
    <3>2. rx[t] # "off"
      BY <2>3 DEF RuntimeInv, InitInv
    <3> QED
      BY <2>1, <3>1, <3>2
  <2>4. ASSUME NEW t \in Threads, rx[t] # "off" PROVE mempool[info[t]] = t
    <3>1. init \in {"launch", "loop"}
      BY <2>4 DEF RuntimeInv, InitInv
    <3>2. mempool[Own(t)] = t
      BY <3>1 DEF RuntimeInv, PoolInv
    <3> QED
      BY <2>1, <2>4, <3>2
  <2> QED
    BY <2>2, <2>3, <2>4 DEF QueueOwnership
<1> QED
  BY RuntimeInvariant, <1>1, PTL
-----------------------------------------------------------------------------
(* A thread asleep in the wait for its callback either has none, or main   *)
(* has assigned it and is about to notify that thread and no other.        *)
NoLostWakeup ==
  \A t \in Threads :
    rx[t] = "sleep" /\ cb[t] # "null" => main \in {"assigning", "notify"} /\ t = k

Registered == {"mmio", "serve", "stats", "join", "wait_lcore", "stop", "exited"}

(* Main registers the callbacks in order, those of the threads asked for.  *)
RegisterInv ==
  /\ NoLostWakeup
  /\ main # "ctor" => init # "off"
  /\ main \in {"register", "assigning", "notify"} =>
       \A t \in Threads : t < k => cb[t] = "set"
  /\ main = "notify" => cb[k] = "set"
  /\ main \in Registered => \A t \in Threads : t < NumThreads => cb[t] = "set"

LEMMA RegisterStep ==
  ASSUME RuntimeInv, RegisterInv, [RuntimeNext]_rt
  PROVE  RegisterInv'
<1> USE RuntimeAssumption, Rounding
    DEF RuntimeInv, RuntimeTypeOK, CounterInv, RegisterInv, NoLostWakeup, Registered
<1>0. \A t \in Threads : t \in Int
  BY DEF Threads
<1>1. CASE Spawn \/ WaitInit
  BY <1>1 DEF Spawn, WaitInit
<1>2. CASE RegisterBegin
  BY <1>0, <1>2 DEF RegisterBegin
<1>3. CASE RegisterEnd
  <2>1. k \in Threads
    BY <1>3 DEF RegisterEnd, Threads
  <2>2. /\ main = "assigning" /\ main' = "notify" /\ cb' = [cb EXCEPT ![k] = "set"]
        /\ UNCHANGED <<k, init, rx>>
    BY <1>3 DEF RegisterEnd
  <2>3. \A t \in Threads : cb'[t] = IF t = k THEN "set" ELSE cb[t]
    BY <2>2
  <2> QED
    BY <2>1, <2>2, <2>3
<1>4. CASE RegisterNotify
  BY <1>0, <1>4 DEF RegisterNotify
<1>5. CASE MakeFilter
  BY <1>0, <1>5 DEF MakeFilter
<1>6. CASE Serve \/ TimeUp \/ TriggerShutdown \/ Join \/ Cleanup
  BY <1>6 DEF Serve, TimeUp, TriggerShutdown, Join, Cleanup
<1>7. CASE WaitLcore \/ StopPort
  BY <1>7 DEF WaitLcore, StopPort
<1>8. CASE EalInit \/ Resize \/ PortInit \/ FillInfos
  BY <1>8 DEF EalInit, Resize, PortInit, FillInfos
<1>9. CASE NotifyInit \/ SpuriousInitWake
  BY <1>0, <1>9 DEF NotifyInit, SpuriousInitWake, Threads
<1>10. CASE Launch \/ EnterLoop
  BY <1>10 DEF Launch, EnterLoop
<1>11. CASE \E t \in Threads : CheckCallback(t)
  BY <1>11 DEF CheckCallback
<1>12. CASE \E t \in Threads : TestQuit(t) \/ Burst(t) \/ Process(t) \/ SpuriousWake(t)
  BY <1>12 DEF TestQuit, Burst, Process, SpuriousWake
<1>13. CASE InitFails \/ UNCHANGED rt
  BY <1>13 DEF InitFails, rt
<1> QED
  BY Actions, <1>1, <1>2, <1>3, <1>4, <1>5, <1>6, <1>7, <1>8, <1>9, <1>10, <1>11,
     <1>12, <1>13

(* What register_callback and the wait of dpdk_rx_loop keep of each other, *)
(* a burst of registrations and spurious wake-ups included.                *)
THEOREM RegisterInvariant == RuntimeSpec => []RegisterInv
<1>1. RuntimeInit => RegisterInv
  BY DEF RuntimeInit, RegisterInv, NoLostWakeup, Registered
<1> QED
  BY RuntimeInvariant, <1>1, RegisterStep, PTL DEF RuntimeSpec

(* The notification of register_callback is not lost, although the         *)
(* callback is assigned without the mutex that the wait holds              *)
(* (dpdk.cc:41-42, 66-74): the safety half of RegisteredStarts.            *)
THEOREM NoLostWakeupCorrect == RuntimeSpec => []NoLostWakeup
<1>1. RegisterInv => NoLostWakeup
  BY DEF RegisterInv
<1> QED
  BY RegisterInvariant, <1>1, PTL

(* Who the shutdown waits for: main itself is past its wait, or init_dpdk  *)
(* or a rx thread is running, or one sleeps that nobody has registered.    *)
Moving ==
  \/ main = "join" /\ init = "loop" /\ rx[0] = "done"
  \/ main = "wait_lcore" /\ \A t \in Threads \ {0} : rx[t] \in {"off", "done"}
  \/ init \in {"eal", "resize", "ports", "infos", "launch"}
  \/ \E t \in Threads : rx[t] \in {"check", "loop", "poll", "process"}

Unregistered == \E t \in Threads : t >= NumThreads /\ rx[t] = "sleep"

ShutdownBlocks == main \in {"join", "wait_lcore"} => Moving \/ Unregistered

LEMMA BlocksOnlyUnregistered ==
  ASSUME RuntimeInv, RegisterInv
  PROVE  ShutdownBlocks
<1> SUFFICES ASSUME main \in {"join", "wait_lcore"}, ~Moving
             PROVE  Unregistered
  BY DEF ShutdownBlocks
<1> USE DEF RuntimeInv, RuntimeTypeOK
<1>1. init = "loop"
  BY DEF Moving, RegisterInv, InitPcs
<1>2. \A t \in Threads : rx[t] \in {"done", "sleep"}
  BY <1>1 DEF Moving, InitInv, RxPcs
<1>3. PICK t \in Threads : rx[t] = "sleep"
  <2>1. 0 \in Threads
    BY RuntimeAssumption, Rounding DEF Threads
  <2> QED
    BY <1>1, <1>2, <2>1 DEF Moving
<1>4. cb[t] = "null"
  BY <1>3 DEF RegisterInv, NoLostWakeup
<1>5. ~(t < NumThreads)
  BY <1>4 DEF RegisterInv, Registered
<1>6. t >= NumThreads
  BY <1>5, RuntimeAssumption DEF Threads
<1> QED
  BY <1>3, <1>6 DEF Unregistered

(* The shutdown of a server blocks on nothing but threads that dpdk.cc:    *)
(* 139-146 added and main.cc:60-63 does not register.                      *)
THEOREM ShutdownBlocksCorrect == RuntimeSpec => []ShutdownBlocks
BY RuntimeInvariant, RegisterInvariant, BlocksOnlyUnregistered, PTL

(* Asked for a multiple of the ports, the shutdown never blocks.           *)
THEOREM NoHangOnMultiples ==
  ASSUME NumThreads % PortNum = 0
  PROVE  RuntimeSpec => [](main \in {"join", "wait_lcore"} => Moving)
<1>1. \A t \in Threads : t < NumThreads
  BY RuntimeAssumption DEF Threads, adjusted_threads
<1>2. ShutdownBlocks => (main \in {"join", "wait_lcore"} => Moving)
  BY <1>1, RuntimeAssumption DEF ShutdownBlocks, Unregistered, Threads
<1> QED
  BY <1>2, ShutdownBlocksCorrect, PTL
=============================================================================
