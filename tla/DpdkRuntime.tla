---------------------------- MODULE DpdkRuntime ----------------------------
(***************************************************************************)
(* The threads of the server (software/src/dpdk.cc with main of main.cc):  *)
(* main constructs DPDK, registers the callbacks, serves and shuts down;   *)
(* main_thread_ initialises DPDK, launches the workers and becomes rx      *)
(* thread 0; the workers run dpdk_rx_loop on their lcores.                 *)
(* EAL, the ports and the lcores are external and seen through the calls   *)
(* that dpdk.cc makes to them.                                             *)
(***************************************************************************)
EXTENDS Integers

CONSTANTS
  PortNum,     \* rte_eth_dev_count_avail()
  NumThreads,  \* args.num_threads
  BurstSize    \* DPDK_BURST_SIZE

ASSUME RuntimeAssumption ==
  /\ PortNum \in Nat \ {0}
  /\ NumThreads \in Nat \ {0}
  /\ BurstSize \in Nat \ {0}

adjusted_threads ==
  IF NumThreads % PortNum # 0 THEN ((NumThreads \div PortNum) + 1) * PortNum
                              ELSE NumThreads
queue_num == adjusted_threads \div PortNum

Threads == 0 .. adjusted_threads - 1
PortIds == 0 .. PortNum - 1

VARIABLES
  status,      \* "up"; "fatal": log_fatal in the initialisation; "crashed"
  main, k,     \* where main is, and its loop counter
  init, p,     \* where init_dpdk is, and its loop counter
  infos,       \* thread_infos_.size()
  info,        \* thread_infos_: the queue of each thread, or nullptr
  cb,          \* rx_callback: empty, under assignment, or set
  rx, held,    \* where each rx loop is; packets of its burst still to do
  port,        \* state of each Ethernet port
  mempool,     \* the thread whose mbuf pool each queue was set up with
  force_quit

rt == <<status, main, k, init, p, infos, info, cb, rx, held, port, mempool, force_quit>>

NoInfo == [port |-> -1, queue |-> -1]
Queues == [port : PortIds, queue : 0 .. queue_num - 1]
Info   == {NoInfo} \cup Queues
NoPool == -1

MainPcs == {"ctor", "spawned", "waiting", "register", "assigning", "notify",
            "mmio", "serve", "stats", "join", "wait_lcore", "stop", "exited"}
InitPcs == {"off", "eal", "resize", "ports", "infos", "launch", "loop"}
RxPcs   == {"off", "check", "sleep", "loop", "poll", "process", "done"}

RuntimeInit ==
  /\ status = "up"
  /\ main = "ctor" /\ k = 0
  /\ init = "off" /\ p = 0
  /\ infos = 0
  /\ info = [t \in Threads |-> NoInfo]
  /\ cb = [t \in Threads |-> "null"]
  /\ rx = [t \in Threads |-> "off"]
  /\ held = [t \in Threads |-> 0]
  /\ port = [q \in PortIds |-> "down"]
  /\ mempool = [qu \in Queues |-> NoPool]
  /\ force_quit = FALSE
-----------------------------------------------------------------------------
(* DPDK::DPDK: spawn main_thread_, then wait on init_cv_ with no           *)
(* predicate.  wait may also return with no notification.                  *)
Spawn ==
  /\ main = "ctor"
  /\ main' = "spawned"
  /\ init' = "eal"
  /\ UNCHANGED <<status, k, p, infos, info, cb, rx, held, port, mempool, force_quit>>

WaitInit ==
  /\ main = "spawned"
  /\ main' = "waiting"
  /\ UNCHANGED <<status, k, init, p, infos, info, cb, rx, held, port, mempool, force_quit>>

SpuriousInitWake ==
  /\ main = "waiting"
  /\ main' = "register"
  /\ UNCHANGED <<status, k, init, p, infos, info, cb, rx, held, port, mempool, force_quit>>

(* register_callback(k): the assertion on the size and the use of the      *)
(* pointer, then the assignment of the std::function, which a thread that  *)
(* does not hold the mutex can see half done, then the notification.       *)
RegisterBegin ==
  /\ main = "register"
  /\ k < NumThreads
  /\ IF k < infos /\ info[k] # NoInfo
     THEN /\ cb' = [cb EXCEPT ![k] = "half"]
          /\ main' = "assigning"
          /\ UNCHANGED status
     ELSE /\ status' = "crashed"
          /\ UNCHANGED <<cb, main>>
  /\ UNCHANGED <<k, init, p, infos, info, rx, held, port, mempool, force_quit>>

RegisterEnd ==
  /\ main = "assigning"
  /\ cb' = [cb EXCEPT ![k] = "set"]
  /\ main' = "notify"
  /\ UNCHANGED <<status, k, init, p, infos, info, rx, held, port, mempool, force_quit>>

RegisterNotify_none ==
  /\ main = "notify"
  /\ main' = "register"
  /\ k' = k + 1
  /\ UNCHANGED <<status, init, p, infos, info, cb, rx, held, port, mempool, force_quit>>

RegisterNotify ==
  /\ main = "notify"
  /\ rx' = [rx EXCEPT ![k] = IF @ = "sleep" THEN "check" ELSE @]
  /\ main' = "register"
  /\ k' = k + 1
  /\ UNCHANGED <<status, init, p, infos, info, cb, held, port, mempool, force_quit>>

(* The PacketFilter object, whose constructor is all MMIO.                 *)
MakeFilter_unregistered ==
  /\ main \in {"waiting", "register"}
  /\ main' = "mmio"
  /\ UNCHANGED <<status, k, init, p, infos, info, cb, rx, held, port, mempool, force_quit>>

MakeFilter ==
  /\ main = "register"
  /\ k = NumThreads
  /\ main' = "mmio"
  /\ UNCHANGED <<status, k, init, p, infos, info, cb, rx, held, port, mempool, force_quit>>

(* timeout.wait_for, then the statistics, read by MMIO.                    *)
Serve ==
  /\ main = "mmio"
  /\ main' = "serve"
  /\ UNCHANGED <<status, k, init, p, infos, info, cb, rx, held, port, mempool, force_quit>>

TimeUp ==
  /\ main = "serve"
  /\ main' = "stats"
  /\ UNCHANGED <<status, k, init, p, infos, info, cb, rx, held, port, mempool, force_quit>>

(* ~DPDK: trigger_shutdown, which notifies nobody, and shutdown.           *)
TriggerShutdown ==
  /\ main = "stats"
  /\ force_quit' = TRUE
  /\ main' = "join"
  /\ UNCHANGED <<status, k, init, p, infos, info, cb, rx, held, port, mempool>>

Join ==
  /\ main = "join"
  /\ init = "loop" /\ rx[0] = "done"
  /\ main' = "wait_lcore"
  /\ UNCHANGED <<status, k, init, p, infos, info, cb, rx, held, port, mempool, force_quit>>

WaitLcore_first ==
  /\ main = "wait_lcore"
  /\ main' = "stop"
  /\ k' = 0
  /\ UNCHANGED <<status, init, p, infos, info, cb, rx, held, port, mempool, force_quit>>

WaitLcore ==
  /\ main = "wait_lcore"
  /\ \A t \in Threads \ {0} : rx[t] \in {"off", "done"}
  /\ main' = "stop"
  /\ k' = 0
  /\ UNCHANGED <<status, init, p, infos, info, cb, rx, held, port, mempool, force_quit>>

StopPort ==
  /\ main = "stop"
  /\ k < PortNum
  /\ port' = [port EXCEPT ![k] = "stopped"]
  /\ k' = k + 1
  /\ UNCHANGED <<status, main, init, p, infos, info, cb, rx, held, mempool, force_quit>>

Cleanup ==
  /\ main = "stop"
  /\ k = PortNum
  /\ main' = "exited"
  /\ UNCHANGED <<status, k, init, p, infos, info, cb, rx, held, port, mempool, force_quit>>
-----------------------------------------------------------------------------
(* init_dpdk, on main_thread_.                                             *)
EalInit ==
  /\ init = "eal"
  /\ init' = "resize"
  /\ UNCHANGED <<status, main, k, p, infos, info, cb, rx, held, port, mempool, force_quit>>

Resize ==
  /\ init = "resize"
  /\ infos' = adjusted_threads
  /\ init' = "ports"
  /\ UNCHANGED <<status, main, k, p, info, cb, rx, held, port, mempool, force_quit>>

PortInit_interleaved ==
  /\ init = "ports"
  /\ p < PortNum
  /\ mempool' = [qu \in Queues |-> IF qu.port = p THEN qu.queue * PortNum + p
                                                 ELSE mempool[qu]]
  /\ port' = [port EXCEPT ![p] = "started"]
  /\ init' = "infos"
  /\ UNCHANGED <<status, main, k, p, infos, info, cb, rx, held, force_quit>>

(* port_init(p): each queue gets the pool that dpdk.cc:231 numbers anew    *)
(* from the port and the queue; then the port is started.                  *)
PortInit ==
  /\ init = "ports"
  /\ p < PortNum
  /\ mempool' = [qu \in Queues |->
                   IF qu.port = p /\ qu.queue < infos \div PortNum
                   THEN p * (infos \div PortNum) + qu.queue ELSE mempool[qu]]
  /\ port' = [port EXCEPT ![p] = "started"]
  /\ init' = "infos"
  /\ UNCHANGED <<status, main, k, p, infos, info, cb, rx, held, force_quit>>

FillInfos_queue_only ==
  /\ init = "infos"
  /\ info' = [t \in Threads |->
                IF t < queue_num THEN [port |-> p, queue |-> t]
                                 ELSE [port |-> p, queue |-> t % queue_num]]
  /\ init' = "ports"
  /\ p' = p + 1
  /\ UNCHANGED <<status, main, k, infos, cb, rx, held, port, mempool, force_quit>>

\* thread_id = port_id * queue_num + q, for each queue q of port p
FillInfos ==
  /\ init = "infos"
  /\ info' = [t \in Threads |->
                IF t \div queue_num = p
                THEN [port |-> p, queue |-> t % queue_num] ELSE info[t]]
  /\ init' = "ports"
  /\ p' = p + 1
  /\ UNCHANGED <<status, main, k, infos, cb, rx, held, port, mempool, force_quit>>

(* init_cv_.notify_all: it wakes main only if main waits already.          *)
NotifyInit ==
  /\ init = "ports"
  /\ p = PortNum
  /\ main' = IF main = "waiting" THEN "register" ELSE main
  /\ init' = "launch"
  /\ p' = 1
  /\ UNCHANGED <<status, k, infos, info, cb, rx, held, port, mempool, force_quit>>

Launch ==
  /\ init = "launch"
  /\ p < adjusted_threads
  /\ rx' = [rx EXCEPT ![p] = "check"]
  /\ p' = p + 1
  /\ UNCHANGED <<status, main, k, init, infos, info, cb, held, port, mempool, force_quit>>

EnterLoop ==
  /\ init = "launch"
  /\ p >= adjusted_threads
  /\ rx' = [rx EXCEPT ![0] = "check"]
  /\ init' = "loop"
  /\ UNCHANGED <<status, main, k, p, infos, info, cb, held, port, mempool, force_quit>>

(* EAL, a memory pool, a port or an lcore fails: log_fatal.                *)
InitFails ==
  /\ \/ init \in {"eal", "resize"}
     \/ init = "ports" /\ p < PortNum
     \/ init = "launch" /\ p < adjusted_threads
  /\ status' = "fatal"
  /\ UNCHANGED <<main, k, init, p, infos, info, cb, rx, held, port, mempool, force_quit>>
-----------------------------------------------------------------------------
CheckCallback_no_wait(t) ==
  /\ rx[t] = "check"
  /\ rx' = [rx EXCEPT ![t] = "loop"]
  /\ UNCHANGED <<status, main, k, init, p, infos, info, cb, held, port, mempool, force_quit>>

(* dpdk_rx_loop of thread t: the predicate of the wait, under the mutex.   *)
CheckCallback(t) ==
  /\ rx[t] = "check"
  /\ rx' = [rx EXCEPT ![t] =
              IF force_quit \/ cb[t] # "null" THEN "loop" ELSE "sleep"]
  /\ UNCHANGED <<status, main, k, init, p, infos, info, cb, held, port, mempool, force_quit>>

SpuriousWake(t) ==
  /\ rx[t] = "sleep"
  /\ rx' = [rx EXCEPT ![t] = "check"]
  /\ UNCHANGED <<status, main, k, init, p, infos, info, cb, held, port, mempool, force_quit>>

TestQuit(t) ==
  /\ rx[t] = "loop"
  /\ rx' = [rx EXCEPT ![t] = IF force_quit THEN "done" ELSE "poll"]
  /\ UNCHANGED <<status, main, k, init, p, infos, info, cb, held, port, mempool, force_quit>>

Burst(t) ==
  /\ rx[t] = "poll"
  /\ \E nb_rx \in 0 .. BurstSize :
       /\ held' = [held EXCEPT ![t] = nb_rx]
       /\ rx' = [rx EXCEPT ![t] = IF nb_rx = 0 THEN "loop" ELSE "process"]
  /\ UNCHANGED <<status, main, k, init, p, infos, info, cb, port, mempool, force_quit>>

Process_leaves_last(t) ==
  /\ rx[t] = "process"
  /\ cb[t] = "set"
  /\ held' = [held EXCEPT ![t] = @ - 1]
  /\ rx' = [rx EXCEPT ![t] = IF held[t] <= 2 THEN "loop" ELSE @]
  /\ UNCHANGED <<status, main, k, init, p, infos, info, cb, port, mempool, force_quit>>

(* The callback on one packet and the free of its mbuf.                    *)
Process(t) ==
  /\ rx[t] = "process"
  /\ IF cb[t] = "set"
     THEN /\ held' = [held EXCEPT ![t] = @ - 1]
          /\ rx' = [rx EXCEPT ![t] = IF held[t] = 1 THEN "loop" ELSE @]
          /\ UNCHANGED status
     ELSE /\ status' = "crashed"
          /\ UNCHANGED <<held, rx>>
  /\ UNCHANGED <<main, k, init, p, infos, info, cb, port, mempool, force_quit>>
-----------------------------------------------------------------------------
Register == RegisterBegin \/ RegisterEnd \/ RegisterNotify

Shutdown == TriggerShutdown \/ Join \/ WaitLcore \/ StopPort \/ Cleanup

MainStep ==
  /\ status = "up"
  /\ Spawn \/ WaitInit \/ Register \/ MakeFilter \/ Serve \/ TimeUp \/ Shutdown

InitStep ==
  /\ status = "up"
  /\ \/ EalInit \/ Resize \/ PortInit \/ FillInfos \/ NotifyInit
     \/ Launch \/ EnterLoop

RxStep(t) ==
  /\ status = "up"
  /\ CheckCallback(t) \/ TestQuit(t) \/ Burst(t) \/ Process(t)

Environment ==
  /\ status = "up"
  /\ SpuriousInitWake \/ InitFails \/ \E t \in Threads : SpuriousWake(t)

RuntimeNext ==
  MainStep \/ InitStep \/ (\E t \in Threads : RxStep(t)) \/ Environment

RuntimeSpec == RuntimeInit /\ [][RuntimeNext]_rt

(* Every thread that can step does, sooner or later; the serving time ends.*)
ThreadsFair ==
  /\ WF_rt(MainStep)
  /\ WF_rt(InitStep)
  /\ \A t \in Threads : WF_rt(RxStep(t))

RuntimeFairSpec == RuntimeSpec /\ ThreadsFair
-----------------------------------------------------------------------------
(* Every variable has a value of its set; an unfinished burst is between   *)
(* one packet and DPDK_BURST_SIZE packets (dpdk.cc:81-113).                *)
RuntimeTypeOK ==
  /\ status \in {"up", "fatal", "crashed"}
  /\ main \in MainPcs /\ k \in 0 .. adjusted_threads
  /\ init \in InitPcs /\ p \in 0 .. adjusted_threads
  /\ infos \in {0, adjusted_threads}
  /\ info \in [Threads -> Info]
  /\ cb \in [Threads -> {"null", "half", "set"}]
  /\ rx \in [Threads -> RxPcs]
  /\ held \in [Threads -> 0 .. BurstSize]
  /\ \A t \in Threads : rx[t] = "process" <=> held[t] > 0
  /\ port \in [PortIds -> {"down", "started", "stopped"}]
  /\ mempool \in [Queues -> Threads \cup {NoPool}]
  /\ force_quit \in BOOLEAN

(* A rx thread never holds packets while its callback is still the null it *)
(* was created with, a thread that nobody registers a callback for and     *)
(* that the shutdown wakes included: the shutdown lets it past the wait of *)
(* dpdk.cc:67-74, and the loop at dpdk.cc:81 must stop it before a burst.  *)
NeverCallsNull ==
  \A t \in Threads : rx[t] = "process" => cb[t] # "null"

(* A port is only stopped once no thread polls any port and every received *)
(* packet has been handled and freed (dpdk.cc:46-56: the join and the      *)
(* wait for the lcores come before rte_eth_dev_stop).                      *)
DrainedBeforeStop ==
  (\E q \in PortIds : port[q] = "stopped") =>
    \A t \in Threads : rx[t] \in {"off", "done"} /\ held[t] = 0

(* The filter is constructed and its statistics are read only while port 0,*)
(* whose BAR the MMIO goes through, is started (packet_filter.cc:94-101),  *)
(* even when the constructor's wait returned too early.                    *)
MmioWhileUp ==
  main \in {"mmio", "serve", "stats"} => port[0] = "started"

(* Two threads never poll one queue, once the rx loop of thread 0 runs     *)
(* every queue of every port has its thread, and a queue that is polled is *)
(* fed from the mbuf pool of the thread that polls it: port_init           *)
(* (dpdk.cc:231) and init_dpdk (dpdk.cc:168-172) number the queues the same*)
(* way.  DPDK's rx queues are not safe to share, and a pool is created for *)
(* one queue (dpdk.cc:151-154).                                            *)
QueueOwnership ==
  /\ \A t, u \in Threads :
       t # u /\ rx[t] # "off" /\ rx[u] # "off" => info[t] # info[u]
  /\ init = "loop" =>
       \A q \in PortIds, n \in 0 .. queue_num - 1 :
         \E t \in Threads : rx[t] # "off" /\ info[t] = [port |-> q, queue |-> n]
  /\ \A t \in Threads : rx[t] # "off" => mempool[info[t]] = t

(* Once the constructor has returned the server gets to its exit: no       *)
(* thread is waited for that nobody ever wakes (README.md:129, "How long   *)
(* the server runs"; dpdk.cc:29-31 and 46-48).                             *)
ShutdownCompletes ==
  main = "register" ~> (main = "exited" \/ status # "up")

(* A thread whose callback is registered leaves the wait for it            *)
(* (dpdk.cc:41-42, 66-74).                                                 *)
RegisteredStarts ==
  \A t \in Threads :
    cb[t] = "set" ~> (rx[t] \in {"loop", "poll", "process", "done"} \/ status # "up")

(* The constructor returns (dpdk.h:28, "Synchronization for DPDK           *)
(* initialization").                                                       *)
ConstructorReturns ==
  main = "waiting" ~> (main # "waiting" \/ status # "up")
=============================================================================
