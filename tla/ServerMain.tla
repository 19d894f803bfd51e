----------------------------- MODULE ServerMain -----------------------------
(***************************************************************************)
(* The serving time of the server (software/src/main.cc): main sleeps in   *)
(* Timeout::wait_for, the rx threads handle packets and log them, and      *)
(* SIGINT or SIGTERM, delivered to any of these threads between any two of *)
(* its steps, runs signal_handler there, which logs and calls force_stop.  *)
(* A handler runs on the stack of the thread it interrupts, so a lock that *)
(* this thread holds is not released before the handler returns.           *)
(***************************************************************************)
EXTENDS Integers, Sequences

CONSTANTS
  Main,       \* the thread of main
  Workers,    \* the rx threads
  Signals,    \* bound: signals delivered, each once
  Packets,    \* packets the filter lets through to the rx threads
  SizeMod,    \* 2^64: modulus of size_t
  LogBufSize, \* sizeof(log_buf)
  Prefix      \* bound: characters of a line apart from the payload dump

ETHER == 14  \* sizeof(rte_ether_hdr)
IPV4  == 20  \* sizeof(rte_ipv4_hdr)
UDP   == 8   \* sizeof(rte_udp_hdr)

\* A received packet: rte_pktmbuf_pkt_len, ether_type, next_proto_id and
\* dgram_len, what its UDP header says of the length of header and payload.
Packet == [pkt_len : Nat, ipv4 : BOOLEAN, udp : BOOLEAN, dgram_len : Nat]

ASSUME ServerAssumption ==
  /\ Main \notin Workers
  /\ "free" \notin Workers \cup {Main}
  /\ SizeMod \in Nat /\ LogBufSize \in Nat /\ Prefix \in Nat
  /\ Packets \subseteq Packet
  /\ \A m \in Packets : /\ m.pkt_len < SizeMod
                        /\ ETHER + IPV4 + m.dgram_len < SizeMod

Threads == {Main} \cup Workers

VARIABLES
  at,         \* where each thread is, apart from signal handlers
  frames,     \* the handlers running on each thread, innermost first
  mutex,      \* owner of Timeout::mutex
  log_lock,   \* owner of the lock the C library takes in Log::log
  terminate,  \* Timeout::terminate
  time_up,    \* the wait of main has timed out
  raised,     \* signals delivered so far
  mbuf,       \* the packet each rx thread handles
  lines       \* lines it has still to log about it

server ==
  <<at, frames, mutex, log_lock, terminate, time_up, raised, mbuf, lines>>

NoPacket == [pkt_len |-> 0, ipv4 |-> FALSE, udp |-> FALSE, dgram_len |-> 0]

MainPcs    == {"log", "logging", "lock", "test", "block", "sleep",
            "relock", "unlock", "done"}
WorkerPcs  == {"poll", "parse", "dump", "log", "logging"}
HandlerPcs == {"log", "logging", "lock", "set", "notify", "unlock"}
Frame      == [sig : Signals, at : HandlerPcs]

ServerInit ==
  /\ at = [t \in Threads |-> IF t = Main THEN "log" ELSE "poll"]
  /\ frames = [t \in Threads |-> <<>>]
  /\ mutex = "free"
  /\ log_lock = "free"
  /\ terminate = FALSE
  /\ time_up = FALSE
  /\ raised = {}
  /\ mbuf = [t \in Workers |-> NoPacket]
  /\ lines = [t \in Workers |-> 0]
-----------------------------------------------------------------------------
InHandler(t) == frames[t] # <<>>

\* Where t is, in its innermost handler if it runs one.
Pc(t) == IF InHandler(t) THEN Head(frames[t]).at ELSE at[t]

Goto(t, pc) ==
  IF InHandler(t)
  THEN /\ frames' = [frames EXCEPT ![t][1].at = pc]
       /\ UNCHANGED at
  ELSE /\ at' = [at EXCEPT ![t] = pc]
       /\ UNCHANGED frames

(* network_packet_handler, in the default build (level INFO): it logs      *)
(* nothing of a packet it skips, five lines of one it accepts, and two of  *)
(* one that fails the size check (the rx loop logs the -1 as well).        *)
Fits_datagram_only(m) == m.dgram_len <= m.pkt_len

Fits(m) == (ETHER + IPV4 + m.dgram_len) % SizeMod <= m.pkt_len

payload_len(m) == (m.dgram_len - UDP) % SizeMod

Accepted(m) == m.ipv4 /\ m.udp /\ Fits(m)

LinesFor(m) ==
  IF Accepted(m) THEN 5 ELSE IF m.ipv4 /\ m.udp THEN 2 ELSE 0

(* Log::log: localtime_r holds a lock of the C library that its owner      *)
(* cannot take twice; formatting and writing the line follow.              *)
EnterLog(t) ==
  /\ Pc(t) = "log"
  /\ log_lock = "free"
  /\ log_lock' = t
  /\ Goto(t, "logging")
  /\ UNCHANGED <<mutex, terminate, time_up, raised, mbuf, lines>>

AfterLog_one_short(t) ==
  IF InHandler(t) \/ t = Main THEN "lock"
  ELSE IF lines[t] = 2 /\ Accepted(mbuf[t]) THEN "dump"
  ELSE IF lines[t] > 2 THEN "log" ELSE "poll"

\* What follows: force_stop, wait_for, the payload as text for the last line
\* of an accepted packet, another line, or the next packet.
AfterLog(t) ==
  IF InHandler(t) \/ t = Main THEN "lock"
  ELSE IF lines[t] = 2 /\ Accepted(mbuf[t]) THEN "dump"
  ELSE IF lines[t] > 1 THEN "log" ELSE "poll"

LeaveLog(t) ==
  /\ Pc(t) = "logging"
  /\ log_lock' = "free"
  /\ Goto(t, AfterLog(t))
  /\ lines' = IF t = Main \/ InHandler(t) THEN lines
                                          ELSE [lines EXCEPT ![t] = @ - 1]
  /\ UNCHANGED <<mutex, terminate, time_up, raised, mbuf>>

(* wait_for: the predicate is tested under the mutex before each wait and  *)
(* after each wake-up; main gives the mutex up as it goes to sleep.        *)
MainLock_no_loop ==
  /\ ~InHandler(Main)
  /\ at[Main] \in {"lock", "relock"}
  /\ mutex = "free"
  /\ mutex' = Main
  /\ Goto(Main, IF at[Main] = "lock" THEN "test" ELSE "unlock")
  /\ UNCHANGED <<log_lock, terminate, time_up, raised, mbuf, lines>>

MainLock_barges ==
  /\ ~InHandler(Main)
  /\ at[Main] \in {"lock", "relock"}
  /\ mutex' = Main
  /\ Goto(Main, "test")
  /\ UNCHANGED <<log_lock, terminate, time_up, raised, mbuf, lines>>

MainLock ==
  /\ ~InHandler(Main)
  /\ at[Main] \in {"lock", "relock"}
  /\ mutex = "free"
  /\ mutex' = Main
  /\ Goto(Main, "test")
  /\ UNCHANGED <<log_lock, terminate, time_up, raised, mbuf, lines>>

MainTest ==
  /\ ~InHandler(Main)
  /\ at[Main] = "test"
  /\ Goto(Main, IF time_up \/ terminate THEN "unlock" ELSE "block")
  /\ UNCHANGED <<mutex, log_lock, terminate, time_up, raised, mbuf, lines>>

MainBlock ==
  /\ ~InHandler(Main)
  /\ at[Main] = "block"
  /\ mutex' = "free"
  /\ Goto(Main, "sleep")
  /\ UNCHANGED <<log_lock, terminate, time_up, raised, mbuf, lines>>

MainUnlock ==
  /\ ~InHandler(Main)
  /\ at[Main] = "unlock"
  /\ mutex' = "free"
  /\ Goto(Main, "done")
  /\ UNCHANGED <<log_lock, terminate, time_up, raised, mbuf, lines>>

Woken == [at EXCEPT ![Main] = IF @ = "sleep" THEN "relock" ELSE @]

(* The time is up, or the wait returns for no reason, also while a handler *)
(* runs on main.                                                           *)
TimeUp ==
  /\ at[Main] = "sleep"
  /\ time_up' = TRUE
  /\ at' = Woken
  /\ UNCHANGED <<frames, mutex, log_lock, terminate, raised, mbuf, lines>>

SpuriousWake ==
  /\ at[Main] = "sleep"
  /\ at' = Woken
  /\ UNCHANGED <<frames, mutex, log_lock, terminate, time_up, raised, mbuf, lines>>
-----------------------------------------------------------------------------
(* A signal interrupts t, in the handler of another signal or not.  Those  *)
(* that come after the serving time are left out.                          *)
Deliver(sig, t) ==
  /\ sig \notin raised
  /\ at[Main] # "done"
  /\ raised' = raised \cup {sig}
  /\ frames' = [frames EXCEPT ![t] = <<[sig |-> sig, at |-> "log"]>> \o @]
  /\ UNCHANGED <<at, mutex, log_lock, terminate, time_up, mbuf, lines>>

(* signal_handler after its log: force_stop.                               *)
StopLock_none(t) ==
  /\ InHandler(t)
  /\ Pc(t) = "lock"
  /\ Goto(t, "set")
  /\ UNCHANGED <<mutex, log_lock, terminate, time_up, raised, mbuf, lines>>

StopLock(t) ==
  /\ InHandler(t)
  /\ Pc(t) = "lock"
  /\ mutex = "free"
  /\ mutex' = t
  /\ Goto(t, "set")
  /\ UNCHANGED <<log_lock, terminate, time_up, raised, mbuf, lines>>

StopSet(t) ==
  /\ InHandler(t)
  /\ Pc(t) = "set"
  /\ terminate' = TRUE
  /\ Goto(t, "notify")
  /\ UNCHANGED <<mutex, log_lock, time_up, raised, mbuf, lines>>

StopNotify_none(t) ==
  /\ InHandler(t)
  /\ Pc(t) = "notify"
  /\ Goto(t, "unlock")
  /\ UNCHANGED <<mutex, log_lock, terminate, time_up, raised, mbuf, lines>>

StopNotify(t) ==
  /\ InHandler(t)
  /\ Pc(t) = "notify"
  /\ at' = Woken
  /\ frames' = [frames EXCEPT ![t][1].at = "unlock"]
  /\ UNCHANGED <<mutex, log_lock, terminate, time_up, raised, mbuf, lines>>

StopReturn(t) ==
  /\ InHandler(t)
  /\ Pc(t) = "unlock"
  /\ mutex' = "free"
  /\ frames' = [frames EXCEPT ![t] = Tail(@)]
  /\ UNCHANGED <<at, log_lock, terminate, time_up, raised, mbuf, lines>>
-----------------------------------------------------------------------------
Receive(t) ==
  /\ ~InHandler(t)
  /\ at[t] = "poll"
  /\ \E m \in Packets : mbuf' = [mbuf EXCEPT ![t] = m]
  /\ Goto(t, "parse")
  /\ UNCHANGED <<mutex, log_lock, terminate, time_up, raised, lines>>

Parse(t) ==
  /\ ~InHandler(t)
  /\ at[t] = "parse"
  /\ lines' = [lines EXCEPT ![t] = LinesFor(mbuf[t])]
  /\ Goto(t, IF LinesFor(mbuf[t]) = 0 THEN "poll" ELSE "log")
  /\ UNCHANGED <<mutex, log_lock, terminate, time_up, raised, mbuf>>

\* The payload lies in the packet.
InPacket(m) == ETHER + IPV4 + UDP + payload_len(m) <= m.pkt_len

(* convert_bin_to_str.  One that leaves the packet (a length that wrapped) *)
(* reads on until the process ends, by a fault or out of memory: it never  *)
(* gets to its line, and until then the other threads run.                 *)
Dump(t) ==
  /\ ~InHandler(t)
  /\ at[t] = "dump"
  /\ InPacket(mbuf[t])
  /\ Goto(t, "log")
  /\ UNCHANGED <<mutex, log_lock, terminate, time_up, raised, mbuf, lines>>

bin_to_str_len_spaced(len) == 3 * len

\* convert_bin_to_str: two digits a byte.
bin_to_str_len(len) == 2 * len

\* The offset in log_buf after the line that t logs: the last line of an
\* accepted packet is the payload.
offset(t) ==
  IF lines[t] = 1 /\ Accepted(mbuf[t])
  THEN Prefix + bin_to_str_len(payload_len(mbuf[t]))
  ELSE Prefix
-----------------------------------------------------------------------------
MainStep == MainLock \/ MainTest \/ MainBlock \/ MainUnlock

HandlerStep(t) == StopLock(t) \/ StopSet(t) \/ StopNotify(t) \/ StopReturn(t)

WorkerStep(t) == Receive(t) \/ Parse(t) \/ Dump(t)

LogStep(t) == EnterLog(t) \/ LeaveLog(t)

ServerNext ==
  \/ MainStep
  \/ \E t \in Threads : LogStep(t) \/ HandlerStep(t)
  \/ \E t \in Workers : WorkerStep(t)
  \/ TimeUp \/ SpuriousWake
  \/ \E sig \in Signals, t \in Threads : Deliver(sig, t)

ServerSpec == ServerInit /\ [][ServerNext]_server

(* Every thread runs on, and gets a lock that is free again and again: the *)
(* handlers are two and main only takes the mutex when it wakes.  The time *)
(* need never be up, no signal need come and no packet arrive.             *)
ServerFairSpec ==
  /\ ServerSpec
  /\ SF_server(MainLock)
  /\ WF_server(MainTest \/ MainBlock \/ MainUnlock)
  /\ \A t \in Threads : /\ SF_server(EnterLog(t))
                        /\ WF_server(LeaveLog(t))
                        /\ SF_server(StopLock(t))
                        /\ WF_server(StopSet(t) \/ StopNotify(t) \/ StopReturn(t))
-----------------------------------------------------------------------------
(* Types; an rx thread has lines to log exactly while it makes and logs    *)
(* them (main.cc:187-203).                                                 *)
ServerTypeOK ==
  /\ at \in [Threads -> MainPcs \cup WorkerPcs]
  /\ at[Main] \in MainPcs
  /\ \A t \in Workers : at[t] \in WorkerPcs
  /\ frames \in [Threads -> Seq(Frame)]
  /\ mutex \in Threads \cup {"free"}
  /\ log_lock \in Threads \cup {"free"}
  /\ terminate \in BOOLEAN
  /\ time_up \in BOOLEAN
  /\ raised \subseteq Signals
  /\ mbuf \in [Workers -> Packets \cup {NoPacket}]
  /\ lines \in [Workers -> 0 .. 5]
  /\ \A t \in Workers : lines[t] > 0 <=> at[t] \in {"dump", "log", "logging"}

\* The places, of threads and of handlers, that hold a lock.
Holding(t, mainPcs, handlerPcs) ==
  {i \in 0 .. Len(frames[t]) :
     IF i = 0 THEN at[t] \in mainPcs ELSE frames[t][i].at \in handlerPcs}

(* A lock is held by one place at a time, on the thread that owns it: a    *)
(* handler never slips into the section of the thread it interrupted.      *)
LocksExclusive ==
  \A t \in Threads :
    LET m == Holding(t, {"test", "block", "unlock"},
                        {"set", "notify", "unlock"})
        l == Holding(t, {"logging"}, {"logging"})
    IN  /\ IF mutex = t THEN \E i \in m : m = {i} ELSE m = {}
        /\ IF log_lock = t THEN \E i \in l : l = {i} ELSE l = {}

(* The serving time ends only when it is up or a signal was handled,       *)
(* whatever wakes the wait (main.cc:29).                                   *)
WaitHonoured ==
  at[Main] \in {"unlock", "done"} => time_up \/ terminate

(* Main never sleeps through a stop: it is set and notified under the      *)
(* mutex (main.cc:33-35), so it comes before main's test or after main is  *)
(* asleep, never between the two.                                          *)
StopNotLost ==
  terminate /\ at[Main] \in {"block", "sleep"} =>
    \E t \in Threads : \E i \in 1 .. Len(frames[t]) : frames[t][i].at = "notify"

(* A handler waits for a lock of the very thread it interrupted.           *)
Stuck ==
  \E t \in Threads :
    /\ InHandler(t)
    /\ \/ Pc(t) = "lock" /\ mutex = t
       \/ Pc(t) = "log" /\ log_lock = t

\* A thread reads past its packet, and the process ends.
Overrun == \E t \in Workers : at[t] = "dump" /\ ~InPacket(mbuf[t])

(* A signal ends the serving time however long that is, also one that      *)
(* comes before main waits ("Received signal %d, terminating...",          *)
(* main.cc:43); what can prevent it is a handler that interrupted a thread *)
(* inside a locked section, or that the process ended before, and nothing  *)
(* else: no other circle of waits.                                         *)
SignalEnds ==
  raised # {} ~> (at[Main] = "done" \/ Stuck \/ Overrun)

(* Of a datagram that covers its own header the bytes dumped are bytes of  *)
(* the packet (main.cc:149, 156, 161), also when a short frame is padded   *)
(* or the datagram is cut off.  One that is shorter passes the check too,  *)
(* which has no lower bound: the subtraction of main.cc:161 wraps and the  *)
(* dump leaves the packet, at once and by far.                             *)
PayloadInside ==
  \A t \in Workers :
    at[t] = "dump" => (InPacket(mbuf[t]) <=> mbuf[t].dgram_len >= UDP)

(* Each line of the packets received fits log_buf with its newline, so     *)
(* offset never passes the end (logging.cc:107-113), and no line is made   *)
(* from a length that wrapped.                                             *)
LineFits ==
  \A t \in Workers :
    at[t] \in {"log", "logging"} => offset(t) + 1 < LogBufSize
=============================================================================
