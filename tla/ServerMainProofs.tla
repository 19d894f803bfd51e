-------------------------- MODULE ServerMainProofs --------------------------
(***************************************************************************)
(* Proofs about ServerMain, for any rx threads, packets and signals: the   *)
(* two locks, the waits of the serving time, and the bytes of a packet     *)
(* that are logged.                                                        *)
(***************************************************************************)
EXTENDS ServerMain, TLAPS

(* A number below the modulus is its own remainder.                        *)
LEMMA SizeModSmall ==
  ASSUME NEW m \in Nat, NEW n \in Nat, n < m
  PROVE  n % m = n
BY Z3

(* The head frame moves on.                                                *)
HeadTo(t, pc) == frames' = [frames EXCEPT ![t][1].at = pc]

LEMMA HeadMoves ==
  ASSUME frames \in [Threads -> Seq(Frame)], NEW t \in Threads, InHandler(t),
         NEW pc \in HandlerPcs, frames' = [frames EXCEPT ![t][1].at = pc]
  PROVE  /\ frames' \in [Threads -> Seq(Frame)]
         /\ Len(frames'[t]) = Len(frames[t]) /\ Len(frames[t]) \in Nat \ {0}
         /\ frames'[t][1].at = pc
         /\ \A i \in 2 .. Len(frames[t]) : frames'[t][i] = frames[t][i]
         /\ \A u \in Threads : u # t => frames'[u] = frames[u]
<1> DEFINE s == frames[t]
           r == [s EXCEPT ![1] = [s[1] EXCEPT !.at = pc]]
<1>1. s \in Seq(Frame) /\ s # <<>>
  BY DEF InHandler
<1>2. Len(s) \in Nat \ {0} /\ s[1] \in Frame
  BY <1>1
<1>3. /\ [s[1] EXCEPT !.at = pc] \in Frame
      /\ [s[1] EXCEPT !.at = pc].at = pc
  BY <1>2 DEF Frame
<1>4. frames' = [frames EXCEPT ![t] = r]
  OBVIOUS
<1>5. /\ r \in Seq(Frame) /\ Len(r) = Len(s)
      /\ r[1].at = pc
      /\ \A i \in 2 .. Len(s) : r[i] = s[i]
  BY <1>1, <1>2, <1>3
<1> HIDE DEF r
<1> QED
  BY <1>2, <1>4, <1>5

(* A signal's frame is pushed.                                             *)
LEMMA Pushed ==
  ASSUME frames \in [Threads -> Seq(Frame)], NEW t \in Threads, NEW f \in Frame,
         frames' = [frames EXCEPT ![t] = <<f>> \o @]
  PROVE  /\ frames' \in [Threads -> Seq(Frame)]
         /\ Len(frames'[t]) = Len(frames[t]) + 1 /\ Len(frames[t]) \in Nat
         /\ frames'[t][1] = f
         /\ \A i \in 1 .. Len(frames[t]) : frames'[t][i + 1] = frames[t][i]
         /\ \A u \in Threads : u # t => frames'[u] = frames[u]
<1> DEFINE s == frames[t]
           r == <<f>> \o s
<1>1. s \in Seq(Frame) /\ Len(s) \in Nat
  OBVIOUS
<1>2. /\ r \in Seq(Frame) /\ Len(r) = Len(s) + 1
      /\ r[1] = f
      /\ \A i \in 1 .. Len(s) : r[i + 1] = s[i]
  BY <1>1
<1>3. frames' = [frames EXCEPT ![t] = r]
  OBVIOUS
<1> HIDE DEF r
<1> QED
  BY <1>1, <1>2, <1>3

(* A handler returns.                                                      *)
LEMMA Popped ==
  ASSUME frames \in [Threads -> Seq(Frame)], NEW t \in Threads, InHandler(t),
         frames' = [frames EXCEPT ![t] = Tail(@)]
  PROVE  /\ frames' \in [Threads -> Seq(Frame)]
         /\ Len(frames'[t]) = Len(frames[t]) - 1 /\ Len(frames[t]) \in Nat \ {0}
         /\ \A i \in 1 .. Len(frames'[t]) : frames'[t][i] = frames[t][i + 1]
         /\ \A u \in Threads : u # t => frames'[u] = frames[u]
<1> DEFINE s == frames[t]
           r == Tail(s)
<1>1. s \in Seq(Frame) /\ s # <<>> /\ Len(s) \in Nat \ {0}
  BY DEF InHandler
<1>2. /\ r \in Seq(Frame) /\ Len(r) = Len(s) - 1
      /\ \A i \in 1 .. Len(r) : r[i] = s[i + 1]
  BY <1>1
<1>3. frames' = [frames EXCEPT ![t] = r]
  OBVIOUS
<1> HIDE DEF r
<1> QED
  BY <1>1, <1>2, <1>3
-----------------------------------------------------------------------------
(* What the places that hold a lock become.  M and H are the places of the *)
(* threads and of the handlers inside it.                                  *)
One(S) == \E i \in S : S = {i}

Owned(owner, t, S) == IF owner = t THEN One(S) ELSE S = {}

LEMMA SameHolding ==
  ASSUME frames' = frames, NEW t \in Threads, NEW M, NEW H,
         at'[t] \in M <=> at[t] \in M
  PROVE  Holding(t, M, H)' = Holding(t, M, H)
BY DEF Holding

LEMMA HoldingAt ==
  ASSUME frames \in [Threads -> Seq(Frame)], NEW t \in Threads, NEW M, NEW H,
         frames' = frames
  PROVE  /\ at'[t] \in M => Holding(t, M, H)' = Holding(t, M, H) \cup {0}
         /\ at'[t] \notin M => Holding(t, M, H)' = Holding(t, M, H) \ {0}
<1>1. Len(frames[t]) \in Nat
  OBVIOUS
<1> QED
  BY <1>1 DEF Holding

LEMMA HoldingHead ==
  ASSUME frames \in [Threads -> Seq(Frame)], NEW t \in Threads, InHandler(t),
         NEW pc \in HandlerPcs, HeadTo(t, pc),
         NEW M, NEW H, \A u \in Threads : at'[u] \in M <=> at[u] \in M
  PROVE  /\ pc \in H => Holding(t, M, H)' = Holding(t, M, H) \cup {1}
         /\ pc \notin H => Holding(t, M, H)' = Holding(t, M, H) \ {1}
         /\ \A u \in Threads : u # t => Holding(u, M, H)' = Holding(u, M, H)
<1>1. /\ Len(frames'[t]) = Len(frames[t]) /\ Len(frames[t]) \in Nat \ {0}
      /\ frames'[t][1].at = pc
      /\ \A i \in 2 .. Len(frames[t]) : frames'[t][i] = frames[t][i]
      /\ \A u \in Threads : u # t => frames'[u] = frames[u]
  BY HeadMoves DEF HeadTo
<1>2. \A u \in Threads : u # t => Holding(u, M, H)' = Holding(u, M, H)
  BY <1>1 DEF Holding
<1>3. \A i \in 0 .. Len(frames[t]) :
        i # 1 => (i \in Holding(t, M, H)' <=> i \in Holding(t, M, H))
  BY <1>1 DEF Holding
<1>4. 1 \in Holding(t, M, H)' <=> pc \in H
  BY <1>1 DEF Holding
<1>5. /\ Holding(t, M, H) \subseteq 0 .. Len(frames[t])
      /\ Holding(t, M, H)' \subseteq 0 .. Len(frames[t])
  BY <1>1 DEF Holding
<1> HIDE DEF Holding
<1> QED
  BY <1>2, <1>3, <1>4, <1>5

LEMMA HoldingPush ==
  ASSUME frames \in [Threads -> Seq(Frame)], NEW t \in Threads, NEW f \in Frame,
         frames' = [frames EXCEPT ![t] = <<f>> \o @], at' = at,
         NEW M, NEW H, f.at \notin H, NEW o
  PROVE  \A u \in Threads :
           Owned(o, u, Holding(u, M, H)) => Owned(o, u, Holding(u, M, H)')
<1>1. /\ Len(frames'[t]) = Len(frames[t]) + 1 /\ Len(frames[t]) \in Nat
      /\ frames'[t][1] = f
      /\ \A i \in 1 .. Len(frames[t]) : frames'[t][i + 1] = frames[t][i]
      /\ \A u \in Threads : u # t => frames'[u] = frames[u]
  BY Pushed
<1>2. \A u \in Threads : u # t => Holding(u, M, H)' = Holding(u, M, H)
  BY <1>1 DEF Holding
<1> DEFINE S == Holding(t, M, H)
           T == Holding(t, M, H)'
<1>3. /\ S \subseteq 0 .. Len(frames[t]) /\ T \subseteq 0 .. Len(frames[t]) + 1
      /\ 0 \in T <=> 0 \in S
      /\ 1 \notin T
      /\ \A i \in 1 .. Len(frames[t]) : i + 1 \in T <=> i \in S
  BY <1>1 DEF Holding
<1>4. \A i \in T : i = 0 \/ (i - 1 \in 1 .. Len(frames[t]) /\ (i - 1) + 1 = i)
  BY <1>1, <1>3
<1> HIDE DEF S, T
<1>5. S = {} => T = {}
  BY <1>3, <1>4
<1>6. One(S) => One(T)
  <2> SUFFICES ASSUME NEW j \in S, S = {j} PROVE One(T)
    BY DEF One
  <2>1. CASE j = 0
    <3>1. ASSUME NEW i \in T PROVE i = 0
      <4>1. SUFFICES ASSUME i - 1 \in 1 .. Len(frames[t]), (i - 1) + 1 = i PROVE FALSE
        BY <1>4
      <4>2. i - 1 \in S
        BY <1>3, <4>1
      <4> QED
        BY <2>1, <4>1, <4>2
    <3>2. 0 \in T
      BY <1>3, <2>1
    <3>3. T = {0}
      BY <3>1, <3>2
    <3> QED
      BY <3>2, <3>3 DEF One
  <2>2. CASE j # 0
    <3>1. j \in 1 .. Len(frames[t]) /\ j + 1 \in T
      BY <1>3, <2>2
    <3>2. \A i \in T : i = j + 1
      BY <1>3, <1>4, <2>2, <3>1
    <3>3. T = {j + 1}
      BY <3>1, <3>2
    <3> QED
      BY <3>1, <3>3 DEF One
  <2> QED
    BY <2>1, <2>2
<1> QED
  BY <1>2, <1>5, <1>6 DEF Owned, S, T

LEMMA HoldingPop ==
  ASSUME frames \in [Threads -> Seq(Frame)], NEW t \in Threads, InHandler(t),
         frames' = [frames EXCEPT ![t] = Tail(@)], at' = at, NEW M, NEW H
  PROVE  /\ \A u \in Threads : u # t => Holding(u, M, H)' = Holding(u, M, H)
         /\ 1 \in Holding(t, M, H) /\ One(Holding(t, M, H)) => Holding(t, M, H)' = {}
         /\ Holding(t, M, H) = {} => Holding(t, M, H)' = {}
         /\ 1 \notin Holding(t, M, H) /\ One(Holding(t, M, H)) => One(Holding(t, M, H)')
<1>1. /\ Len(frames'[t]) = Len(frames[t]) - 1 /\ Len(frames[t]) \in Nat \ {0}
      /\ \A i \in 1 .. Len(frames'[t]) : frames'[t][i] = frames[t][i + 1]
      /\ \A u \in Threads : u # t => frames'[u] = frames[u]
  BY Popped
<1>2. \A u \in Threads : u # t => Holding(u, M, H)' = Holding(u, M, H)
  BY <1>1 DEF Holding
<1> DEFINE S == Holding(t, M, H)
           T == Holding(t, M, H)'
<1>3. /\ S \subseteq 0 .. Len(frames[t]) /\ T \subseteq 0 .. Len(frames[t]) - 1
      /\ 0 \in T <=> 0 \in S
      /\ \A i \in 1 .. Len(frames[t]) - 1 : i \in T <=> i + 1 \in S
  BY <1>1 DEF Holding
<1> HIDE DEF S, T
<1>4. 1 \in S /\ One(S) => T = {}
  <2> SUFFICES ASSUME S = {1}, NEW i \in T PROVE FALSE
    BY DEF One
  <2>1. i = 0 \/ i \in 1 .. Len(frames[t]) - 1
    BY <1>1, <1>3
  <2> QED
    BY <1>3, <2>1
<1>5. S = {} => T = {}
  <2> SUFFICES ASSUME S = {}, NEW i \in T PROVE FALSE
    OBVIOUS
  <2>1. i = 0 \/ i \in 1 .. Len(frames[t]) - 1
    BY <1>1, <1>3
  <2> QED
    BY <1>3, <2>1
<1>6. 1 \notin S /\ One(S) => One(T)
  <2> SUFFICES ASSUME NEW j \in S, S = {j}, j # 1 PROVE One(T)
    BY DEF One
  <2>1. \A i \in T : i = 0 \/ i \in 1 .. Len(frames[t]) - 1
    BY <1>1, <1>3
  <2>2. CASE j = 0
    <3>1. ASSUME NEW i \in T PROVE i = 0
      <4>1. SUFFICES ASSUME i \in 1 .. Len(frames[t]) - 1 PROVE FALSE
        BY <2>1
      <4>2. i + 1 \in S
        BY <1>3, <4>1
      <4> QED
        BY <2>2, <4>1, <4>2
    <3>2. 0 \in T
      BY <1>3, <2>2
    <3>3. T = {0}
      BY <3>1, <3>2
    <3> QED
      BY <3>2, <3>3 DEF One
  <2>3. CASE j # 0
    <3>1. j - 1 \in 1 .. Len(frames[t]) - 1 /\ (j - 1) + 1 = j
      BY <1>1, <1>3, <2>3
    <3>2. j - 1 \in T
      BY <1>3, <3>1
    <3>3. \A i \in T : i = j - 1
      BY <1>3, <2>1, <2>3, <3>1
    <3>4. T = {j - 1}
      BY <3>2, <3>3
    <3> QED
      BY <3>2, <3>4 DEF One
  <2> QED
    BY <2>2, <2>3
<1> QED
  BY <1>2, <1>4, <1>5, <1>6 DEF S, T

LEMMA HoldsAt ==
  ASSUME frames \in [Threads -> Seq(Frame)], NEW t \in Threads, NEW M, NEW H
  PROVE  /\ 0 \in Holding(t, M, H) <=> at[t] \in M
         /\ InHandler(t) => (1 \in Holding(t, M, H) <=> Head(frames[t]).at \in H)
<1>1. Len(frames[t]) \in Nat
  OBVIOUS
<1>2. InHandler(t) => Len(frames[t]) >= 1 /\ Head(frames[t]) = frames[t][1]
  BY DEF InHandler
<1> QED
  BY <1>1, <1>2 DEF Holding

-----------------------------------------------------------------------------
(* Places and owner of a lock, kept together by each kind of step.         *)
OwnedBy(o, M, H) == \A u \in Threads : Owned(o, u, Holding(u, M, H))

(* pc is a place of t inside a lock.                                       *)
Inside(t, pc, M, H) == pc \in IF InHandler(t) THEN H ELSE M

LEMMA OwnedFree ==
  ASSUME NEW S, NEW t \in Threads
  PROVE  /\ Owned("free", t, S) <=> S = {}
         /\ \A u : u # t => (Owned(u, t, S) <=> S = {})
         /\ Owned(t, t, S) <=> One(S)
         /\ \A n, o : n \in S /\ Owned(o, t, S) => o = t /\ S = {n}
BY ServerAssumption DEF Owned, One, Threads

LEMMA GotoFacts ==
  ASSUME ServerTypeOK, NEW t \in Threads, NEW pc, Goto(t, pc)
  PROVE  /\ frames \in [Threads -> Seq(Frame)]
         /\ InHandler(t) => /\ at' = at
                            /\ HeadTo(t, pc)
         /\ ~InHandler(t) => /\ frames' = frames
                             /\ at' = [at EXCEPT ![t] = pc]
                             /\ at'[t] = pc
                             /\ \A u \in Threads : u # t => at'[u] = at[u]
BY DEF Goto, ServerTypeOK, HeadTo

(* What t's own places become, and that no other thread's change.          *)
LEMMA GotoHolding ==
  ASSUME ServerTypeOK, NEW t \in Threads, NEW pc, Goto(t, pc),
         InHandler(t) => pc \in HandlerPcs, NEW M, NEW H
  PROVE  \E n \in {0, 1} :
           /\ n \in Holding(t, M, H) <=> Inside(t, Pc(t), M, H)
           /\ n \in Holding(t, M, H)' <=> Inside(t, pc, M, H)
           /\ Holding(t, M, H)' \ {n} = Holding(t, M, H) \ {n}
           /\ \A u \in Threads : u # t => Holding(u, M, H)' = Holding(u, M, H)
<1> USE GotoFacts
<1>1. CASE InHandler(t)
  <2>1. 1 \in Holding(t, M, H) <=> Pc(t) \in H
    BY <1>1, HoldsAt DEF Pc
  <2>2. ASSUME NEW u \in Threads, u # t
        PROVE  Holding(u, M, H)' = Holding(u, M, H)
    <3>1. frames'[u] = frames[u] /\ at'[u] = at[u]
      BY <1>1, <2>2 DEF HeadTo
    <3> QED
      BY <3>1 DEF Holding
  <2>3. CASE pc \in H
    <3>1. Holding(t, M, H)' = Holding(t, M, H) \cup {1}
      BY <1>1, <2>3, HoldingHead
    <3>2. /\ 1 \in Holding(t, M, H)'
          /\ Holding(t, M, H)' \ {1} = Holding(t, M, H) \ {1}
      BY <3>1
    <3> QED
      BY <1>1, <2>1, <2>2, <2>3, <3>2 DEF Inside
  <2>4. CASE pc \notin H
    <3>1. Holding(t, M, H)' = Holding(t, M, H) \ {1}
      BY <1>1, <2>4, HoldingHead
    <3>2. /\ 1 \notin Holding(t, M, H)'
          /\ Holding(t, M, H)' \ {1} = Holding(t, M, H) \ {1}
      BY <3>1
    <3> QED
      BY <1>1, <2>1, <2>2, <2>4, <3>2 DEF Inside
  <2> QED
    BY <2>3, <2>4
<1>2. CASE ~InHandler(t)
  <2>1. 0 \in Holding(t, M, H) <=> Pc(t) \in M
    BY <1>2, HoldsAt DEF Pc
  <2>2. ASSUME NEW u \in Threads, u # t
        PROVE  Holding(u, M, H)' = Holding(u, M, H)
    BY <1>2, <2>2, SameHolding
  <2>3. CASE pc \in M
    <3>1. Holding(t, M, H)' = Holding(t, M, H) \cup {0}
      BY <1>2, <2>3, HoldingAt
    <3>2. /\ 0 \in Holding(t, M, H)'
          /\ Holding(t, M, H)' \ {0} = Holding(t, M, H) \ {0}
      BY <3>1
    <3> QED
      BY <1>2, <2>1, <2>2, <2>3, <3>2 DEF Inside
  <2>4. CASE pc \notin M
    <3>1. Holding(t, M, H)' = Holding(t, M, H) \ {0}
      BY <1>2, <2>4, HoldingAt
    <3>2. /\ 0 \notin Holding(t, M, H)'
          /\ Holding(t, M, H)' \ {0} = Holding(t, M, H) \ {0}
      BY <3>1
    <3> QED
      BY <1>2, <2>1, <2>2, <2>4, <3>2 DEF Inside
  <2> QED
    BY <2>3, <2>4
<1> QED
  BY <1>1, <1>2

(* A step between two places on the same side of a lock.                   *)
LEMMA Keeps ==
  ASSUME ServerTypeOK, NEW t \in Threads, NEW pc, Goto(t, pc),
         InHandler(t) => pc \in HandlerPcs, NEW M, NEW H, NEW o,
         Inside(t, pc, M, H) <=> Inside(t, Pc(t), M, H), OwnedBy(o, M, H)
  PROVE  \A u \in Threads : Owned(o, u, Holding(u, M, H)')
<1> DEFINE S(u) == Holding(u, M, H)
           T(u) == Holding(u, M, H)'
<1>1. PICK n \in {0, 1} : /\ n \in S(t) <=> n \in T(t)
                          /\ T(t) \ {n} = S(t) \ {n}
                          /\ \A u \in Threads : u # t => T(u) = S(u)
  BY GotoHolding
<1>2. T(t) = S(t)
  <2> HIDE DEF S, T
  <2> QED
    BY <1>1
<1>3. \A u \in Threads : T(u) = S(u)
  BY <1>1, <1>2
<1> QED
  BY <1>3 DEF OwnedBy

(* A step into a free lock.                                                *)
LEMMA Takes ==
  ASSUME ServerTypeOK, NEW t \in Threads, NEW pc, Goto(t, pc),
         InHandler(t) => pc \in HandlerPcs, NEW M, NEW H,
         Inside(t, pc, M, H), OwnedBy("free", M, H)
  PROVE  \A u \in Threads : Owned(t, u, Holding(u, M, H)')
<1> DEFINE S(u) == Holding(u, M, H)
           T(u) == Holding(u, M, H)'
<1>1. PICK n \in {0, 1} : /\ n \in T(t)
                          /\ T(t) \ {n} = S(t) \ {n}
                          /\ \A u \in Threads : u # t => T(u) = S(u)
  BY GotoHolding
<1>2. \A u \in Threads : S(u) = {}
  BY OwnedFree DEF OwnedBy
<1> HIDE DEF S, T
<1>3. T(t) = {n}
  BY <1>1, <1>2
<1>4. One(T(t))
  BY <1>3 DEF One
<1>5. \A u \in Threads : Owned(t, u, T(u))
  BY <1>1, <1>2, <1>4 DEF Owned
<1> QED
  BY <1>5 DEF T

(* A step out of a lock, which its thread owned.                           *)
LEMMA Leaves ==
  ASSUME ServerTypeOK, NEW t \in Threads, NEW pc, Goto(t, pc),
         InHandler(t) => pc \in HandlerPcs, NEW M, NEW H, NEW o,
         Inside(t, Pc(t), M, H), ~Inside(t, pc, M, H), OwnedBy(o, M, H)
  PROVE  \A u \in Threads : Owned("free", u, Holding(u, M, H)')
<1> DEFINE S(u) == Holding(u, M, H)
           T(u) == Holding(u, M, H)'
<1>1. PICK n \in {0, 1} : /\ n \in S(t) /\ n \notin T(t)
                          /\ T(t) \ {n} = S(t) \ {n}
                          /\ \A u \in Threads : u # t => T(u) = S(u)
  BY GotoHolding
<1>2. \A u \in Threads : Owned(o, u, S(u))
  BY DEF OwnedBy
<1> HIDE DEF S, T
<1>3. o = t /\ S(t) = {n}
  BY <1>1, <1>2, OwnedFree
<1>4. T(t) = {}
  BY <1>1, <1>3
<1>5. \A u \in Threads : u # t => S(u) = {}
  BY <1>2, <1>3 DEF Owned
<1>6. \A u \in Threads : T(u) = {}
  BY <1>1, <1>4, <1>5
<1>7. \A u \in Threads : Owned("free", u, T(u))
  BY <1>6, OwnedFree
<1> QED
  BY <1>7 DEF T
-----------------------------------------------------------------------------
(* The mutex of Timeout and the lock of the C library.                     *)
MM == {"test", "block", "unlock"}
MH == {"set", "notify", "unlock"}
LG == {"logging"}

LEMMA LocksOwned ==
  LocksExclusive <=> OwnedBy(mutex, MM, MH) /\ OwnedBy(log_lock, LG, LG)
BY DEF LocksExclusive, OwnedBy, Owned, One, MM, MH, LG

LEMMA LocksNext ==
  ASSUME \A u \in Threads : Owned(mutex', u, Holding(u, MM, MH)'),
         \A u \in Threads : Owned(log_lock', u, Holding(u, LG, LG)')
  PROVE  LocksExclusive'
BY DEF LocksExclusive, Owned, One, MM, MH, LG

(* Steps that go from place to place: which lock they take or release.     *)
LEMMA GotoLocks ==
  ASSUME ServerTypeOK, LocksExclusive, NEW t \in Threads, NEW pc, Goto(t, pc),
         InHandler(t) => pc \in HandlerPcs,
         \/ /\ Inside(t, pc, MM, MH) <=> Inside(t, Pc(t), MM, MH)
            /\ mutex' = mutex
         \/ Inside(t, pc, MM, MH) /\ mutex = "free" /\ mutex' = t
         \/ /\ Inside(t, Pc(t), MM, MH) /\ ~Inside(t, pc, MM, MH)
            /\ mutex' = "free",
         \/ /\ Inside(t, pc, LG, LG) <=> Inside(t, Pc(t), LG, LG)
            /\ log_lock' = log_lock
         \/ Inside(t, pc, LG, LG) /\ log_lock = "free" /\ log_lock' = t
         \/ /\ Inside(t, Pc(t), LG, LG) /\ ~Inside(t, pc, LG, LG)
            /\ log_lock' = "free"
  PROVE  LocksExclusive'
<1>1. OwnedBy(mutex, MM, MH) /\ OwnedBy(log_lock, LG, LG)
  BY LocksOwned
<1>2. \A u \in Threads : Owned(mutex', u, Holding(u, MM, MH)')
  BY <1>1, Keeps, Takes, Leaves
<1>3. \A u \in Threads : Owned(log_lock', u, Holding(u, LG, LG)')
  BY <1>1, Keeps, Takes, Leaves
<1> QED
  BY <1>2, <1>3, LocksNext

LEMMA LogLocks ==
  ASSUME ServerTypeOK, LocksExclusive, NEW t \in Threads, LogStep(t)
  PROVE  LocksExclusive'
<1>1. CASE EnterLog(t)
  BY <1>1, GotoLocks DEF EnterLog, Inside, MM, MH, LG, HandlerPcs
<1>2. CASE LeaveLog(t)
  <2>1. /\ Pc(t) = "logging" /\ log_lock' = "free" /\ mutex' = mutex
        /\ Goto(t, AfterLog(t))
    BY <1>2 DEF LeaveLog
  <2>2. /\ AfterLog(t) \in {"lock", "dump", "log", "poll"}
        /\ InHandler(t) => AfterLog(t) = "lock"
    BY DEF AfterLog
  <2> QED
    BY <2>1, <2>2, GotoLocks DEF Inside, MM, MH, LG, HandlerPcs
<1> QED
  BY <1>1, <1>2 DEF LogStep

LEMMA MainLocks ==
  ASSUME ServerTypeOK, LocksExclusive, MainStep
  PROVE  LocksExclusive'
<1> USE DEF Inside, Pc, MM, MH, LG
<1>1. Main \in Threads
  BY DEF Threads
<1>2. CASE MainLock
  BY <1>1, <1>2, GotoLocks DEF MainLock
<1>3. CASE MainTest
  BY <1>1, <1>3, GotoLocks DEF MainTest
<1>4. CASE MainBlock
  BY <1>1, <1>4, GotoLocks DEF MainBlock
<1>5. CASE MainUnlock
  BY <1>1, <1>5, GotoLocks DEF MainUnlock
<1> QED
  BY <1>2, <1>3, <1>4, <1>5 DEF MainStep

LEMMA WorkerLocks ==
  ASSUME ServerTypeOK, LocksExclusive, NEW t \in Workers, WorkerStep(t)
  PROVE  LocksExclusive'
<1> USE DEF Inside, Pc, MM, MH, LG
<1>1. t \in Threads
  BY DEF Threads
<1>2. CASE Receive(t)
  BY <1>1, <1>2, GotoLocks DEF Receive
<1>3. CASE Parse(t)
  BY <1>1, <1>3, GotoLocks DEF Parse
<1>4. CASE Dump(t)
  BY <1>1, <1>4, GotoLocks DEF Dump
<1> QED
  BY <1>2, <1>3, <1>4 DEF WorkerStep

(* Main is woken: it stands inside no lock before and after.               *)
LEMMA WokenFacts ==
  ASSUME ServerTypeOK
  PROVE  /\ Woken \in [Threads -> MainPcs \cup WorkerPcs]
         /\ \A u \in Threads : u # Main => Woken[u] = at[u]
         /\ Woken[Main] = IF at[Main] = "sleep" THEN "relock" ELSE at[Main]
BY DEF ServerTypeOK, Woken, MainPcs, Threads

LEMMA WokenNeutral ==
  ASSUME ServerTypeOK, at' = Woken
  PROVE  \A u \in Threads : /\ at'[u] \in MM <=> at[u] \in MM
                            /\ at'[u] \in LG <=> at[u] \in LG
BY WokenFacts DEF MM, LG

LEMMA WakeLocks ==
  ASSUME ServerTypeOK, LocksExclusive, TimeUp \/ SpuriousWake
  PROVE  LocksExclusive'
<1>1. /\ frames' = frames /\ at' = Woken
      /\ UNCHANGED <<mutex, log_lock>>
  BY DEF TimeUp, SpuriousWake
<1>2. \A u \in Threads : /\ Holding(u, MM, MH)' = Holding(u, MM, MH)
                         /\ Holding(u, LG, LG)' = Holding(u, LG, LG)
  BY <1>1, WokenNeutral, SameHolding
<1>3. OwnedBy(mutex, MM, MH) /\ OwnedBy(log_lock, LG, LG)
  BY LocksOwned
<1> QED
  BY <1>1, <1>2, <1>3, LocksNext DEF OwnedBy

LEMMA DeliverLocks ==
  ASSUME ServerTypeOK, LocksExclusive, NEW sig \in Signals, NEW t \in Threads,
         Deliver(sig, t)
  PROVE  LocksExclusive'
<1> DEFINE f == [sig |-> sig, at |-> "log"]
<1>1. /\ f \in Frame /\ f.at \notin MH /\ f.at \notin LG
      /\ frames \in [Threads -> Seq(Frame)]
      /\ frames' = [frames EXCEPT ![t] = <<f>> \o @] /\ at' = at
      /\ UNCHANGED <<mutex, log_lock>>
  BY DEF Deliver, ServerTypeOK, Frame, HandlerPcs, MH, LG
<1> HIDE DEF f
<1>2. OwnedBy(mutex, MM, MH) /\ OwnedBy(log_lock, LG, LG)
  BY LocksOwned
<1>3. \A u \in Threads : Owned(mutex, u, Holding(u, MM, MH)')
  BY <1>1, <1>2, HoldingPush DEF OwnedBy
<1>4. \A u \in Threads : Owned(log_lock, u, Holding(u, LG, LG)')
  BY <1>1, <1>2, HoldingPush DEF OwnedBy
<1> QED
  BY <1>1, <1>3, <1>4, LocksNext

LEMMA NotifyLocks ==
  ASSUME ServerTypeOK, LocksExclusive, NEW t \in Threads, StopNotify(t)
  PROVE  LocksExclusive'
<1>1. /\ frames \in [Threads -> Seq(Frame)] /\ InHandler(t)
      /\ Head(frames[t]).at = "notify" /\ at' = Woken
      /\ "unlock" \in HandlerPcs /\ HeadTo(t, "unlock")
      /\ UNCHANGED <<mutex, log_lock>>
  BY DEF StopNotify, ServerTypeOK, HandlerPcs, HeadTo, Pc
<1>2. \A u \in Threads : Holding(u, MM, MH)' = Holding(u, MM, MH)
  <2>1. 1 \in Holding(t, MM, MH)
    BY <1>1, HoldsAt DEF MH
  <2>2. "unlock" \in MH /\ \A u \in Threads : at'[u] \in MM <=> at[u] \in MM
    BY <1>1, WokenNeutral DEF MH
  <2>3. Holding(t, MM, MH)' = Holding(t, MM, MH)
    <3>1. Holding(t, MM, MH)' = Holding(t, MM, MH) \cup {1}
      BY <1>1, <2>2, HoldingHead
    <3> QED
      BY <2>1, <3>1
  <2>4. ASSUME NEW u \in Threads, u # t
        PROVE  Holding(u, MM, MH)' = Holding(u, MM, MH)
    <3>1. frames'[u] = frames[u]
      BY <1>1, <2>4 DEF HeadTo
    <3> QED
      BY <2>2, <3>1 DEF Holding
  <2> QED
    BY <2>3, <2>4
<1>3. \A u \in Threads : Holding(u, LG, LG)' = Holding(u, LG, LG)
  <2>1. 1 \notin Holding(t, LG, LG)
    BY <1>1, HoldsAt DEF LG
  <2>2. "unlock" \notin LG /\ \A u \in Threads : at'[u] \in LG <=> at[u] \in LG
    BY <1>1, WokenNeutral DEF LG
  <2>3. Holding(t, LG, LG)' = Holding(t, LG, LG)
    <3>1. Holding(t, LG, LG)' = Holding(t, LG, LG) \ {1}
      BY <1>1, <2>2, HoldingHead
    <3> QED
      BY <2>1, <3>1
  <2>4. ASSUME NEW u \in Threads, u # t
        PROVE  Holding(u, LG, LG)' = Holding(u, LG, LG)
    <3>1. frames'[u] = frames[u]
      BY <1>1, <2>4 DEF HeadTo
    <3> QED
      BY <2>2, <3>1 DEF Holding
  <2> QED
    BY <2>3, <2>4
<1>4. OwnedBy(mutex, MM, MH) /\ OwnedBy(log_lock, LG, LG)
  BY LocksOwned
<1> QED
  BY <1>1, <1>2, <1>3, <1>4, LocksNext DEF OwnedBy

LEMMA ReturnLocks ==
  ASSUME ServerTypeOK, LocksExclusive, NEW t \in Threads, StopReturn(t)
  PROVE  LocksExclusive'
<1>1. /\ frames \in [Threads -> Seq(Frame)] /\ InHandler(t)
      /\ Head(frames[t]).at = "unlock" /\ at' = at
      /\ frames' = [frames EXCEPT ![t] = Tail(@)]
      /\ mutex' = "free" /\ log_lock' = log_lock
  BY DEF StopReturn, ServerTypeOK, Pc
<1>2. OwnedBy(mutex, MM, MH) /\ OwnedBy(log_lock, LG, LG)
  BY LocksOwned
<1>3. \A u \in Threads : Owned("free", u, Holding(u, MM, MH)')
  <2>1. 1 \in Holding(t, MM, MH)
    BY <1>1, HoldsAt DEF MH
  <2>2. mutex = t
    BY <1>2, <2>1 DEF OwnedBy, Owned
  <2>3. Holding(t, MM, MH)' = {}
    <3>1. One(Holding(t, MM, MH))
      BY <1>2, <2>2 DEF OwnedBy, Owned
    <3> QED
      BY <1>1, <2>1, <3>1, HoldingPop
  <2>4. \A u \in Threads : u # t => Holding(u, MM, MH)' = {}
    BY <1>1, <1>2, <2>2, HoldingPop DEF OwnedBy, Owned
  <2> QED
    BY <2>3, <2>4, OwnedFree
<1>4. \A u \in Threads : Owned(log_lock, u, Holding(u, LG, LG)')
  <2>1. 1 \notin Holding(t, LG, LG)
    BY <1>1, HoldsAt DEF LG
  <2>2. Owned(log_lock, t, Holding(t, LG, LG)')
    <3>1. CASE log_lock = t
      <4>1. One(Holding(t, LG, LG))
        BY <1>2, <3>1 DEF OwnedBy, Owned
      <4>2. One(Holding(t, LG, LG)')
        BY <1>1, <2>1, <4>1, HoldingPop
      <4> QED
        BY <3>1, <4>2 DEF Owned
    <3>2. CASE log_lock # t
      <4>1. Holding(t, LG, LG) = {}
        BY <1>2, <3>2 DEF OwnedBy, Owned
      <4>2. Holding(t, LG, LG)' = {}
        BY <1>1, <4>1, HoldingPop
      <4> QED
        BY <3>2, <4>2 DEF Owned
    <3> QED
      BY <3>1, <3>2
  <2>3. ASSUME NEW u \in Threads, u # t
        PROVE  Holding(u, LG, LG)' = Holding(u, LG, LG)
    <3>1. frames'[u] = frames[u] /\ at'[u] = at[u]
      BY <1>1, <2>3
    <3> QED
      BY <3>1 DEF Holding
  <2> QED
    BY <1>2, <2>2, <2>3 DEF OwnedBy
<1> QED
  BY <1>1, <1>3, <1>4, LocksNext

LEMMA HandlerLocks ==
  ASSUME ServerTypeOK, LocksExclusive, NEW t \in Threads, HandlerStep(t)
  PROVE  LocksExclusive'
<1>1. CASE StopLock(t)
  BY <1>1, GotoLocks DEF StopLock, Inside, MM, MH, LG, HandlerPcs
<1>2. CASE StopSet(t)
  BY <1>2, GotoLocks DEF StopSet, Inside, MM, MH, LG, HandlerPcs
<1> QED
  BY <1>1, <1>2, NotifyLocks, ReturnLocks DEF HandlerStep

LEMMA LocksStep ==
  ASSUME ServerTypeOK, LocksExclusive, [ServerNext]_server
  PROVE  LocksExclusive'
<1>1. CASE UNCHANGED server
  BY <1>1 DEF server, LocksExclusive, Holding
<1>2. ASSUME MainStep PROVE LocksExclusive'
  BY <1>2, MainLocks
<1>3. ASSUME NEW t \in Threads, LogStep(t) \/ HandlerStep(t) PROVE LocksExclusive'
  BY <1>3, LogLocks, HandlerLocks
<1>4. ASSUME NEW t \in Workers, WorkerStep(t) PROVE LocksExclusive'
  BY <1>4, WorkerLocks
<1>5. ASSUME TimeUp \/ SpuriousWake PROVE LocksExclusive'
  BY <1>5, WakeLocks
<1>6. ASSUME NEW sig \in Signals, NEW t \in Threads, Deliver(sig, t)
      PROVE  LocksExclusive'
  BY <1>6, DeliverLocks
<1> QED
  BY <1>1, <1>2, <1>3, <1>4, <1>5, <1>6 DEF ServerNext
-----------------------------------------------------------------------------
(* Types.                                                                  *)
LEMMA GotoTyped ==
  ASSUME ServerTypeOK, NEW t \in Threads, NEW pc, Goto(t, pc),
         InHandler(t) => pc \in HandlerPcs,
         ~InHandler(t) => pc \in IF t = Main THEN MainPcs ELSE WorkerPcs
  PROVE  /\ frames' \in [Threads -> Seq(Frame)]
         /\ at' \in [Threads -> MainPcs \cup WorkerPcs]
         /\ at'[Main] \in MainPcs
         /\ \A u \in Workers : at'[u] \in WorkerPcs
<1>1. CASE InHandler(t)
  BY <1>1, GotoFacts, HeadMoves DEF HeadTo, ServerTypeOK
<1>2. CASE ~InHandler(t)
  <2>1. /\ frames' = frames /\ at' = [at EXCEPT ![t] = pc]
        /\ at \in [Threads -> MainPcs \cup WorkerPcs]
        /\ pc \in MainPcs \cup WorkerPcs
        /\ t = Main => pc \in MainPcs
        /\ t # Main => pc \in WorkerPcs
    BY <1>2, GotoFacts DEF ServerTypeOK
  <2>2. Main \in Threads /\ \A u \in Workers : u \in Threads /\ u # Main
    BY ServerAssumption DEF Threads
  <2> QED
    BY <2>1, <2>2 DEF ServerTypeOK
<1> QED
  BY <1>1, <1>2

LEMMA LogTyped ==
  ASSUME ServerTypeOK, NEW t \in Threads, LogStep(t)
  PROVE  ServerTypeOK'
<1>1. CASE EnterLog(t)
  <2>1. /\ Goto(t, "logging") /\ Pc(t) = "log" /\ log_lock' = t
        /\ UNCHANGED <<mutex, terminate, time_up, raised, mbuf, lines>>
    BY <1>1 DEF EnterLog
  <2>2. "logging" \in MainPcs /\ "logging" \in WorkerPcs /\ "logging" \in HandlerPcs
    BY DEF MainPcs, WorkerPcs, HandlerPcs
  <2>3. /\ frames' \in [Threads -> Seq(Frame)]
        /\ at' \in [Threads -> MainPcs \cup WorkerPcs]
        /\ at'[Main] \in MainPcs
        /\ \A u \in Workers : at'[u] \in WorkerPcs
    BY <2>1, <2>2, GotoTyped
  <2>4. ASSUME NEW u \in Workers
        PROVE  lines'[u] > 0 <=> at'[u] \in {"dump", "log", "logging"}
    BY <2>1, <2>4, GotoFacts DEF ServerTypeOK, Threads, Pc
  <2> QED
    BY <2>1, <2>3, <2>4 DEF ServerTypeOK
<1>2. CASE LeaveLog(t)
  <2> DEFINE pc == AfterLog(t)
  <2>1. /\ Goto(t, pc) /\ Pc(t) = "logging" /\ log_lock' = "free"
        /\ UNCHANGED <<mutex, terminate, time_up, raised, mbuf>>
        /\ lines' = IF t = Main \/ InHandler(t) THEN lines
                                                ELSE [lines EXCEPT ![t] = @ - 1]
    BY <1>2 DEF LeaveLog
  <2>2. /\ InHandler(t) => pc \in HandlerPcs
        /\ ~InHandler(t) => pc \in IF t = Main THEN MainPcs ELSE WorkerPcs
    BY DEF AfterLog, MainPcs, WorkerPcs, HandlerPcs
  <2>3. ~InHandler(t) /\ t # Main => 
        IF lines[t] > 1 THEN pc \in {"dump", "log"} ELSE pc = "poll"
    BY DEF AfterLog
  <2> HIDE DEF pc
  <2>4. /\ frames' \in [Threads -> Seq(Frame)]
        /\ at' \in [Threads -> MainPcs \cup WorkerPcs]
        /\ at'[Main] \in MainPcs
        /\ \A u \in Workers : at'[u] \in WorkerPcs
    BY <2>1, <2>2, GotoTyped
  <2>5. ASSUME NEW u \in Workers
        PROVE  /\ lines'[u] \in 0 .. 5
               /\ lines'[u] > 0 <=> at'[u] \in {"dump", "log", "logging"}
    <3>1. CASE u = t /\ ~InHandler(t)
      <4>1. /\ IF lines[u] > 1 THEN at'[u] \in {"dump", "log"} ELSE at'[u] = "poll"
            /\ u # Main /\ u \in Threads
        BY <2>1, <2>3, <3>1, GotoFacts, ServerAssumption DEF Threads
      <4>2. lines[u] \in 1 .. 5
        BY <2>1, <3>1 DEF ServerTypeOK, Pc
      <4>3. lines'[u] = lines[u] - 1
        BY <2>1, <3>1, <4>1 DEF ServerTypeOK
      <4> QED
        BY <4>1, <4>2, <4>3
    <3>2. CASE ~(u = t /\ ~InHandler(t))
      <4>1. lines'[u] = lines[u]
        BY <2>1, <3>2 DEF ServerTypeOK
      <4>2. at'[u] = at[u]
        BY <2>1, <3>2, GotoFacts DEF Threads
      <4> QED
        BY <4>1, <4>2 DEF ServerTypeOK
    <3> QED
      BY <3>1, <3>2
  <2>6. lines' \in [Workers -> 0 .. 5]
    BY <2>1, <2>5 DEF ServerTypeOK
  <2> QED
    BY <2>1, <2>4, <2>5, <2>6 DEF ServerTypeOK
<1> QED
  BY <1>1, <1>2 DEF LogStep

LEMMA MainTyped ==
  ASSUME ServerTypeOK, MainStep
  PROVE  ServerTypeOK'
<1>1. PICK pc \in {"test", "unlock", "block", "sleep", "done"} :
        /\ ~InHandler(Main) /\ Goto(Main, pc) /\ mutex' \in {mutex, "free", Main}
        /\ UNCHANGED <<log_lock, terminate, time_up, raised, mbuf, lines>>
  BY DEF MainStep, MainLock, MainTest, MainBlock, MainUnlock
<1>2. pc \in MainPcs /\ Main \in Threads
  BY DEF MainPcs, Threads
<1>3. /\ frames' \in [Threads -> Seq(Frame)]
      /\ at' \in [Threads -> MainPcs \cup WorkerPcs]
      /\ at'[Main] \in MainPcs
      /\ \A u \in Workers : at'[u] \in WorkerPcs
  BY <1>1, <1>2, GotoTyped
<1>4. \A u \in Workers : at'[u] = at[u]
  BY <1>1, <1>2, GotoFacts, ServerAssumption DEF Threads
<1> QED
  BY <1>1, <1>2, <1>3, <1>4 DEF ServerTypeOK

LEMMA WorkerTyped ==
  ASSUME ServerTypeOK, NEW t \in Workers, WorkerStep(t)
  PROVE  ServerTypeOK'
<1>1. t \in Threads /\ t # Main
  BY ServerAssumption DEF Threads
<1>2. LinesFor(mbuf[t]) \in {0, 2, 5}
  BY DEF LinesFor
<1>3. CASE Receive(t)
  <2>1. /\ ~InHandler(t) /\ Goto(t, "parse") /\ at[t] = "poll"
        /\ mbuf' \in [Workers -> Packets \cup {NoPacket}]
        /\ UNCHANGED <<mutex, log_lock, terminate, time_up, raised, lines>>
    BY <1>3 DEF Receive, ServerTypeOK
  <2>2. "parse" \in WorkerPcs
    BY DEF WorkerPcs
  <2>3. /\ frames' \in [Threads -> Seq(Frame)]
        /\ at' \in [Threads -> MainPcs \cup WorkerPcs]
        /\ at'[Main] \in MainPcs
        /\ \A u \in Workers : at'[u] \in WorkerPcs
    BY <1>1, <2>1, <2>2, GotoTyped
  <2>4. ASSUME NEW u \in Workers
        PROVE  lines'[u] > 0 <=> at'[u] \in {"dump", "log", "logging"}
    BY <1>1, <2>1, GotoFacts DEF ServerTypeOK, Threads
  <2> QED
    BY <2>1, <2>3, <2>4 DEF ServerTypeOK
<1>4. CASE Parse(t)
  <2> DEFINE n == LinesFor(mbuf[t])
  <2>1. /\ ~InHandler(t) /\ Goto(t, IF n = 0 THEN "poll" ELSE "log")
        /\ lines' = [lines EXCEPT ![t] = n]
        /\ UNCHANGED <<mutex, log_lock, terminate, time_up, raised, mbuf>>
    BY <1>4 DEF Parse
  <2> HIDE DEF n
  <2>2. "poll" \in WorkerPcs /\ "log" \in WorkerPcs
    BY DEF WorkerPcs
  <2>3. n \in {0, 2, 5}
    BY <1>2 DEF n
  <2>4. /\ frames' \in [Threads -> Seq(Frame)]
        /\ at' \in [Threads -> MainPcs \cup WorkerPcs]
        /\ at'[Main] \in MainPcs
        /\ \A u \in Workers : at'[u] \in WorkerPcs
    BY <1>1, <2>1, <2>2, GotoTyped
  <2>5. lines' \in [Workers -> 0 .. 5]
    BY <2>1, <2>3 DEF ServerTypeOK
  <2>6. ASSUME NEW u \in Workers
        PROVE  lines'[u] > 0 <=> at'[u] \in {"dump", "log", "logging"}
    <3>1. CASE u = t
      BY <1>1, <2>1, <2>3, <3>1, GotoFacts DEF ServerTypeOK
    <3>2. CASE u # t
      BY <1>1, <2>1, <3>2, GotoFacts DEF ServerTypeOK, Threads
    <3> QED
      BY <3>1, <3>2
  <2> QED
    BY <2>1, <2>4, <2>5, <2>6 DEF ServerTypeOK
<1>5. CASE Dump(t)
  <2>1. /\ ~InHandler(t) /\ Goto(t, "log") /\ at[t] = "dump"
        /\ UNCHANGED <<mutex, log_lock, terminate, time_up, raised, mbuf, lines>>
    BY <1>5 DEF Dump
  <2>2. "log" \in WorkerPcs
    BY DEF WorkerPcs
  <2>3. /\ frames' \in [Threads -> Seq(Frame)]
        /\ at' \in [Threads -> MainPcs \cup WorkerPcs]
        /\ at'[Main] \in MainPcs
        /\ \A u \in Workers : at'[u] \in WorkerPcs
    BY <1>1, <2>1, <2>2, GotoTyped
  <2>4. ASSUME NEW u \in Workers
        PROVE  lines'[u] > 0 <=> at'[u] \in {"dump", "log", "logging"}
    BY <1>1, <2>1, GotoFacts DEF ServerTypeOK, Threads
  <2> QED
    BY <2>1, <2>3, <2>4 DEF ServerTypeOK
<1> QED
  BY <1>3, <1>4, <1>5 DEF WorkerStep

LEMMA WakeTyped ==
  ASSUME ServerTypeOK, TimeUp \/ SpuriousWake
  PROVE  ServerTypeOK'
<1>1. \A u \in Workers : Woken[u] = at[u]
  BY WokenFacts, ServerAssumption DEF Threads
<1>2. Woken[Main] \in MainPcs
  BY WokenFacts DEF ServerTypeOK, MainPcs
<1> QED
  BY <1>1, <1>2, WokenFacts DEF TimeUp, SpuriousWake, ServerTypeOK

LEMMA DeliverTyped ==
  ASSUME ServerTypeOK, NEW sig \in Signals, NEW t \in Threads, Deliver(sig, t)
  PROVE  ServerTypeOK'
<1> DEFINE f == [sig |-> sig, at |-> "log"]
<1>1. f \in Frame
  BY DEF Frame, HandlerPcs
<1>2. /\ frames' = [frames EXCEPT ![t] = <<f>> \o @]
      /\ raised' = raised \cup {sig}
      /\ UNCHANGED <<at, mutex, log_lock, terminate, time_up, mbuf, lines>>
  BY DEF Deliver
<1> HIDE DEF f
<1>3. frames' \in [Threads -> Seq(Frame)]
  BY <1>1, <1>2, Pushed DEF ServerTypeOK
<1> QED
  BY <1>2, <1>3 DEF ServerTypeOK

LEMMA HandlerTyped ==
  ASSUME ServerTypeOK, NEW t \in Threads, HandlerStep(t)
  PROVE  ServerTypeOK'
<1>1. CASE StopLock(t) \/ StopSet(t)
  <2>1. PICK pc \in HandlerPcs :
          /\ InHandler(t) /\ Goto(t, pc)
          /\ mutex' \in {mutex, t} /\ terminate' \in {terminate, TRUE}
          /\ UNCHANGED <<log_lock, time_up, raised, mbuf, lines>>
    BY <1>1 DEF StopLock, StopSet, HandlerPcs
  <2>2. frames' \in [Threads -> Seq(Frame)] /\ at' = at
    BY <2>1, GotoTyped, GotoFacts
  <2> QED
    BY <2>1, <2>2 DEF ServerTypeOK
<1>2. CASE StopNotify(t)
  <2>1. /\ frames' \in [Threads -> Seq(Frame)] /\ at' = Woken
        /\ UNCHANGED <<mutex, log_lock, terminate, time_up, raised, mbuf, lines>>
    BY <1>2, HeadMoves DEF StopNotify, HandlerPcs, ServerTypeOK
  <2>2. \A u \in Workers : Woken[u] = at[u]
    BY WokenFacts, ServerAssumption DEF Threads
  <2>3. Woken[Main] \in MainPcs
    BY WokenFacts DEF ServerTypeOK, MainPcs
  <2> QED
    BY <2>1, <2>2, <2>3, WokenFacts DEF ServerTypeOK
<1>3. CASE StopReturn(t)
  <2>1. frames' \in [Threads -> Seq(Frame)]
    BY <1>3, Popped DEF StopReturn, ServerTypeOK
  <2> QED
    BY <1>3, <2>1 DEF StopReturn, ServerTypeOK
<1> QED
  BY <1>1, <1>2, <1>3 DEF HandlerStep

LEMMA TypeStep ==
  ASSUME ServerTypeOK, [ServerNext]_server
  PROVE  ServerTypeOK'
<1>1. CASE UNCHANGED server
  BY <1>1 DEF server, ServerTypeOK
<1>2. ASSUME MainStep PROVE ServerTypeOK'
  BY <1>2, MainTyped
<1>3. ASSUME NEW t \in Threads, LogStep(t) \/ HandlerStep(t) PROVE ServerTypeOK'
  BY <1>3, LogTyped, HandlerTyped
<1>4. ASSUME NEW t \in Workers, WorkerStep(t) PROVE ServerTypeOK'
  BY <1>4, WorkerTyped
<1>5. ASSUME TimeUp \/ SpuriousWake PROVE ServerTypeOK'
  BY <1>5, WakeTyped
<1>6. ASSUME NEW sig \in Signals, NEW t \in Threads, Deliver(sig, t)
      PROVE  ServerTypeOK'
  BY <1>6, DeliverTyped
<1> QED
  BY <1>1, <1>2, <1>3, <1>4, <1>5, <1>6 DEF ServerNext
-----------------------------------------------------------------------------
LEMMA WaitStep ==
  ASSUME ServerTypeOK, WaitHonoured, [ServerNext]_server
  PROVE  WaitHonoured'
<1> USE DEF WaitHonoured
<1>1. CASE UNCHANGED server
  BY <1>1 DEF server
<1>2. CASE MainStep
  <2>1. Main \in Threads
    BY DEF Threads
  <2>2. CASE MainTest
    BY <2>1, <2>2, GotoFacts DEF MainTest
  <2>3. CASE MainUnlock
    BY <2>1, <2>3, GotoFacts DEF MainUnlock
  <2>4. CASE MainLock \/ MainBlock
    BY <2>1, <2>4, GotoFacts DEF MainLock, MainBlock
  <2> QED
    BY <1>2, <2>2, <2>3, <2>4 DEF MainStep
<1>3. ASSUME NEW t \in Threads, LogStep(t)
      PROVE  WaitHonoured'
  <2>1. PICK pc \in {"logging", "lock", "dump", "log", "poll"} :
          Goto(t, pc) /\ UNCHANGED <<terminate, time_up>>
    BY <1>3 DEF LogStep, EnterLog, LeaveLog, AfterLog
  <2>2. at'[Main] = at[Main] \/ at'[Main] = pc
    BY <2>1, GotoFacts DEF Threads
  <2> QED
    BY <2>1, <2>2
<1>4. ASSUME NEW t \in Threads, HandlerStep(t)
      PROVE  WaitHonoured'
  <2>1. CASE StopLock(t) \/ StopSet(t)
    BY <2>1, GotoFacts DEF StopLock, StopSet
  <2>2. CASE StopNotify(t)
    BY <2>2, WokenFacts DEF StopNotify
  <2>3. CASE StopReturn(t)
    BY <2>3 DEF StopReturn
  <2> QED
    BY <1>4, <2>1, <2>2, <2>3 DEF HandlerStep
<1>5. ASSUME NEW t \in Workers, WorkerStep(t)
      PROVE  WaitHonoured'
  <2>1. PICK pc : Goto(t, pc) /\ UNCHANGED <<terminate, time_up>>
    BY <1>5 DEF WorkerStep, Receive, Parse, Dump
  <2>2. at'[Main] = at[Main]
    BY <2>1, GotoFacts, ServerAssumption DEF Threads
  <2> QED
    BY <2>1, <2>2
<1>6. CASE TimeUp \/ SpuriousWake
  BY <1>6, WokenFacts DEF TimeUp, SpuriousWake
<1>7. ASSUME NEW sig \in Signals, NEW t \in Threads, Deliver(sig, t)
      PROVE  WaitHonoured'
  BY <1>7 DEF Deliver
<1> QED
  BY <1>1, <1>2, <1>3, <1>4, <1>5, <1>6, <1>7 DEF ServerNext

(* A handler is about to notify.                                           *)
Notifying ==
  \E t \in Threads : \E i \in 1 .. Len(frames[t]) : frames[t][i].at = "notify"

LEMMA NotifyingKept ==
  ASSUME ServerTypeOK, Notifying, NEW t \in Threads, NEW pc, Goto(t, pc),
         InHandler(t) => pc \in HandlerPcs /\ Pc(t) # "notify"
  PROVE  Notifying'
<1>1. CASE ~InHandler(t)
  BY <1>1, GotoFacts DEF Notifying
<1>2. CASE InHandler(t)
  <2>1. /\ Len(frames'[t]) = Len(frames[t]) /\ Len(frames[t]) \in Nat \ {0}
        /\ \A i \in 2 .. Len(frames[t]) : frames'[t][i] = frames[t][i]
        /\ \A u \in Threads : u # t => frames'[u] = frames[u]
    BY <1>2, GotoFacts, HeadMoves DEF HeadTo
  <2>2. frames[t][1].at # "notify"
    BY <1>2 DEF Pc, ServerTypeOK, InHandler
  <2>3. PICK u \in Threads : \E i \in 1 .. Len(frames[u]) : frames[u][i].at = "notify"
    BY DEF Notifying
  <2>4. \E i \in 1 .. Len(frames'[u]) : frames'[u][i].at = "notify"
    BY <2>1, <2>2, <2>3
  <2> QED
    BY <2>4 DEF Notifying
<1> QED
  BY <1>1, <1>2

(* Main is not between its test and its sleep while a handler notifies:    *)
(* both hold the mutex.                                                    *)
LEMMA NotBetween ==
  ASSUME ServerTypeOK, LocksExclusive, NEW t \in Threads,
         InHandler(t), Pc(t) = "notify"
  PROVE  at[Main] # "block"
<1> SUFFICES ASSUME at[Main] = "block"
             PROVE  FALSE
  OBVIOUS
<1>1. /\ frames \in [Threads -> Seq(Frame)] /\ Main \in Threads
      /\ OwnedBy(mutex, MM, MH)
  BY LocksOwned DEF ServerTypeOK, Threads
<1>2. 0 \in Holding(Main, MM, MH)
  BY <1>1, HoldsAt DEF MM
<1>3. 1 \in Holding(t, MM, MH)
  BY <1>1, HoldsAt DEF MH, Pc
<1>4. mutex = Main /\ mutex = t
  BY <1>1, <1>2, <1>3 DEF OwnedBy, Owned
<1>5. One(Holding(t, MM, MH))
  BY <1>1, <1>4 DEF OwnedBy, Owned
<1> QED
  BY <1>2, <1>3, <1>4, <1>5 DEF One

LEMMA StopStep ==
  ASSUME ServerTypeOK, LocksExclusive, StopNotLost, [ServerNext]_server
  PROVE  StopNotLost'
<1>0. terminate /\ at[Main] \in {"block", "sleep"} => Notifying
  BY DEF StopNotLost, Notifying
<1> SUFFICES ASSUME terminate', at'[Main] \in {"block", "sleep"}
             PROVE  Notifying'
  BY DEF StopNotLost, Notifying
<1>1. CASE UNCHANGED server
  BY <1>0, <1>1 DEF server, Notifying
<1>2. CASE MainStep
  <2>1. Main \in Threads
    BY DEF Threads
  <2>2. PICK pc : ~InHandler(Main) /\ Goto(Main, pc) /\ terminate' = terminate
    BY <1>2 DEF MainStep, MainLock, MainTest, MainBlock, MainUnlock
  <2>3. at'[Main] = pc /\ frames' = frames
    BY <2>1, <2>2, GotoFacts
  <2>4. \A q : Goto(Main, q) => at'[Main] = q
    <3> SUFFICES ASSUME NEW q, Goto(Main, q) PROVE at'[Main] = q
      OBVIOUS
    <3> QED
      BY <2>1, <2>2, GotoFacts
  <2>5. MainBlock
    <3>1. ASSUME MainLock PROVE FALSE
      <4>1. at'[Main] = "test"
        BY <2>4, <3>1 DEF MainLock
      <4> QED
        BY <4>1
    <3>2. ASSUME MainTest PROVE FALSE
      <4>1. terminate /\ Goto(Main, IF time_up \/ terminate THEN "unlock" ELSE "block")
        BY <2>2, <3>2 DEF MainTest
      <4>2. at'[Main] = "unlock"
        BY <2>4, <4>1
      <4> QED
        BY <4>2
    <3>3. ASSUME MainUnlock PROVE FALSE
      <4>1. at'[Main] = "done"
        BY <2>4, <3>3 DEF MainUnlock
      <4> QED
        BY <4>1
    <3> QED
      BY <1>2, <3>1, <3>2, <3>3 DEF MainStep
  <2> QED
    BY <1>0, <2>2, <2>3, <2>5 DEF MainBlock, Notifying
<1>3. ASSUME NEW t \in Threads, LogStep(t)
      PROVE  Notifying'
  <2>1. PICK pc \in {"logging", "lock", "dump", "log", "poll"} :
          /\ Goto(t, pc) /\ terminate' = terminate
          /\ Pc(t) # "notify"
          /\ InHandler(t) => pc \in {"logging", "lock"}
    BY <1>3 DEF LogStep, EnterLog, LeaveLog, AfterLog
  <2>2. at'[Main] = at[Main]
    BY <2>1, GotoFacts DEF Threads
  <2> QED
    BY <1>0, <2>1, <2>2, NotifyingKept DEF HandlerPcs
<1>4. ASSUME NEW t \in Threads, StopLock(t)
      PROVE  Notifying'
  <2>1. /\ InHandler(t) /\ Goto(t, "set") /\ Pc(t) = "lock"
        /\ terminate' = terminate
    BY <1>4 DEF StopLock
  <2> QED
    BY <1>0, <2>1, GotoFacts, NotifyingKept DEF HandlerPcs
<1>5. ASSUME NEW t \in Threads, StopSet(t)
      PROVE  Notifying'
  <2>1. /\ frames \in [Threads -> Seq(Frame)] /\ InHandler(t)
        /\ "notify" \in HandlerPcs /\ HeadTo(t, "notify")
    BY <1>5, GotoFacts DEF StopSet, HandlerPcs
  <2>2. Len(frames'[t]) \in Nat \ {0} /\ frames'[t][1].at = "notify"
    BY <2>1, HeadMoves DEF HeadTo
  <2> QED
    BY <2>2 DEF Notifying
<1>6. ASSUME NEW t \in Threads, StopNotify(t)
      PROVE  Notifying'
  BY <1>6, NotBetween, WokenFacts DEF StopNotify
<1>7. ASSUME NEW t \in Threads, StopReturn(t)
      PROVE  Notifying'
  <2>1. /\ Len(frames'[t]) = Len(frames[t]) - 1 /\ Len(frames[t]) \in Nat \ {0}
        /\ \A i \in 1 .. Len(frames'[t]) : frames'[t][i] = frames[t][i + 1]
        /\ \A u \in Threads : u # t => frames'[u] = frames[u]
    BY <1>7, Popped DEF StopReturn, ServerTypeOK
  <2>2. frames[t][1].at # "notify" /\ at' = at /\ terminate' = terminate
    <3>1. /\ Head(frames[t]).at = "unlock" /\ at' = at /\ terminate' = terminate
          /\ frames[t] \in Seq(Frame) /\ frames[t] # <<>>
      BY <1>7 DEF StopReturn, Pc, ServerTypeOK, InHandler
    <3>2. Head(frames[t]) = frames[t][1]
      BY <3>1
    <3> QED
      BY <3>1, <3>2
  <2>3. PICK u \in Threads : \E i \in 1 .. Len(frames[u]) : frames[u][i].at = "notify"
    BY <1>0, <2>2 DEF Notifying
  <2>4. PICK i \in 1 .. Len(frames[u]) : frames[u][i].at = "notify"
    BY <2>3
  <2>5. CASE u = t
    <3>1. i - 1 \in 1 .. Len(frames'[t]) /\ (i - 1) + 1 = i
      BY <2>1, <2>2, <2>4, <2>5
    <3>2. frames'[t][i - 1].at = "notify"
      BY <2>1, <2>4, <2>5, <3>1
    <3> QED
      BY <3>1, <3>2 DEF Notifying
  <2>6. CASE u # t
    BY <2>1, <2>4, <2>6 DEF Notifying
  <2> QED
    BY <2>5, <2>6
<1>8. ASSUME NEW t \in Workers, WorkerStep(t)
      PROVE  Notifying'
  <2>1. PICK pc : ~InHandler(t) /\ Goto(t, pc) /\ terminate' = terminate
    BY <1>8 DEF WorkerStep, Receive, Parse, Dump
  <2>2. at'[Main] = at[Main] /\ frames' = frames
    BY <2>1, GotoFacts, ServerAssumption DEF Threads
  <2> QED
    BY <1>0, <2>1, <2>2 DEF Notifying
<1>9. CASE TimeUp \/ SpuriousWake
  BY <1>9, WokenFacts DEF TimeUp, SpuriousWake
<1>10. ASSUME NEW sig \in Signals, NEW t \in Threads, Deliver(sig, t)
       PROVE  Notifying'
  <2> DEFINE f == [sig |-> sig, at |-> "log"]
  <2>1. /\ f \in Frame /\ frames \in [Threads -> Seq(Frame)]
        /\ frames' = [frames EXCEPT ![t] = <<f>> \o @]
        /\ at' = at /\ terminate' = terminate
    BY <1>10 DEF Deliver, ServerTypeOK, Frame, HandlerPcs
  <2> HIDE DEF f
  <2>2. /\ Len(frames'[t]) = Len(frames[t]) + 1 /\ Len(frames[t]) \in Nat
        /\ \A i \in 1 .. Len(frames[t]) : frames'[t][i + 1] = frames[t][i]
        /\ \A u \in Threads : u # t => frames'[u] = frames[u]
    BY <2>1, Pushed
  <2>3. PICK u \in Threads : \E i \in 1 .. Len(frames[u]) : frames[u][i].at = "notify"
    BY <1>0, <2>1 DEF Notifying
  <2>4. PICK i \in 1 .. Len(frames[u]) : frames[u][i].at = "notify"
    BY <2>3
  <2>5. CASE u = t
    <3>1. i + 1 \in 1 .. Len(frames'[t])
      BY <2>2, <2>4, <2>5
    <3>2. frames'[t][i + 1].at = "notify"
      BY <2>2, <2>4, <2>5
    <3> QED
      BY <3>1, <3>2 DEF Notifying
  <2>6. CASE u # t
    BY <2>2, <2>4, <2>6 DEF Notifying
  <2> QED
    BY <2>5, <2>6
<1> QED
  BY <1>1, <1>2, <1>3, <1>4, <1>5, <1>6, <1>7, <1>8, <1>9, <1>10
  DEF ServerNext, HandlerStep
-----------------------------------------------------------------------------
(* The inductive invariant: StopNotLost needs the mutex to be exclusive.   *)
ServerInv == ServerTypeOK /\ LocksExclusive /\ WaitHonoured /\ StopNotLost

LEMMA InitInv ==
  ASSUME ServerInit
  PROVE  ServerInv
<1>1. Main \in Threads /\ \A u \in Workers : u \in Threads /\ u # Main
  BY ServerAssumption DEF Threads
<1>2. ServerTypeOK
  <2>1. /\ at \in [Threads -> MainPcs \cup WorkerPcs]
        /\ at[Main] \in MainPcs
        /\ \A t \in Workers : at[t] = "poll" /\ "poll" \in WorkerPcs
    BY <1>1 DEF ServerInit, MainPcs, WorkerPcs
  <2>2. /\ frames \in [Threads -> Seq(Frame)]
        /\ mbuf \in [Workers -> Packets \cup {NoPacket}]
        /\ lines \in [Workers -> 0 .. 5]
        /\ \A t \in Workers : lines[t] = 0
    BY DEF ServerInit
  <2>3. /\ mutex = "free" /\ log_lock = "free" /\ raised = {}
        /\ terminate \in BOOLEAN /\ time_up \in BOOLEAN
    BY DEF ServerInit
  <2>4. ASSUME NEW t \in Workers
        PROVE  lines[t] > 0 <=> at[t] \in {"dump", "log", "logging"}
    BY <2>1, <2>2
  <2> QED
    BY <2>1, <2>2, <2>3, <2>4 DEF ServerTypeOK
<1>3. \A t \in Threads : Holding(t, MM, MH) = {} /\ Holding(t, LG, LG) = {}
  BY DEF ServerInit, Holding, MM, LG
<1>4. LocksExclusive
  BY <1>3, OwnedFree, LocksOwned DEF OwnedBy, ServerInit
<1>5. WaitHonoured /\ StopNotLost
  BY <1>1 DEF ServerInit, WaitHonoured, StopNotLost
<1> QED
  BY <1>2, <1>4, <1>5 DEF ServerInv

LEMMA ServerInvariant == ServerSpec => []ServerInv
<1>1. ServerInv /\ [ServerNext]_server => ServerInv'
  BY TypeStep, LocksStep, WaitStep, StopStep DEF ServerInv
<1> QED
  BY <1>1, InitInv, PTL DEF ServerSpec

(* Every thread is at a place of its own code, and an rx thread has lines  *)
(* to log exactly while it logs them (main.cc:187-203).                    *)
THEOREM ServerTypeCorrect == ServerSpec => []ServerTypeOK
<1>1. ServerInv => ServerTypeOK
  BY DEF ServerInv
<1> QED
  BY <1>1, ServerInvariant, PTL

(* Each lock has one holder, the thread that owns it, wherever signals     *)
(* arrive (main.cc:26-35, logging.cc:78).                                  *)
THEOREM LocksCorrect == ServerSpec => []LocksExclusive
<1>1. ServerInv => LocksExclusive
  BY DEF ServerInv
<1> QED
  BY <1>1, ServerInvariant, PTL

(* wait_for returns only for a reason (main.cc:29).                        *)
THEOREM WaitCorrect == ServerSpec => []WaitHonoured
<1>1. ServerInv => WaitHonoured
  BY DEF ServerInv
<1> QED
  BY <1>1, ServerInvariant, PTL

(* No stop comes between main's test and its sleep (main.cc:33-35).        *)
THEOREM StopCorrect == ServerSpec => []StopNotLost
<1>1. ServerInv => StopNotLost
  BY DEF ServerInv
<1> QED
  BY <1>1, ServerInvariant, PTL

(* A small negative number wraps once.                                     *)
LEMMA SizeModWraps ==
  ASSUME NEW m \in Nat, NEW n \in Int, n < 0, -m <= n
  PROVE  n % m = n + m
BY Z3

LEMMA AcceptedFacts ==
  ASSUME NEW m \in Packets \cup {NoPacket}, Accepted(m)
  PROVE  /\ m \in Packets /\ m.pkt_len \in Nat /\ m.dgram_len \in Nat
         /\ ETHER + IPV4 + m.dgram_len <= m.pkt_len
         /\ m.dgram_len >= UDP => payload_len(m) = m.dgram_len - UDP
         /\ m.dgram_len < UDP => ~InPacket(m)
<1>1. m \in Packets
  BY DEF Accepted, NoPacket
<1>2. /\ m.pkt_len \in Nat /\ m.dgram_len \in Nat
      /\ m.pkt_len < SizeMod
      /\ ETHER + IPV4 + m.dgram_len < SizeMod /\ SizeMod \in Nat
  BY <1>1, ServerAssumption DEF Packet
<1>3. (ETHER + IPV4 + m.dgram_len) % SizeMod = ETHER + IPV4 + m.dgram_len
  BY <1>2, SizeModSmall DEF ETHER, IPV4
<1>4. ETHER + IPV4 + m.dgram_len <= m.pkt_len
  BY <1>3 DEF Accepted, Fits
<1>5. CASE m.dgram_len >= UDP
  <2>1. m.dgram_len - UDP \in Nat /\ m.dgram_len - UDP < SizeMod
    BY <1>2, <1>5 DEF ETHER, IPV4, UDP
  <2> QED
    BY <1>1, <1>2, <1>4, <1>5, <2>1, SizeModSmall DEF payload_len, UDP
<1>6. CASE m.dgram_len < UDP
  <2>1. m.dgram_len - UDP \in Int /\ m.dgram_len - UDP < 0 /\ -SizeMod <= m.dgram_len - UDP
    BY <1>2, <1>6 DEF ETHER, IPV4, UDP
  <2>2. payload_len(m) = (m.dgram_len - UDP) + SizeMod
    BY <1>2, <2>1, SizeModWraps DEF payload_len
  <2>3. ~InPacket(m)
    BY <1>2, <2>2 DEF InPacket, ETHER, IPV4, UDP
  <2> QED
    BY <1>1, <1>2, <1>4, <1>6, <2>3 DEF UDP
<1> QED
  BY <1>2, <1>5, <1>6 DEF UDP

LEMMA InPacketIff ==
  ASSUME NEW m \in Packets \cup {NoPacket}, Accepted(m)
  PROVE  /\ InPacket(m) <=> m.dgram_len >= UDP
         /\ InPacket(m) => payload_len(m) \in Nat
<1>1. /\ m.dgram_len \in Nat /\ m.pkt_len \in Nat
      /\ ETHER + IPV4 + m.dgram_len <= m.pkt_len
      /\ m.dgram_len >= UDP => payload_len(m) = m.dgram_len - UDP
      /\ m.dgram_len < UDP => ~InPacket(m)
  BY AcceptedFacts
<1> QED
  BY <1>1 DEF InPacket, ETHER, IPV4, UDP

(* A worker makes the text of a packet it accepted, and logs its last line *)
(* only once the text is made.                                             *)
DumpedOf(t) ==
  /\ at[t] = "dump" => Accepted(mbuf[t])
  /\ at[t] \in {"log", "logging"} /\ lines[t] = 1 /\ Accepted(mbuf[t])
       => InPacket(mbuf[t])

Dumped == \A t \in Workers : DumpedOf(t)

LEMMA DumpedFrame ==
  ASSUME NEW t \in Workers, DumpedOf(t), UNCHANGED <<mbuf, lines>>,
         at'[t] = at[t] \/ (at[t] = "log" /\ at'[t] = "logging")
  PROVE  DumpedOf(t)'
BY DEF DumpedOf

LEMMA DumpedStep ==
  ASSUME ServerTypeOK, Dumped, [ServerNext]_server
  PROVE  Dumped'
<1> SUFFICES ASSUME NEW t \in Workers PROVE DumpedOf(t)'
  BY DEF Dumped
<1>1. /\ DumpedOf(t) /\ t \in Threads /\ t # Main
      /\ lines \in [Workers -> 0 .. 5] /\ mbuf \in [Workers -> Packets \cup {NoPacket}]
      /\ at \in [Threads -> MainPcs \cup WorkerPcs]
  BY ServerAssumption DEF Dumped, Threads, ServerTypeOK
<1>2. CASE UNCHANGED server
  BY <1>1, <1>2, DumpedFrame DEF server
<1>3. CASE MainStep
  <2>1. PICK pc : Goto(Main, pc) /\ UNCHANGED <<mbuf, lines>>
    BY <1>3 DEF MainStep, MainLock, MainTest, MainBlock, MainUnlock
  <2>2. at'[t] = at[t]
    BY <1>1, <2>1, GotoFacts DEF Threads
  <2> QED
    BY <1>1, <2>1, <2>2, DumpedFrame
<1>4. ASSUME NEW u \in Threads, EnterLog(u) PROVE DumpedOf(t)'
  <2>1. /\ Goto(u, "logging") /\ UNCHANGED <<mbuf, lines>>
        /\ ~InHandler(u) => at[u] = "log"
    BY <1>4 DEF EnterLog, Pc
  <2>2. at'[t] = at[t] \/ (at[t] = "log" /\ at'[t] = "logging")
    BY <1>1, <2>1, GotoFacts
  <2> QED
    BY <1>1, <2>1, <2>2, DumpedFrame
<1>5. ASSUME NEW u \in Threads, LeaveLog(u) PROVE DumpedOf(t)'
  <2>1. /\ Goto(u, AfterLog(u)) /\ mbuf' = mbuf
        /\ lines' = IF u = Main \/ InHandler(u) THEN lines
                                                ELSE [lines EXCEPT ![u] = @ - 1]
        /\ ~InHandler(u) => at[u] = "logging"
    BY <1>5 DEF LeaveLog, Pc
  <2>2. CASE u # t \/ InHandler(u)
    <3>1. at'[t] = at[t] /\ lines'[t] = lines[t]
      BY <1>1, <2>1, <2>2, GotoFacts
    <3> QED
      BY <1>1, <2>1, <3>1 DEF DumpedOf, Accepted, InPacket, Fits, payload_len
  <2>3. CASE u = t /\ ~InHandler(u)
    <3>1. at'[t] = AfterLog(t) /\ lines'[t] = lines[t] - 1 /\ lines[t] \in 0 .. 5
      BY <1>1, <2>1, <2>3, GotoFacts
    <3>2. AfterLog(t) = IF lines[t] = 2 /\ Accepted(mbuf[t]) THEN "dump"
                        ELSE IF lines[t] > 1 THEN "log" ELSE "poll"
      BY <1>1, <2>3 DEF AfterLog
    <3>3. /\ at'[t] = "dump" => Accepted(mbuf[t])
          /\ ~(at'[t] \in {"log", "logging"} /\ lines'[t] = 1 /\ Accepted(mbuf[t]))
      BY <3>1, <3>2
    <3> QED
      BY <2>1, <3>3 DEF DumpedOf, Accepted, Fits
  <2> QED
    BY <2>2, <2>3
<1>6. ASSUME NEW u \in Threads, HandlerStep(u) PROVE DumpedOf(t)'
  <2>1. UNCHANGED <<mbuf, lines>>
    BY <1>6 DEF HandlerStep, StopLock, StopSet, StopNotify, StopReturn
  <2>2. at'[t] = at[t]
    BY <1>1, <1>6, GotoFacts, WokenFacts
       DEF HandlerStep, StopLock, StopSet, StopNotify, StopReturn, Woken
  <2> QED
    BY <1>1, <2>1, <2>2, DumpedFrame
<1>7. ASSUME NEW u \in Workers, u # t, WorkerStep(u) PROVE DumpedOf(t)'
  <2>1. PICK pc : Goto(u, pc)
    BY <1>7 DEF WorkerStep, Receive, Parse, Dump
  <2>2. at'[t] = at[t]
    BY <1>1, <1>7, <2>1, GotoFacts DEF Threads
  <2>3. mbuf'[t] = mbuf[t] /\ lines'[t] = lines[t]
    BY <1>1, <1>7 DEF WorkerStep, Receive, Parse, Dump
  <2> QED
    BY <1>1, <2>2, <2>3 DEF DumpedOf, Accepted, InPacket, Fits, payload_len
<1>8. CASE Receive(t)
  <2>1. at'[t] = "parse"
    BY <1>1, <1>8, GotoFacts DEF Receive
  <2> QED
    BY <2>1 DEF DumpedOf
<1>9. CASE Parse(t)
  <2>1. /\ at'[t] \in {"poll", "log"} /\ lines'[t] \in {0, 2, 5}
    <3>1. LinesFor(mbuf[t]) \in {0, 2, 5}
      BY DEF LinesFor
    <3> QED
      BY <1>1, <1>9, <3>1, GotoFacts DEF Parse
  <2> QED
    BY <2>1 DEF DumpedOf
<1>10. CASE Dump(t)
  <2>1. at'[t] = "log" /\ InPacket(mbuf[t]) /\ mbuf' = mbuf
    BY <1>1, <1>10, GotoFacts DEF Dump
  <2> QED
    BY <2>1 DEF DumpedOf, InPacket, payload_len
<1>11. CASE TimeUp \/ SpuriousWake
  <2>1. UNCHANGED <<mbuf, lines>> /\ at'[t] = at[t]
    BY <1>1, <1>11 DEF TimeUp, SpuriousWake, Woken
  <2> QED
    BY <1>1, <2>1, DumpedFrame
<1>12. ASSUME NEW sig \in Signals, NEW u \in Threads, Deliver(sig, u)
       PROVE  DumpedOf(t)'
  BY <1>1, <1>12, DumpedFrame DEF Deliver
<1> QED
  BY <1>2, <1>3, <1>4, <1>5, <1>6, <1>7, <1>8, <1>9, <1>10, <1>11, <1>12
     DEF ServerNext, LogStep, WorkerStep

LEMMA DumpedInvariant == ServerSpec => []Dumped
<1>1. ServerInit => Dumped
  <2>1. ServerInit => \A t \in Workers : at[t] = "poll"
    BY ServerAssumption DEF ServerInit, Threads
  <2> QED
    BY <2>1 DEF Dumped, DumpedOf
<1> QED
  BY <1>1, ServerTypeCorrect, DumpedStep, PTL DEF ServerSpec

(* What is dumped of an accepted packet lies inside it exactly when its    *)
(* datagram covers its own header: the size check keeps cut off and padded *)
(* frames right, and nothing else guards the subtraction (main.cc:149-161).*)
THEOREM PayloadCorrect == ServerSpec => []PayloadInside
<1>1. ServerTypeOK /\ Dumped => PayloadInside
  BY InPacketIff DEF ServerTypeOK, Dumped, DumpedOf, PayloadInside
<1> QED
  BY <1>1, ServerTypeCorrect, DumpedInvariant, PTL

(* How large log_buf has to be: where two digits for each byte after the   *)
(* headers, the rest of the line and its newline fit, no line passes the   *)
(* end of it, whatever dgram_len says (logging.cc:107-113).                *)
THEOREM LinesFitBuffer ==
  ASSUME Prefix + 1 < LogBufSize,
         \A m \in Packets :
           Prefix + 2 * (m.pkt_len - (ETHER + IPV4 + UDP)) + 1 < LogBufSize
  PROVE  ServerSpec => []LineFits
<1>1. ServerTypeOK /\ Dumped => LineFits
  <2> SUFFICES ASSUME ServerTypeOK, Dumped, NEW t \in Workers,
                      at[t] \in {"log", "logging"}
               PROVE  offset(t) + 1 < LogBufSize
    BY DEF LineFits
  <2>1. mbuf[t] \in Packets \cup {NoPacket} /\ Prefix \in Nat /\ LogBufSize \in Nat
    BY ServerAssumption DEF ServerTypeOK
  <2>2. CASE lines[t] = 1 /\ Accepted(mbuf[t])
    <3> DEFINE m == mbuf[t]
    <3>1. InPacket(m)
      BY <2>2 DEF Dumped, DumpedOf
    <3>2. m \in Packets /\ m.pkt_len \in Nat /\ payload_len(m) \in Nat
      BY <2>1, <2>2, <3>1, AcceptedFacts, InPacketIff
    <3>3. Prefix + 2 * (m.pkt_len - (ETHER + IPV4 + UDP)) + 1 < LogBufSize
      BY <3>2
    <3> HIDE DEF m
    <3>4. Prefix + 2 * payload_len(m) + 1 < LogBufSize
      BY <2>1, <3>1, <3>2, <3>3 DEF InPacket, ETHER, IPV4, UDP
    <3> QED
      BY <2>1, <3>4 DEF offset, bin_to_str_len, m
  <2>3. CASE ~(lines[t] = 1 /\ Accepted(mbuf[t]))
    BY <2>1, <2>3 DEF offset
  <2> QED
    BY <2>2, <2>3
<1> QED
  BY <1>1, ServerTypeCorrect, DumpedInvariant, PTL
-----------------------------------------------------------------------------
(* Only a handler that interrupted its own thread inside a lock can stop   *)
(* everything.  What makes it so: a handler logs before it locks, so above *)
(* a place inside the C library's lock every handler still waits to log.   *)
LogFirstAt(t) ==
  \A i \in Holding(t, LG, LG) : \A j \in 1 .. Len(frames[t]) :
    i = 0 \/ j < i => frames[t][j].at = "log"

LogFirst == \A t \in Threads : LogFirstAt(t)

LEMMA LogFirstSame ==
  ASSUME NEW t \in Threads, frames'[t] = frames[t], at'[t] \in LG <=> at[t] \in LG,
         LogFirstAt(t)
  PROVE  LogFirstAt(t)'
BY DEF LogFirstAt, Holding

(* Nothing is above the place of a thread that runs no handler.            *)
LEMMA LogFirstBare ==
  ASSUME NEW t \in Threads, frames'[t] = <<>>
  PROVE  LogFirstAt(t)'
BY DEF LogFirstAt, Holding

(* The innermost handler moves on: it takes a free lock, or it is not      *)
(* waiting to log, and then no place below it is inside.                   *)
LEMMA LogFirstHead ==
  ASSUME frames \in [Threads -> Seq(Frame)], NEW t \in Threads, InHandler(t),
         NEW pc \in HandlerPcs, HeadTo(t, pc), LogFirstAt(t),
         at'[t] \in LG <=> at[t] \in LG,
         \/ Holding(t, LG, LG) = {}
         \/ Pc(t) # "log" /\ pc # "logging"
  PROVE  LogFirstAt(t)'
<1>1. /\ Len(frames'[t]) = Len(frames[t]) /\ Len(frames[t]) \in Nat \ {0}
      /\ frames'[t][1].at = pc
      /\ \A i \in 2 .. Len(frames[t]) : frames'[t][i] = frames[t][i]
  BY HeadMoves DEF HeadTo
<1>2. Pc(t) = frames[t][1].at
  BY <1>1 DEF Pc, InHandler
<1>3. ASSUME NEW i \in Holding(t, LG, LG)', i # 1
      PROVE  i \in Holding(t, LG, LG)
  BY <1>1, <1>3 DEF Holding
<1>4. CASE Holding(t, LG, LG) = {}
  <2>1. ASSUME NEW i \in Holding(t, LG, LG)', NEW j \in 1 .. Len(frames'[t]),
               i = 0 \/ j < i
        PROVE  FALSE
    <3>1. i = 1
      BY <1>3, <1>4
    <3> QED
      BY <2>1, <3>1
  <2> QED
    BY <2>1 DEF LogFirstAt
<1>5. CASE Pc(t) # "log" /\ pc # "logging"
  <2>1. ASSUME NEW i \in Holding(t, LG, LG)'
        PROVE  FALSE
    <3>1. i \in 0 .. Len(frames[t]) /\ i # 1
      BY <1>1, <1>5 DEF Holding, LG
    <3>2. i \in Holding(t, LG, LG)
      BY <1>3, <3>1
    <3>3. 1 \in 1 .. Len(frames[t]) /\ (i = 0 \/ 1 < i)
      BY <1>1, <3>1
    <3> QED
      BY <1>2, <1>5, <3>2, <3>3 DEF LogFirstAt
  <2> QED
    BY <2>1 DEF LogFirstAt
<1> QED
  BY <1>4, <1>5

LEMMA LogFirstPush ==
  ASSUME frames \in [Threads -> Seq(Frame)], NEW t \in Threads, NEW f \in Frame,
         f.at = "log", frames' = [frames EXCEPT ![t] = <<f>> \o @], at' = at,
         LogFirstAt(t)
  PROVE  LogFirstAt(t)'
<1>1. /\ Len(frames'[t]) = Len(frames[t]) + 1 /\ Len(frames[t]) \in Nat
      /\ frames'[t][1] = f
      /\ \A i \in 1 .. Len(frames[t]) : frames'[t][i + 1] = frames[t][i]
  BY Pushed
<1>2. SUFFICES ASSUME NEW i \in Holding(t, LG, LG)',
                      NEW j \in 1 .. Len(frames[t]) + 1, i = 0 \/ j < i, j # 1
               PROVE  frames'[t][j].at = "log"
  BY <1>1 DEF LogFirstAt
<1>3. j - 1 \in 1 .. Len(frames[t]) /\ (j - 1) + 1 = j
  BY <1>1, <1>2
<1>4. frames'[t][j] = frames[t][j - 1]
  BY <1>1, <1>3
<1>5. CASE i = 0
  <2>1. 0 \in Holding(t, LG, LG)
    BY <1>1, <1>5 DEF Holding
  <2> QED
    BY <1>3, <1>4, <2>1 DEF LogFirstAt
<1>6. CASE i # 0
  <2>1. i \in 0 .. Len(frames[t]) + 1
    BY <1>1 DEF Holding
  <2>2. i - 1 \in 1 .. Len(frames[t]) /\ (i - 1) + 1 = i /\ j - 1 < i - 1
    BY <1>1, <1>2, <1>3, <1>6, <2>1
  <2>3. frames'[t][i].at \in LG
    BY <1>6 DEF Holding
  <2>4. frames'[t][i] = frames[t][i - 1]
    BY <1>1, <2>2
  <2>5. i - 1 \in Holding(t, LG, LG)
    BY <1>1, <2>2, <2>3, <2>4 DEF Holding
  <2> QED
    BY <1>3, <1>4, <2>2, <2>5 DEF LogFirstAt
<1> QED
  BY <1>5, <1>6

LEMMA LogFirstPop ==
  ASSUME frames \in [Threads -> Seq(Frame)], NEW t \in Threads, InHandler(t),
         Pc(t) = "unlock", frames' = [frames EXCEPT ![t] = Tail(@)], at' = at,
         LogFirstAt(t)
  PROVE  LogFirstAt(t)'
<1>1. Len(frames[t]) \in Nat \ {0} /\ frames[t][1].at = "unlock"
  BY DEF Pc, InHandler
<1>2. ASSUME NEW i \in Holding(t, LG, LG)
      PROVE  FALSE
  <2>1. i \in 0 .. Len(frames[t]) /\ i # 1
    BY <1>1 DEF Holding, LG
  <2>2. 1 \in 1 .. Len(frames[t]) /\ (i = 0 \/ 1 < i)
    BY <1>1, <2>1
  <2> QED
    BY <1>1, <2>2 DEF LogFirstAt
<1>3. Holding(t, LG, LG)' = {}
  BY <1>2, HoldingPop
<1> QED
  BY <1>3 DEF LogFirstAt

(* A step of t from pc to pc keeps it everywhere.                          *)
LEMMA LogFirstGoto ==
  ASSUME ServerTypeOK, LogFirst, NEW t \in Threads, NEW pc, Goto(t, pc),
         \/ ~InHandler(t)
         \/ /\ pc \in HandlerPcs
            /\ \/ Holding(t, LG, LG) = {}
               \/ Pc(t) # "log" /\ pc # "logging"
  PROVE  LogFirst'
<1>1. ASSUME NEW u \in Threads, u # t PROVE LogFirstAt(u)'
  <2>1. frames'[u] = frames[u] /\ at'[u] = at[u]
    BY <1>1, GotoFacts DEF HeadTo
  <2> QED
    BY <2>1, LogFirstSame DEF LogFirst
<1>2. LogFirstAt(t)'
  <2>1. CASE InHandler(t)
    BY <2>1, GotoFacts, LogFirstHead DEF LogFirst
  <2>2. CASE ~InHandler(t)
    BY <2>2, GotoFacts, LogFirstBare DEF InHandler
  <2> QED
    BY <2>1, <2>2
<1> QED
  BY <1>1, <1>2 DEF LogFirst

LEMMA LogFirstStep ==
  ASSUME ServerTypeOK, LocksExclusive, LogFirst, [ServerNext]_server
  PROVE  LogFirst'
<1>1. CASE UNCHANGED server
  BY <1>1, LogFirstSame DEF server, LogFirst
<1>2. CASE MainStep
  <2>1. Main \in Threads
    BY DEF Threads
  <2>2. PICK pc : ~InHandler(Main) /\ Goto(Main, pc)
    BY <1>2 DEF MainStep, MainLock, MainTest, MainBlock, MainUnlock
  <2> QED
    BY <2>1, <2>2, LogFirstGoto
<1>3. ASSUME NEW t \in Threads, LogStep(t)
      PROVE  LogFirst'
  <2>1. CASE EnterLog(t)
    <3>1. Holding(t, LG, LG) = {}
      BY <2>1, LocksOwned, OwnedFree DEF OwnedBy, EnterLog
    <3> QED
      BY <2>1, <3>1, LogFirstGoto DEF EnterLog, HandlerPcs
  <2>2. CASE LeaveLog(t)
    <3>1. InHandler(t) => AfterLog(t) = "lock"
      BY DEF AfterLog
    <3> QED
      BY <2>2, <3>1, LogFirstGoto DEF LeaveLog, HandlerPcs
  <2> QED
    BY <1>3, <2>1, <2>2 DEF LogStep
<1>4. ASSUME NEW t \in Threads, StopLock(t) \/ StopSet(t)
      PROVE  LogFirst'
  <2>1. PICK pc \in {"set", "notify"} : Goto(t, pc) /\ Pc(t) \in {"lock", "set"}
    BY <1>4 DEF StopLock, StopSet
  <2> QED
    BY <2>1, LogFirstGoto DEF HandlerPcs
<1>5. ASSUME NEW t \in Threads, StopNotify(t)
      PROVE  LogFirst'
  <2>1. /\ frames \in [Threads -> Seq(Frame)] /\ InHandler(t)
        /\ at' = Woken /\ Pc(t) = "notify"
        /\ "unlock" \in HandlerPcs /\ HeadTo(t, "unlock")
    BY <1>5 DEF StopNotify, ServerTypeOK, HandlerPcs, HeadTo
  <2>2. ASSUME NEW u \in Threads, u # t PROVE LogFirstAt(u)'
    <3>1. frames'[u] = frames[u]
      BY <2>1, <2>2 DEF HeadTo
    <3> QED
      BY <2>1, <3>1, WokenNeutral, LogFirstSame DEF LogFirst
  <2>3. LogFirstAt(t)'
    BY <2>1, WokenNeutral, LogFirstHead DEF LogFirst
  <2> QED
    BY <2>2, <2>3 DEF LogFirst
<1>6. ASSUME NEW t \in Threads, StopReturn(t)
      PROVE  LogFirst'
  <2>1. /\ frames \in [Threads -> Seq(Frame)] /\ InHandler(t) /\ at' = at
        /\ Pc(t) = "unlock" /\ frames' = [frames EXCEPT ![t] = Tail(@)]
    BY <1>6 DEF StopReturn, ServerTypeOK
  <2>2. ASSUME NEW u \in Threads, u # t PROVE LogFirstAt(u)'
    BY <2>1, <2>2, LogFirstSame DEF LogFirst
  <2>3. LogFirstAt(t)'
    BY <2>1, LogFirstPop DEF LogFirst
  <2> QED
    BY <2>2, <2>3 DEF LogFirst
<1>7. ASSUME NEW t \in Workers, WorkerStep(t)
      PROVE  LogFirst'
  <2>1. PICK pc : ~InHandler(t) /\ Goto(t, pc)
    BY <1>7 DEF WorkerStep, Receive, Parse, Dump
  <2> QED
    BY <2>1, LogFirstGoto DEF Threads
<1>8. CASE TimeUp \/ SpuriousWake
  <2>1. frames' = frames /\ at' = Woken
    BY <1>8 DEF TimeUp, SpuriousWake
  <2> QED
    BY <2>1, WokenNeutral, LogFirstSame DEF LogFirst
<1>9. ASSUME NEW sig \in Signals, NEW t \in Threads, Deliver(sig, t)
      PROVE  LogFirst'
  <2> DEFINE f == [sig |-> sig, at |-> "log"]
  <2>1. /\ f \in Frame /\ f.at = "log" /\ frames \in [Threads -> Seq(Frame)]
        /\ frames' = [frames EXCEPT ![t] = <<f>> \o @] /\ at' = at
    BY <1>9 DEF Deliver, ServerTypeOK, Frame, HandlerPcs
  <2> HIDE DEF f
  <2>2. ASSUME NEW u \in Threads, u # t PROVE LogFirstAt(u)'
    BY <2>1, <2>2, LogFirstSame DEF LogFirst
  <2>3. LogFirstAt(t)'
    BY <2>1, LogFirstPush DEF LogFirst
  <2> QED
    BY <2>2, <2>3 DEF LogFirst
<1> QED
  BY <1>1, <1>2, <1>3, <1>4, <1>5, <1>6, <1>7, <1>8, <1>9
  DEF ServerNext, HandlerStep

LEMMA LogFirstInvariant == ServerSpec => []LogFirst
<1>1. ServerInit => LogFirst
  <2> SUFFICES ASSUME ServerInit PROVE LogFirst
    OBVIOUS
  <2>1. \A t \in Threads : Holding(t, LG, LG) = {}
    BY DEF ServerInit, Holding, LG
  <2> QED
    BY <2>1 DEF LogFirst, LogFirstAt
<1>2. ServerInv /\ LogFirst /\ [ServerNext]_server => LogFirst'
  BY LogFirstStep DEF ServerInv
<1> QED
  BY <1>1, <1>2, ServerInvariant, PTL DEF ServerSpec

(* t waits for a lock that is held; u runs on inside one.                  *)
Waits(t) ==
  \/ Pc(t) = "log" /\ log_lock # "free"
  \/ Pc(t) \in {"lock", "relock"} /\ mutex # "free"

RunsInside(u) ==
  /\ u \in {mutex, log_lock}
  /\ Pc(u) \in MM \cup MH \cup LG \cup {"log"}
  /\ ~Waits(u)

NoCircle ==
  (\E t \in Threads : Waits(t)) => Stuck \/ \E u \in Threads : RunsInside(u)

(* The C library's lock is held by a thread that is logging, or for good.  *)
LEMMA LogHolderRuns ==
  ASSUME ServerTypeOK, LocksExclusive, LogFirst, ~Stuck, NEW u \in Threads,
         log_lock = u
  PROVE  RunsInside(u)
<1>1. frames \in [Threads -> Seq(Frame)] /\ OwnedBy(u, LG, LG)
  BY LocksOwned DEF ServerTypeOK
<1>2. PICK i \in Holding(u, LG, LG) : TRUE
  BY <1>1 DEF OwnedBy, Owned, One
<1>3. /\ i \in 0 .. Len(frames[u]) /\ Len(frames[u]) \in Nat
      /\ i = 0 => at[u] = "logging"
      /\ i # 0 => frames[u][i].at = "logging"
  BY <1>1 DEF Holding, LG
<1>4. InHandler(u) => Len(frames[u]) >= 1 /\ Pc(u) = frames[u][1].at
  BY <1>1 DEF InHandler, Pc
<1>5. ~InHandler(u) => i = 0
  BY <1>3 DEF InHandler
<1>6. Pc(u) = "logging"
  <2>1. CASE ~InHandler(u)
    BY <1>3, <1>5, <2>1 DEF Pc
  <2>2. CASE InHandler(u) /\ i = 1
    BY <1>3, <1>4, <2>2
  <2>3. CASE InHandler(u) /\ i # 1
    <3>1. 1 \in 1 .. Len(frames[u]) /\ (i = 0 \/ 1 < i)
      BY <1>3, <1>4, <2>3
    <3>2. Pc(u) = "log"
      BY <1>2, <1>4, <2>3, <3>1 DEF LogFirst, LogFirstAt
    <3> QED
      BY <2>3, <3>2 DEF Stuck
  <2> QED
    BY <2>1, <2>2, <2>3
<1> QED
  BY <1>6 DEF RunsInside, Waits, LG

LEMMA MutexHolderRuns ==
  ASSUME ServerTypeOK, LocksExclusive, LogFirst, ~Stuck, NEW u \in Threads,
         mutex = u
  PROVE  \E v \in Threads : RunsInside(v)
<1>1. frames \in [Threads -> Seq(Frame)] /\ OwnedBy(u, MM, MH)
  BY LocksOwned DEF ServerTypeOK
<1>2. log_lock \in Threads \cup {"free"}
  BY DEF ServerTypeOK
<1>3. CASE log_lock # "free"
  BY <1>2, <1>3, LogHolderRuns
<1>4. CASE log_lock = "free"
  <2>1. CASE InHandler(u)
    <3>1. Pc(u) \in HandlerPcs
      <4>1. frames[u] \in Seq(Frame) /\ frames[u] # <<>>
        BY <1>1, <2>1 DEF InHandler
      <4>2. Head(frames[u]) \in Frame
        BY <4>1
      <4> QED
        BY <2>1, <4>2 DEF Pc, Frame
    <3>2. Pc(u) # "lock"
      BY <2>1 DEF Stuck
    <3> QED
      BY <1>4, <3>1, <3>2 DEF RunsInside, Waits, HandlerPcs, MM, MH, LG
  <2>2. CASE ~InHandler(u)
    <3>1. PICK i \in Holding(u, MM, MH) : TRUE
      BY <1>1 DEF OwnedBy, Owned, One
    <3>2. Len(frames[u]) = 0
      BY <2>2 DEF InHandler
    <3>3. i = 0
      BY <3>2 DEF Holding
    <3>4. Pc(u) \in MM
      BY <1>1, <2>2, <3>1, <3>3, HoldsAt DEF Pc
    <3> QED
      BY <3>4 DEF RunsInside, Waits, MM
  <2> QED
    BY <2>1, <2>2
<1> QED
  BY <1>3, <1>4

(* Threads wait for each other in no circle: while one waits for a lock,   *)
(* some thread runs on inside a lock, or a handler waits for the thread it *)
(* interrupted.  This is the safety part of SignalEnds (main.cc:23-43).    *)
THEOREM OnlySelfDeadlock == ServerSpec => []NoCircle
<1>1. ServerInv /\ LogFirst => NoCircle
  <2> SUFFICES ASSUME ServerTypeOK, LocksExclusive, LogFirst, ~Stuck,
                      NEW t \in Threads, Waits(t)
               PROVE  \E u \in Threads : RunsInside(u)
    BY DEF ServerInv, NoCircle
  <2>1. /\ mutex \in Threads \cup {"free"} /\ log_lock \in Threads \cup {"free"}
        /\ mutex # "free" \/ log_lock # "free"
    BY DEF ServerTypeOK, Waits
  <2> QED
    BY <2>1, LogHolderRuns, MutexHolderRuns
<1> QED
  BY <1>1, ServerInvariant, LogFirstInvariant, PTL
-----------------------------------------------------------------------------
(* A handler of t waits at w for a lock that a place below it, on the same *)
(* stack, is inside.                                                       *)
Jam(t, w, M, H) ==
  \E i \in 1 .. Len(frames[t]) :
    /\ frames[t][i].at = w
    /\ \E k \in Holding(t, M, H) : k = 0 \/ i < k

MutexJam == \E t \in Threads : Jam(t, "lock", MM, MH)

LogJam == \E t \in Threads : Jam(t, "log", LG, LG)

LEMMA JamSame ==
  ASSUME NEW t \in Threads, NEW w, NEW M, NEW H, frames'[t] = frames[t],
         at'[t] \in M <=> at[t] \in M, Jam(t, w, M, H)
  PROVE  Jam(t, w, M, H)'
BY DEF Jam, Holding

(* Another handler moves on, on top of the one that waits.                 *)
LEMMA JamHead ==
  ASSUME frames \in [Threads -> Seq(Frame)], NEW t \in Threads, InHandler(t),
         NEW pc \in HandlerPcs, HeadTo(t, pc), NEW w, NEW M, NEW H,
         at'[t] \in M <=> at[t] \in M, Pc(t) # w, Jam(t, w, M, H)
  PROVE  Jam(t, w, M, H)'
<1>1. /\ Len(frames'[t]) = Len(frames[t]) /\ Len(frames[t]) \in Nat \ {0}
      /\ \A i \in 2 .. Len(frames[t]) : frames'[t][i] = frames[t][i]
  BY HeadMoves DEF HeadTo
<1>2. PICK i \in 1 .. Len(frames[t]), k \in Holding(t, M, H) :
        frames[t][i].at = w /\ (k = 0 \/ i < k)
  BY DEF Jam
<1>3. i # 1
  BY <1>1, <1>2 DEF Pc, InHandler
<1>4. /\ k \in 0 .. Len(frames[t]) /\ k # 1 /\ i \in 2 .. Len(frames[t])
  BY <1>1, <1>2, <1>3 DEF Holding
<1>5. k \in Holding(t, M, H)'
  BY <1>1, <1>4 DEF Holding
<1> QED
  BY <1>1, <1>2, <1>4, <1>5 DEF Jam

(* A signal interrupts the thread.                                         *)
LEMMA JamPush ==
  ASSUME frames \in [Threads -> Seq(Frame)], NEW t \in Threads, NEW f \in Frame,
         frames' = [frames EXCEPT ![t] = <<f>> \o @], at' = at,
         NEW w, NEW M, NEW H, Jam(t, w, M, H)
  PROVE  Jam(t, w, M, H)'
<1>1. /\ Len(frames'[t]) = Len(frames[t]) + 1 /\ Len(frames[t]) \in Nat
      /\ \A i \in 1 .. Len(frames[t]) : frames'[t][i + 1] = frames[t][i]
  BY Pushed
<1>2. PICK i \in 1 .. Len(frames[t]), k \in Holding(t, M, H) :
        frames[t][i].at = w /\ (k = 0 \/ i < k)
  BY DEF Jam
<1>3. i + 1 \in 1 .. Len(frames'[t]) /\ frames'[t][i + 1].at = w
  BY <1>1, <1>2
<1>4. k \in 0 .. Len(frames[t])
  BY DEF Holding
<1>5. CASE k = 0
  <2>1. 0 \in Holding(t, M, H)'
    BY <1>1, <1>5 DEF Holding
  <2> QED
    BY <1>3, <2>1 DEF Jam
<1>6. CASE k # 0
  <2>1. k + 1 \in 1 .. Len(frames'[t]) /\ i + 1 < k + 1
    BY <1>1, <1>2, <1>4, <1>6
  <2>2. frames'[t][k + 1].at \in H
    BY <1>1, <1>4, <1>6 DEF Holding
  <2>3. k + 1 \in Holding(t, M, H)'
    BY <1>1, <1>4, <1>6, <2>1, <2>2 DEF Holding
  <2> QED
    BY <1>3, <2>1, <2>3 DEF Jam
<1> QED
  BY <1>5, <1>6

(* The innermost handler returns: it is not the one that waits.            *)
LEMMA JamPop ==
  ASSUME frames \in [Threads -> Seq(Frame)], NEW t \in Threads, InHandler(t),
         frames' = [frames EXCEPT ![t] = Tail(@)], at' = at,
         NEW w, NEW M, NEW H, Pc(t) # w, Jam(t, w, M, H)
  PROVE  Jam(t, w, M, H)'
<1>1. /\ Len(frames'[t]) = Len(frames[t]) - 1 /\ Len(frames[t]) \in Nat \ {0}
      /\ \A i \in 1 .. Len(frames'[t]) : frames'[t][i] = frames[t][i + 1]
  BY Popped
<1>2. PICK i \in 1 .. Len(frames[t]), k \in Holding(t, M, H) :
        frames[t][i].at = w /\ (k = 0 \/ i < k)
  BY DEF Jam
<1>3. i # 1
  BY <1>1, <1>2 DEF Pc, InHandler
<1>4. i - 1 \in 1 .. Len(frames'[t]) /\ (i - 1) + 1 = i
  BY <1>1, <1>3
<1>5. frames'[t][i - 1].at = w
  BY <1>1, <1>2, <1>4
<1>6. k \in 0 .. Len(frames[t])
  BY DEF Holding
<1>7. CASE k = 0
  <2>1. 0 \in Holding(t, M, H)'
    BY <1>1, <1>7 DEF Holding
  <2> QED
    BY <1>4, <1>5, <2>1 DEF Jam
<1>8. CASE k # 0
  <2>1. k - 1 \in 1 .. Len(frames'[t]) /\ (k - 1) + 1 = k /\ i - 1 < k - 1
    BY <1>1, <1>2, <1>3, <1>6, <1>8
  <2>2. frames'[t][k - 1].at \in H
    BY <1>1, <1>8, <2>1 DEF Holding
  <2>3. k - 1 \in Holding(t, M, H)'
    BY <2>1, <2>2 DEF Holding
  <2> QED
    BY <1>4, <1>5, <2>1, <2>3 DEF Jam
<1> QED
  BY <1>7, <1>8

(* A jam at w lasts through every step that does not take its lock.        *)
LEMMA JamStep ==
  ASSUME ServerTypeOK, [ServerNext]_server, NEW t \in Threads,
         NEW w \in {"lock", "log"}, NEW M, NEW H, Jam(t, w, M, H),
         at' = Woken => (at'[t] \in M <=> at[t] \in M),
         ~(Pc(t) = w /\ (EnterLog(t) \/ StopLock(t)))
  PROVE  Jam(t, w, M, H)'
<1>0. frames \in [Threads -> Seq(Frame)] /\ InHandler(t)
  BY DEF ServerTypeOK, Jam, InHandler
<1>1. CASE UNCHANGED server
  BY <1>1, JamSame DEF server
<1>2. ASSUME NEW u \in Threads, NEW pc, Goto(u, pc),
             u = t => pc \in HandlerPcs /\ Pc(t) # w
      PROVE  Jam(t, w, M, H)'
  <2>1. CASE u = t
    BY <1>0, <1>2, <2>1, GotoFacts, JamHead
  <2>2. CASE u # t
    <3>1. frames'[t] = frames[t] /\ at'[t] = at[t]
      BY <1>2, <2>2, GotoFacts DEF HeadTo
    <3> QED
      BY <3>1, JamSame
  <2> QED
    BY <2>1, <2>2
<1>3. CASE MainStep
  <2>1. PICK pc : ~InHandler(Main) /\ Goto(Main, pc)
    BY <1>3 DEF MainStep, MainLock, MainTest, MainBlock, MainUnlock
  <2> QED
    BY <1>0, <1>2, <2>1 DEF Threads
<1>4. ASSUME NEW u \in Threads, LogStep(u)
      PROVE  Jam(t, w, M, H)'
  <2>1. CASE EnterLog(u)
    BY <1>2, <2>1 DEF EnterLog, HandlerPcs
  <2>2. CASE LeaveLog(u)
    <3>1. InHandler(u) => AfterLog(u) = "lock"
      BY DEF AfterLog
    <3> QED
      BY <1>0, <1>2, <2>2, <3>1 DEF LeaveLog, HandlerPcs
  <2> QED
    BY <1>4, <2>1, <2>2 DEF LogStep
<1>5. ASSUME NEW u \in Threads, StopLock(u) \/ StopSet(u)
      PROVE  Jam(t, w, M, H)'
  <2>1. PICK pc \in {"set", "notify"} :
          Goto(u, pc) /\ Pc(u) \in {"lock", "set"} /\ (Pc(u) = "lock" => StopLock(u))
    BY <1>5 DEF StopLock, StopSet
  <2> QED
    BY <1>2, <2>1 DEF HandlerPcs
<1>6. ASSUME NEW u \in Threads, StopNotify(u)
      PROVE  Jam(t, w, M, H)'
  <2>1. /\ InHandler(u) /\ at' = Woken /\ Pc(u) = "notify"
        /\ "unlock" \in HandlerPcs /\ HeadTo(u, "unlock")
    BY <1>6 DEF StopNotify, HandlerPcs, HeadTo
  <2>2. CASE u = t
    BY <1>0, <2>1, <2>2, JamHead
  <2>3. CASE u # t
    <3>1. frames'[t] = frames[t]
      BY <1>0, <2>1, <2>3 DEF HeadTo
    <3> QED
      BY <2>1, <3>1, JamSame
  <2> QED
    BY <2>2, <2>3
<1>7. ASSUME NEW u \in Threads, StopReturn(u)
      PROVE  Jam(t, w, M, H)'
  <2>1. /\ InHandler(u) /\ at' = at /\ Pc(u) = "unlock"
        /\ frames' = [frames EXCEPT ![u] = Tail(@)]
    BY <1>7 DEF StopReturn
  <2>2. CASE u = t
    BY <1>0, <2>1, <2>2, JamPop
  <2>3. CASE u # t
    BY <1>0, <2>1, <2>3, JamSame
  <2> QED
    BY <2>2, <2>3
<1>8. ASSUME NEW u \in Workers, WorkerStep(u)
      PROVE  Jam(t, w, M, H)'
  <2>1. PICK pc : ~InHandler(u) /\ Goto(u, pc)
    BY <1>8 DEF WorkerStep, Receive, Parse, Dump
  <2> QED
    BY <1>0, <1>2, <2>1 DEF Threads
<1>9. CASE TimeUp \/ SpuriousWake
  <2>1. frames' = frames /\ at' = Woken
    BY <1>9 DEF TimeUp, SpuriousWake
  <2> QED
    BY <2>1, JamSame
<1>10. ASSUME NEW sig \in Signals, NEW u \in Threads, Deliver(sig, u)
       PROVE  Jam(t, w, M, H)'
  <2> DEFINE f == [sig |-> sig, at |-> "log"]
  <2>1. /\ f \in Frame
        /\ frames' = [frames EXCEPT ![u] = <<f>> \o @] /\ at' = at
    BY <1>10 DEF Deliver, Frame, HandlerPcs
  <2> HIDE DEF f
  <2>2. CASE u = t
    BY <1>0, <2>1, <2>2, JamPush
  <2>3. CASE u # t
    BY <1>0, <2>1, <2>3, JamSame
  <2> QED
    BY <2>2, <2>3
<1> QED
  BY <1>1, <1>3, <1>4, <1>5, <1>6, <1>7, <1>8, <1>9, <1>10
  DEF ServerNext, HandlerStep

(* The owner of the lock is the thread that is jammed.                     *)
LEMMA MutexJamStep ==
  ASSUME ServerTypeOK, LocksExclusive, MutexJam, [ServerNext]_server
  PROVE  MutexJam'
<1>1. PICK t \in Threads : Jam(t, "lock", MM, MH)
  BY DEF MutexJam
<1>2. mutex = t
  BY <1>1, LocksOwned, OwnedFree DEF Jam, OwnedBy
<1>3. ~(Pc(t) = "lock" /\ (EnterLog(t) \/ StopLock(t)))
  BY <1>2, ServerAssumption DEF EnterLog, StopLock, Threads
<1>4. at' = Woken => (at'[t] \in MM <=> at[t] \in MM)
  BY WokenNeutral
<1>5. Jam(t, "lock", MM, MH)'
  BY <1>1, <1>3, <1>4, JamStep
<1> QED
  BY <1>5 DEF MutexJam

LEMMA LogJamStep ==
  ASSUME ServerTypeOK, LocksExclusive, LogJam, [ServerNext]_server
  PROVE  LogJam'
<1>1. PICK t \in Threads : Jam(t, "log", LG, LG)
  BY DEF LogJam
<1>2. log_lock = t
  BY <1>1, LocksOwned, OwnedFree DEF Jam, OwnedBy
<1>3. ~(Pc(t) = "log" /\ (EnterLog(t) \/ StopLock(t)))
  BY <1>2, ServerAssumption DEF EnterLog, StopLock, Threads
<1>4. at' = Woken => (at'[t] \in LG <=> at[t] \in LG)
  BY WokenNeutral
<1>5. Jam(t, "log", LG, LG)'
  BY <1>1, <1>3, <1>4, JamStep
<1> QED
  BY <1>5 DEF LogJam

(* Main leaves wait_for only with the mutex, which a jam never gives back. *)
LEMMA JammedMainStays ==
  ASSUME ServerTypeOK, LocksExclusive, MutexJam, at[Main] # "done",
         [ServerNext]_server
  PROVE  at'[Main] # "done"
<1> SUFFICES ASSUME at'[Main] = "done" PROVE FALSE
  OBVIOUS
<1>0. Main \in Threads
  BY DEF Threads
<1>1. ASSUME MainUnlock PROVE FALSE
  <2>1. PICK t \in Threads : Jam(t, "lock", MM, MH)
    BY DEF MutexJam
  <2>2. mutex = t
    BY <2>1, LocksOwned, OwnedFree DEF Jam, OwnedBy
  <2>3. 0 \in Holding(Main, MM, MH)
    BY <1>0, <1>1, HoldsAt DEF MainUnlock, MM, ServerTypeOK
  <2>4. mutex = Main
    BY <1>0, <2>3, LocksOwned, OwnedFree DEF OwnedBy
  <2> QED
    BY <1>1, <2>1, <2>2, <2>4 DEF Jam, MainUnlock, InHandler
<1>2. ASSUME NEW t \in Threads, NEW pc, Goto(t, pc), pc # "done" PROVE FALSE
  BY <1>0, <1>2, GotoFacts
<1>3. ASSUME at' = Woken PROVE FALSE
  BY <1>3, WokenFacts
<1>4. CASE UNCHANGED server
  BY <1>4 DEF server
<1>5. CASE MainStep
  BY <1>0, <1>1, <1>2, <1>5 DEF MainStep, MainLock, MainTest, MainBlock
<1>6. ASSUME NEW t \in Threads, LogStep(t) PROVE FALSE
  BY <1>2, <1>6 DEF LogStep, EnterLog, LeaveLog, AfterLog
<1>7. ASSUME NEW t \in Threads, HandlerStep(t) PROVE FALSE
  BY <1>2, <1>3, <1>7 DEF HandlerStep, StopLock, StopSet, StopNotify, StopReturn
<1>8. ASSUME NEW t \in Workers, WorkerStep(t) PROVE FALSE
  BY <1>2, <1>8 DEF WorkerStep, Receive, Parse, Dump, Threads
<1>9. CASE TimeUp \/ SpuriousWake
  BY <1>3, <1>9 DEF TimeUp, SpuriousWake
<1>10. ASSUME NEW sig \in Signals, NEW t \in Threads, Deliver(sig, t) PROVE FALSE
  BY <1>10 DEF Deliver
<1> QED
  BY <1>4, <1>5, <1>6, <1>7, <1>8, <1>9, <1>10 DEF ServerNext

(* Stuck is a jam of one of the two locks.                                 *)
LEMMA StuckJams ==
  ASSUME ServerTypeOK, LocksExclusive, Stuck
  PROVE  MutexJam \/ LogJam
<1>1. PICK t \in Threads :
        /\ InHandler(t)
        /\ \/ Pc(t) = "lock" /\ mutex = t
           \/ Pc(t) = "log" /\ log_lock = t
  BY DEF Stuck
<1>2. /\ frames \in [Threads -> Seq(Frame)]
      /\ OwnedBy(mutex, MM, MH) /\ OwnedBy(log_lock, LG, LG)
  BY LocksOwned DEF ServerTypeOK
<1>3. /\ Len(frames[t]) \in Nat \ {0} /\ 1 \in 1 .. Len(frames[t])
      /\ frames[t][1].at = Pc(t)
  BY <1>1, <1>2 DEF InHandler, Pc
<1>4. \A M, H : \A k \in Holding(t, M, H) : Pc(t) \notin H => k = 0 \/ 1 < k
  BY <1>3 DEF Holding
<1>5. CASE Pc(t) = "lock" /\ mutex = t
  <2>1. PICK k \in Holding(t, MM, MH) : TRUE
    BY <1>2, <1>5 DEF OwnedBy, Owned, One
  <2>2. k = 0 \/ 1 < k
    BY <1>4, <1>5 DEF MH
  <2> QED
    BY <1>3, <1>5, <2>2 DEF Jam, MutexJam
<1>6. CASE Pc(t) = "log" /\ log_lock = t
  <2>1. PICK k \in Holding(t, LG, LG) : TRUE
    BY <1>2, <1>6 DEF OwnedBy, Owned, One
  <2>2. k = 0 \/ 1 < k
    BY <1>4, <1>6 DEF LG
  <2> QED
    BY <1>3, <1>6, <2>2 DEF Jam, LogJam
<1> QED
  BY <1>1, <1>5, <1>6

StuckIsJam == Stuck => MutexJam \/ LogJam

JamsLast == [][(MutexJam => MutexJam') /\ (LogJam => LogJam')]_server

NeverServed ==
  [][MutexJam /\ at[Main] # "done" => MutexJam' /\ at'[Main] # "done"]_server

(* Once a handler waits for a lock of the thread it interrupted, nothing   *)
(* that happens later, another signal or the timeout, releases that lock   *)
(* (main.cc:32-44, logging.cc:78).                                         *)
THEOREM StuckForGood == ServerSpec => []StuckIsJam /\ JamsLast
<1>1. ServerInv => StuckIsJam
  BY StuckJams DEF ServerInv, StuckIsJam
<1>2. ServerInv /\ [ServerNext]_server =>
        [(MutexJam => MutexJam') /\ (LogJam => LogJam')]_server
  BY MutexJamStep, LogJamStep DEF ServerInv
<1> QED
  BY <1>1, <1>2, ServerInvariant, PTL DEF ServerSpec, JamsLast

(* A signal handled on main while main tests the predicate of its wait, or *)
(* on any thread inside the force_stop of another signal, keeps the server *)
(* from ever ending: once its handler waits for the mutex, neither a stop  *)
(* nor the timeout gets main out of wait_for (main.cc:25-36).              *)
THEOREM JammedServerNeverEnds == ServerSpec => NeverServed
<1>1. ServerInv /\ [ServerNext]_server =>
        [MutexJam /\ at[Main] # "done" => MutexJam' /\ at'[Main] # "done"]_server
  BY MutexJamStep, JammedMainStays DEF ServerInv
<1> QED
  BY <1>1, ServerInvariant, PTL DEF ServerSpec, NeverServed
=============================================================================
