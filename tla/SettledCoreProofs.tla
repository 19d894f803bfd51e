------------------------- MODULE SettledCoreProofs -------------------------
(***************************************************************************)
(* The safety half of the refinement of FrameGate by the core with settled *)
(* rules, for queues, packets and tables of any size.                      *)
(***************************************************************************)
EXTENDS SettledCore, PacketFilterCoreProofs, SequenceTheorems,
        WellFoundedInduction

(* Every nonempty set of naturals has a least element, from which the      *)
(* inductions below are made.                                              *)
LEMMA LeastNatural ==
  ASSUME NEW T, T \subseteq Nat, T # {}
  PROVE  \E n \in T : \A m \in T : n <= m
<1> DEFINE R == OpToRel(<, Nat)
<1>1. IsWellFoundedOn(R, Nat)
  BY NatLessThanWellFounded, Zenon
<1>2. PICK n \in T : \A m \in T : <<m, n>> \notin R
  <2> HIDE DEF R
  <2> QED
    BY <1>1, WFMin
<1>3. ASSUME NEW m \in T PROVE n <= m
  <2>1. <<m, n>> \in Nat \X Nat
    OBVIOUS
  <2>2. ~(m < n)
    BY <1>2, <2>1 DEF OpToRel
  <2> QED
    BY <2>2
<1> QED
  BY <1>3

LEMMA Induction ==
  ASSUME NEW S, 0 \in S, \A n \in Nat : n \in S => n + 1 \in S
  PROVE  Nat \subseteq S
<1> DEFINE T == Nat \ S
<1> SUFFICES ASSUME T # {} PROVE FALSE
  OBVIOUS
<1>1. PICK n \in T : \A m \in T : n <= m
  <2> HIDE DEF T
  <2>1. T \subseteq Nat
    BY DEF T
  <2> QED
    BY <2>1, LeastNatural
<1>2. n # 0 /\ n \in Nat
  OBVIOUS
<1>3. n - 1 \in Nat /\ n - 1 \notin T
  BY <1>1, <1>2
<1> QED
  BY <1>2, <1>3

-----------------------------------------------------------------------------
(* u is the recursive function behind Passing, up to place m of s.         *)
IsUpto(u, s, A, m) ==
  u = [n \in 0 .. m |->
         IF n = 0 THEN <<>>
         ELSE IF s[n].pkt \in A THEN Append(u[n - 1], s[n]) ELSE u[n - 1]]

LEMMA UptoExists ==
  ASSUME NEW s, NEW A, NEW m \in Nat
  PROVE  \E u : IsUpto(u, s, A, m)
<1> DEFINE S == {k \in Nat : \E u : IsUpto(u, s, A, k)}
<1>1. 0 \in S
  <2>1. IsUpto([n \in 0 .. 0 |-> <<>>], s, A, 0)
    BY DEF IsUpto
  <2> QED
    BY <2>1
<1>2. ASSUME NEW k \in Nat, k \in S PROVE k + 1 \in S
  <2>1. PICK u : IsUpto(u, s, A, k)
    BY <1>2
  <2> DEFINE next == IF s[k + 1].pkt \in A THEN Append(u[k], s[k + 1]) ELSE u[k]
             v    == [n \in 0 .. k + 1 |-> IF n = k + 1 THEN next ELSE u[n]]
             Step(w, n) == IF n = 0 THEN <<>>
                           ELSE IF s[n].pkt \in A THEN Append(w[n - 1], s[n])
                                ELSE w[n - 1]
  <2>2. \A n \in 0 .. k : u[n] = Step(u, n)
    BY <2>1 DEF IsUpto
  <2>3. ASSUME NEW n \in 0 .. k + 1 PROVE v[n] = Step(v, n)
    <3>1. CASE n = k + 1
      BY <3>1
    <3>2. CASE n \in 0 .. k
      <4>1. v[n] = u[n] /\ n # 0 => n - 1 \in 0 .. k /\ v[n - 1] = u[n - 1]
        BY <3>2
      <4> QED
        BY <2>2, <3>2, <4>1
    <3> QED
      BY <3>1, <3>2
  <2>4. v = [n \in 0 .. k + 1 |-> Step(v, n)]
    <3> DEFINE w == [n \in 0 .. k + 1 |-> Step(v, n)]
    <3>1. \A n \in 0 .. k + 1 : v[n] = w[n]
      BY <2>3
    <3> QED
      BY <3>1
  <2>5. IsUpto(v, s, A, k + 1)
    BY <2>4 DEF IsUpto
  <2> QED
    BY <2>5
<1>3. Nat \subseteq S
  <2> HIDE DEF S
  <2> QED
    BY <1>1, <1>2, Induction
<1> QED
  BY <1>3

LEMMA PassingUpto ==
  ASSUME NEW s \in Seq(Phit), NEW A
  PROVE  \E u : IsUpto(u, s, A, Len(s)) /\ Passing(s, A) = u[Len(s)]
<1> DEFINE u == CHOOSE u : IsUpto(u, s, A, Len(s))
<1>1. IsUpto(u, s, A, Len(s))
  BY UptoExists
<1>2. Passing(s, A) = u[Len(s)]
  BY DEF Passing, IsUpto
<1> QED
  BY <1>1, <1>2

LEMMA UptoUnfold ==
  ASSUME NEW u, NEW s, NEW A, NEW m \in Nat, IsUpto(u, s, A, m)
  PROVE  /\ u[0] = <<>>
         /\ \A n \in 0 .. m - 1 :
              u[n + 1] = IF s[n + 1].pkt \in A THEN Append(u[n], s[n + 1]) ELSE u[n]
<1> DEFINE Step(n) == IF n = 0 THEN <<>>
                      ELSE IF s[n].pkt \in A THEN Append(u[n - 1], s[n]) ELSE u[n - 1]
<1>1. \A n \in 0 .. m : u[n] = Step(n)
  BY DEF IsUpto
<1>2. ASSUME NEW n \in 0 .. m - 1
      PROVE  u[n + 1] = IF s[n + 1].pkt \in A THEN Append(u[n], s[n + 1]) ELSE u[n]
  <2>1. n + 1 \in 0 .. m /\ n + 1 # 0 /\ (n + 1) - 1 = n
    OBVIOUS
  <2>2. u[n + 1] = Step(n + 1)
    BY <1>1, <2>1
  <2> QED
    BY <2>1, <2>2
<1> QED
  BY <1>1, <1>2

LEMMA UptoType ==
  ASSUME NEW s \in Seq(Phit), NEW A, NEW m \in 0 .. Len(s), NEW u, IsUpto(u, s, A, m)
  PROVE  \A n \in 0 .. m : u[n] \in Seq(Phit)
<1> DEFINE S == {n \in Nat : n <= m => u[n] \in Seq(Phit)}
<1>0. Len(s) \in Nat /\ m \in Nat /\ m <= Len(s)
  OBVIOUS
<1>a. /\ u[0] = <<>>
      /\ \A n \in 0 .. m - 1 :
           u[n + 1] = IF s[n + 1].pkt \in A THEN Append(u[n], s[n + 1]) ELSE u[n]
  BY <1>0, UptoUnfold
<1>1. 0 \in S
  <2>1. u[0] = <<>>
    BY <1>a
  <2>2. <<>> \in Seq(Phit)
    OBVIOUS
  <2>3. u[0] \in Seq(Phit)
    BY <2>1, <2>2, Zenon
  <2> QED
    BY <2>3
<1>2. ASSUME NEW n \in Nat, n \in S PROVE n + 1 \in S
  <2> SUFFICES ASSUME n + 1 <= m PROVE u[n + 1] \in Seq(Phit)
    OBVIOUS
  <2>1. n \in 0 .. m - 1 /\ n + 1 \in 1 .. Len(s) /\ u[n] \in Seq(Phit)
    BY <1>0, <1>2
  <2>2. u[n + 1] = IF s[n + 1].pkt \in A THEN Append(u[n], s[n + 1]) ELSE u[n]
    BY <1>a, <2>1
  <2>3. s[n + 1] \in Phit
    BY <2>1
  <2> QED
    BY <2>1, <2>2, <2>3, AppendType
<1>3. Nat \subseteq S
  <2> HIDE DEF S
  <2> QED
    BY <1>1, <1>2, Induction
<1> QED
  BY <1>3

(* What is passed of a sequence up to a place depends on nothing behind it.*)
LEMMA UptoAgree ==
  ASSUME NEW s, NEW t, NEW A, NEW m \in Nat, NEW k \in Nat, m <= k,
         NEW u, NEW v, IsUpto(u, s, A, m), IsUpto(v, t, A, k),
         \A n \in 1 .. m : s[n] = t[n]
  PROVE  u[m] = v[m]
<1> DEFINE S == {n \in Nat : n <= m => u[n] = v[n]}
<1>1. 0 \in S
  BY UptoUnfold
<1>2. ASSUME NEW n \in Nat, n \in S PROVE n + 1 \in S
  <2> SUFFICES ASSUME n + 1 <= m PROVE u[n + 1] = v[n + 1]
    OBVIOUS
  <2>1. /\ n \in 0 .. m - 1 /\ n \in 0 .. k - 1 /\ n + 1 \in 1 .. m
        /\ u[n] = v[n]
    BY <1>2
  <2>2. s[n + 1] = t[n + 1]
    BY <2>1
  <2>3. u[n + 1] = IF s[n + 1].pkt \in A THEN Append(u[n], s[n + 1]) ELSE u[n]
    BY <2>1, UptoUnfold
  <2>4. v[n + 1] = IF t[n + 1].pkt \in A THEN Append(v[n], t[n + 1]) ELSE v[n]
    BY <2>1, UptoUnfold
  <2> QED
    BY <2>1, <2>2, <2>3, <2>4
<1>3. Nat \subseteq S
  <2> HIDE DEF S
  <2> QED
    BY <1>1, <1>2, Induction
<1> QED
  BY <1>3

LEMMA PassingType ==
  ASSUME NEW s \in Seq(Phit), NEW A
  PROVE  Passing(s, A) \in Seq(Phit)
<1>1. Len(s) \in Nat
  OBVIOUS
<1> QED
  BY <1>1, PassingUpto, UptoType

LEMMA PassingEmpty ==
  ASSUME NEW A
  PROVE  Passing(<<>>, A) = <<>>
<1>1. <<>> \in Seq(Phit) /\ Len(<<>>) = 0
  OBVIOUS
<1>2. PICK u : IsUpto(u, <<>>, A, 0) /\ Passing(<<>>, A) = u[0]
  BY <1>1, PassingUpto
<1> QED
  BY <1>2, UptoUnfold

(* A phit that arrives is the last to pass, or does not.                   *)
LEMMA PassingAppend ==
  ASSUME NEW s \in Seq(Phit), NEW p \in Phit, NEW A
  PROVE  Passing(Append(s, p), A) =
           IF p.pkt \in A THEN Append(Passing(s, A), p) ELSE Passing(s, A)
<1> DEFINE t == Append(s, p)
           m == Len(s)
<1>1. /\ t \in Seq(Phit) /\ Len(t) = m + 1 /\ m \in Nat
      /\ t[m + 1] = p /\ \A n \in 1 .. m : s[n] = t[n]
  BY AppendType
<1> HIDE DEF t
<1>2. PICK u : IsUpto(u, s, A, m) /\ Passing(s, A) = u[m]
  BY PassingUpto
<1>3. PICK v : IsUpto(v, t, A, m + 1) /\ Passing(t, A) = v[m + 1]
  BY <1>1, PassingUpto
<1>4. u[m] = v[m]
  BY <1>1, <1>2, <1>3, UptoAgree
<1>5. v[m + 1] = IF t[m + 1].pkt \in A THEN Append(v[m], t[m + 1]) ELSE v[m]
  <2>1. m + 1 \in Nat /\ m \in 0 .. (m + 1) - 1
    BY <1>1
  <2> QED
    BY <1>3, <2>1, UptoUnfold
<1> QED
  BY <1>1, <1>2, <1>3, <1>4, <1>5 DEF t

(* Concatenation under a name of its own, and what is used of it.          *)
Cat(a, b) == a \o b

LEMMA CatFacts ==
  ASSUME NEW a \in Seq(Phit), NEW b \in Seq(Phit), NEW e \in Phit
  PROVE  /\ Append(Cat(a, b), e) = Cat(a, Append(b, e))
         /\ Cat(Append(a, e), b) = Cat(a, Cat(<<e>>, b))
<1>1. Append(a \o b, e) = a \o Append(b, e)
  OBVIOUS
<1>2. Append(a, e) \o b = a \o (<<e>> \o b)
  OBVIOUS
<1> QED
  BY <1>1, <1>2 DEF Cat

LEMMA CatEmpty ==
  ASSUME NEW a \in Seq(Phit)
  PROVE  Cat(a, <<>>) = a /\ Cat(<<>>, a) = a
<1>1. a \o <<>> = a /\ <<>> \o a = a
  OBVIOUS
<1> QED
  BY <1>1 DEF Cat

LEMMA UptoTail ==
  ASSUME NEW s, NEW t \in Seq(Phit), NEW A, NEW m \in Nat, m = Len(t),
         \A n \in 1 .. m : t[n] = s[n + 1],
         NEW u, NEW v, IsUpto(u, s, A, m + 1), IsUpto(v, t, A, m),
         u[1] \in Seq(Phit)
  PROVE  u[m + 1] = Cat(u[1], v[m])
<1> DEFINE S == {n \in Nat : n <= m => u[n + 1] = Cat(u[1], v[n])}
<1>1. 0 \in S
  <2>1. v[0] = <<>>
    BY UptoUnfold
  <2>2. Cat(u[1], <<>>) = u[1]
    BY CatEmpty
  <2> QED
    BY <2>1, <2>2
<1>2. ASSUME NEW n \in Nat, n \in S PROVE n + 1 \in S
  <2> SUFFICES ASSUME n + 1 <= m PROVE u[(n + 1) + 1] = Cat(u[1], v[n + 1])
    OBVIOUS
  <2>1. /\ n \in 0 .. m - 1 /\ n + 1 \in 0 .. (m + 1) - 1 /\ n + 1 \in 1 .. m
        /\ n \in 0 .. m /\ m + 1 \in Nat
        /\ u[n + 1] = Cat(u[1], v[n])
    BY <1>2
  <2>2. v[n + 1] = IF t[n + 1].pkt \in A THEN Append(v[n], t[n + 1]) ELSE v[n]
    BY <2>1, UptoUnfold
  <2>3. u[(n + 1) + 1] = IF s[(n + 1) + 1].pkt \in A
                         THEN Append(u[n + 1], s[(n + 1) + 1]) ELSE u[n + 1]
    <3>1. \A k \in 0 .. (m + 1) - 1 :
            u[k + 1] = IF s[k + 1].pkt \in A THEN Append(u[k], s[k + 1]) ELSE u[k]
      BY <2>1, UptoUnfold
    <3> QED
      BY <2>1, <3>1
  <2>4. t[n + 1] = s[(n + 1) + 1] /\ t[n + 1] \in Phit
    BY <2>1
  <2>5. v[n] \in Seq(Phit)
    <3>1. m \in 0 .. Len(t)
      OBVIOUS
    <3>2. \A k \in 0 .. m : v[k] \in Seq(Phit)
      BY <3>1, UptoType
    <3> QED
      BY <2>1, <3>2
  <2>6. Append(Cat(u[1], v[n]), t[n + 1]) = Cat(u[1], Append(v[n], t[n + 1]))
    <3>1. \A b \in Seq(Phit), e \in Phit : Append(Cat(u[1], b), e) = Cat(u[1], Append(b, e))
      BY CatFacts
    <3> QED
      BY <2>4, <2>5, <3>1, Zenon
  <2> QED
    BY <2>1, <2>2, <2>3, <2>4, <2>6
<1>3. Nat \subseteq S
  <2> HIDE DEF S
  <2> QED
    BY <1>1, <1>2, Induction
<1>4. m \in S
  BY <1>3
<1> QED
  BY <1>4

(* A phit that is taken was the u[1] to pass, or did not.                 *)
LEMMA PassingHead ==
  ASSUME NEW s \in Seq(Phit), s # <<>>, NEW A
  PROVE  Passing(s, A) = IF Head(s).pkt \in A
                         THEN Cat(<<Head(s)>>, Passing(Tail(s), A))
                         ELSE Passing(Tail(s), A)
<1> DEFINE t == Tail(s)
           m == Len(t)
           p == Head(s)
<1>1. /\ t \in Seq(Phit) /\ Len(s) = m + 1 /\ m \in Nat
      /\ p = s[1] /\ p \in Phit
      /\ \A n \in 1 .. m : t[n] = s[n + 1]
  <2>1. Len(s) \in Nat
    OBVIOUS
  <2> QED
    BY <2>1, TailType
<1>0. m = Len(t)
  OBVIOUS
<1> HIDE DEF t, m, p
<1>2. PICK u : IsUpto(u, s, A, m + 1) /\ Passing(s, A) = u[m + 1]
  BY <1>1, PassingUpto
<1>3. PICK v : IsUpto(v, t, A, m) /\ Passing(t, A) = v[m]
  BY <1>0, <1>1, PassingUpto
<1>4. u[1] = IF p.pkt \in A THEN <<p>> ELSE <<>>
  <2>1. m + 1 \in Nat /\ 0 \in 0 .. (m + 1) - 1
    BY <1>1
  <2>2. u[0] = <<>>
    BY <1>2, <2>1, UptoUnfold
  <2>3. u[0 + 1] = IF s[0 + 1].pkt \in A THEN Append(u[0], s[0 + 1]) ELSE u[0]
    BY <1>2, <2>1, UptoUnfold
  <2>4. Append(<<>>, p) = <<p>>
    OBVIOUS
  <2> QED
    BY <1>1, <2>2, <2>3, <2>4
<1>5. u[1] \in Seq(Phit)
  BY <1>1, <1>4
<1>6. u[m + 1] = Cat(u[1], v[m])
  BY <1>0, <1>1, <1>2, <1>3, <1>5, UptoTail
<1>7. v[m] \in Seq(Phit)
  BY <1>1, <1>3, PassingType
<1>8. Cat(<<>>, v[m]) = v[m]
  BY <1>7, CatEmpty
<1> QED
  BY <1>2, <1>3, <1>4, <1>6, <1>8 DEF t, p

-----------------------------------------------------------------------------
(* FrameGate's queue, in the notation of the lemmas above.                 *)
Inside == Cat(m_axis, Passing(s_axis, Accepted))

(* What is accepted depends on the table alone, which no longer changes.   *)
LEMMA AcceptedSettled ==
  ASSUME SettledInv, [SettledNext]_vars
  PROVE  Accepted' = Accepted
<1>1. table' = table
  BY SettledTable DEF SettledInv
<1> QED
  BY <1>1 DEF Accepted, table_action, lookup

LEMMA GateInit == SettledInit => Gate!Init
<1> SUFFICES ASSUME SettledInit PROVE Gate!Init
  OBVIOUS
<1>1. s_axis = <<>> /\ m_axis = <<>>
  BY DEF SettledInit
<1>2. Passing(s_axis, Accepted) = <<>>
  BY <1>1, PassingEmpty
<1>3. m_axis \o Passing(s_axis, Accepted) = <<>>
  BY <1>1, <1>2
<1>4. Accepted \subseteq Headers
  BY DEF Accepted
<1>5. rx \in [pkt : Headers, pos : {0}] /\ c2h.pos = 0 /\ c2h.last
  BY DEF SettledInit
<1> QED
  BY <1>3, <1>4, <1>5 DEF Gate!Init

(* process_packet with a phit: the head of s_axis, judged by its own       *)
(* header, is already in FrameGate's queue or was never in it.             *)
LEMMA GateProcessPhit ==
  ASSUME SettledInv, ProcessPhit
  PROVE  Inside' = Inside /\ UNCHANGED <<rx, c2h>>
<1> DEFINE p == Head(s_axis)
           rest == Passing(Tail(s_axis), Accepted)
<1>0. /\ s_axis \in Seq(Phit) /\ m_axis \in Seq(Phit) /\ s_axis # <<>>
      /\ table' = table
  BY DEF SettledInv, TypeOK, ProcessPhit
<1>1. deserialize(network, p.data, phit_idx) = p.pkt
  BY <1>0, FramingOwnHeader DEF SettledInv, OwnHeader
<1>2. p \in Phit /\ Tail(s_axis) \in Seq(Phit)
  BY <1>0
<1>3. p.pkt \in Accepted <=> table_action(p.pkt) = FORWARD
  BY <1>2 DEF Accepted, Phit
<1>4. /\ s_axis' = Tail(s_axis)
      /\ m_axis' = IF p.pkt \in Accepted THEN Append(m_axis, p) ELSE m_axis
      /\ UNCHANGED <<rx, c2h>>
  BY <1>1, <1>3 DEF ProcessPhit
<1>5. Passing(s_axis, Accepted)
        = IF p.pkt \in Accepted THEN Cat(<<p>>, rest) ELSE rest
  BY <1>0, PassingHead
<1>6. rest \in Seq(Phit)
  BY <1>2, PassingType
<1>7. Cat(Append(m_axis, p), rest) = Cat(m_axis, Cat(<<p>>, rest))
  BY <1>0, <1>2, <1>6, CatFacts
<1>8. Accepted' = Accepted
  BY <1>0 DEF Accepted, table_action, lookup
<1>9. Inside' = Cat(m_axis', rest)
  BY <1>4, <1>8 DEF Inside
<1> QED
  BY <1>4, <1>5, <1>7, <1>9 DEF Inside

(* A phit that arrives is FrameGate's Send.                                *)
LEMMA GateArrive ==
  ASSUME SettledInv, [SettledNext]_vars,
         NEW data \in Headers, NEW last \in BOOLEAN, Arrive(data, last)
  PROVE  Gate!Next
<1> DEFINE pkt  == IF rx.pos = 0 THEN data ELSE rx.pkt
           phit == [data |-> data, pkt |-> pkt, pos |-> rx.pos, last |-> last]
           old  == Passing(s_axis, Accepted)
<1>0. /\ s_axis \in Seq(Phit) /\ m_axis \in Seq(Phit)
      /\ rx \in [pkt : Headers, pos : Nat]
  BY DEF SettledInv, TypeOK
<1>1. /\ s_axis' = Append(s_axis, phit)
      /\ rx' = [pkt |-> pkt, pos |-> IF last THEN 0 ELSE rx.pos + 1]
      /\ m_axis' = m_axis /\ c2h' = c2h
  BY DEF Arrive
<1>2. Accepted' = Accepted
  BY AcceptedSettled
<1>3. pkt \in Headers /\ phit \in Phit /\ phit.pkt = pkt
  BY <1>0 DEF Phit
<1>4. Passing(s_axis', Accepted) = IF pkt \in Accepted THEN Append(old, phit) ELSE old
  <2> HIDE DEF phit, pkt
  <2> QED
    BY <1>0, <1>1, <1>3, PassingAppend
<1>5. old \in Seq(Phit)
  BY <1>0, PassingType
<1>6. Cat(m_axis, Append(old, phit)) = Append(Cat(m_axis, old), phit)
  <2> HIDE DEF phit, old
  <2> QED
    BY <1>0, <1>3, <1>5, CatFacts
<1>7. Inside' = IF pkt \in Accepted THEN Append(Inside, phit) ELSE Inside
  <2> HIDE DEF phit, pkt
  <2> QED
    BY <1>1, <1>2, <1>4, <1>6 DEF Inside
<1>8. Gate!Send(pkt, data, last)
  <2>1. (m_axis \o old)' = IF pkt \in Accepted THEN Append(m_axis \o old, phit)
                           ELSE m_axis \o old
    BY <1>7 DEF Inside, Cat
  <2>2. (rx.pos > 0 => pkt = rx.pkt) /\ (rx.pos = 0 => data = pkt)
    BY <1>0
  <2> QED
    BY <1>1, <1>2, <2>1, <2>2 DEF Gate!Send
<1> QED
  BY <1>3, <1>8 DEF Gate!Next

(* A phit the QDMA takes is FrameGate's Take.                              *)
LEMMA GateDeliver ==
  ASSUME SettledInv, [SettledNext]_vars, Deliver
  PROVE  Gate!Next
<1> DEFINE rest == Passing(s_axis, Accepted)
<1>0. /\ s_axis \in Seq(Phit) /\ m_axis \in Seq(Phit) /\ m_axis # <<>>
  BY DEF SettledInv, TypeOK, Deliver
<1>1. /\ m_axis' = Tail(m_axis) /\ c2h' = Head(m_axis)
      /\ s_axis' = s_axis /\ rx' = rx
  BY DEF Deliver
<1>2. Accepted' = Accepted
  BY AcceptedSettled
<1>3. rest \in Seq(Phit)
  BY <1>0, PassingType
<1>4. /\ m_axis \o rest # <<>>
      /\ Head(m_axis \o rest) = Head(m_axis)
      /\ Tail(m_axis \o rest) = Tail(m_axis) \o rest
  <2> HIDE DEF rest
  <2> QED
    BY <1>0, <1>3
<1>5. Passing(s_axis, Accepted)' = rest
  BY <1>1, <1>2
<1> QED
  BY <1>1, <1>2, <1>4, <1>5 DEF Gate!Next, Gate!Take

(* Each step of the core and of its surroundings is one of FrameGate's, or *)
(* leaves what FrameGate sees alone.                                       *)
LEMMA GateStep ==
  ASSUME SettledInv, [SettledNext]_vars
  PROVE  [Gate!Next]_(Gate!gate)
<1>1. Accepted' = Accepted
  BY AcceptedSettled
<1>2. CASE ProcessPhit
  BY <1>1, <1>2, GateProcessPhit DEF Gate!gate, Inside, Cat
<1>3. CASE ProcessIdle
  <2>1. s_axis' = s_axis /\ m_axis' = m_axis /\ rx' = rx /\ c2h' = c2h
    BY <1>3 DEF ProcessIdle, stream
  <2> QED
    BY <1>1, <2>1 DEF Gate!gate
<1>4. CASE \E data \in Headers, last \in BOOLEAN : Arrive(data, last)
  BY <1>4, GateArrive
<1>5. CASE Deliver
  BY <1>5, GateDeliver
<1>6. CASE UNCHANGED vars
  <2>1. s_axis' = s_axis /\ m_axis' = m_axis /\ rx' = rx /\ c2h' = c2h
    BY <1>6 DEF vars, stream
  <2> QED
    BY <1>1, <2>1 DEF Gate!gate
<1> QED
  BY <1>2, <1>3, <1>4, <1>5, <1>6 DEF SettledNext, process_packet, Traffic

(* With settled rules the core is a lossless FIFO of the packets its table *)
(* forwards: process_packet drops no phit of theirs, doubles none, keeps   *)
(* their order, and passes nothing else, whatever the queues and stalls.   *)
THEOREM SettledCoreIsGate == SettledSpec => Gate!Safety
<1>1. SettledInit => SettledInv
  BY SettledInitInv
<1>2. SettledInv /\ [SettledNext]_vars => SettledInv'
  BY SettledStep
<1>3. SettledInit => Gate!Init
  BY GateInit
<1>4. SettledInv /\ [SettledNext]_vars => [Gate!Next]_(Gate!gate)
  BY GateStep
<1> QED
  BY <1>1, <1>2, <1>3, <1>4, PTL DEF SettledSpec, Gate!Safety
=============================================================================
