------------------------- MODULE ToeplitzHashProofs -------------------------
(***************************************************************************)
(* compute_hash returns the Toeplitz product of its arguments, for every   *)
(* key, width and address: the loop invariant and its proof.  The product  *)
(* is linear, and the low bits of it are an index inside the table.        *)
(***************************************************************************)
EXTENDS ToeplitzHash, FiniteSetTheorems, WellFoundedInduction, TLAPS

(* One more element changes the parity of a finite set.                    *)
LEMMA OddAdd ==
  ASSUME NEW S, IsFiniteSet(S), NEW x, x \notin S
  PROVE  Odd(S \cup {x}) <=> ~Odd(S)
<1>1. Cardinality(S) \in Nat
  BY FS_CardinalityType
<1>2. Cardinality(S \cup {x}) = Cardinality(S) + 1
  BY FS_AddElement
<1> QED
  BY <1>1, <1>2 DEF Odd

(* One more 1 bit of the vector XORs the window at its place into the      *)
(* hash.                                                                   *)
LEMMA ToeplitzAdd ==
  ASSUME NEW v \in SUBSET Int, IsFiniteSet(v), NEW x \in Int, x \notin v
  PROVE  Toeplitz(v \cup {x}) = SymDiff(Toeplitz(v), get_window(TRUE, x))
<1> SUFFICES ASSUME NEW k \in Word
             PROVE  Odd(Hits(v \cup {x}, k))
                      <=> (Odd(Hits(v, k)) <=> ~(k + x \in toeplitz_key))
  BY DEF Toeplitz, SymDiff, get_window
<1>1. k \in Int
  BY HashAssumption DEF Word
<1>2. IsFiniteSet(Hits(v, k)) /\ x \notin Hits(v, k)
  BY FS_Subset DEF Hits
<1>3. k + x = x + k
  BY <1>1
<1>4. CASE k + x \in toeplitz_key
  <2>1. Hits(v \cup {x}, k) = Hits(v, k) \cup {x}
    BY <1>3, <1>4 DEF Hits
  <2> QED
    BY <1>2, <1>4, <2>1, OddAdd
<1>5. CASE k + x \notin toeplitz_key
  <2>1. Hits(v \cup {x}, k) = Hits(v, k)
    BY <1>3, <1>5 DEF Hits
  <2> QED
    BY <1>5, <2>1
<1> QED
  BY <1>4, <1>5

(* A 0 bit leaves the hash as it is.                                       *)
LEMMA ZeroBit ==
  ASSUME NEW h, NEW offset
  PROVE  SymDiff(h, get_window(FALSE, offset)) = h
BY DEF SymDiff, get_window

LEMMA ToeplitzEmpty == Toeplitz({}) = {}
<1>1. \A k : Hits({}, k) = {}
  BY DEF Hits
<1>2. ~Odd({})
  BY FS_EmptySet DEF Odd
<1> QED
  BY <1>1, <1>2 DEF Toeplitz
-----------------------------------------------------------------------------
LEMMA HashTypeInit == HashInit => HashTypeOK
BY HashAssumption DEF HashInit, HashTypeOK

LEMMA HashTypeStep ==
  ASSUME HashTypeOK, [HashNext]_hvars
  PROVE  HashTypeOK'
<1>1. CASE IpBit
  BY <1>1, HashAssumption DEF IpBit, HashTypeOK, SymDiff, get_window
<1>2. CASE IpDone
  BY <1>2, HashAssumption DEF IpDone, HashTypeOK
<1>3. CASE PortBit
  BY <1>3, HashAssumption DEF PortBit, HashTypeOK, SymDiff, get_window
<1>4. CASE PortDone
  BY <1>4 DEF PortDone, HashTypeOK
<1>5. CASE UNCHANGED hvars
  BY <1>5 DEF hvars, HashTypeOK
<1> QED
  BY <1>1, <1>2, <1>3, <1>4, <1>5 DEF HashNext

(* The bits visited are a finite set of integers.                          *)
LEMMA VisitedFinite ==
  ASSUME HashTypeOK
  PROVE  /\ Visited \in SUBSET Int
         /\ IsFiniteSet(Visited)
<1> DEFINE All == 0 .. IpBits + PortBits - 1
<1>1. Visited \subseteq All
  BY HashAssumption DEF HashTypeOK, Visited, Vector, Ip, Port
<1>2. IsFiniteSet(All) /\ All \subseteq Int
  BY HashAssumption, FS_Interval
<1> HIDE DEF All
<1> QED
  BY <1>1, <1>2, FS_Subset

LEMMA LoopInvariantNext ==
  ASSUME hash' = Toeplitz(Visited')
  PROVE  LoopInvariant'
BY DEF LoopInvariant, Toeplitz, Hits, Word

LEMMA LoopInvariantStep ==
  ASSUME HashTypeOK, LoopInvariant, [HashNext]_hvars
  PROVE  LoopInvariant'
<1>1. CASE IpBit
  <2>1. /\ i \in Nat /\ i \in Int /\ i < IpBits /\ i' = i + 1
        /\ ip' = ip /\ loop = "ip" /\ loop' = "ip"
        /\ hash' = SymDiff(Toeplitz(Visited), get_window(i \in ip, i))
    BY <1>1 DEF IpBit, HashTypeOK, LoopInvariant
  <2>2. Visited = ip \cap (0 .. i - 1) /\ Visited' = ip \cap (0 .. i)
    BY <2>1 DEF Visited
  <2>3. i \notin Visited
    BY <2>1, <2>2
  <2>4. CASE i \in ip
    <3>1. Visited' = Visited \cup {i}
      BY <2>1, <2>2, <2>4
    <3>2. get_window(i \in ip, i) = get_window(TRUE, i)
      BY <2>4 DEF get_window
    <3>3. Toeplitz(Visited \cup {i})
            = SymDiff(Toeplitz(Visited), get_window(TRUE, i))
      BY <2>1, <2>3, VisitedFinite, ToeplitzAdd
    <3> QED
      BY <2>1, <3>1, <3>2, <3>3, LoopInvariantNext
  <2>5. CASE i \notin ip
    <3>1. Visited' = Visited
      BY <2>1, <2>2, <2>5
    <3>2. get_window(i \in ip, i) = get_window(FALSE, i)
      BY <2>5 DEF get_window
    <3> QED
      BY <2>1, <3>1, <3>2, ZeroBit, LoopInvariantNext
  <2> QED
    BY <2>4, <2>5
<1>2. CASE IpDone
  <2>1. Visited' = Visited
    BY <1>2, HashAssumption DEF IpDone, Visited, Vector, HashTypeOK, Ip
  <2> QED
    BY <1>2, <2>1 DEF IpDone, LoopInvariant, Toeplitz, Hits, Word
<1>3. CASE PortBit
  <2> DEFINE x == i + IpBits
  <2>1. /\ i \in Nat /\ i < PortBits /\ i' = i + 1
        /\ ip' = ip /\ port' = port /\ loop = "port" /\ loop' = "port"
        /\ hash' = SymDiff(Toeplitz(Visited), get_window(i \in port, x))
        /\ ip \in SUBSET Ip
        /\ IpBits \in Nat
        /\ x \in Int
    BY <1>3, HashAssumption DEF PortBit, HashTypeOK, LoopInvariant
  <2>2. /\ Visited = ip \cup {IpBits + j : j \in port \cap (0 .. i - 1)}
        /\ Visited' = ip \cup {IpBits + j : j \in port \cap (0 .. i)}
    BY <2>1 DEF Visited, Vector
  <2>3. x \notin Visited
    BY <2>1, <2>2 DEF Ip
  <2>4. CASE i \in port
    <3>1. port \cap (0 .. i) = (port \cap (0 .. i - 1)) \cup {i}
      BY <2>1, <2>4
    <3>2. Visited' = Visited \cup {x}
      BY <2>1, <2>2, <3>1
    <3>3. get_window(i \in port, x) = get_window(TRUE, x)
      BY <2>4 DEF get_window
    <3>4. Toeplitz(Visited \cup {x})
            = SymDiff(Toeplitz(Visited), get_window(TRUE, x))
      BY <2>1, <2>3, VisitedFinite, ToeplitzAdd
    <3> QED
      BY <2>1, <3>2, <3>3, <3>4, LoopInvariantNext
  <2>5. CASE i \notin port
    <3>1. port \cap (0 .. i) = port \cap (0 .. i - 1)
      BY <2>1, <2>5
    <3>2. Visited' = Visited
      BY <2>2, <3>1
    <3>3. get_window(i \in port, x) = get_window(FALSE, x)
      BY <2>5 DEF get_window
    <3> QED
      BY <2>1, <3>2, <3>3, ZeroBit, LoopInvariantNext
  <2> QED
    BY <2>4, <2>5
<1>4. CASE PortDone
  <2>1. Visited' = Visited
    BY <1>4, HashAssumption DEF PortDone, Visited, Vector, HashTypeOK, Port
  <2> QED
    BY <1>4, <2>1 DEF PortDone, LoopInvariant, Toeplitz, Hits, Word
<1>5. CASE UNCHANGED hvars
  BY <1>5 DEF hvars, LoopInvariant, Visited, Vector, Toeplitz, Hits, Word
<1> QED
  BY <1>1, <1>2, <1>3, <1>4, <1>5 DEF HashNext

(* Types of the loop; the key windows stay inside the key.                 *)
THEOREM HashTypeCorrect == HashSpec => []HashTypeOK
BY HashTypeInit, HashTypeStep, PTL DEF HashSpec

(* At every iteration of the two loops the hash is that of the bits        *)
(* already visited.                                                        *)
THEOREM LoopInvariantCorrect == HashSpec => []LoopInvariant
<1>1. HashInit => LoopInvariant
  <2>1. HashInit => Visited = {}
    BY DEF HashInit, Visited
  <2> QED
    BY <2>1, ToeplitzEmpty DEF HashInit, LoopInvariant
<1> QED
  BY <1>1, HashTypeCorrect, LoopInvariantStep, PTL DEF HashSpec

(* compute_hash returns the Toeplitz product of the whole address, for     *)
(* every key, address and width.                                           *)
THEOREM HashIsToeplitz == HashSpec => []HashCorrect
<1>1. LoopInvariant => HashCorrect
  BY DEF LoopInvariant, HashCorrect, Visited
<1> QED
  BY <1>1, LoopInvariantCorrect, PTL
-----------------------------------------------------------------------------
(* Every nonempty set of naturals has a least element, from which the      *)
(* inductions below are made.                                              *)
LEMMA LeastNatural ==
  ASSUME NEW T, T \subseteq Nat, T # {}
  PROVE  \E n \in T : \A m \in T : n <= m
<1> DEFINE R == OpToRel(<, Nat)
<1>1. IsWellFoundedOn(R, Nat)
  BY NatLessThanWellFounded, Zenon
<1>2. PICK n \in T : \A m \in T : <<m, n>> \notin R
  <2> HIDE DEF R
  <2> QED
    BY <1>1, WFMin
<1>3. ASSUME NEW m \in T PROVE n <= m
  <2>1. <<m, n>> \in Nat \X Nat
    OBVIOUS
  <2>2. ~(m < n)
    BY <1>2, <2>1 DEF OpToRel
  <2> QED
    BY <2>2
<1> QED
  BY <1>3

LEMMA Induction ==
  ASSUME NEW S, 0 \in S, \A n \in Nat : n \in S => n + 1 \in S
  PROVE  Nat \subseteq S
<1> DEFINE T == Nat \ S
<1> SUFFICES ASSUME T # {} PROVE FALSE
  OBVIOUS
<1>1. PICK n \in T : \A m \in T : n <= m
  <2> HIDE DEF T
  <2>1. T \subseteq Nat
    BY DEF T
  <2> QED
    BY <2>1, LeastNatural
<1>2. n # 0 /\ n \in Nat
  OBVIOUS
<1>3. n - 1 \in Nat /\ n - 1 \notin T
  BY <1>1, <1>2
<1> QED
  BY <1>2, <1>3

(* A recursion over 0 .. m has a solution.                                 *)
Solves(u, V, d, m, g) ==
  /\ u \in [0 .. m -> V]
  /\ u[0] = d
  /\ \A n \in 1 .. m : u[n] = g[n][u[n - 1]]

LEMMA Recursion ==
  ASSUME NEW V, NEW d \in V, NEW m \in Nat, NEW g \in [1 .. m -> [V -> V]]
  PROVE  \E u : Solves(u, V, d, m, g)
<1> DEFINE S == {k \in Nat : k <= m => \E u : Solves(u, V, d, k, g)}
<1>1. 0 \in S
  <2>1. Solves([n \in 0 .. 0 |-> d], V, d, 0, g)
    BY DEF Solves
  <2> QED
    BY <2>1
<1>2. ASSUME NEW k \in Nat, k \in S PROVE k + 1 \in S
  <2> SUFFICES ASSUME k + 1 <= m PROVE \E v : Solves(v, V, d, k + 1, g)
    OBVIOUS
  <2>1. PICK u : Solves(u, V, d, k, g)
    BY <1>2
  <2> DEFINE next == g[k + 1][u[k]]
             v    == [n \in 0 .. k + 1 |-> IF n = k + 1 THEN next ELSE u[n]]
  <2>2. next \in V
    BY <2>1 DEF Solves
  <2>3. v \in [0 .. k + 1 -> V] /\ v[0] = d
    BY <2>1, <2>2 DEF Solves
  <2>4. ASSUME NEW n \in 1 .. k + 1 PROVE v[n] = g[n][v[n - 1]]
    <3>1. n \in 0 .. k + 1 /\ n - 1 \in 0 .. k /\ n - 1 \in 0 .. k + 1 /\ n - 1 # k + 1
      OBVIOUS
    <3>2. v[n - 1] = u[n - 1]
      BY <3>1
    <3>3. CASE n = k + 1
      <4>1. v[n] = g[n][u[k]] /\ n - 1 = k
        BY <3>1, <3>3
      <4> QED
        BY <3>2, <4>1
    <3>4. CASE n \in 1 .. k
      <4>1. v[n] = u[n]
        BY <3>4
      <4>2. u[n] = g[n][u[n - 1]]
        BY <2>1, <3>4 DEF Solves
      <4> QED
        BY <3>2, <4>1, <4>2
    <3> QED
      BY <3>3, <3>4
  <2>5. Solves(v, V, d, k + 1, g)
    <3> HIDE DEF v
    <3> QED
      BY <2>3, <2>4 DEF Solves
  <2> QED
    BY <2>5
<1>3. Nat \subseteq S
  <2> HIDE DEF S
  <2> QED
    BY <1>1, <1>2, Induction
<1> QED
  BY <1>3

(* Pow2 is what its definition says, and grows.                            *)
LEMMA Pow2Unfold ==
  /\ Pow2[0] = 1
  /\ \A k \in 1 .. 30 : Pow2[k] = 2 * Pow2[k - 1]
<1> DEFINE g    == [n \in 1 .. 30 |-> [x \in Nat |-> 2 * x]]
           Is(u) == u = [k \in 0 .. 30 |-> IF k = 0 THEN 1 ELSE 2 * u[k - 1]]
<1>1. g \in [1 .. 30 -> [Nat -> Nat]]
  OBVIOUS
<1>2. PICK u : Solves(u, Nat, 1, 30, g)
  <2> HIDE DEF g
  <2> QED
    BY <1>1, Recursion
<1>3. u \in [0 .. 30 -> Nat] /\ u[0] = 1 /\ \A n \in 1 .. 30 : u[n] = 2 * u[n - 1]
  <2>1. u \in [0 .. 30 -> Nat] /\ u[0] = 1 /\ \A n \in 1 .. 30 : u[n] = g[n][u[n - 1]]
    <3> HIDE DEF g
    <3> QED
      BY <1>2 DEF Solves
  <2> QED
    BY <2>1
<1>4. Is(u)
  BY <1>3
<1>5. Is(Pow2)
  BY <1>4 DEF Pow2
<1> QED
  BY <1>5

LEMMA Pow2Positive == \A k \in 0 .. 30 : Pow2[k] \in Nat \ {0}
<1> DEFINE S == {k \in Nat : k <= 30 => Pow2[k] \in Nat \ {0}}
<1>1. 0 \in S
  BY Pow2Unfold
<1>2. ASSUME NEW k \in Nat, k \in S PROVE k + 1 \in S
  BY <1>2, Pow2Unfold
<1>3. Nat \subseteq S
  <2> HIDE DEF S
  <2> QED
    BY <1>1, <1>2, Induction
<1> QED
  BY <1>3

LEMMA Pow2Grows ==
  ASSUME NEW j \in 0 .. 30, NEW k \in 0 .. 30, j < k
  PROVE  2 * Pow2[j] <= Pow2[k]
<1> DEFINE S == {n \in Nat : j < n /\ n <= 30 => 2 * Pow2[j] <= Pow2[n]}
<1>1. 0 \in S
  OBVIOUS
<1>2. ASSUME NEW n \in Nat, n \in S PROVE n + 1 \in S
  <2> SUFFICES ASSUME j < n + 1, n + 1 <= 30
               PROVE  2 * Pow2[j] <= Pow2[n + 1]
    OBVIOUS
  <2>1. Pow2[n + 1] = 2 * Pow2[n] /\ Pow2[n] \in Nat /\ Pow2[j] \in Nat
    BY Pow2Unfold, Pow2Positive
  <2>2. CASE j = n
    BY <2>1, <2>2
  <2>3. CASE j < n
    BY <1>2, <2>1, <2>3
  <2> QED
    BY <2>2, <2>3
<1>3. Nat \subseteq S
  <2> HIDE DEF S
  <2> QED
    BY <1>1, <1>2, Induction
<1> QED
  BY <1>3

(* HASH_BITS is the largest exponent whose power of two is within the size.*)
LEMMA HashBits ==
  ASSUME NEW n \in Nat \ {0}
  PROVE  /\ HASH_BITS(n) \in 0 .. 30
         /\ Pow2[HASH_BITS(n)] <= n
<1> DEFINE K == {k \in 0 .. 30 : Pow2[k] <= n}
           T == {k \in 1 .. 30 : n < Pow2[k]} \cup {31}
<1>1. PICK j \in T : \A k \in T : j <= k
  <2>1. T \subseteq Nat /\ T # {}
    OBVIOUS
  <2> HIDE DEF T
  <2> QED
    BY <2>1, LeastNatural
<1>2. j \in 1 .. 31
  OBVIOUS
<1>3. \A k \in 0 .. j - 1 : Pow2[k] <= n
  <2> TAKE k \in 0 .. j - 1
  <2>1. k \in 0 .. 30 /\ k \notin T /\ Pow2[k] \in Nat
    BY <1>1, <1>2, Pow2Positive
  <2>2. CASE k = 0
    BY <2>2, Pow2Unfold
  <2>3. CASE k \in 1 .. 30
    BY <2>1, <2>3
  <2> QED
    BY <2>1, <2>2, <2>3
<1>4. K = 0 .. j - 1
  <2>1. ASSUME NEW k \in K PROVE k < j
    <3> SUFFICES ASSUME j <= k PROVE FALSE
      BY <1>2
    <3>1. j \in 1 .. 30 /\ n < Pow2[j] /\ Pow2[j] \in Nat /\ Pow2[k] \in Nat
      BY <1>2, Pow2Positive
    <3>2. CASE j = k
      BY <3>1, <3>2
    <3>3. CASE j < k
      BY <3>1, <3>3, Pow2Grows
    <3> QED
      BY <3>2, <3>3, <1>2
  <2> QED
    BY <1>2, <1>3, <2>1
<1>5. Cardinality(K) = j
  <2>1. Cardinality(0 .. j - 1) = IF 0 > j - 1 THEN 0 ELSE (j - 1) - 0 + 1
    BY <1>2, FS_Interval
  <2>2. Cardinality(0 .. j - 1) = j
    BY <1>2, <2>1
  <2> HIDE DEF K
  <2> QED
    BY <1>4, <2>2
<1>6. HASH_BITS(n) = j - 1
  BY <1>2, <1>5 DEF HASH_BITS, clz
<1> QED
  BY <1>2, <1>3, <1>6

(* The int whose 1 bits are w, built up from its low bits.                 *)
IsValue(u, w) ==
  u = [n \in 0 .. 31 |->
         IF n = 0 THEN 0 ELSE u[n - 1] + IF n - 1 \in w THEN Pow2[n - 1] ELSE 0]

LEMMA ValueUnfold ==
  ASSUME NEW w
  PROVE  \E u \in [0 .. 31 -> Nat] :
           /\ Value(w) = u[31]
           /\ u[0] = 0
           /\ \A n \in 0 .. 30 :
                u[n + 1] = u[n] + IF n \in w THEN Pow2[n] ELSE 0
<1> DEFINE add(n) == IF n - 1 \in w THEN Pow2[n - 1] ELSE 0
           g == [n \in 1 .. 31 |-> [x \in Nat |-> x + add(n)]]
<1>1. \A n \in 1 .. 31 : add(n) \in Nat
  BY Pow2Positive
<1>2. g \in [1 .. 31 -> [Nat -> Nat]]
  BY <1>1
<1>3. PICK v : Solves(v, Nat, 0, 31, g)
  <2> HIDE DEF g
  <2> QED
    BY <1>2, Recursion
<1>4. v \in [0 .. 31 -> Nat] /\ v[0] = 0 /\ \A n \in 1 .. 31 : v[n] = v[n - 1] + add(n)
  <2>1. v \in [0 .. 31 -> Nat] /\ v[0] = 0 /\ \A n \in 1 .. 31 : v[n] = g[n][v[n - 1]]
    <3> HIDE DEF g
    <3> QED
      BY <1>3 DEF Solves
  <2> QED
    BY <2>1
<1>5. v = [n \in 0 .. 31 |-> IF n = 0 THEN 0 ELSE v[n - 1] + add(n)]
  <2> HIDE DEF add
  <2> QED
    BY <1>4
<1>6. IsValue(v, w)
  BY <1>5 DEF IsValue
<1> DEFINE u == CHOOSE u : IsValue(u, w)
<1>7. IsValue(u, w)
  BY <1>6
<1>8. Value(w) = u[31]
  BY DEF Value, IsValue
<1> HIDE DEF u
<1>9. \A n \in 0 .. 31 : u[n] = IF n = 0 THEN 0 ELSE u[n - 1] + add(n)
  BY <1>7 DEF IsValue
<1>10. \A n \in 0 .. 30 : u[n + 1] = u[n] + IF n \in w THEN Pow2[n] ELSE 0
  <2> TAKE n \in 0 .. 30
  <2>1. n + 1 \in 0 .. 31 /\ n + 1 # 0 /\ (n + 1) - 1 = n
    OBVIOUS
  <2> QED
    BY <1>9, <2>1
<1> DEFINE S == {n \in Nat : n <= 31 => u[n] \in Nat}
<1>11. 0 \in S
  BY <1>9
<1>12. ASSUME NEW n \in Nat, n \in S PROVE n + 1 \in S
  BY <1>10, <1>12, Pow2Positive
<1>13. Nat \subseteq S
  <2> HIDE DEF S
  <2> QED
    BY <1>11, <1>12, Induction
<1>14. u \in [0 .. 31 -> Nat]
  <2>1. \A n \in 0 .. 31 : u[n] \in Nat
    BY <1>13
  <2>2. u = [n \in 0 .. 31 |-> u[n]]
    BY <1>7 DEF IsValue
  <2> QED
    BY <2>1, <2>2
<1>15. u[0] = 0
  BY <1>9
<1> QED
  BY <1>8, <1>10, <1>14, <1>15

(* m bits make an int below 2^m.                                           *)
LEMMA ValueBelow ==
  ASSUME NEW m \in 0 .. 30, NEW w \in SUBSET (0 .. m - 1)
  PROVE  Value(w) \in Nat /\ Value(w) < Pow2[m]
<1>1. PICK u \in [0 .. 31 -> Nat] :
        /\ Value(w) = u[31]
        /\ u[0] = 0
        /\ \A n \in 0 .. 30 : u[n + 1] = u[n] + IF n \in w THEN Pow2[n] ELSE 0
  BY ValueUnfold
<1> DEFINE S == {n \in Nat : n <= 31 => /\ n <= m => u[n] < Pow2[n]
                                      /\ u[n] < Pow2[m]}
<1>2. 0 \in S
  BY <1>1, Pow2Positive
<1>3. ASSUME NEW n \in Nat, n \in S PROVE n + 1 \in S
  <2> SUFFICES ASSUME n \in 0 .. 30
               PROVE  /\ n + 1 <= m => u[n + 1] < Pow2[n + 1]
                      /\ u[n + 1] < Pow2[m]
    OBVIOUS
  <2>1. /\ u[n] \in Nat /\ Pow2[n] \in Nat /\ Pow2[m] \in Nat
        /\ u[n + 1] = u[n] + IF n \in w THEN Pow2[n] ELSE 0
        /\ u[n] < Pow2[m] /\ (n <= m => u[n] < Pow2[n])
    BY <1>1, <1>3, Pow2Positive
  <2>2. CASE n < m
    <3>1. 2 * Pow2[n] <= Pow2[m] /\ Pow2[n + 1] = 2 * Pow2[n]
      BY <2>2, Pow2Grows, Pow2Unfold
    <3>2. u[n + 1] < 2 * Pow2[n]
      BY <2>1, <2>2
    <3> QED
      BY <2>1, <3>1, <3>2, <1>1
  <2>3. CASE ~(n < m)
    BY <2>1, <2>3
  <2> QED
    BY <2>2, <2>3
<1>4. Nat \subseteq S
  <2> HIDE DEF S
  <2> QED
    BY <1>2, <1>3, Induction
<1>5. u[31] < Pow2[m]
  BY <1>4
<1> QED
  BY <1>1, <1>5

(* The index is inside the table in every state of the right type.         *)
LEMMA IndexBelowSize == HashTypeOK => IndexInTable
<1> SUFFICES ASSUME HashTypeOK PROVE IndexInTable
  OBVIOUS
<1>1. size \in Nat \ {0}
  BY HashAssumption DEF HashTypeOK
<1> DEFINE m == HASH_BITS(size)
<1>2. m \in 0 .. 30 /\ Pow2[m] <= size /\ Pow2[m] \in Nat
  BY <1>1, HashBits, Pow2Positive
<1>3. index \in SUBSET (0 .. m - 1)
  BY DEF index
<1> HIDE DEF m
<1>4. Value(index) \in Nat /\ Value(index) < Pow2[m]
  BY <1>2, <1>3, ValueBelow
<1> QED
  BY <1>1, <1>2, <1>4 DEF IndexInTable

(* lookup and insert never index outside the table, whatever its size.     *)
THEOREM IndexCorrect == HashSpec => []IndexInTable
BY HashTypeCorrect, IndexBelowSize, PTL

(* Different bits make different ints: the sets of bits of index stand for *)
(* the slots of table one to one.                                          *)
THEOREM ValueInjective ==
  ASSUME NEW m \in 0 .. 30, NEW w \in SUBSET (0 .. m - 1),
         NEW x \in SUBSET (0 .. m - 1), Value(w) = Value(x)
  PROVE  w = x
<1>1. PICK u \in [0 .. 31 -> Nat] :
        /\ Value(w) = u[31]
        /\ u[0] = 0
        /\ \A n \in 0 .. 30 : u[n + 1] = u[n] + IF n \in w THEN Pow2[n] ELSE 0
  BY ValueUnfold
<1>2. PICK v \in [0 .. 31 -> Nat] :
        /\ Value(x) = v[31]
        /\ v[0] = 0
        /\ \A n \in 0 .. 30 : v[n + 1] = v[n] + IF n \in x THEN Pow2[n] ELSE 0
  BY ValueUnfold
<1> DEFINE Below(n) == u[n] < Pow2[n] /\ v[n] < Pow2[n]
           B == {n \in Nat : n <= 30 => Below(n)}
           S == {n \in Nat : n <= 31 /\ u[n] = v[n]
                              => w \cap (0 .. n - 1) = x \cap (0 .. n - 1)}
<1>3. Nat \subseteq B
  <2>1. 0 \in B
    BY <1>1, <1>2, Pow2Unfold
  <2>2. ASSUME NEW n \in Nat, n \in B PROVE n + 1 \in B
    <3> SUFFICES ASSUME n + 1 <= 30 PROVE Below(n + 1)
      OBVIOUS
    <3>1. /\ Below(n) /\ Pow2[n + 1] = 2 * Pow2[n] /\ Pow2[n] \in Nat
          /\ u[n] \in Nat /\ v[n] \in Nat
      BY <2>2, Pow2Unfold, Pow2Positive
    <3> QED
      BY <1>1, <1>2, <3>1
  <2> HIDE DEF B
  <2> QED
    BY <2>1, <2>2, Induction
<1>4. 0 \in S
  OBVIOUS
<1>5. ASSUME NEW n \in Nat, n \in S PROVE n + 1 \in S
  <2> SUFFICES ASSUME n <= 30, u[n + 1] = v[n + 1]
               PROVE  w \cap (0 .. n) = x \cap (0 .. n)
    OBVIOUS
  <2>1. /\ u[n] < Pow2[n] /\ v[n] < Pow2[n] /\ Pow2[n] \in Nat
        /\ u[n] \in Nat /\ v[n] \in Nat
    BY <1>3, Pow2Positive
  <2>2. (n \in w <=> n \in x) /\ u[n] = v[n]
    BY <1>1, <1>2, <2>1
  <2>3. w \cap (0 .. n - 1) = x \cap (0 .. n - 1)
    BY <1>5, <2>2
  <2>4. 0 .. n = (0 .. n - 1) \cup {n}
    OBVIOUS
  <2> QED
    BY <2>2, <2>3, <2>4
<1>6. 31 \in S
  <2>1. Nat \subseteq S
    <3> HIDE DEF S
    <3> QED
      BY <1>4, <1>5, Induction
  <2> QED
    BY <2>1
<1>7. w \cap (0 .. 30) = x \cap (0 .. 30)
  <2>1. u[31] = v[31]
    BY <1>1, <1>2, Zenon
  <2>2. 31 \in Nat /\ 31 <= 31 /\ 31 - 1 = 30
    OBVIOUS
  <2>3. w \cap (0 .. 31 - 1) = x \cap (0 .. 31 - 1)
    BY <1>6, <2>1, <2>2
  <2> QED
    BY <2>2, <2>3
<1>8. w \subseteq 0 .. 30 /\ x \subseteq 0 .. 30
  OBVIOUS
<1> QED
  BY <1>7, <1>8
-----------------------------------------------------------------------------
(* The parity of a symmetric difference.                                   *)
LEMMA OddSymDiff ==
  ASSUME NEW S, NEW T, IsFiniteSet(S), IsFiniteSet(T)
  PROVE  Odd(SymDiff(S, T)) <=> (Odd(S) <=> ~Odd(T))
<1> DEFINE s == Cardinality(S)
           t == Cardinality(T)
           b == Cardinality(S \cap T)
<1>1. /\ IsFiniteSet(S \ T) /\ Cardinality(S \ T) = s - b
      /\ IsFiniteSet(T \ S) /\ Cardinality(T \ S) = t - Cardinality(T \cap S)
  BY FS_Difference
<1>2. T \cap S = S \cap T
  OBVIOUS
<1>3. s \in Nat /\ t \in Nat /\ b \in Nat /\ b <= s /\ b <= t
  BY <1>2, FS_CardinalityType, FS_Intersection
<1>4. SymDiff(S, T) = (S \ T) \cup (T \ S) /\ (S \ T) \cap (T \ S) = {}
  BY DEF SymDiff
<1>5. Cardinality({}) = 0
  BY FS_EmptySet
<1>6. Cardinality((S \ T) \cup (T \ S)) = (s - b) + (t - b)
  <2> DEFINE A == S \ T
             C == T \ S
  <2>1. IsFiniteSet(A) /\ IsFiniteSet(C) /\ Cardinality(A \cap C) = 0
    BY <1>1, <1>4, <1>5
  <2>2. Cardinality(A) = s - b /\ Cardinality(C) = t - b
    BY <1>1, <1>2
  <2> HIDE DEF A, C, s, t, b
  <2>3. Cardinality(A \cup C) = Cardinality(A) + Cardinality(C) - Cardinality(A \cap C)
    BY <2>1, FS_Union
  <2>4. Cardinality(A \cup C) = (s - b) + (t - b)
    BY <1>3, <2>1, <2>2, <2>3
  <2> QED
    BY <2>4 DEF A, C
<1>7. Cardinality(SymDiff(S, T)) = s + t - 2 * b
  BY <1>3, <1>4, <1>6
<1> HIDE DEF s, t, b
<1>8. (s + t - 2 * b) % 2 = 1 <=> (s % 2 = 1 <=> ~(t % 2 = 1))
  BY <1>3
<1> QED
  BY <1>7, <1>8 DEF Odd, s, t

(* The hash is linear: hashing the XOR of two addresses is the XOR of      *)
(* their hashes, whatever the key compute_hash is built with.              *)
THEOREM ToeplitzLinear ==
  ASSUME NEW v, NEW w, IsFiniteSet(v), IsFiniteSet(w)
  PROVE  Toeplitz(SymDiff(v, w)) = SymDiff(Toeplitz(v), Toeplitz(w))
<1> SUFFICES ASSUME NEW k \in Word
             PROVE  Odd(Hits(SymDiff(v, w), k))
                      <=> (Odd(Hits(v, k)) <=> ~Odd(Hits(w, k)))
  BY DEF Toeplitz, SymDiff
<1>1. IsFiniteSet(Hits(v, k)) /\ IsFiniteSet(Hits(w, k))
  BY FS_Subset DEF Hits
<1>2. Hits(SymDiff(v, w), k) = SymDiff(Hits(v, k), Hits(w, k))
  BY DEF Hits, SymDiff
<1> QED
  BY <1>1, <1>2, OddSymDiff

(* Two addresses share a slot of a table exactly if their difference hashes*)
(* to slot 0: which rules collide depends on nothing but their XOR.        *)
THEOREM SameSlotByDifference ==
  ASSUME NEW v, NEW w, IsFiniteSet(v), IsFiniteSet(w), NEW n
  PROVE  LET slot(a) == Toeplitz(a) \cap (0 .. HASH_BITS(n) - 1)
         IN  slot(v) = slot(w) <=> slot(SymDiff(v, w)) = {}
BY ToeplitzLinear DEF SymDiff
=============================================================================
