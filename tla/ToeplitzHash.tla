---------------------------- MODULE ToeplitzHash ----------------------------
(***************************************************************************)
(* compute_hash of hardware/src/hls/hash.cc and the index derived from it: *)
(* the two unrolled loops that XOR, for every set bit of the address and   *)
(* of the port, a 32-bit window of the key into the hash.  A word is the   *)
(* set of its 1 bits, so XOR is the symmetric difference.                  *)
(***************************************************************************)
EXTENDS Integers, Sequences, FiniteSets, FiniteSetsExt

CONSTANTS
  IpBits, PortBits,  \* 32 and 16: widths of ip and port
  HashWidth,         \* 32: width of the hash and of a key window
  KeyBits,           \* 320: width of toeplitz_key
  toeplitz_key,      \* the 1 bits of the key
  Inputs,            \* addresses hashed: [ip, port] as sets of bits
  TableSizes         \* values of HASH_TABLE_SIZE considered

Ip   == 0 .. IpBits - 1
Port == 0 .. PortBits - 1
Word == 0 .. HashWidth - 1

ASSUME HashAssumption ==
  /\ IpBits \in Nat \ {0}
  /\ PortBits \in Nat \ {0}
  /\ HashWidth \in Nat \ {0}
  /\ KeyBits \in Nat
  /\ IpBits + PortBits + HashWidth - 1 <= KeyBits
  /\ toeplitz_key \subseteq 0 .. KeyBits - 1
  /\ Inputs \subseteq [ip : SUBSET Ip, port : SUBSET Port]
  /\ TableSizes \subseteq Nat \ {0}

VARIABLES
  ip, port,  \* the arguments of compute_hash
  hash,      \* its local
  loop, i,   \* which of the two loops runs, and its counter
  size       \* HASH_TABLE_SIZE of this build

hvars == <<ip, port, hash, loop, i, size>>
-----------------------------------------------------------------------------
(* The constructor's ten words, low word first, as 16-bit halves.          *)
KeyHalves ==
  << 5143, 55011, 51326, 14188, 42918, 283, 37307, 56347, 57892, 30834,
     16459, 49104, 29880, 9731, 3951, 55591, 17286, 6364, 14302, 31900 >>

ConstructorKey ==
  {k \in 0 .. 319 : (KeyHalves[(k \div 16) + 1] \div 2 ^ (k % 16)) % 2 = 1}

get_window_shifted(bit, offset) ==
  IF bit THEN {k \in Word : k + offset + 1 \in toeplitz_key} ELSE {}

get_window_too_wide(bit, offset) ==
  IF bit THEN {k \in 0 .. HashWidth : k + offset \in toeplitz_key} ELSE {}

\* toeplitz_key.range(offset + 31, offset), or 0 for a 0 bit.
get_window(bit, offset) ==
  IF bit THEN {k \in Word : k + offset \in toeplitz_key} ELSE {}

\* The value of bit k of a positive int.
Pow2[k \in 0 .. 30] == IF k = 0 THEN 1 ELSE 2 * Pow2[k - 1]

\* __builtin_clz of a positive 32-bit int.
clz(n) == 32 - Cardinality({k \in 0 .. 30 : Pow2[k] <= n})

HASH_BITS_rounded_up(n) == 32 - clz(n)

HASH_BITS(n) == 32 - 1 - clz(n)

\* hash & HASH_MASK: the low HASH_BITS bits.
index == hash \cap (0 .. HASH_BITS(size) - 1)

HashInit ==
  /\ \E a \in Inputs : ip = a.ip /\ port = a.port
  /\ hash = {}
  /\ loop = "ip"
  /\ i = 0
  /\ size \in TableSizes

IpBit ==
  /\ loop = "ip"
  /\ i < IpBits
  /\ hash' = SymDiff(hash, get_window(i \in ip, i))
  /\ i' = i + 1
  /\ UNCHANGED <<ip, port, loop, size>>

IpDone ==
  /\ loop = "ip"
  /\ i = IpBits
  /\ loop' = "port"
  /\ i' = 0
  /\ UNCHANGED <<ip, port, hash, size>>

PortBit_restarts_window ==
  /\ loop = "port"
  /\ i < PortBits
  /\ hash' = SymDiff(hash, get_window(i \in port, i))
  /\ i' = i + 1
  /\ UNCHANGED <<ip, port, loop, size>>

PortBit ==
  /\ loop = "port"
  /\ i < PortBits
  /\ hash' = SymDiff(hash, get_window(i \in port, i + IpBits))
  /\ i' = i + 1
  /\ UNCHANGED <<ip, port, loop, size>>

PortDone ==
  /\ loop = "port"
  /\ i = PortBits
  /\ loop' = "done"
  /\ UNCHANGED <<ip, port, hash, i, size>>

HashNext == IpBit \/ IpDone \/ PortBit \/ PortDone

HashSpec == HashInit /\ [][HashNext]_hvars
-----------------------------------------------------------------------------
(* The reference: address and port are one (IpBits + PortBits)-bit vector; *)
(* bit k of the hash is the parity of the vector's 1 bits j whose key bit  *)
(* j + k is 1, a product with a matrix constant along its diagonals.       *)
Vector(a, p) == a \cup {IpBits + j : j \in p}

Hits(v, k) == {j \in v : j + k \in toeplitz_key}
Odd(S)     == Cardinality(S) % 2 = 1

Toeplitz(v) == {k \in Word : Odd(Hits(v, k))}

(* Types of the locals; in particular every window lies inside the key.    *)
HashTypeOK ==
  /\ ip \in SUBSET Ip
  /\ port \in SUBSET Port
  /\ hash \in SUBSET Word
  /\ loop \in {"ip", "port", "done"}
  /\ i \in Nat
  /\ loop = "ip" => i <= IpBits
  /\ loop = "port" => i <= PortBits
  /\ size \in TableSizes

(* At every iteration the hash is that of the bits already visited.        *)
Visited ==
  CASE loop = "ip"   -> ip \cap (0 .. i - 1)
    [] loop = "port" -> Vector(ip, port \cap (0 .. i - 1))
    [] loop = "done" -> Vector(ip, port)

LoopInvariant == hash = Toeplitz(Visited)

(* compute_hash returns the Toeplitz product of the whole address.         *)
HashCorrect == loop = "done" => hash = Toeplitz(Vector(ip, port))

\* The int whose 1 bits are w.
Value(w) ==
  LET below[n \in 0 .. 31] ==
        IF n = 0 THEN 0
        ELSE below[n - 1] + IF n - 1 \in w THEN Pow2[n - 1] ELSE 0
  IN  below[31]

(* The index stays inside the table, also for a size that is no power of   *)
(* two.                                                                    *)
IndexInTable == Value(index) < size
=============================================================================
