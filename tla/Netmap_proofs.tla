--------------------------- MODULE Netmap_proofs ---------------------------
(***************************************************************************)
(* Proofs about Netmap for addresses of every width, every reserved range  *)
(* and every list of networks: what is mapped is apart, and networks that  *)
(* fit are mapped.                                                         *)
(***************************************************************************)
EXTENDS Netmap, FiniteSetTheorems, WellFoundedInduction, NaturalsInduction, TLAPS

-----------------------------------------------------------------------------
\* Arithmetic.  A power of two is the number of subsets.

LEMMA PowerType ==
    ASSUME NEW n \in Nat
    PROVE  2^n \in Nat /\ 2^n > 0
<1>1. IsFiniteSet(1 .. n) /\ Cardinality(1 .. n) = n
  BY FS_Interval
<1>2. IsFiniteSet(SUBSET (1 .. n)) /\ Cardinality(SUBSET (1 .. n)) = 2^n
  BY <1>1, FS_SUBSET
<1>3. {} \in SUBSET (1 .. n)
  OBVIOUS
<1>4. 2^n \in Nat /\ 2^n # 0
  BY <1>2, <1>3, FS_CardinalityType, FS_EmptySet
<1> QED
  BY <1>4

LEMMA PowerSucc ==
    ASSUME NEW n \in Nat
    PROVE  2^(n + 1) = 2^n + 2^n
<1> DEFINE Old == SUBSET (1 .. n)
           New == {s \in SUBSET (1 .. n + 1) : n + 1 \in s}
           f == [s \in Old |-> s \cup {n + 1}]
<1>1. IsFiniteSet(1 .. n) /\ Cardinality(1 .. n) = n
  BY FS_Interval
<1>2. IsFiniteSet(1 .. n + 1) /\ Cardinality(1 .. n + 1) = n + 1
  BY FS_Interval
<1>3. IsFiniteSet(Old) /\ Cardinality(Old) = 2^n
  BY <1>1, FS_SUBSET
<1>4. Cardinality(SUBSET (1 .. n + 1)) = 2^(n + 1)
  BY <1>2, FS_SUBSET
<1>5. n + 1 \notin 1 .. n /\ \A x \in 1 .. n + 1 : x \in 1 .. n \/ x = n + 1
  OBVIOUS
<1>6. f \in Bijection(Old, New)
  <2>1. f \in [Old -> New]
    <3>1. \A s \in Old : s \cup {n + 1} \in New
      BY n + 1 \in 1 .. n + 1, \A x \in 1 .. n : x \in 1 .. n + 1
    <3> QED
      BY <3>1
  <2>2. \A s, t \in Old : s # t => f[s] # f[t]
    BY <1>5
  <2>3. \A t \in New : \E s \in Old : f[s] = t
    <3> SUFFICES ASSUME NEW t \in New PROVE \E s \in Old : f[s] = t
      OBVIOUS
    <3>1. t \ {n + 1} \in Old
      BY <1>5
    <3>2. f[t \ {n + 1}] = t
      BY <3>1
    <3> QED
      BY <3>1, <3>2
  <2> HIDE DEF Old, New, f
  <2> QED
    BY <2>1, <2>2, <2>3 DEF Bijection, Injection, Surjection, IsInjective
<1>7. IsFiniteSet(New) /\ Cardinality(New) = 2^n
  <2>1. ExistsBijection(Old, New)
    BY <1>6 DEF ExistsBijection
  <2> HIDE DEF Old, New, f
  <2> QED
    BY <1>3, <2>1, FS_Bijection
<1>8. Old \cup New = SUBSET (1 .. n + 1) /\ Old \cap New = {}
  <2>1. Old \cap New = {}
    BY <1>5
  <2>2. Old \subseteq SUBSET (1 .. n + 1)
    BY \A x \in 1 .. n : x \in 1 .. n + 1
  <2>3. \A s \in SUBSET (1 .. n + 1) : n + 1 \notin s => s \in Old
    BY <1>5
  <2> QED
    BY <2>1, <2>2, <2>3
<1> HIDE DEF Old, New
<1>9. Cardinality(Old \cup New) = 2^n + 2^n
  <2>1. Cardinality(Old \cup New) =
           Cardinality(Old) + Cardinality(New) - Cardinality(Old \cap New)
    BY <1>3, <1>7, FS_Union
  <2>2. Cardinality(Old \cap New) = 0
    BY <1>8, FS_EmptySet
  <2> QED
    BY <1>3, <1>7, <2>1, <2>2, PowerType
<1> QED
  BY <1>4, <1>8, <1>9

\* Induction, without an operator as parameter.
LEMMA LeastNumber ==
    ASSUME NEW T, T \subseteq Nat, T # {}
    PROVE  \E x \in T : \A y \in T : x <= y
<1>1. PICK x \in T : \A y \in T : ~(<<y, x>> \in OpToRel(<, Nat))
  BY NatLessThanWellFounded, WFMin, Zenon
<1>2. \A y \in T : ~(y < x)
  BY <1>1 DEF OpToRel
<1> QED
  BY <1>2

LEMMA PowerSum ==
    ASSUME NEW a \in Nat, NEW b \in Nat
    PROVE  2^(a + b) = 2^a * 2^b
<1> DEFINE T == {c \in Nat : 2^(a + c) # 2^a * 2^c}
<1> SUFFICES T = {}
  OBVIOUS
<1> SUFFICES ASSUME T # {} PROVE FALSE
  OBVIOUS
<1>1. PICK c \in T : \A y \in T : c <= y
  BY LeastNumber
<1>2. c # 0
  <2>1. 2^a * 2^0 = 2^a /\ a + 0 = a
    BY PowerType
  <2> QED
    BY <1>1, <2>1
<1> DEFINE d == c - 1
<1>3. d \in Nat /\ d \notin T /\ c = d + 1
  BY <1>1, <1>2
<1>4. 2^(a + d) = 2^a * 2^d
  BY <1>3
<1>5. 2^(a + c) = 2^(a + d) + 2^(a + d)
  BY <1>3, PowerSucc, (a + d) + 1 = a + c
<1>6. 2^c = 2^d + 2^d
  BY <1>3, PowerSucc
<1>7. 2^a * (2^d + 2^d) = 2^a * 2^d + 2^a * 2^d
  BY <1>3, PowerType
<1> QED
  BY <1>1, <1>4, <1>5, <1>6, <1>7

LEMMA PowerMonotone ==
    ASSUME NEW a \in Nat, NEW b \in Nat, a < b
    PROVE  2^a < 2^b
<1> DEFINE T == {c \in Nat : ~ (2^a < 2^(a + c + 1))}
<1>1. T = {}
  <2> SUFFICES ASSUME T # {} PROVE FALSE
    OBVIOUS
  <2>1. PICK c \in T : \A y \in T : c <= y
    BY LeastNumber
  <2>2. 2^(a + c + 1) = 2^(a + c) + 2^(a + c) /\ 2^(a + c) \in Nat /\ 2^(a + c) > 0
    BY <2>1, PowerSucc, PowerType
  <2>3. c = 0 => FALSE
    BY <2>1, <2>2, PowerType
  <2>4. c - 1 \in Nat /\ c - 1 \notin T
    BY <2>1, <2>3
  <2>5. 2^a < 2^(a + c)
    BY <2>1, <2>4, a + (c - 1) + 1 = a + c
  <2> QED
    BY <2>1, <2>2, <2>5, PowerType
<1>2. b - a - 1 \in Nat /\ a + (b - a - 1) + 1 = b
  OBVIOUS
<1> QED
  BY <1>1, <1>2

LEMMA DivMod ==
    ASSUME NEW b \in Nat \ {0}, NEW n \in Nat
    PROVE  /\ n = b * (n \div b) + (n % b)
           /\ n % b \in 0 .. b - 1
           /\ n \div b \in Nat
  OBVIOUS

LEMMA Monotone ==
    ASSUME NEW b \in Nat, NEW x \in Nat, NEW y \in Nat, x <= y
    PROVE  b * x <= b * y /\ b * x \in Nat /\ b * y \in Nat
  OBVIOUS

LEMMA Multiple ==
    ASSUME NEW b \in Nat \ {0}, NEW q \in Nat
    PROVE  (b * q) % b = 0 /\ b * q \in Nat
<1> DEFINE n == b * q
           p == n \div b
           r == n % b
<1>0. n \in Nat
  OBVIOUS
<1>1. n = b * p + r /\ r \in 0 .. b - 1 /\ p \in Nat
  BY <1>0, DivMod
<1> HIDE DEF p, r
<1>2. CASE q <= p
  <2>1. b * q <= b * p
    BY <1>1, <1>2, Monotone
  <2> QED
    BY <1>0, <1>1, <2>1 DEF r
<1>3. CASE p + 1 <= q
  <2>1. b * (p + 1) <= b * q /\ b * (p + 1) = b * p + b
    BY <1>1, <1>3, Monotone
  <2> QED
    BY <1>0, <1>1, <2>1 DEF r
<1> QED
  BY <1>1, <1>2, <1>3

\* An address is in the block of size b that begins at a multiple of b.
LEMMA InBlock ==
    ASSUME NEW b \in Nat \ {0}, NEW a \in Nat, a % b = 0, NEW ip \in Nat
    PROVE  ip \div b = a \div b <=> a <= ip /\ ip < a + b
<1> DEFINE q == a \div b
           p == ip \div b
           r == ip % b
<1>1. a = b * q /\ q \in Nat
  BY DivMod
<1>2. ip = b * p + r /\ r \in 0 .. b - 1 /\ p \in Nat
  BY DivMod
<1> HIDE DEF p, q, r
<1>3. b * p \in Nat /\ b * q \in Nat
  BY <1>1, <1>2
<1>4. CASE p = q
  BY <1>1, <1>2, <1>3, <1>4 DEF p, q
<1>5. CASE p + 1 <= q
  <2>1. b * (p + 1) <= b * q /\ b * (p + 1) = b * p + b
    BY <1>1, <1>2, <1>5, Monotone
  <2>2. ip < a /\ p # q
    BY <1>1, <1>2, <1>3, <1>5, <2>1
  <2> QED
    BY <2>2 DEF p, q
<1>6. CASE q + 1 <= p
  <2>1. b * (q + 1) <= b * p /\ b * (q + 1) = b * q + b
    BY <1>1, <1>2, <1>6, Monotone
  <2>2. a + b <= ip /\ p # q
    BY <1>1, <1>2, <1>3, <1>6, <2>1
  <2>3. ~ (ip < a + b)
    BY <2>2
  <2> QED
    BY <2>2, <2>3 DEF p, q
<1> QED
  BY <1>1, <1>2, <1>4, <1>5, <1>6

-----------------------------------------------------------------------------
\* Networks as intervals.

Apart(x, sx, y, sy) == x + sx <= y \/ y + sy <= x

LEMMA Sizes ==
    ASSUME NEW n, n.prefix \in 0 .. W
    PROVE  Size(n) \in Nat \ {0}
<1>1. W - n.prefix \in Nat
  BY WidthAssumption
<1> QED
  BY <1>1, PowerType DEF Size

LEMMA NetType ==
    ASSUME NEW n \in IPNets
    PROVE  /\ n.base \in Nat /\ n.prefix \in 0 .. W /\ n.base < 2^W
           /\ Size(n) \in Nat \ {0} /\ n.base % Size(n) = 0
<1>1. n.base \in 0 .. 2^W - 1 /\ n.prefix \in 0 .. W /\ n.base % Size(n) = 0
  BY DEF IPNets, Size
<1>2. Size(n) \in Nat \ {0}
  BY <1>1, Sizes
<1>3. 2^W \in Nat
  BY PowerType, WidthAssumption
<1> QED
  BY <1>1, <1>2, <1>3

LEMMA ContainsIff ==
    ASSUME NEW n \in IPNets, NEW ip \in Nat
    PROVE  Contains(n, ip) <=> n.base <= ip /\ ip < n.base + Size(n)
  BY NetType, InBlock DEF Contains

LEMMA DisjointIff ==
    ASSUME NEW a \in IPNets, NEW b \in IPNets
    PROVE  Disjoint(a, b) <=> Apart(a.base, Size(a), b.base, Size(b))
<1>1. /\ a.base \in Nat /\ b.base \in Nat
      /\ Size(a) \in Nat \ {0} /\ Size(b) \in Nat \ {0}
  BY NetType
<1>2. Contains(a, b.base) <=> a.base <= b.base /\ b.base < a.base + Size(a)
  BY <1>1, ContainsIff
<1>3. Contains(b, a.base) <=> b.base <= a.base /\ a.base < b.base + Size(b)
  BY <1>1, ContainsIff
<1> QED
  BY <1>1, <1>2, <1>3 DEF Disjoint, Overlap, Apart

\* The reserved range is a network and ends with the last address.
LEMMA DstType ==
    /\ dstCIDR \in IPNets
    /\ dstCIDR.base + Size(dstCIDR) = 2^W
    /\ Size(dstCIDR) = 2^(W - DstPrefix)
<1> DEFINE u == 2^(W - DstPrefix)
           v == 2^DstPrefix
<1>0. DstPrefix \in Nat /\ W - DstPrefix \in Nat /\ DstPrefix \in 0 .. W
      /\ DstPrefix + (W - DstPrefix) = W
  BY NetmapAssumption, WidthAssumption
<1>1. u \in Nat \ {0} /\ v \in Nat \ {0}
  BY <1>0, PowerType
<1>2. 2^W = v * u
  BY <1>0, PowerSum
<1>3. dstCIDR.base = 2^W - u /\ dstCIDR.prefix = DstPrefix /\ Size(dstCIDR) = u
  BY DEF dstCIDR, Size
<1> HIDE DEF u, v
<1>4. v - 1 \in Nat /\ v * u - u = u * (v - 1)
  BY <1>1
<1>5. (u * (v - 1)) % u = 0 /\ u * (v - 1) \in Nat
  BY <1>1, <1>4, Multiple
<1>6. 2^W \in Nat /\ 2^W - u \in 0 .. 2^W - 1 /\ (2^W - u) % u = 0
  BY <1>1, <1>2, <1>4, <1>5
<1>7. dstCIDR \in [base : 0 .. 2^W - 1, prefix : 0 .. W]
  BY <1>0, <1>6 DEF dstCIDR, u
<1>8. dstCIDR \in IPNets
  BY <1>3, <1>6, <1>7 DEF IPNets, u
<1> QED
  BY <1>1, <1>3, <1>6, <1>8 DEF u

\* A network ends within the address space.
LEMMA NetEnd ==
    ASSUME NEW n \in IPNets
    PROVE  n.base + Size(n) <= 2^W
<1> DEFINE q == n.base \div Size(n)
           u == Size(n)
           v == 2^n.prefix
<1>0. /\ n.base \in Nat /\ n.prefix \in 0 .. W /\ n.base < 2^W
      /\ u \in Nat \ {0} /\ n.base % u = 0
  BY NetType
<1>1. n.base = u * q + 0 /\ q \in Nat
  BY <1>0, DivMod
<1>2. n.prefix \in Nat /\ W - n.prefix \in Nat /\ (W - n.prefix) + n.prefix = W
  BY <1>0, WidthAssumption
<1>3. v \in Nat /\ 2^W = u * v
  BY <1>2, PowerType, PowerSum DEF Size
<1> HIDE DEF q, u, v
<1>4. q < v
  <2> SUFFICES ASSUME v <= q PROVE FALSE
    BY <1>1, <1>3
  <2>1. u * v <= u * q /\ u * v \in Nat /\ u * q \in Nat
    BY <1>0, <1>1, <1>3, Monotone
  <2> QED
    BY <1>0, <1>1, <1>3, <2>1
<1>5. u * (q + 1) <= u * v /\ u * (q + 1) = u * q + u /\ u * q \in Nat
  BY <1>0, <1>1, <1>3, <1>4, Monotone
<1> QED
  BY <1>0, <1>1, <1>3, <1>5 DEF u

-----------------------------------------------------------------------------
\* What subnetSplit makes of free blocks.

\* The blocks of a size in free are aligned, in the reserved range and apart.
Blocks(dst, free, size) ==
    /\ free \in Seq(Nat)
    /\ \A x \in DOMAIN free :
          /\ \E q \in Nat : free[x] = size * q
          /\ dst.base <= free[x] /\ free[x] + size <= dst.base + Size(dst)
    /\ \A x, y \in DOMAIN free : x # y => Apart(free[x], size, free[y], size)

LEMMA Slots ==
    ASSUME NEW k \in Nat \ {0}, NEW t \in Nat \ {0},
           NEW r \in 0 .. k - 1, NEW u \in 0 .. k - 1
    PROVE  /\ r * t \in Nat /\ r * t + t <= k * t
           /\ r # u => Apart(r * t, t, u * t, t)
<1>1. ASSUME NEW x \in Nat, NEW y \in Nat, x + 1 <= y
      PROVE  x * t + t <= y * t
  <2>1. t * (x + 1) <= t * y /\ t * (x + 1) = x * t + t /\ t * y = y * t
    BY <1>1, Monotone
  <2> QED
    BY <2>1
<1>2. r * t + t <= k * t /\ r * t \in Nat /\ u * t \in Nat
  BY <1>1
<1>3. r + 1 <= u => r * t + t <= u * t
  BY <1>1
<1>4. u + 1 <= r => u * t + t <= r * t
  BY <1>1
<1> QED
  BY <1>2, <1>3, <1>4 DEF Apart

LEMMA Positions ==
    ASSUME NEW k \in Nat \ {0}, NEW n \in Nat, NEW x \in 1 .. n * k
    PROVE  /\ ((x - 1) \div k) + 1 \in 1 .. n
           /\ (x - 1) % k \in 0 .. k - 1
           /\ x - 1 = k * ((x - 1) \div k) + ((x - 1) % k)
<1> DEFINE q == (x - 1) \div k
           r == (x - 1) % k
<1>0. x - 1 \in Nat /\ n * k \in Nat /\ x - 1 < n * k
  OBVIOUS
<1>1. x - 1 = k * q + r /\ r \in 0 .. k - 1 /\ q \in Nat
  BY <1>0, DivMod
<1> HIDE DEF q, r
<1>2. q < n
  <2> SUFFICES ASSUME n <= q PROVE FALSE
    BY <1>1
  <2>1. k * n <= k * q /\ k * n = n * k /\ k * q \in Nat
    BY <1>1, Monotone
  <2> QED
    BY <1>0, <1>1, <2>1
<1>3. q + 1 \in 1 .. n
  BY <1>1, <1>2
<1> QED
  BY <1>1, <1>3 DEF q, r

\* The powers of two in a split.
LEMMA SplitSizes ==
    ASSUME NEW from \in 1 .. W, NEW prefix \in from .. W
    PROVE  /\ 2^(prefix - from) % 2^W = 2^(prefix - from)
           /\ 2^(prefix - from) \in Nat \ {0}
           /\ 2^(W - prefix) \in Nat \ {0}
           /\ 2^(W - from) = 2^(prefix - from) * 2^(W - prefix)
<1>0. /\ prefix - from \in Nat /\ W - prefix \in Nat /\ W \in Nat /\ prefix - from < W
      /\ (prefix - from) + (W - prefix) = W - from
  BY WidthAssumption
<1>1. 2^(prefix - from) \in Nat \ {0} /\ 2^(W - prefix) \in Nat \ {0}
      /\ 2^W \in Nat \ {0}
  BY <1>0, PowerType
<1>2. 2^(prefix - from) < 2^W
  BY <1>0, PowerMonotone
<1>3. \A a, b \in Nat : a < b => a % b = a
  OBVIOUS
<1>4. 2^(prefix - from) % 2^W = 2^(prefix - from)
  BY <1>1, <1>2, <1>3
<1>5. 2^(W - from) = 2^(prefix - from) * 2^(W - prefix)
  BY <1>0, PowerSum
<1> QED
  BY <1>1, <1>4, <1>5

\* Splitting keeps the addresses: the subnets are blocks, as many as the free
\* ones hold, each inside one of them.
LEMMA Split ==
    ASSUME NEW from \in 1 .. W, NEW prefix \in from .. W, NEW dst \in IPNets,
           NEW free, Blocks(dst, free, 2^(W - from))
    PROVE  LET c == subnetSplit(free, from, prefix)
           IN  /\ Blocks(dst, c, 2^(W - prefix))
               /\ Len(c) = Len(free) * 2^(prefix - from)
               /\ \A x \in DOMAIN c : \E y \in DOMAIN free :
                     free[y] <= c[x] /\
                     c[x] + 2^(W - prefix) <= free[y] + 2^(W - from)
<1> DEFINE c == subnetSplit(free, from, prefix)
           k == 2^(prefix - from)
           t == 2^(W - prefix)
           size == 2^(W - from)
           n == Len(free)
           Q(x) == ((x - 1) \div k) + 1
           R(x) == (x - 1) % k
<1>1. /\ k \in Nat \ {0} /\ t \in Nat \ {0} /\ size = k * t
      /\ 2^(prefix - from) % 2^W = k
  BY SplitSizes
<1>2. /\ free \in Seq(Nat) /\ n \in Nat /\ DOMAIN free = 1 .. n
      /\ \A x \in 1 .. n : free[x] \in Nat
  BY DEF Blocks
<1>3. c = [x \in 1 .. n * k |-> free[Q(x)] + R(x) * t]
  BY <1>1 DEF subnetSplit
<1>4. \A x \in 1 .. n * k : /\ Q(x) \in 1 .. n /\ R(x) \in 0 .. k - 1
                            /\ x - 1 = k * (Q(x) - 1) + R(x)
  <2> SUFFICES ASSUME NEW x \in 1 .. n * k
               PROVE  /\ Q(x) \in 1 .. n /\ R(x) \in 0 .. k - 1
                      /\ x - 1 = k * (Q(x) - 1) + R(x)
    OBVIOUS
  <2> HIDE DEF k, n
  <2>1. /\ ((x - 1) \div k) + 1 \in 1 .. n /\ (x - 1) % k \in 0 .. k - 1
        /\ x - 1 = k * ((x - 1) \div k) + ((x - 1) % k)
    BY <1>1, <1>2, Positions
  <2>2. (x - 1) \div k \in Int /\ ((x - 1) \div k) + 1 - 1 = (x - 1) \div k
    BY <1>1, <1>2
  <2> QED
    BY <2>1, <2>2
<1>5. /\ \A x \in DOMAIN free : /\ \E q \in Nat : free[x] = size * q
                                /\ dst.base <= free[x] /\ free[x] + size <= dst.base + Size(dst)
      /\ \A x, y \in DOMAIN free : x # y => Apart(free[x], size, free[y], size)
  BY DEF Blocks
<1>6. Size(dst) \in Nat /\ dst.base \in Nat
  BY NetType
<1> HIDE DEF c, k, t, size, n, Q, R
<1>7. n * k \in Nat /\ DOMAIN c = 1 .. n * k
  BY <1>1, <1>2, <1>3
<1>8. ASSUME NEW x \in 1 .. n * k
      PROVE  /\ c[x] = free[Q(x)] + R(x) * t /\ c[x] \in Nat
             /\ free[Q(x)] <= c[x] /\ c[x] + t <= free[Q(x)] + size
             /\ R(x) * t \in Nat /\ free[Q(x)] \in Nat
  <2>1. c[x] = free[Q(x)] + R(x) * t
    BY <1>3
  <2>2. R(x) * t \in Nat /\ R(x) * t + t <= k * t
    BY <1>1, <1>4, Slots
  <2>3. free[Q(x)] \in Nat
    BY <1>2, <1>4
  <2>4. k * t \in Nat
    BY <1>1
  <2> QED
    BY <1>1, <2>1, <2>2, <2>3, <2>4
<1>9. ASSUME NEW x \in 1 .. n * k
      PROVE  \E q \in Nat : c[x] = t * q
  <2>1. PICK q \in Nat : free[Q(x)] = size * q
    BY <1>2, <1>4, <1>5
  <2>2. R(x) \in Nat
    BY <1>1, <1>4
  <2>3. c[x] = t * (k * q + R(x)) /\ k * q + R(x) \in Nat
    BY <1>1, <1>8, <2>1, <2>2
  <2> QED
    BY <2>3
<1>10. ASSUME NEW x \in 1 .. n * k, NEW y \in 1 .. n * k, x # y
       PROVE  Apart(c[x], t, c[y], t)
  <2>0. Q(x) \in 1 .. n /\ Q(y) \in 1 .. n /\ R(x) \in 0 .. k - 1 /\ R(y) \in 0 .. k - 1
    BY <1>4
  <2>1. CASE Q(x) = Q(y)
    <3>1. R(x) # R(y)
      BY <1>4, <1>10, <2>1
    <3>2. Apart(R(x) * t, t, R(y) * t, t)
      BY <1>1, <2>0, <3>1, Slots
    <3>3. /\ c[x] = free[Q(x)] + R(x) * t /\ c[y] = free[Q(x)] + R(y) * t
          /\ R(x) * t \in Nat /\ R(y) * t \in Nat /\ free[Q(x)] \in Nat
      BY <1>8, <2>1
    <3> QED
      BY <1>1, <3>2, <3>3 DEF Apart
  <2>2. CASE Q(x) # Q(y)
    <3>1. Apart(free[Q(x)], size, free[Q(y)], size)
      BY <1>2, <1>5, <2>0, <2>2
    <3>2. /\ free[Q(x)] <= c[x] /\ c[x] + t <= free[Q(x)] + size
          /\ free[Q(y)] <= c[y] /\ c[y] + t <= free[Q(y)] + size
          /\ c[x] \in Nat /\ c[y] \in Nat /\ free[Q(x)] \in Nat /\ free[Q(y)] \in Nat
      BY <1>8
    <3>3. size \in Nat
      BY <1>1
    <3> QED
      BY <1>1, <3>1, <3>2, <3>3 DEF Apart
  <2> QED
    BY <2>1, <2>2
<1>11. c \in Seq(Nat) /\ Len(c) = n * k
  BY <1>3, <1>7, <1>8, SMTT(30)
<1>12. \A x \in DOMAIN c : \E y \in DOMAIN free :
          free[y] <= c[x] /\ c[x] + t <= free[y] + size
  BY <1>2, <1>4, <1>7, <1>8
<1>13. Blocks(dst, c, t)
  <2>1. \A x \in DOMAIN c : dst.base <= c[x] /\ c[x] + t <= dst.base + Size(dst)
    <3> SUFFICES ASSUME NEW x \in DOMAIN c
                 PROVE  dst.base <= c[x] /\ c[x] + t <= dst.base + Size(dst)
      OBVIOUS
    <3>1. PICK y \in DOMAIN free : free[y] <= c[x] /\ c[x] + t <= free[y] + size
      BY <1>12
    <3>2. dst.base <= free[y] /\ free[y] + size <= dst.base + Size(dst)
      BY <1>5
    <3>3. free[y] \in Nat /\ c[x] \in Nat /\ size \in Nat
      BY <1>1, <1>2, <1>7, <1>8
    <3> QED
      BY <1>1, <1>6, <3>1, <3>2, <3>3
  <2> QED
    BY <1>7, <1>9, <1>10, <1>11, <2>1 DEF Blocks
<1> QED
  BY <1>11, <1>12, <1>13 DEF c, t, size, n, k

-----------------------------------------------------------------------------
\* ByPrefix is a sorted list of the same networks: the rank of a network is
\* the number of those before it, and every rank is taken.

LEMMA Sorted ==
    ASSUME NEW list, NEW len \in Nat, DOMAIN list = 1 .. len
    PROVE  LET s == ByPrefix(list)
               n == Cardinality(IPv4s(list))
           IN  /\ n \in Nat /\ n <= len /\ s \in [1 .. n -> IPNets]
               /\ \A x, y \in 1 .. n : x < y => s[x].prefix <= s[y].prefix
               /\ \A k \in 1 .. n : \E i \in IPv4s(list) : s[k] = list[i]
               /\ \A i \in IPv4s(list) : \E k \in 1 .. n : s[k] = list[i]
<1> DEFINE I == IPv4s(list)
           n == Cardinality(I)
           Before(i) == {j \in I :
                            \/ list[j].prefix < list[i].prefix
                            \/ list[j].prefix = list[i].prefix /\ j < i}
           rank == [i \in I |-> Cardinality(Before(i))]
           At(k) == CHOOSE i \in I : Cardinality(Before(i)) = k - 1
<1>1. \A i \in I : i \in Nat /\ list[i] \in IPNets /\ list[i].prefix \in Nat
  <2>1. \A i \in I : i \in Nat /\ list[i] \in IPNets
    BY DEF IPv4s, IsIPv4
  <2> QED
    BY <2>1, NetType
<1>2. IsFiniteSet(I) /\ n \in Nat /\ n <= len
  <2>1. IsFiniteSet(1 .. len) /\ Cardinality(1 .. len) = len
    BY FS_Interval
  <2>2. I \subseteq 1 .. len
    BY DEF IPv4s
  <2> HIDE DEF I
  <2>3. IsFiniteSet(I) /\ Cardinality(I) <= Cardinality(1 .. len)
    BY <2>1, <2>2, FS_Subset
  <2>4. Cardinality(I) \in Nat
    BY <2>3, FS_CardinalityType
  <2> QED
    BY <2>1, <2>3, <2>4
<1> HIDE DEF I
<1>3. \A i \in I : /\ IsFiniteSet(Before(i)) /\ Before(i) \in SUBSET (I \ {i})
                        /\ Cardinality(Before(i)) \in 0 .. n - 1
  <2> SUFFICES ASSUME NEW i \in I
               PROVE  /\ IsFiniteSet(Before(i)) /\ Before(i) \in SUBSET (I \ {i})
                      /\ Cardinality(Before(i)) \in 0 .. n - 1
    OBVIOUS
  <2>1. Before(i) \in SUBSET (I \ {i})
    BY <1>1
  <2>2. IsFiniteSet(I \ {i}) /\ Cardinality(I \ {i}) = n - 1
    BY <1>2, FS_RemoveElement
  <2> HIDE DEF Before
  <2>3. IsFiniteSet(Before(i)) /\ Cardinality(Before(i)) <= n - 1
    BY <2>1, <2>2, FS_Subset
  <2>4. Cardinality(Before(i)) \in Nat
    BY <2>3, FS_CardinalityType
  <2> QED
    BY <2>1, <2>3, <2>4
<1>4. \A i, j \in I : i \in Before(j) => Cardinality(Before(i)) < Cardinality(Before(j))
  <2> SUFFICES ASSUME NEW i \in I, NEW j \in I, i \in Before(j)
               PROVE  Cardinality(Before(i)) < Cardinality(Before(j))
    OBVIOUS
  <2>1. Before(i) \subseteq Before(j)
    BY <1>1
  <2>2. i \notin Before(i)
    BY <1>1
  <2>3. Before(i) # Before(j)
    BY <2>2
  <2> HIDE DEF Before
  <2>4. /\ Cardinality(Before(i)) <= Cardinality(Before(j))
        /\ Cardinality(Before(i)) # Cardinality(Before(j))
    BY <1>3, <2>1, <2>3, FS_Subset
  <2> QED
    BY <1>3, <2>4
<1>5. \A i, j \in I : i # j => i \in Before(j) \/ j \in Before(i)
  BY <1>1
<1> HIDE DEF Before
<1>6. rank \in Injection(I, 0 .. n - 1)
  <2>1. rank \in [I -> 0 .. n - 1]
    BY <1>3
  <2>2. \A i, j \in I : i # j => rank[i] # rank[j]
    BY <1>3, <1>4, <1>5
  <2> HIDE DEF rank
  <2> QED
    BY <2>1, <2>2 DEF Injection, IsInjective
<1>7. IsFiniteSet(0 .. n - 1) /\ Cardinality(0 .. n - 1) = n
  <2> HIDE DEF n
  <2> QED
    BY <1>2, FS_Interval
<1>8. rank \in Surjection(I, 0 .. n - 1)
  <2> HIDE DEF rank
  <2> QED
    BY <1>2, <1>6, <1>7, FS_Injection
<1>9. \A k \in 1 .. n : At(k) \in I /\ Cardinality(Before(At(k))) = k - 1
  <2> SUFFICES ASSUME NEW k \in 1 .. n
               PROVE  \E i \in I : Cardinality(Before(i)) = k - 1
    OBVIOUS
  <2>1. k - 1 \in 0 .. n - 1
    BY <1>2
  <2>2. \E i \in I : rank[i] = k - 1
    <3> HIDE DEF rank
    <3> QED
      BY <1>8, <2>1 DEF Surjection
  <2> QED
    BY <2>2
<1>10. ByPrefix(list) = [k \in 1 .. n |-> list[At(k)]]
  BY DEF ByPrefix, Before, I
<1> HIDE DEF At
<1>11. ByPrefix(list) \in [1 .. n -> IPNets]
  BY <1>1, <1>9, <1>10
<1>12. ASSUME NEW x \in 1 .. n, NEW y \in 1 .. n, x < y
       PROVE  ByPrefix(list)[x].prefix <= ByPrefix(list)[y].prefix
  <2>1. At(x) \in I /\ At(y) \in I
    BY <1>9
  <2>2. Cardinality(Before(At(x))) = x - 1 /\ Cardinality(Before(At(y))) = y - 1
    BY <1>9
  <2>3. At(y) \notin Before(At(x))
    BY <1>4, <1>12, <2>1, <2>2
  <2>4. ~ (list[At(y)].prefix < list[At(x)].prefix)
    BY <2>1, <2>3 DEF Before
  <2> QED
    BY <1>1, <1>10, <2>1, <2>4
<1>13. \A k \in 1 .. n : \E i \in I : ByPrefix(list)[k] = list[i]
  BY <1>9, <1>10
<1>14. ASSUME NEW i \in I PROVE \E k \in 1 .. n : ByPrefix(list)[k] = list[i]
  <2> DEFINE k == Cardinality(Before(i)) + 1
  <2>1. k \in 1 .. n /\ k - 1 = Cardinality(Before(i))
    BY <1>2, <1>3
  <2>2. At(k) \in I /\ Cardinality(Before(At(k))) = k - 1
    BY <1>9, <2>1
  <2>3. At(k) = i
    <3> SUFFICES ASSUME At(k) # i PROVE FALSE
      OBVIOUS
    <3>1. At(k) \in Before(i) \/ i \in Before(At(k))
      BY <1>5, <2>2
    <3> QED
      BY <1>3, <1>4, <2>1, <2>2, <3>1
  <2> QED
    BY <1>10, <2>1, <2>3
<1> QED
  BY <1>2, <1>11, <1>12, <1>13, <1>14 DEF I

-----------------------------------------------------------------------------
\* One call of mapSubnetsRec, for any reserved range.

Mappings == UNION {[D -> IPNets] : D \in SUBSET IPNets}

MapStates(dst) ==
    [ok : BOOLEAN, prefix : dst.prefix .. W, free : Seq(Nat), result : Mappings]

BlockSize(st) == 2^(W - st.prefix)

\* Mapped networks keep their size, are in the range, apart from each other and
\* from the free blocks.
ResultApart(dst, st) ==
    \A n \in DOMAIN st.result :
        /\ st.result[n].prefix = n.prefix
        /\ dst.base <= st.result[n].base
        /\ st.result[n].base + Size(st.result[n]) <= dst.base + Size(dst)
        /\ \A o \in DOMAIN st.result \ {n} :
              Apart(st.result[n].base, Size(st.result[n]),
                    st.result[o].base, Size(st.result[o]))
        /\ \A x \in DOMAIN st.free :
              Apart(st.result[n].base, Size(st.result[n]), st.free[x], BlockSize(st))

MapInv(dst, st) ==
    /\ st \in MapStates(dst)
    /\ Blocks(dst, st.free, BlockSize(st))
    /\ ResultApart(dst, st)

LEMMA MappingType ==
    ASSUME NEW r \in Mappings
    PROVE  DOMAIN r \in SUBSET IPNets /\ \A n \in DOMAIN r : r[n] \in IPNets
<1>1. PICK D \in SUBSET IPNets : r \in [D -> IPNets]
  BY DEF Mappings
<1> QED
  BY <1>1

LEMMA WholeRangeInv ==
    ASSUME NEW dst \in IPNets
    PROVE  /\ MapInv(dst, WholeRange(dst))
           /\ WholeRange(dst).ok = TRUE /\ WholeRange(dst).prefix = dst.prefix
           /\ Len(WholeRange(dst).free) = 1 /\ DOMAIN WholeRange(dst).result = {}
<1> DEFINE st == WholeRange(dst)
           free == <<dst.base>>
<1>1. /\ dst.base \in Nat /\ dst.prefix \in 0 .. W /\ Size(dst) \in Nat \ {0}
      /\ dst.base % Size(dst) = 0
  BY NetType
<1>2. st = [ok |-> TRUE, prefix |-> dst.prefix, free |-> free, result |-> <<>>]
  BY DEF WholeRange
<1>3. st.ok = TRUE /\ st.prefix = dst.prefix /\ st.free = free /\ st.result = <<>>
  BY <1>2
<1>4. free \in Seq(Nat) /\ DOMAIN free = {1} /\ free[1] = dst.base /\ Len(free) = 1
  BY <1>1
<1>5. <<>> \in Mappings /\ DOMAIN st.result = {}
  <2>1. <<>> \in [{} -> IPNets]
    OBVIOUS
  <2> QED
    BY <1>3, <2>1 DEF Mappings
<1> HIDE DEF st, free
<1>6. st \in MapStates(dst)
  BY <1>1, <1>2, <1>4, <1>5, WidthAssumption DEF MapStates
<1>7. \E q \in Nat : dst.base = Size(dst) * q
  <2>1. dst.base = Size(dst) * (dst.base \div Size(dst)) + 0
    BY <1>1, DivMod
  <2>2. dst.base \div Size(dst) \in Nat
    BY <1>1, DivMod
  <2>3. Size(dst) * (dst.base \div Size(dst)) \in Nat
    BY <1>1, <2>2
  <2> QED
    BY <2>1, <2>2, <2>3
<1>8. Blocks(dst, free, Size(dst))
  BY <1>1, <1>4, <1>7 DEF Blocks
<1>9. BlockSize(st) = Size(dst)
  BY <1>3 DEF BlockSize, Size
<1>10. ResultApart(dst, st)
  BY <1>5 DEF ResultApart
<1> QED
  BY <1>3, <1>4, <1>5, <1>6, <1>8, <1>9, <1>10 DEF MapInv, st

\* A block of the reserved range is a network.
LEMMA BlockIsNet ==
    ASSUME NEW prefix \in 0 .. W, NEW dst \in IPNets, NEW free,
           Blocks(dst, free, 2^(W - prefix)),
           NEW x \in DOMAIN free
    PROVE  [base |-> free[x], prefix |-> prefix] \in IPNets
<1>1. W - prefix \in Nat
  BY WidthAssumption
<1>2. 2^(W - prefix) \in Nat \ {0} /\ 2^W \in Nat
  BY <1>1, PowerType, WidthAssumption
<1>3. PICK q \in Nat : free[x] = 2^(W - prefix) * q
  BY DEF Blocks
<1>4. free[x] % 2^(W - prefix) = 0 /\ free[x] \in Nat
  BY <1>2, <1>3, Multiple
<1>5. free[x] + 2^(W - prefix) <= dst.base + Size(dst)
  BY DEF Blocks
<1>6. free[x] \in 0 .. 2^W - 1
  BY <1>2, <1>4, <1>5, NetType, NetEnd
<1> QED
  BY <1>1, <1>4, <1>6 DEF IPNets

LEMMA TailBlocks ==
    ASSUME NEW dst, NEW size, NEW c, Blocks(dst, c, size), c # <<>>
    PROVE  /\ Blocks(dst, Tail(c), size)
           /\ Len(Tail(c)) = Len(c) - 1
           /\ \A x \in DOMAIN Tail(c) :
                 /\ x + 1 \in DOMAIN c /\ x + 1 # 1 /\ Tail(c)[x] = c[x + 1]
<1>1. c \in Seq(Nat) /\ Len(c) \in Nat /\ DOMAIN c = 1 .. Len(c)
  BY DEF Blocks
<1>2. /\ Tail(c) \in Seq(Nat) /\ Len(Tail(c)) = Len(c) - 1
      /\ DOMAIN Tail(c) = 1 .. Len(c) - 1
      /\ \A x \in 1 .. Len(c) - 1 : Tail(c)[x] = c[x + 1]
  BY <1>1
<1>3. \A x \in 1 .. Len(c) - 1 : x + 1 \in DOMAIN c /\ x + 1 # 1
  BY <1>1
<1>4. \A x, y \in 1 .. Len(c) - 1 : x # y => x + 1 # y + 1
  BY <1>1
<1>5. \A x \in DOMAIN Tail(c) :
         /\ \E q \in Nat : Tail(c)[x] = size * q
         /\ dst.base <= Tail(c)[x] /\ Tail(c)[x] + size <= dst.base + Size(dst)
  BY <1>2, <1>3 DEF Blocks
<1>6. \A x, y \in DOMAIN Tail(c) : x # y => Apart(Tail(c)[x], size, Tail(c)[y], size)
  <2> SUFFICES ASSUME NEW x \in 1 .. Len(c) - 1, NEW y \in 1 .. Len(c) - 1, x # y
               PROVE  Apart(Tail(c)[x], size, Tail(c)[y], size)
    BY <1>2
  <2>1. Apart(c[x + 1], size, c[y + 1], size)
    BY <1>3, <1>4 DEF Blocks
  <2> QED
    BY <1>2, <2>1
<1>7. Blocks(dst, Tail(c), size)
  BY <1>2, <1>5, <1>6 DEF Blocks
<1> QED
  BY <1>2, <1>3, <1>7

\* A call fails, or it maps src and takes its space from what is free.
FailsOrMaps(st, src, next) ==
    \/ /\ next.ok = FALSE /\ next.result = st.result
       /\ src.prefix < st.prefix \/ Len(st.free) = 0
    \/ /\ next.ok = TRUE /\ next.prefix = src.prefix
       /\ src.prefix \in st.prefix .. W
       /\ Len(next.free) = Len(st.free) * 2^(src.prefix - st.prefix) - 1
       /\ DOMAIN next.result = DOMAIN st.result \cup {src}

LEMMA MapFirstInv ==
    ASSUME NEW dst \in IPNets, dst.prefix > 0, NEW st, MapInv(dst, st),
           NEW src \in IPNets
    PROVE  /\ MapInv(dst, MapFirst(st, src))
           /\ FailsOrMaps(st, src, MapFirst(st, src))
<1> DEFINE next == MapFirst(st, src)
           c == subnetSplit(st.free, st.prefix, src.prefix)
           t == 2^(W - src.prefix)
<1>1. /\ st \in MapStates(dst) /\ st.prefix \in dst.prefix .. W
      /\ st.free \in Seq(Nat) /\ st.result \in Mappings
  BY DEF MapInv, MapStates
<1>2. dst.prefix \in 1 .. W /\ W \in Nat
  BY NetType, WidthAssumption
<1>3. /\ src.prefix \in 0 .. W /\ Size(src) \in Nat \ {0} /\ t = Size(src)
      /\ src.base \in Nat /\ src.base % t = 0
  BY NetType DEF Size
<1>4. st.prefix \in 1 .. W /\ Blocks(dst, st.free, 2^(W - st.prefix))
  BY <1>1, <1>2 DEF MapInv, BlockSize
<1> HIDE DEF next, c, t
<1>5. CASE src.prefix < st.prefix \/ c = <<>>
  <2>1. next = [st EXCEPT !.ok = FALSE]
    BY <1>5 DEF MapFirst, c, next
  <2>2. /\ next.ok = FALSE /\ next.prefix = st.prefix /\ next.free = st.free
        /\ next.result = st.result /\ next \in MapStates(dst)
    BY <1>1, <2>1 DEF MapStates
  <2>3. MapInv(dst, next)
    BY <2>2 DEF MapInv, ResultApart, BlockSize
  <2>4. CASE src.prefix < st.prefix
    BY <2>2, <2>3, <2>4 DEF next, FailsOrMaps
  <2>5. CASE ~ (src.prefix < st.prefix) /\ c = <<>>
    <3>1. src.prefix \in st.prefix .. W
      BY <1>1, <1>2, <1>3, <2>5
    <3>2. Len(c) = Len(st.free) * 2^(src.prefix - st.prefix)
      BY <1>4, <3>1, Split DEF c
    <3>3. Len(c) = 0
      BY <2>5
    <3>4. 2^(src.prefix - st.prefix) \in Nat \ {0}
      BY <1>4, <3>1, SplitSizes
    <3>5. Len(st.free) \in Nat
      BY <1>1
    <3>6. Len(st.free) = 0
      BY <3>2, <3>3, <3>4, <3>5
    <3> QED
      BY <2>2, <2>3, <3>6 DEF next, FailsOrMaps
  <2> QED
    BY <1>5, <2>4, <2>5
<1>6. CASE ~ (src.prefix < st.prefix) /\ c # <<>>
  <2> DEFINE mapped == [base |-> c[1], prefix |-> src.prefix]
  <2>0. src.prefix \in st.prefix .. W /\ src.prefix \in dst.prefix .. W
    BY <1>1, <1>2, <1>3, <1>6
  <2>1. /\ Blocks(dst, c, t) /\ Len(c) = Len(st.free) * 2^(src.prefix - st.prefix)
        /\ \A x \in DOMAIN c : \E y \in DOMAIN st.free :
              st.free[y] <= c[x] /\ c[x] + t <= st.free[y] + BlockSize(st)
    BY <1>4, <2>0, Split DEF c, t, BlockSize
  <2>2. c \in Seq(Nat) /\ 1 \in DOMAIN c /\ Head(c) = c[1] /\ c[1] \in Nat
    BY <1>6, <2>1 DEF Blocks
  <2>3. netmapIP(src.base, [base |-> Head(c), prefix |-> src.prefix]) = c[1]
    <3>1. netmapIP(src.base, [base |-> Head(c), prefix |-> src.prefix]) =
             c[1] + (src.base % t)
      BY <2>2 DEF netmapIP, Size, t
    <3> QED
      BY <1>3, <2>2, <3>1
  <2>4. next = [ok |-> TRUE, prefix |-> src.prefix, free |-> Tail(c),
                result |-> [n \in DOMAIN st.result \cup {src} |->
                               IF n = src THEN mapped ELSE st.result[n]]]
    <3>1. ~ (src.prefix < st.prefix \/ subnetSplit(st.free, st.prefix, src.prefix) = <<>>)
      BY <1>6 DEF c
    <3> QED
      BY <2>3, <3>1 DEF MapFirst, AfterFirst, c, next
  <2>5. mapped \in IPNets /\ mapped.base = c[1] /\ mapped.prefix = src.prefix
        /\ Size(mapped) = t
    BY <1>3, <2>1, <2>2, BlockIsNet DEF t, Size
  <2> HIDE DEF mapped
  <2>6. /\ next.ok = TRUE /\ next.prefix = src.prefix /\ next.free = Tail(c)
        /\ DOMAIN next.result = DOMAIN st.result \cup {src}
        /\ next.result[src] = mapped
        /\ \A n \in DOMAIN st.result : n # src => next.result[n] = st.result[n]
    BY <2>4
  <2>7. /\ Blocks(dst, Tail(c), t) /\ Len(Tail(c)) = Len(c) - 1 /\ Tail(c) \in Seq(Nat)
        /\ \A x \in DOMAIN Tail(c) :
              /\ x + 1 \in DOMAIN c /\ x + 1 # 1 /\ Tail(c)[x] = c[x + 1]
    <3>1. /\ Blocks(dst, Tail(c), t) /\ Len(Tail(c)) = Len(c) - 1
          /\ \A x \in DOMAIN Tail(c) :
                /\ x + 1 \in DOMAIN c /\ x + 1 # 1 /\ Tail(c)[x] = c[x + 1]
      BY <1>6, <2>1, TailBlocks
    <3> QED
      BY <3>1 DEF Blocks
  <2>8. /\ DOMAIN st.result \in SUBSET IPNets
        /\ \A n \in DOMAIN st.result : st.result[n] \in IPNets
    BY <1>1, MappingType
  <2>9. next \in MapStates(dst)
    <3> DEFINE r == [n \in DOMAIN st.result \cup {src} |->
                        IF n = src THEN mapped ELSE st.result[n]]
    <3>1. r \in [DOMAIN st.result \cup {src} -> IPNets]
      BY <2>5, <2>8
    <3>2. DOMAIN st.result \cup {src} \in SUBSET IPNets
      BY <2>8
    <3>3. r \in Mappings
      BY <3>1, <3>2 DEF Mappings
    <3> HIDE DEF r
    <3>4. next = [ok |-> TRUE, prefix |-> src.prefix, free |-> Tail(c), result |-> r]
      BY <2>4 DEF r
    <3> QED
      BY <2>0, <2>7, <3>3, <3>4 DEF MapStates
  <2>10. BlockSize(next) = t
    BY <2>6 DEF BlockSize, t
  <2>11. ResultApart(dst, next)
    <3>0. /\ t \in Nat \ {0} /\ BlockSize(st) \in Nat
          /\ \A x \in DOMAIN st.free : st.free[x] \in Nat
          /\ \A x \in DOMAIN c : c[x] \in Nat
      <4>1. W - st.prefix \in Nat
        BY <1>2, <1>4
      <4>2. BlockSize(st) \in Nat
        BY <4>1, PowerType DEF BlockSize
      <4>3. \A x \in DOMAIN st.free : st.free[x] \in Nat
        BY <1>1
      <4>4. \A x \in DOMAIN c : c[x] \in Nat
        BY <2>2
      <4> QED
        BY <1>3, <4>2, <4>3, <4>4
    <3>1. ASSUME NEW n \in DOMAIN st.result, NEW x \in DOMAIN c
          PROVE  Apart(st.result[n].base, Size(st.result[n]), c[x], t)
      <4>1. PICK y \in DOMAIN st.free :
               st.free[y] <= c[x] /\ c[x] + t <= st.free[y] + BlockSize(st)
        BY <2>1
      <4>2. Apart(st.result[n].base, Size(st.result[n]), st.free[y], BlockSize(st))
        BY DEF MapInv, ResultApart
      <4>3. st.result[n].base \in Nat /\ Size(st.result[n]) \in Nat
        BY <2>8, NetType
      <4> QED
        BY <3>0, <4>1, <4>2, <4>3 DEF Apart
    <3>2. \A x \in DOMAIN next.free :
             x + 1 \in DOMAIN c /\ x + 1 # 1 /\ next.free[x] = c[x + 1]
      BY <2>6, <2>7
    <3>3. \A x \in DOMAIN c : x # 1 => Apart(c[1], t, c[x], t)
      BY <2>1, <2>2 DEF Blocks
    <3>4. ASSUME NEW a, NEW sa, NEW b, NEW sb, Apart(a, sa, b, sb)
          PROVE  Apart(b, sb, a, sa)
      BY <3>4 DEF Apart
    <3>5. dst.base <= c[1] /\ c[1] + t <= dst.base + Size(dst)
      BY <2>1, <2>2 DEF Blocks
    <3>6. ASSUME NEW n \in DOMAIN next.result
          PROVE  /\ next.result[n].prefix = n.prefix
                 /\ dst.base <= next.result[n].base
                 /\ next.result[n].base + Size(next.result[n]) <= dst.base + Size(dst)
                 /\ \A o \in DOMAIN next.result \ {n} :
                       Apart(next.result[n].base, Size(next.result[n]),
                             next.result[o].base, Size(next.result[o]))
                 /\ \A x \in DOMAIN next.free :
                       Apart(next.result[n].base, Size(next.result[n]), next.free[x], t)
      <4>1. CASE n = src
        <5>1. next.result[n] = mapped
          BY <2>6, <4>1
        <5>2. ASSUME NEW o \in DOMAIN next.result \ {n}
              PROVE  Apart(c[1], t, next.result[o].base, Size(next.result[o]))
          <6>1. o \in DOMAIN st.result /\ next.result[o] = st.result[o]
            BY <2>6, <4>1
          <6> QED
            BY <2>2, <3>1, <3>4, <6>1
        <5>3. \A x \in DOMAIN next.free : Apart(c[1], t, next.free[x], t)
          BY <3>2, <3>3
        <5> QED
          BY <2>5, <3>5, <4>1, <5>1, <5>2, <5>3
      <4>2. CASE n # src
        <5>1. n \in DOMAIN st.result /\ next.result[n] = st.result[n]
          BY <2>6, <4>2
        <5>2. /\ st.result[n].prefix = n.prefix /\ dst.base <= st.result[n].base
              /\ st.result[n].base + Size(st.result[n]) <= dst.base + Size(dst)
              /\ \A o \in DOMAIN st.result \ {n} :
                    Apart(st.result[n].base, Size(st.result[n]),
                          st.result[o].base, Size(st.result[o]))
          BY <5>1 DEF MapInv, ResultApart
        <5>3. ASSUME NEW o \in DOMAIN next.result \ {n}
              PROVE  Apart(st.result[n].base, Size(st.result[n]),
                           next.result[o].base, Size(next.result[o]))
          <6>1. CASE o = src
            <7>1. next.result[o] = mapped
              BY <2>6, <6>1
            <7> QED
              BY <2>2, <2>5, <3>1, <5>1, <7>1
          <6>2. CASE o # src
            BY <2>6, <5>2, <6>2
          <6> QED
            BY <6>1, <6>2
        <5>4. \A x \in DOMAIN next.free :
                 Apart(st.result[n].base, Size(st.result[n]), next.free[x], t)
          BY <3>1, <3>2, <5>1
        <5> QED
          BY <5>1, <5>2, <5>3, <5>4
      <4> QED
        BY <4>1, <4>2
    <3> QED
      BY <2>10, <3>6 DEF ResultApart
  <2>12. MapInv(dst, next)
    BY <2>6, <2>7, <2>9, <2>10, <2>11 DEF MapInv
  <2> QED
    BY <2>0, <2>1, <2>6, <2>7, <2>12 DEF next, FailsOrMaps
<1> QED
  BY <1>5, <1>6

-----------------------------------------------------------------------------
\* The whole recursion of NetmapSubnets.

\* A function on 0 .. n is determined by its first value and its steps.
Recurses(f, n, S, first, step) ==
    /\ f \in [0 .. n -> S] /\ f[0] = first
    /\ \A i \in 1 .. n : f[i] = step[i][f[i - 1]]
Steps(n, S) == [1 .. n -> [S -> S]]

LEMMA Recursion ==
    ASSUME NEW n \in Nat, NEW S, NEW first \in S, NEW step \in Steps(n, S)
    PROVE  \E f : Recurses(f, n, S, first, step)
<1> USE DEF Recurses, Steps
<1> DEFINE Upto(k, f) == Recurses(f, k, S, first, step)
           T == {k \in 0 .. n : ~ \E f : Upto(k, f)}
<1> SUFFICES n \notin T
  OBVIOUS
<1> SUFFICES ASSUME T # {} PROVE FALSE
  OBVIOUS
<1>0. T \subseteq Nat /\ T \subseteq 0 .. n
  OBVIOUS
<1> HIDE DEF T
<1>1. PICK k \in T : \A y \in T : k <= y
  BY <1>0, LeastNumber
<1> USE DEF T
<1>2. k # 0
  <2>1. Upto(0, [i \in 0 .. 0 |-> first])
    OBVIOUS
  <2> QED
    BY <1>1, <2>1
<1>3. k - 1 \in 0 .. n /\ k \in 1 .. n /\ k - 1 \notin T
  <2> HIDE DEF T
  <2> QED
    BY <1>0, <1>1, <1>2
<1>4. PICK f : Upto(k - 1, f)
  BY <1>3
<1> DEFINE g == [i \in 0 .. k |-> IF i = k THEN step[k][f[k - 1]] ELSE f[i]]
<1>5. f[k - 1] \in S /\ step[k] \in [S -> S]
  BY <1>3, <1>4
<1>6. \A i \in 0 .. k : i # k => i \in 0 .. k - 1 /\ f[i] \in S
  BY <1>3, <1>4
<1>7. g \in [0 .. k -> S]
  BY <1>5, <1>6
<1>8. g[0] = first
  BY <1>3, <1>4
<1>9. ASSUME NEW i \in 1 .. k PROVE g[i] = step[i][g[i - 1]]
  <2>1. i - 1 \in 0 .. k /\ i - 1 # k /\ i \in 0 .. k /\ g[i - 1] = f[i - 1]
    BY <1>3
  <2>2. CASE i = k
    BY <1>3, <2>1, <2>2
  <2>3. CASE i # k
    <3>1. i \in 1 .. k - 1
      BY <1>3, <2>3
    <3>2. f[i] = step[i][f[i - 1]]
      BY <1>4, <3>1
    <3> QED
      BY <2>1, <2>3, <3>2
  <2> QED
    BY <2>2, <2>3
<1>10. Upto(k, g)
  BY <1>7, <1>8, <1>9
<1> QED
  BY <1>1, <1>10

LEMMA NetmapSubnetsInv ==
    ASSUME NEW list, NEW len \in Nat, DOMAIN list = 1 .. len,
           NEW dst \in IPNets, dst.prefix > 0
    PROVE  LET r == NetmapSubnets(list, dst)
           IN  /\ MapInv(dst, r)
               /\ DOMAIN r.result \subseteq {list[i] : i \in IPv4s(list)}
               /\ r.ok => DOMAIN r.result = {list[i] : i \in IPv4s(list)}
<1> DEFINE s == ByPrefix(list)
           n == Len(s)
           S == {x \in MapStates(dst) : MapInv(dst, x)}
           Step(x, k) == IF x.ok THEN MapFirst(x, s[k]) ELSE x
           Body(g) == [k \in 0 .. Len(s) |->
                          IF k = 0 THEN WholeRange(dst)
                          ELSE IF g[k - 1].ok THEN MapFirst(g[k - 1], s[k])
                          ELSE g[k - 1]]
           rec == CHOOSE g : g = Body(g)
<1>1. NetmapSubnets(list, dst) = rec[n]
  BY DEF NetmapSubnets
<1>2. /\ n \in Nat /\ s \in [1 .. n -> IPNets]
      /\ \A k \in 1 .. n : \E i \in IPv4s(list) : s[k] = list[i]
      /\ \A i \in IPv4s(list) : \E k \in 1 .. n : s[k] = list[i]
  <2> DEFINE card == Cardinality(IPv4s(list))
  <2>1. /\ card \in Nat /\ s \in [1 .. card -> IPNets]
        /\ \A k \in 1 .. card : \E i \in IPv4s(list) : s[k] = list[i]
        /\ \A i \in IPv4s(list) : \E k \in 1 .. card : s[k] = list[i]
    BY Sorted
  <2> HIDE DEF s, card
  <2>2. n = card
    BY <2>1
  <2> QED
    BY <2>1, <2>2
<1> HIDE DEF s, n
<1>3. \A k \in 1 .. n : s[k] \in IPNets
  BY <1>2
<1>4. \A x \in S, k \in 1 .. n : Step(x, k) \in S
  <2> SUFFICES ASSUME NEW x \in S, NEW k \in 1 .. n PROVE MapFirst(x, s[k]) \in S
    OBVIOUS
  <2>1. MapInv(dst, MapFirst(x, s[k]))
    BY <1>3, MapFirstInv
  <2> QED
    BY <2>1 DEF MapInv
<1>5. WholeRange(dst) \in S
  BY WholeRangeInv DEF MapInv
<1> HIDE DEF S
<1>6. PICK f \in [0 .. n -> S] :
         f[0] = WholeRange(dst) /\ \A k \in 1 .. n : f[k] = Step(f[k - 1], k)
  <2> DEFINE step == [k \in 1 .. n |-> [x \in S |-> Step(x, k)]]
  <2>1. step \in [1 .. n -> [S -> S]]
    BY <1>4
  <2> DEFINE first == WholeRange(dst)
  <2> HIDE DEF step, Step
  <2>2. PICK f \in [0 .. n -> S] :
           f[0] = WholeRange(dst) /\ \A k \in 1 .. n : f[k] = step[k][f[k - 1]]
    <3>1. n \in Nat /\ first \in S /\ step \in Steps(n, S)
      BY <1>2, <1>5, <2>1 DEF Steps
    <3> HIDE DEF first
    <3>2. PICK f : Recurses(f, n, S, first, step)
      BY <3>1, Recursion
    <3> QED
      BY <3>2 DEF first, Recurses
  <2>3. ASSUME NEW k \in 1 .. n PROVE f[k] = Step(f[k - 1], k)
    <3>1. k - 1 \in 0 .. n
      BY <1>2
    <3>2. f[k - 1] \in S
      BY <2>2, <3>1
    <3> QED
      BY <2>2, <3>2 DEF step
  <2> QED
    BY <2>2, <2>3
<1>7. f = Body(f)
  <2>1. Len(s) = n
    BY DEF n
  <2>2. ASSUME NEW k \in 0 .. n PROVE f[k] = Body(f)[k]
    <3>1. CASE k = 0
      BY <1>6, <2>1, <3>1
    <3>2. CASE k # 0
      <4>1. k \in 1 .. n
        BY <1>2, <3>2
      <4> QED
        BY <1>6, <2>1, <3>2, <4>1
    <3> QED
      BY <3>1, <3>2
  <2>3. DOMAIN f = 0 .. n /\ f = [k \in 0 .. n |-> f[k]]
    BY <1>6
  <2>4. DOMAIN Body(f) = 0 .. n /\ Body(f) = [k \in 0 .. n |-> Body(f)[k]]
    BY <2>1
  <2> HIDE DEF Body
  <2> QED
    BY <2>2, <2>3, <2>4
<1>8. rec = Body(rec)
  <2> HIDE DEF Body
  <2> QED
    BY <1>7, Zenon
<1>9. rec[0] = WholeRange(dst) /\ \A k \in 1 .. n : rec[k] = Step(rec[k - 1], k)
  <2> HIDE DEF rec
  <2>1. Len(s) = n
    BY DEF n
  <2>2. \A k \in 0 .. n : rec[k] = Body(rec)[k]
    <3> HIDE DEF Body
    <3> QED
      BY <1>8
  <2>3. 0 \in 0 .. n /\ \A k \in 1 .. n : k \in 0 .. n /\ k # 0
    BY <1>2
  <2> QED
    BY <2>1, <2>2, <2>3
<1> HIDE DEF rec, Body
<1> DEFINE Done(k) == {s[i] : i \in 1 .. k}
           P(k) == /\ rec[k] \in S /\ DOMAIN rec[k].result \subseteq Done(k)
                   /\ rec[k].ok => DOMAIN rec[k].result = Done(k)
           T == {k \in 0 .. n : ~P(k)}
<1>10. P(0)
  <2>1. Done(0) = {}
    OBVIOUS
  <2> QED
    BY <1>5, <1>9, <2>1, WholeRangeInv
<1>11. ASSUME NEW k \in 1 .. n, P(k - 1) PROVE P(k)
  <2> DEFINE st == rec[k - 1]
             next == MapFirst(st, s[k])
  <2>1. st \in S /\ MapInv(dst, st) /\ rec[k] = Step(st, k) /\ rec[k] \in S
    BY <1>4, <1>9, <1>11 DEF S
  <2>2. Done(k) = Done(k - 1) \cup {s[k]}
    <3>1. \A i \in Nat : i \in 1 .. k <=> i \in 1 .. k - 1 \/ i = k
      BY <1>2
    <3> QED
      BY <1>2, <3>1
  <2>3. \/ next.ok = FALSE /\ next.result = st.result
        \/ next.ok = TRUE /\ DOMAIN next.result = DOMAIN st.result \cup {s[k]}
    <3>1. FailsOrMaps(st, s[k], next)
      BY <1>3, <2>1, MapFirstInv
    <3> HIDE DEF st, next
    <3> QED
      BY <3>1 DEF FailsOrMaps
  <2>4. DOMAIN st.result \subseteq Done(k - 1) /\ (st.ok => DOMAIN st.result = Done(k - 1))
    BY <1>11
  <2> HIDE DEF Done, st, next
  <2>5. CASE st.ok
    <3>1. rec[k] = next
      BY <2>1, <2>5 DEF next
    <3> QED
      BY <2>1, <2>2, <2>3, <2>4, <2>5, <3>1
  <2>6. CASE ~ st.ok
    BY <2>1, <2>2, <2>4, <2>6
  <2> QED
    BY <2>5, <2>6
<1>12. P(n)
  <2> HIDE DEF P
  <2> SUFFICES ASSUME T # {} PROVE FALSE
    BY <1>2
  <2>0. T \subseteq Nat
    BY <1>2
  <2>1. PICK k \in T : \A y \in T : k <= y
    <3> HIDE DEF T
    <3> QED
      BY <2>0, LeastNumber
  <2>2. k # 0 /\ k \in 1 .. n
    BY <1>2, <1>10, <2>1
  <2>3. k - 1 \in 0 .. n /\ k - 1 \notin T
    BY <1>2, <2>1, <2>2
  <2> QED
    BY <1>11, <2>1, <2>2, <2>3
<1>13. Done(n) = {list[i] : i \in IPv4s(list)}
  BY <1>2, SMTT(30)
<1> HIDE DEF Done
<1> QED
  BY <1>1, <1>12, <1>13 DEF S

-----------------------------------------------------------------------------
\* The inductive invariant.

\* The networks that are left are not larger than those that are mapped.
StillSorted ==
    /\ \A x, y \in DOMAIN srcs : x < y => srcs[x].prefix <= srcs[y].prefix
    /\ m.ok => \/ taken = 0 /\ m.prefix = DstPrefix
               \/ \A x \in DOMAIN srcs : srcs[x].prefix >= m.prefix

\* No address of the range is lost: it is taken or in a free block.
NothingLost == m.ok => taken + Len(m.free) * BlockSize(m) = Size(dstCIDR)

NetmapInv ==
    /\ srcs \in Seq(IPNets) /\ taken \in Nat
    /\ MapInv(dstCIDR, m)
    /\ StillSorted /\ NothingLost /\ FittingIsMapped

LEMMA InitNetmap == NetmapInit => NetmapInv
<1> SUFFICES ASSUME NetmapInit PROVE NetmapInv
  OBVIOUS
<1>0. srcCIDRs \in Lists /\ srcs = ByPrefix(srcCIDRs) /\ m = WholeRange(dstCIDR) /\ taken = 0
  BY DEF NetmapInit
<1>1. PICK len \in Nat : DOMAIN srcCIDRs = 1 .. len
  BY <1>0, NetmapAssumption DEF Lists
<1>2. PICK n \in Nat : /\ srcs \in [1 .. n -> IPNets]
                       /\ \A x, y \in 1 .. n : x < y => srcs[x].prefix <= srcs[y].prefix
  <2>1. Cardinality(IPv4s(srcCIDRs)) \in Nat
    BY <1>1, Sorted
  <2> QED
    BY <1>0, <1>1, <2>1, Sorted
<1>3. srcs \in Seq(IPNets) /\ DOMAIN srcs = 1 .. n
  BY <1>2
<1>4. /\ MapInv(dstCIDR, m) /\ m.ok = TRUE /\ m.prefix = dstCIDR.prefix
      /\ Len(m.free) = 1
  BY <1>0, DstType, WholeRangeInv
<1>5. dstCIDR.prefix = DstPrefix /\ BlockSize(m) = Size(dstCIDR)
      /\ Size(dstCIDR) \in Nat
  <2>1. dstCIDR.prefix = DstPrefix
    BY DEF dstCIDR
  <2> QED
    BY <1>4, <2>1, DstType, NetType DEF BlockSize
<1>6. StillSorted
  BY <1>0, <1>2, <1>3, <1>4, <1>5 DEF StillSorted
<1>7. NothingLost
  BY <1>0, <1>4, <1>5 DEF NothingLost
<1>8. FittingIsMapped
  BY <1>4 DEF FittingIsMapped
<1> QED
  BY <1>0, <1>3, <1>4, <1>6, <1>7, <1>8 DEF NetmapInv

LEMMA MapStep ==
    ASSUME NetmapInv, mapSubnetsRec
    PROVE  NetmapInv'
<1> DEFINE src == Head(srcs)
           t == 2^(W - src.prefix)
           size == Size(dstCIDR)
<1>0. /\ m.ok /\ srcs # <<>> /\ m' = MapFirst(m, src) /\ srcs' = Tail(srcs)
      /\ taken' = taken + Size(src)
  BY DEF mapSubnetsRec
<1>1. srcs \in Seq(IPNets) /\ taken \in Nat /\ MapInv(dstCIDR, m)
  BY DEF NetmapInv
<1>2. /\ src \in IPNets /\ src = srcs[1] /\ 1 \in DOMAIN srcs
      /\ srcs' \in Seq(IPNets)
      /\ \A x \in DOMAIN srcs' : /\ x + 1 \in DOMAIN srcs /\ srcs'[x] = srcs[x + 1]
                                 /\ x \in Nat /\ 1 < x + 1
  BY <1>0, <1>1
<1>3. src.prefix \in 0 .. W /\ Size(src) \in Nat \ {0} /\ t = Size(src)
  BY <1>2, NetType DEF Size
<1>4. taken' \in Nat /\ taken' > 0
  BY <1>0, <1>1, <1>3
<1>5. \A x, y \in DOMAIN srcs' : x < y => srcs'[x].prefix <= srcs'[y].prefix
  <2> SUFFICES ASSUME NEW x \in DOMAIN srcs', NEW y \in DOMAIN srcs', x < y
               PROVE  srcs'[x].prefix <= srcs'[y].prefix
    OBVIOUS
  <2>1. x + 1 \in DOMAIN srcs /\ y + 1 \in DOMAIN srcs /\ x + 1 < y + 1
    BY <1>2
  <2> QED
    BY <1>2, <2>1 DEF NetmapInv, StillSorted
<1>6. \A x \in DOMAIN srcs' : src.prefix <= srcs'[x].prefix
  <2> SUFFICES ASSUME NEW x \in DOMAIN srcs' PROVE src.prefix <= srcs'[x].prefix
    OBVIOUS
  <2>1. x + 1 \in DOMAIN srcs /\ 1 < x + 1
    BY <1>2
  <2> QED
    BY <1>2, <2>1 DEF NetmapInv, StillSorted
<1>7. /\ size \in Nat \ {0} /\ size = 2^(W - DstPrefix) /\ dstCIDR \in IPNets
      /\ dstCIDR.prefix = DstPrefix /\ DstPrefix \in 1 .. W /\ W \in Nat
  <2>1. dstCIDR.prefix = DstPrefix
    BY DEF dstCIDR
  <2> QED
    BY <2>1, DstType, NetType, NetmapAssumption, WidthAssumption
<1>8. m.prefix \in 1 .. W /\ m.prefix \in DstPrefix .. W /\ Len(m.free) \in Nat
  BY <1>1, <1>7 DEF MapInv, MapStates
<1>9. /\ taken + Len(m.free) * BlockSize(m) = size
      /\ \/ taken = 0 /\ m.prefix = DstPrefix
         \/ \A x \in DOMAIN srcs : srcs[x].prefix >= m.prefix
  BY <1>0 DEF NetmapInv, NothingLost, StillSorted
<1>10. MapInv(dstCIDR, m') /\ FailsOrMaps(m, src, m')
  BY <1>0, <1>1, <1>2, <1>7, MapFirstInv
<1>11. size' = size
  BY DEF dstCIDR, Size
<1> HIDE DEF src, t, size
<1>12. CASE m'.ok = FALSE /\ (src.prefix < m.prefix \/ Len(m.free) = 0)
  <2>1. taken' > size
    <3>1. CASE src.prefix < m.prefix
      <4>1. taken = 0 /\ m.prefix = DstPrefix
        BY <1>2, <1>3, <1>8, <1>9, <3>1
      <4>2. W - DstPrefix \in Nat /\ W - src.prefix \in Nat /\ W - DstPrefix < W - src.prefix
        BY <1>3, <1>7, <3>1, <4>1
      <4>3. size < t
        BY <1>7, <4>2, PowerMonotone DEF t
      <4> QED
        BY <1>0, <1>3, <1>7, <4>1, <4>3
    <3>2. CASE Len(m.free) = 0
      <4>1. W - m.prefix \in Nat
        BY <1>7, <1>8
      <4>2. BlockSize(m) \in Nat
        BY <4>1, PowerType DEF BlockSize
      <4>3. taken = size
        BY <1>1, <1>9, <3>2, <4>2
      <4> QED
        BY <1>0, <1>1, <1>3, <1>7, <4>3
    <3> QED
      BY <1>12, <3>1, <3>2
  <2>2. FittingIsMapped'
    BY <1>11, <2>1 DEF FittingIsMapped, size
  <2>3. StillSorted' /\ NothingLost'
    BY <1>5, <1>12 DEF StillSorted, NothingLost
  <2>4. MapInv(dstCIDR, m)'
    BY <1>10 DEF MapInv, dstCIDR, MapStates, Blocks, ResultApart, Size, BlockSize
  <2> QED
    BY <1>2, <1>4, <2>2, <2>3, <2>4 DEF NetmapInv
<1>13. CASE /\ m'.ok = TRUE /\ m'.prefix = src.prefix
            /\ src.prefix \in m.prefix .. W
            /\ Len(m'.free) = Len(m.free) * 2^(src.prefix - m.prefix) - 1
  <2>1. StillSorted'
    <3>1. \A x \in DOMAIN srcs' : srcs'[x].prefix \in Nat
      <4>1. \A x \in DOMAIN srcs' : srcs'[x] \in IPNets
        BY <1>2
      <4> QED
        BY <4>1, NetType
    <3>2. \A x \in DOMAIN srcs' : srcs'[x].prefix >= m'.prefix
      BY <1>3, <1>6, <1>13, <3>1
    <3> QED
      BY <1>5, <3>2 DEF StillSorted
  <2>2. NothingLost'
    <3> DEFINE k == 2^(src.prefix - m.prefix)
               n == Len(m.free)
    <3>1. k \in Nat \ {0} /\ t \in Nat \ {0} /\ BlockSize(m) = k * t
      BY <1>8, <1>13, SplitSizes DEF t, BlockSize
    <3>2. n \in Nat /\ Len(m'.free) = n * k - 1 /\ BlockSize(m') = t
      BY <1>8, <1>13 DEF BlockSize, t
    <3>3. taken + n * (k * t) = size
      BY <1>9, <3>1
    <3> HIDE DEF k, n
    <3>4. (n * k - 1) * t = n * (k * t) - t /\ n * (k * t) \in Nat
      BY <3>1, <3>2
    <3>5. (taken + t) + (n * k - 1) * t = size
      BY <1>1, <1>7, <3>1, <3>3, <3>4
    <3>6. taken' + Len(m'.free) * BlockSize(m') = size
      BY <1>0, <1>3, <3>2, <3>5
    <3>7. size = Size(dstCIDR)' /\ BlockSize(m') = BlockSize(m)'
      BY <1>11 DEF size, BlockSize
    <3> QED
      BY <3>6, <3>7 DEF NothingLost
  <2>3. FittingIsMapped'
    BY <1>13 DEF FittingIsMapped
  <2>4. MapInv(dstCIDR, m)'
    BY <1>10 DEF MapInv, dstCIDR, MapStates, Blocks, ResultApart, Size, BlockSize
  <2> QED
    BY <1>2, <1>4, <2>1, <2>2, <2>3, <2>4 DEF NetmapInv
<1> QED
  BY <1>10, <1>12, <1>13 DEF FailsOrMaps

LEMMA NetmapInvariant == NetmapSpec => []NetmapInv
<1>1. ASSUME NetmapInv, [mapSubnetsRec]_netmapVars PROVE NetmapInv'
  <2>1. CASE UNCHANGED netmapVars
    BY <1>1, <2>1 DEF netmapVars, NetmapInv, StillSorted, NothingLost, FittingIsMapped,
                      MapInv, MapStates, Blocks, ResultApart, BlockSize, dstCIDR, Size
  <2> QED
    BY <1>1, <2>1, MapStep
<1> QED
  BY InitNetmap, <1>1, PTL DEF NetmapSpec

\* Mapped networks are networks of the size of the original, in the reserved
\* range, apart from each other and from what is still free, for every width
\* of an address, every range and every list of networks (netmap.go
\* NetmapSubnets, subnetSplit).
THEOREM MappedApartTheorem == NetmapSpec => []MappedApart
<1>1. NetmapInv => MappedApart
  <2> SUFFICES ASSUME NetmapInv PROVE MappedApart
    OBVIOUS
  <2>0. /\ m.prefix \in 0 .. W /\ Blocks(dstCIDR, m.free, 2^(W - m.prefix))
        /\ dstCIDR \in IPNets /\ m.result \in Mappings /\ ResultApart(dstCIDR, m)
    <3>1. dstCIDR.prefix \in 0 .. W
      BY DstType, NetType
    <3> QED
      BY <3>1, DstType DEF NetmapInv, MapInv, MapStates, BlockSize
  <2>1. \A n \in DOMAIN m.result : m.result[n] \in IPNets
    BY <2>0, MappingType
  <2>2. ASSUME NEW n \in DOMAIN m.result
        PROVE  Contains(dstCIDR, m.result[n].base)
    <3>1. m.result[n].base \in Nat /\ m.result[n].base < 2^W
      BY <2>1, NetType
    <3>2. dstCIDR.base <= m.result[n].base
      BY <2>0 DEF ResultApart
    <3> QED
      BY <3>1, <3>2, DstType, ContainsIff
  <2>3. ASSUME NEW n \in DOMAIN m.result, NEW o \in DOMAIN m.result \ {n}
        PROVE  Disjoint(m.result[n], m.result[o])
    <3>1. Apart(m.result[n].base, Size(m.result[n]), m.result[o].base, Size(m.result[o]))
      BY <2>0 DEF ResultApart
    <3> QED
      BY <2>1, <3>1, DisjointIff
  <2>4. ASSUME NEW n \in DOMAIN m.result, NEW x \in DOMAIN m.free
        PROVE  Disjoint(m.result[n], [base |-> m.free[x], prefix |-> m.prefix])
    <3> DEFINE block == [base |-> m.free[x], prefix |-> m.prefix]
    <3>1. block \in IPNets
      BY <2>0, BlockIsNet
    <3>2. block.base = m.free[x] /\ Size(block) = BlockSize(m)
      BY DEF Size, BlockSize
    <3>3. Apart(m.result[n].base, Size(m.result[n]), m.free[x], BlockSize(m))
      BY <2>0 DEF ResultApart
    <3> HIDE DEF block
    <3>4. Disjoint(m.result[n], block)
      BY <2>1, <3>1, <3>2, <3>3, DisjointIff
    <3> QED
      BY <3>4 DEF block
  <2>5. \A n \in DOMAIN m.result : m.result[n].prefix = n.prefix
    BY <2>0 DEF ResultApart
  <2> QED
    BY <2>1, <2>2, <2>3, <2>4, <2>5 DEF MappedApart
<1> QED
  BY <1>1, NetmapInvariant, PTL

\* The mapping fails only if the networks taken so far are together larger
\* than the range, as they are taken from the largest to the smallest
\* (netmap.go NetmapSubnets, ShootNetworksForNetmap).
THEOREM FittingIsMappedTheorem == NetmapSpec => []FittingIsMapped
<1>1. NetmapInv => FittingIsMapped
  BY DEF NetmapInv
<1> QED
  BY <1>1, NetmapInvariant, PTL
=============================================================================
