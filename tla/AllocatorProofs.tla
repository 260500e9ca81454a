--------------------------- MODULE AllocatorProofs ---------------------------
(***************************************************************************)
(* The safety properties of the bump, pool, slab and buddy allocators and  *)
(* of the linked free list, for every size of arena, pool, cache and slab. *)
(***************************************************************************)
EXTENDS MCAllocators, Chains, FiniteSetTheorems, SequenceTheorems,
        WellFoundedInduction, TLAPS

(* A set of natural numbers that is not empty has a least member. *)
LEMMA LeastMember ==
  ASSUME NEW S \in SUBSET Nat, S # {}
  PROVE  \E m \in S : \A x \in S : m <= x
<1> DEFINE R == {p \in Nat \X Nat : p[1] < p[2]}
<1>1. IsWellFoundedOn(R, Nat)
  BY NatLessThanWellFounded, Zenon DEF OpToRel
<1>2. \A x, y \in Nat : ~ (<<x, y>> \in R) => y <= x
  OBVIOUS
<1> HIDE DEF R
<1>3. PICK m \in S : \A y \in S : ~ (<<y, m>> \in R)
  BY <1>1, WFMin, Zenon
<1>4. \A x \in S : m <= x
  BY <1>2, <1>3
<1> QED BY <1>4

(* A bounded one has a greatest. *)
LEMMA GreatestMember ==
  ASSUME NEW S \in SUBSET Nat, S # {}, NEW b \in Nat, \A x \in S : x <= b
  PROVE  \E m \in S : \A x \in S : x <= m
<1> DEFINE U == {u \in Nat : \A x \in S : x <= u}
<1>1. PICK u \in U : \A x \in U : u <= x
  <2>1. b \in U
    OBVIOUS
  <2> QED BY <2>1, LeastMember
<1>2. CASE u \in S
  BY <1>2
<1>3. CASE u \notin S
  <2>1. \A x \in S : x < u
    BY <1>3
  <2>2. PICK x \in S : x < u
    BY <2>1
  <2>3. u - 1 \in Nat
    BY <2>2
  <2>4. u - 1 \in U
    BY <2>1, <2>3
  <2> QED BY <1>1, <2>4
<1> QED BY <1>2, <1>3

(* A set that has 0, and the successor of each of its numbers, has them    *)
(* all.                                                                    *)
LEMMA AllNumbers ==
  ASSUME NEW S, 0 \in S, \A n \in Nat : n \in S => n + 1 \in S
  PROVE  Nat \subseteq S
<1> SUFFICES ASSUME Nat \ S # {} PROVE FALSE
  OBVIOUS
<1>1. PICK m \in Nat \ S : \A x \in Nat \ S : m <= x
  BY LeastMember
<1>2. m - 1 \in Nat /\ m - 1 \in S
  BY <1>1
<1>3. (m - 1) + 1 \in S
  BY <1>2
<1> QED BY <1>1, <1>3

(* f goes from m to n, from a on, by the step g. *)
Iterates(f, a, m, n, g) == /\ f[m] = a
                           /\ \A o \in m + 1 .. n : f[o] = g[<<o - 1, f[o - 1]>>]

(* A sequence from m to n can be defined by its first member and a step.   *)
LEMMA StepByStep ==
  ASSUME NEW S, NEW a \in S, NEW m \in Nat, NEW n \in Nat, m <= n, NEW g \in [Nat \X S -> S]
  PROVE  \E f \in [m .. n -> S] : Iterates(f, a, m, n, g)
<1> DEFINE Goes(f, k) == /\ f \in [m .. m + k -> S]
                         /\ f[m] = a
                         /\ \A o \in m + 1 .. m + k : f[o] = g[<<o - 1, f[o - 1]>>]
           P == {k \in Nat : \E f : Goes(f, k)}
<1>1. 0 \in P
  <2> DEFINE f == [o \in m .. m + 0 |-> a]
  <2>1. f \in [m .. m + 0 -> S] /\ f[m] = a
    OBVIOUS
  <2>2. m + 1 .. m + 0 = {}
    OBVIOUS
  <2> HIDE DEF f
  <2>3. Goes(f, 0)
    BY <2>1, <2>2
  <2> QED BY <2>3
<1>2. \A k \in Nat : k \in P => k + 1 \in P
  <2> SUFFICES ASSUME NEW k \in Nat, k \in P PROVE \E f : Goes(f, k + 1)
    OBVIOUS
  <2>1. PICK f : Goes(f, k)
    OBVIOUS
  <2> DEFINE z == m + (k + 1)
             h == [o \in m .. z |-> IF o = z THEN g[<<m + k, f[m + k]>>] ELSE f[o]]
  <2>2. /\ m + k \in m .. m + k /\ m + k \in Nat /\ z \in m .. z /\ z - 1 = m + k
        /\ m \in m .. m + k
        /\ \A o \in m .. z : o # z => o \in m .. m + k
        /\ \A o \in m + 1 .. z : o # z => o \in m + 1 .. m + k
        /\ \A o \in m + 1 .. z : o - 1 \in m .. m + k /\ o - 1 # z /\ o - 1 \in m .. z /\ o \in m .. z
        /\ m # z /\ m \in m .. z
    OBVIOUS
  <2>3. f[m + k] \in S /\ g[<<m + k, f[m + k]>>] \in S
    BY <2>1, <2>2
  <2> HIDE DEF z
  <2>4. h \in [m .. z -> S] /\ h[m] = a
    BY <2>1, <2>2, <2>3
  <2>5. ASSUME NEW o \in m + 1 .. z PROVE h[o] = g[<<o - 1, h[o - 1]>>]
    <3>1. h[o - 1] = f[o - 1]
      BY <2>2
    <3>2. CASE o = z
      BY <2>2, <3>1, <3>2
    <3>3. CASE o # z
      <4>1. h[o] = f[o] /\ f[o] = g[<<o - 1, f[o - 1]>>]
        BY <2>1, <2>2, <3>3
      <4> QED BY <3>1, <4>1
    <3> QED BY <3>2, <3>3
  <2> HIDE DEF h
  <2>6. Goes(h, k + 1)
    BY <2>4, <2>5 DEF z
  <2> QED BY <2>6
<1> HIDE DEF P
<1>3. Nat \subseteq P
  BY <1>1, <1>2, AllNumbers
<1>4. n - m \in Nat /\ m + (n - m) = n
  OBVIOUS
<1>5. n - m \in P
  BY <1>3, <1>4
<1>6. \E f : Goes(f, n - m)
  BY <1>5 DEF P
<1> QED BY <1>4, <1>6 DEF Iterates
-----------------------------------------------------------------------------
(* What the provers do not know of 2 ^ o unless o is a numeral: it doubles *)
(* from each exponent that an int has room for to the next.                *)
LEMMA Doubles == \A o \in 0 .. 29 : 2 ^ (o + 1) = 2 * 2 ^ o
<1> DEFINE D(o) == 2 ^ (o + 1) = 2 * 2 ^ o
<1>1. /\ D(0) /\ D(1) /\ D(2) /\ D(3) /\ D(4)
      /\ D(5) /\ D(6) /\ D(7) /\ D(8) /\ D(9)
      /\ D(10) /\ D(11) /\ D(12) /\ D(13) /\ D(14)
      /\ D(15) /\ D(16) /\ D(17) /\ D(18) /\ D(19)
      /\ D(20) /\ D(21) /\ D(22) /\ D(23) /\ D(24)
      /\ D(25) /\ D(26) /\ D(27) /\ D(28) /\ D(29)
  OBVIOUS
<1>2. \A o \in 0 .. 29 :
      \/ o = 0 \/ o = 1 \/ o = 2 \/ o = 3 \/ o = 4
      \/ o = 5 \/ o = 6 \/ o = 7 \/ o = 8 \/ o = 9
      \/ o = 10 \/ o = 11 \/ o = 12 \/ o = 13 \/ o = 14
      \/ o = 15 \/ o = 16 \/ o = 17 \/ o = 18 \/ o = 19
      \/ o = 20 \/ o = 21 \/ o = 22 \/ o = 23 \/ o = 24
      \/ o = 25 \/ o = 26 \/ o = 27 \/ o = 28 \/ o = 29
  OBVIOUS
<1> HIDE DEF D
<1>3. \A o \in 0 .. 29 : D(o)
  BY ONLY <1>1, <1>2
<1> QED BY <1>3 DEF D

(* The powers of two that an int has room for. *)
LEMMA Powers == \A o \in 0 .. 30 : 2 ^ o \in Nat \ {0}
<1> DEFINE P == {n \in Nat : n <= 30 => 2 ^ n \in Nat \ {0}}
<1>1. 0 \in P
  OBVIOUS
<1>2. \A n \in Nat : n \in P => n + 1 \in P
  <2> SUFFICES ASSUME NEW n \in Nat, n \in P, n + 1 <= 30 PROVE 2 ^ (n + 1) \in Nat \ {0}
    OBVIOUS
  <2>1. n \in 0 .. 29 /\ 2 ^ n \in Nat \ {0}
    OBVIOUS
  <2>2. 2 ^ (n + 1) = 2 * 2 ^ n
    BY <2>1, Doubles, Zenon
  <2>3. \A d \in Nat \ {0} : 2 * d \in Nat \ {0}
    OBVIOUS
  <2> QED BY <2>1, <2>2, <2>3, Zenon
<1> HIDE DEF P
<1>3. Nat \subseteq P
  BY <1>1, <1>2, AllNumbers
<1> QED BY <1>3 DEF P

(* The smaller of two powers divides the larger. *)
LEMMA PowersDivide ==
  ASSUME NEW i \in 0 .. 30, NEW j \in 0 .. 30, i <= j
  PROVE  \E k \in Nat \ {0} : 2 ^ j = k * 2 ^ i
<1> DEFINE P == {n \in Nat : i + n <= 30 => \E k \in Nat \ {0} : 2 ^ (i + n) = k * 2 ^ i}
<1>1. 0 \in P
  <2>1. 2 ^ i \in Nat \ {0}
    BY Powers, Zenon
  <2>2. i + 0 = i /\ \A d \in Nat \ {0} : d = 1 * d
    OBVIOUS
  <2>3. 2 ^ (i + 0) = 1 * 2 ^ i
    BY <2>1, <2>2, Zenon
  <2> QED BY <2>3
<1>2. \A n \in Nat : n \in P => n + 1 \in P
  <2> SUFFICES ASSUME NEW n \in Nat, n \in P, i + (n + 1) <= 30
               PROVE  \E k \in Nat \ {0} : 2 ^ (i + (n + 1)) = k * 2 ^ i
    OBVIOUS
  <2>1. i + n \in 0 .. 29 /\ i + (n + 1) = (i + n) + 1
    OBVIOUS
  <2>2. PICK k \in Nat \ {0} : 2 ^ (i + n) = k * 2 ^ i
    BY <2>1
  <2>3. 2 ^ (i + (n + 1)) = 2 * 2 ^ (i + n)
    BY <2>1, Doubles
  <2>4. 2 * (k * 2 ^ i) = (2 * k) * 2 ^ i /\ 2 * k \in Nat \ {0}
    BY Powers
  <2> QED BY <2>2, <2>3, <2>4
<1> HIDE DEF P
<1>3. Nat \subseteq P
  BY <1>1, <1>2, AllNumbers
<1>4. j - i \in Nat /\ i + (j - i) = j /\ i + (j - i) <= 30
  OBVIOUS
<1>5. j - i \in P
  BY <1>3, <1>4
<1> QED BY <1>4, <1>5 DEF P
-----------------------------------------------------------------------------

(* The list that starts at head and goes on through next holds the nodes   *)
(* of S, s[1] to s[n] in this order.                                       *)
Linked(n, s, head, next, S) ==
  /\ n \in Nat
  /\ s \in [1 .. n -> S]
  /\ \A x \in S : \E i \in 1 .. n : s[i] = x
  /\ \A i, j \in 1 .. n : s[i] = s[j] => i = j
  /\ n = 0 => head = NULL
  /\ n # 0 => head = s[1] /\ next[s[n]] = NULL
  /\ \A i \in 1 .. n - 1 : next[s[i]] = s[i + 1]

IsList(head, next, S) == \E n \in Nat : \E s \in [1 .. n -> S] : Linked(n, s, head, next, S)

(* Walking along such a list meets its nodes, in order, and nothing else.  *)
LEMMA ChainIsLinked ==
  ASSUME NEW n, NEW s, NEW head, NEW next, NEW S, Linked(n, s, head, next, S),
         NULL \notin S, NEW bound \in Nat, n <= bound, 1 <= bound
  PROVE  Chain(head, next, bound, NULL) = s
<1> DEFINE F(f) == [m \in 1 .. bound |-> IF m = 1 THEN head
                      ELSE IF f[m - 1] = NULL THEN NULL ELSE next[f[m - 1]]]
           node == CHOOSE f : f = F(f)
           g == [m \in 1 .. bound |-> IF m <= n THEN s[m] ELSE NULL]
<1>1. Chain(head, next, bound, NULL) = [m \in {k \in 1 .. bound : node[k] # NULL} |-> node[m]]
  BY DEF Chain
<1>2. g = F(g)
  <2>1. \A m \in 1 .. bound : g[m] = IF m = 1 THEN head
                      ELSE IF g[m - 1] = NULL THEN NULL ELSE next[g[m - 1]]
    BY DEF Linked
  <2> QED BY <2>1
<1>3. node = F(node)
  <2>1. \E f : f = F(f)
    BY <1>2
  <2> HIDE DEF F
  <2> QED BY <2>1
<1> HIDE DEF node
<1>4. \A m \in 1 .. bound : node[m] = g[m]
  <2> DEFINE P == {m \in Nat : m \in 1 .. bound => node[m] = g[m]}
  <2>1. 0 \in P
    OBVIOUS
  <2>2. \A m \in Nat : m \in P => m + 1 \in P
    BY <1>2, <1>3
  <2>3. Nat \subseteq P
    <3> HIDE DEF P
    <3> QED BY <2>1, <2>2, AllNumbers, Zenon
  <2>4. \A m \in Nat : m \in 1 .. bound => node[m] = g[m]
    <3> HIDE DEF g
    <3> QED BY <2>3, Zenon
  <2> HIDE DEF g, P
  <2> QED BY <2>4
<1>5. {k \in 1 .. bound : node[k] # NULL} = 1 .. n
  BY <1>4 DEF Linked
<1>6. s = [m \in 1 .. n |-> s[m]]
  BY DEF Linked
<1>7. \A m \in 1 .. n : node[m] = s[m]
  BY <1>4 DEF Linked
<1> QED BY <1>1, <1>5, <1>6, <1>7

(* Its length is the number of its nodes. *)
LEMMA LinkedLength ==
  ASSUME NEW n, NEW s, NEW head, NEW next, NEW S, Linked(n, s, head, next, S)
  PROVE  IsFiniteSet(S) /\ Cardinality(S) = n
<1>1. n \in Nat /\ s \in Bijection(1 .. n, S)
  BY Zenon DEF Linked, Bijection, Injection, Surjection, IsInjective
<1>2. ExistsBijection(1 .. n, S)
  BY <1>1, Zenon DEF ExistsBijection
<1> QED BY <1>1, <1>2, FS_CountingElements, FS_NatBijection

(* So what Chain finds is a list of S. *)
LEMMA ListIsChain ==
  ASSUME NEW head, NEW next, NEW S, IsList(head, next, S), NULL \notin S,
         NEW bound \in Nat, Cardinality(S) < bound
  PROVE  IsChainOf(Chain(head, next, bound, NULL), S)
<1>1. PICK n \in Nat : \E s \in [1 .. n -> S] : Linked(n, s, head, next, S)
  BY DEF IsList
<1>2. PICK s \in [1 .. n -> S] : Linked(n, s, head, next, S)
  BY <1>1
<1>3. Cardinality(S) = n
  BY <1>2, LinkedLength
<1>4. Chain(head, next, bound, NULL) = s
  BY <1>2, <1>3, ChainIsLinked
<1>5. Nodes(s) = S /\ Len(s) = n
  BY <1>2 DEF Nodes, Linked
<1> QED BY <1>3, <1>4, <1>5 DEF IsChainOf
-----------------------------------------------------------------------------
(* The empty list. *)
LEMMA EmptyList ==
  ASSUME NEW next
  PROVE  IsList(NULL, next, {})
<1> DEFINE s == [i \in 1 .. 0 |-> NULL]
<1>1. s \in [1 .. 0 -> {}]
  OBVIOUS
<1>2. Linked(0, s, NULL, next, {})
  BY <1>1 DEF Linked
<1> QED BY <1>1, <1>2 DEF IsList

(* Its head is NULL exactly if nothing is on it, else a node. *)
LEMMA HeadOfList ==
  ASSUME NEW head, NEW next, NEW S, IsList(head, next, S), NULL \notin S
  PROVE  /\ head = NULL <=> S = {}
         /\ head # NULL => head \in S
         /\ \A x \in S : next[x] \in (S \ {head}) \cup {NULL}
<1>1. PICK n \in Nat : \E s \in [1 .. n -> S] : Linked(n, s, head, next, S)
  BY DEF IsList
<1>2. PICK s \in [1 .. n -> S] : Linked(n, s, head, next, S)
  BY <1>1
<1>3. /\ head = NULL <=> S = {}
      /\ head # NULL => head \in S
  BY <1>2 DEF Linked
<1>4. ASSUME NEW x \in S PROVE next[x] \in (S \ {head}) \cup {NULL}
  <2>1. PICK i \in 1 .. n : s[i] = x
    BY <1>2 DEF Linked
  <2>2. CASE i = n
    BY <1>2, <2>1, <2>2 DEF Linked
  <2>3. CASE i \in 1 .. n - 1
    <3>1. next[x] = s[i + 1] /\ i + 1 \in 1 .. n /\ 1 \in 1 .. n /\ i + 1 # 1
      BY <1>2, <2>1, <2>3 DEF Linked
    <3>2. s[i + 1] # s[1] /\ head = s[1]
      BY <1>2, <3>1 DEF Linked
    <3> QED BY <3>1, <3>2
  <2> QED BY <2>1, <2>2, <2>3
<1> QED BY <1>3, <1>4

(* Writing to other nodes leaves a list alone. *)
LEMMA SameList ==
  ASSUME NEW head, NEW next, NEW S, IsList(head, next, S),
         NEW next2, \A x \in S : next2[x] = next[x]
  PROVE  IsList(head, next2, S)
<1>1. PICK n \in Nat : \E s \in [1 .. n -> S] : Linked(n, s, head, next, S)
  BY DEF IsList
<1>2. PICK s \in [1 .. n -> S] : Linked(n, s, head, next, S)
  BY <1>1
<1>3. \A i \in 1 .. n : next2[s[i]] = next[s[i]]
  BY <1>2
<1>4. Linked(n, s, head, next2, S)
  BY <1>2, <1>3 DEF Linked
<1> QED BY <1>2, <1>4 DEF IsList

(* A sequence of n nodes without the k-th, and with q in front. *)
Drop(n, s, k) == [j \in 1 .. n - 1 |-> s[IF j < k THEN j ELSE j + 1]]
Front(n, s, q) == [i \in 1 .. n + 1 |-> IF i = 1 THEN q ELSE s[i - 1]]

(* Taking the node at position k off, the first one by moving the head,    *)
(* another by changing the link of the one before it.                      *)
Unlinks(s, k, S, head, next, head2, next2) ==
  /\ k = 1 => head2 = next[s[k]] /\ \A x \in S \ {s[k]} : next2[x] = next[x]
  /\ k # 1 => /\ head2 = head /\ next2[s[k - 1]] = next[s[k]]
              /\ \A x \in S \ {s[k - 1], s[k]} : next2[x] = next[x]

(* What is left is a list. *)
LEMMA DropLinked ==
  ASSUME NEW n, NEW s, NEW head, NEW next, NEW S, Linked(n, s, head, next, S),
         NEW k \in 1 .. n, NEW head2, NEW next2,
         Unlinks(s, k, S, head, next, head2, next2)
  PROVE  Linked(n - 1, Drop(n, s, k), head2, next2, S \ {s[k]})
<1> USE DEF Unlinks
<1>0. n \in Nat /\ n - 1 \in Nat /\ s \in [1 .. n -> S]
  BY DEF Linked
<1> DEFINE T == S \ {s[k]}
           r == [j \in 1 .. n - 1 |-> s[IF j < k THEN j ELSE j + 1]]
<1>1. \A i, j \in 1 .. n : s[i] = s[j] => i = j
  BY DEF Linked
<1>2. \A j \in 1 .. n - 1 : /\ j < k => r[j] = s[j] /\ j \in 1 .. n
                            /\ ~(j < k) => r[j] = s[j + 1] /\ j + 1 \in 1 .. n
                            /\ r[j] \in T
  BY <1>0, <1>1
<1>3. r \in [1 .. n - 1 -> T]
  BY <1>2
<1>4. \A x \in T : \E i \in 1 .. n - 1 : r[i] = x
  <2> TAKE x \in T
  <2>1. PICK i \in 1 .. n : s[i] = x
    BY DEF Linked
  <2>2. i # k
    BY <2>1
  <2>3. CASE i < k
    <3>1. i \in 1 .. n - 1 /\ r[i] = x
      BY <1>0, <2>1, <2>3
    <3> QED BY <3>1
  <2>4. CASE i > k
    <3>1. i - 1 \in 1 .. n - 1 /\ ~(i - 1 < k) /\ (i - 1) + 1 = i
      BY <1>0, <2>4
    <3>2. r[i - 1] = x
      BY <1>2, <2>1, <3>1
    <3> QED BY <3>1, <3>2
  <2> QED BY <1>0, <2>2, <2>3, <2>4
<1>5. \A i, j \in 1 .. n - 1 : r[i] = r[j] => i = j
  <2> HIDE DEF r
  <2> QED BY <1>0, <1>1, <1>2
<1>6. n - 1 = 0 => head2 = NULL
  BY <1>0 DEF Linked
<1>7. n - 1 # 0 => head2 = r[1]
  BY <1>0 DEF Linked
<1> HIDE DEF r
<1>8. ASSUME NEW i \in 1 .. n - 2 PROVE next2[r[i]] = r[i + 1]
  <2>0. i \in 1 .. n - 1 /\ i + 1 \in 1 .. n - 1
    BY <1>0
  <2>1. CASE i + 1 < k
    <3>1. r[i] = s[i] /\ r[i + 1] = s[i + 1] /\ i # k - 1 /\ i \in 1 .. n /\ k # 1 /\ k - 1 \in 1 .. n
      BY <1>0, <1>2, <2>0, <2>1
    <3>2. s[i] # s[k - 1] /\ s[i] # s[k] /\ s[i] \in S
      BY <1>0, <1>1, <2>1, <3>1
    <3>3. next2[s[i]] = next[s[i]]
      BY <3>1, <3>2
    <3> QED BY <3>1, <3>3 DEF Linked
  <2>2. CASE i + 1 = k
    <3>1. r[i] = s[k - 1] /\ r[i + 1] = s[k + 1] /\ k # 1 /\ k \in 1 .. n - 1
      <4>1. i < k /\ ~(i + 1 < k) /\ i = k - 1 /\ (i + 1) + 1 = k + 1
        BY <2>2
      <4> QED BY <1>0, <1>2, <2>0, <2>2, <4>1
    <3> QED BY <3>1 DEF Linked
  <2>3. CASE i + 1 > k
    <3>1. r[i] = s[i + 1] /\ r[i + 1] = s[(i + 1) + 1] /\ i + 1 \in 1 .. n - 1 /\ i + 1 \in 1 .. n
      <4>1. ~(i < k) /\ ~(i + 1 < k)
        BY <2>3
      <4> QED BY <1>0, <1>2, <2>0, <4>1
    <3>2. next[s[i + 1]] = s[(i + 1) + 1]
      BY <3>1 DEF Linked
    <3>3. s[i + 1] # s[k] /\ s[i + 1] \in S
      BY <1>0, <1>1, <2>3, <3>1
    <3>4. k # 1 => s[i + 1] # s[k - 1]
      <4>1. k # 1 => k - 1 \in 1 .. n /\ i + 1 # k - 1
        BY <1>0, <2>3
      <4> QED BY <1>1, <3>1, <4>1
    <3>5. next2[s[i + 1]] = next[s[i + 1]]
      BY <3>3, <3>4
    <3> QED BY <3>1, <3>2, <3>5
  <2> QED BY <2>1, <2>2, <2>3
<1>9. n - 1 # 0 => next2[r[n - 1]] = NULL
  <2> SUFFICES ASSUME n - 1 # 0 PROVE next2[r[n - 1]] = NULL
    OBVIOUS
  <2>0. n - 1 \in 1 .. n - 1 /\ next[s[n]] = NULL /\ n \in 1 .. n
    BY <1>0 DEF Linked
  <2>1. CASE k = n
    <3>1. r[n - 1] = s[k - 1] /\ k # 1
      BY <1>2, <2>0, <2>1
    <3> QED BY <2>0, <2>1, <3>1
  <2>2. CASE k # n
    <3>1. ~(n - 1 < k) /\ (n - 1) + 1 = n
      BY <1>0, <2>2
    <3>2. r[n - 1] = s[n]
      BY <1>2, <2>0, <3>1
    <3>3. s[n] # s[k] /\ s[n] \in S
      BY <1>0, <1>1, <2>0, <2>2
    <3>4. k # 1 => s[n] # s[k - 1]
      <4>1. k # 1 => k - 1 \in 1 .. n /\ n # k - 1
        BY <1>0
      <4> QED BY <1>1, <2>0, <4>1
    <3> QED BY <2>0, <3>2, <3>3, <3>4
  <2> QED BY <2>1, <2>2
<1> HIDE DEF T
<1>10. (n - 1) - 1 = n - 2
  BY <1>0
<1>11. Linked(n - 1, r, head2, next2, T)
  BY <1>0, <1>3, <1>4, <1>5, <1>6, <1>7, <1>8, <1>9, <1>10 DEF Linked
<1> QED BY <1>11 DEF r, T, Drop

(* Putting a node in front. *)
LEMMA PushLinked ==
  ASSUME NEW n \in Nat, NEW S, NEW s \in [1 .. n -> S], NEW head, NEW next,
         Linked(n, s, head, next, S), NEW q, q \notin S,
         NEW next2, next2[q] = head, \A x \in S : next2[x] = next[x]
  PROVE  Linked(n + 1, Front(n, s, q), q, next2, S \cup {q})
<1>2. n \in Nat /\ s \in [1 .. n -> S] /\ Linked(n, s, head, next, S)
  BY DEF Linked
<1> DEFINE r == [i \in 1 .. n + 1 |-> IF i = 1 THEN q ELSE s[i - 1]]
           T == S \cup {q}
<1>3. r \in [1 .. n + 1 -> T]
  BY <1>2
<1>4. \A x \in T : \E i \in 1 .. n + 1 : r[i] = x
  <2> TAKE x \in T
  <2>1. CASE x = q
    <3>1. 1 \in 1 .. n + 1 /\ r[1] = q
      OBVIOUS
    <3> QED BY <2>1, <3>1
  <2>2. CASE x \in S
    <3>1. PICK k \in 1 .. n : s[k] = x
      BY <1>2, <2>2 DEF Linked
    <3>2. k + 1 \in 1 .. n + 1 /\ r[k + 1] = x
      BY <3>1
    <3> QED BY <3>2
  <2> QED BY <2>1, <2>2
<1>5. \A i, j \in 1 .. n + 1 : r[i] = r[j] => i = j
  <2>1. \A i \in 2 .. n + 1 : r[i] = s[i - 1] /\ i - 1 \in 1 .. n /\ r[i] \in S
    BY <1>2
  <2>2. r[1] = q
    OBVIOUS
  <2> HIDE DEF r
  <2>3. \A i, j \in 2 .. n + 1 : r[i] = r[j] => i = j
    BY <1>2, <2>1 DEF Linked
  <2> QED BY <2>1, <2>2, <2>3
<1>6. q = r[1] /\ next2[r[n + 1]] = NULL
  <2>1. CASE n = 0
    BY <1>2, <2>1 DEF Linked
  <2>2. CASE n # 0
    BY <1>2, <2>2 DEF Linked
  <2> QED BY <2>1, <2>2
<1>7. \A i \in 1 .. (n + 1) - 1 : next2[r[i]] = r[i + 1]
  <2> TAKE i \in 1 .. (n + 1) - 1
  <2>1. CASE i = 1
    BY <1>2, <2>1 DEF Linked
  <2>2. CASE i # 1
    <3>1. i - 1 \in 1 .. n - 1 /\ i - 1 \in 1 .. n /\ i \in 1 .. n
      BY <2>2
    <3>2. r[i] = s[i - 1] /\ r[i + 1] = s[i] /\ next2[s[i - 1]] = next[s[i - 1]]
      BY <1>2, <2>2, <3>1
    <3>3. next[s[i - 1]] = s[(i - 1) + 1]
      BY <1>2, <3>1 DEF Linked
    <3>4. (i - 1) + 1 = i
      OBVIOUS
    <3> HIDE DEF r
    <3> QED BY <3>2, <3>3, <3>4
  <2> QED BY <2>1, <2>2
<1> HIDE DEF r, T
<1>8. Linked(n + 1, r, q, next2, T)
  BY <1>3, <1>4, <1>5, <1>6, <1>7 DEF Linked
<1> QED BY <1>8 DEF r, T, Front

(* Both without the sequence. *)
LEMMA PopList ==
  ASSUME NEW head, NEW next, NEW S, IsList(head, next, S), head # NULL
  PROVE  IsList(next[head], next, S \ {head})
<1>1. PICK n \in Nat : \E s \in [1 .. n -> S] : Linked(n, s, head, next, S)
  BY DEF IsList
<1>2. PICK s \in [1 .. n -> S] : Linked(n, s, head, next, S)
  BY <1>1
<1>3. n - 1 \in Nat /\ head = s[1] /\ 1 \in 1 .. n
  BY <1>2 DEF Linked
<1> DEFINE r == Drop(n, s, 1)
<1>4. Linked(n - 1, r, next[head], next, S \ {head})
  <2>1. Unlinks(s, 1, S, head, next, next[head], next)
    BY <1>3 DEF Unlinks
  <2> QED BY <1>2, <1>3, <2>1, DropLinked
<1> HIDE DEF r
<1>5. n - 1 \in Nat /\ r \in [1 .. n - 1 -> S \ {head}]
  BY <1>4 DEF Linked
<1> QED BY <1>4, <1>5 DEF IsList

(* A list has one node more after a push. *)
LEMMA PushList ==
  ASSUME NEW head, NEW next, NEW S, IsList(head, next, S), NEW q, q \notin S,
         NEW next2, next2[q] = head, \A x \in S : next2[x] = next[x]
  PROVE  IsList(q, next2, S \cup {q})
<1>1. PICK n \in Nat : \E s \in [1 .. n -> S] : Linked(n, s, head, next, S)
  BY DEF IsList
<1>2. PICK s \in [1 .. n -> S] : Linked(n, s, head, next, S)
  BY <1>1
<1> DEFINE r == Front(n, s, q)
<1>3. Linked(n + 1, r, q, next2, S \cup {q})
  BY <1>2, PushLinked
<1> HIDE DEF r
<1>4. n + 1 \in Nat /\ r \in [1 .. n + 1 -> S \cup {q}]
  BY <1>3 DEF Linked
<1> QED BY <1>3, <1>4 DEF IsList
-----------------------------------------------------------------------------
(* One allocator runs: a step is a step of one of them and leaves the      *)
(* variables of the others alone.                                          *)
LEMMA OneRuns ==
  ASSUME [Next]_vars
  PROVE  /\ Bump!Next \/ UNCHANGED bumpVars
         /\ Pool!Next \/ UNCHANGED poolVars
         /\ Links!Next \/ UNCHANGED linksVars
         /\ Slab!Next \/ UNCHANGED slabVars
         /\ Buddy!Next \/ UNCHANGED buddyVars
BY DEF Next, vars

(* 01_bump.c: what was handed out lies below the pointer. *)
BumpInv == /\ bump \in 0 .. ArenaBytes
           /\ mapped \in BOOLEAN
           /\ \A b \in held : b \subseteq 0 .. bump - 1

(* Rounding up to the alignment does not wrap and never makes a request    *)
(* smaller, and neither does the sum with the pointer wrap.                *)
LEMMA AlignUpGrows ==
  ASSUME NEW req \in ArenaRequests, bump \in 0 .. ArenaBytes
  PROVE  /\ req \in Nat /\ Bump!ALIGN_UP(req) \in Nat /\ req <= Bump!ALIGN_UP(req)
         /\ Bump!Sum(Bump!ALIGN_UP(req)) = ArenaBase + bump + Bump!ALIGN_UP(req)
<1>1. /\ req \in Nat /\ SizeMod \in Nat /\ ArenaBase \in Nat /\ ArenaBytes \in Nat
      /\ ArenaBase + ArenaBytes + req + 15 < SizeMod
  BY AllocatorsAssumption DEF Bump!RequestsAssumption, Bump!ALIGN
<1>2. (req + 16 - 1) % SizeMod = req + 15
  BY <1>1
<1>3. /\ Bump!ALIGN_UP(req) \in Nat /\ req <= Bump!ALIGN_UP(req)
      /\ Bump!ALIGN_UP(req) <= req + 15
  BY <1>1, <1>2 DEF Bump!ALIGN_UP, Bump!ALIGN
<1> DEFINE sz == Bump!ALIGN_UP(req)
<1> HIDE DEF sz
<1>4. sz \in Nat /\ sz <= req + 15
  BY <1>3 DEF sz
<1>5. ArenaBase + bump + sz \in 0 .. SizeMod - 1
  BY <1>1, <1>4
<1>6. Bump!Sum(sz) = ArenaBase + bump + sz
  BY <1>1, <1>5 DEF Bump!Sum
<1> QED BY <1>1, <1>3, <1>6 DEF sz

(* A step that keeps the invariant is one of BlockAllocator. *)
LEMMA BumpStep ==
  BumpInv /\ [Next]_vars => BumpInv' /\ (Bump!Blocks!Next \/ UNCHANGED held)
<1> SUFFICES ASSUME BumpInv, [Next]_vars PROVE BumpInv' /\ (Bump!Blocks!Next \/ UNCHANGED held)
  OBVIOUS
<1>0. ArenaBytes \in Nat /\ ArenaBase \in Nat
  BY AllocatorsAssumption DEF Bump!RequestsAssumption
<1>1. ASSUME NEW req \in ArenaRequests, Bump!arena_alloc(req)
      PROVE  BumpInv' /\ (Bump!Blocks!Next \/ UNCHANGED held)
  <2> DEFINE sz == Bump!ALIGN_UP(req)
             e == bump .. bump + req - 1
  <2>1. req \in Nat /\ sz \in Nat /\ req <= sz /\ bump \in Nat
        /\ Bump!Sum(sz) = ArenaBase + bump + sz
    BY AlignUpGrows DEF BumpInv
  <2>0. (Bump!Fits(sz) <=> bump + sz <= ArenaBytes) /\ Bump!Sum(sz) - ArenaBase = bump + sz
    <3> HIDE DEF sz
    <3> QED BY <1>0, <2>1 DEF Bump!Fits
  <2>2. CASE bump + sz > ArenaBytes
    <3>1. ~ Bump!Fits(sz)
      <4> HIDE DEF sz
      <4> QED BY <1>0, <2>0, <2>1, <2>2
    <3> QED BY <1>1, <3>1 DEF Bump!arena_alloc, BumpInv
  <2>3. CASE bump + sz <= ArenaBytes
    <3>1. held' = held \cup {e} /\ bump' = bump + sz /\ mapped' = mapped
      BY <1>1, <2>0, <2>3 DEF Bump!arena_alloc
    <3> HIDE DEF sz
    <3>2. e \subseteq 0 .. ArenaBytes - 1 /\ e \subseteq 0 .. bump' - 1
      BY <1>0, <2>1, <2>3, <3>1 DEF BumpInv
    <3>3. \A b \in held : b \cap e = {} /\ b \subseteq 0 .. bump' - 1
      BY <1>0, <2>1, <2>3, <3>1 DEF BumpInv
    <3> HIDE DEF e
    <3>4. Bump!Blocks!Next
      BY <3>1, <3>2, <3>3, Zenon DEF Bump!Blocks!Next, Bump!Blocks!Alloc
    <3>5. bump' \in 0 .. ArenaBytes
      BY <1>0, <2>1, <2>3, <3>1 DEF BumpInv
    <3>6. \A b \in held' : b \subseteq 0 .. bump' - 1
      BY <3>1, <3>2, <3>3, Zenon
    <3> QED BY <3>1, <3>4, <3>5, <3>6 DEF BumpInv
  <2> QED BY <1>0, <2>1, <2>2, <2>3 DEF BumpInv
<1>2. CASE Bump!arena_reset \/ Bump!arena_destroy
  <2>1. held' = {} /\ bump' \in 0 .. ArenaBytes
    BY <1>0, <1>2 DEF Bump!arena_reset, Bump!arena_destroy, BumpInv
  <2>2. mapped' \in BOOLEAN
    BY <1>2 DEF Bump!arena_reset, Bump!arena_destroy, BumpInv
  <2> QED BY <2>1, <2>2 DEF BumpInv, Bump!Blocks!Next, Bump!Blocks!FreeAll
<1>3. CASE UNCHANGED bumpVars
  BY <1>3 DEF bumpVars, BumpInv
<1> QED BY <1>1, <1>2, <1>3, OneRuns DEF Bump!Next, Bump!NoArena, Bump!vars, bumpVars

(* 01_bump.c, for an arena of any size at any address and any requests     *)
(* that wrap neither when they are rounded nor when they are added to the  *)
(* pointer: blocks handed out between two resets lie in the arena and are  *)
(* disjoint.                                                               *)
THEOREM BumpCorrect == Spec => BumpImplementsBlocks
<1>1. Init => BumpInv /\ Bump!Blocks!Init
  BY AllocatorsAssumption DEF Init, Bump!Init, BumpInv, Bump!RequestsAssumption,
     Bump!Blocks!Init
<1> QED
  BY <1>1, BumpStep, PTL DEF Spec, BumpImplementsBlocks, Bump!ImplementsBlocks, Bump!Blocks!Spec
-----------------------------------------------------------------------------
(* 02_pool.c: the list through the free slots is a list of the slots that  *)
(* nobody holds.                                                           *)
PoolInv == /\ Pool!TypeOK
           /\ pool_mapped => IsList(free_head, word, Pool!Slots \ live)

(* Every call and every write to an object keeps it. *)
LEMMA PoolStep == PoolInv /\ [Next]_vars => PoolInv'
<1> SUFFICES ASSUME PoolInv, [Next]_vars PROVE PoolInv'
  OBVIOUS
<1>0. /\ PoolSlots \in Nat /\ NULL \notin Int /\ NULL \notin Pool!Slots
  BY AllocatorsAssumption DEF Pool!PoolAssumption, Pool!Slots
<1> DEFINE F == Pool!Slots \ live
<1>1. CASE pool_mapped /\ Pool!pool_alloc
  <2>1. CASE free_head = NULL
    BY <1>1, <2>1 DEF Pool!pool_alloc, Pool!vars, PoolInv, Pool!TypeOK
  <2>2. CASE free_head # NULL
    <3>1. /\ live' = live \cup {free_head} /\ free_head' = word[free_head]
          /\ UNCHANGED <<word, pool_mapped>>
      BY <1>1, <2>2 DEF Pool!pool_alloc, Pool!PopHead
    <3>2. IsList(free_head, word, F)
      BY <1>1 DEF PoolInv
    <3>3. /\ free_head \in F
          /\ word[free_head] \in F \cup {NULL}
      BY <1>0, <2>2, <3>2, HeadOfList
    <3>4. IsList(word[free_head], word, F \ {free_head})
      BY <2>2, <3>2, PopList
    <3>5. F \ {free_head} = Pool!Slots \ live'
      BY <3>1
    <3>6. IsList(free_head', word', Pool!Slots \ live')
      BY <3>1, <3>4, <3>5
    <3> QED BY <3>1, <3>3, <3>6 DEF PoolInv, Pool!TypeOK
  <2> QED BY <2>1, <2>2
<1>2. ASSUME pool_mapped, NEW q \in live, Pool!pool_free(q)
      PROVE  PoolInv'
  <2>1. /\ word' = [word EXCEPT ![q] = free_head] /\ free_head' = q /\ live' = live \ {q}
        /\ UNCHANGED pool_mapped
    BY <1>2 DEF Pool!pool_free, Pool!PushLink
  <2>2. q \in Pool!Slots /\ q \notin F /\ IsList(free_head, word, F)
    BY <1>2 DEF PoolInv, Pool!TypeOK
  <2>3. word'[q] = free_head /\ \A x \in F : word'[x] = word[x]
    BY <2>1, <2>2 DEF PoolInv, Pool!TypeOK
  <2>4. IsList(q, word', F \cup {q})
    BY <2>2, <2>3, PushList
  <2>5. F \cup {q} = Pool!Slots \ live'
    BY <2>1, <2>2
  <2>6. IsList(free_head', word', Pool!Slots \ live')
    BY <2>1, <2>4, <2>5
  <2> QED BY <2>1, <2>2, <2>6 DEF PoolInv, Pool!TypeOK
<1>3. ASSUME pool_mapped, NEW q \in live, Pool!UserWrite(q)
      PROVE  PoolInv'
  <2>1. PICK d \in PoolData : /\ word' = [word EXCEPT ![q] = d]
                              /\ UNCHANGED <<free_head, live, pool_mapped>>
    BY <1>3 DEF Pool!UserWrite
  <2>2. IsList(free_head, word, F) /\ \A x \in F : word'[x] = word[x]
    BY <1>3, <2>1 DEF PoolInv, Pool!TypeOK
  <2>3. IsList(free_head, word', F)
    BY <2>2, SameList
  <2>4. IsList(free_head', word', Pool!Slots \ live')
    BY <2>1, <2>3
  <2> QED BY <2>1, <2>4 DEF PoolInv, Pool!TypeOK
<1>4. CASE Pool!pool_destroy
  BY <1>4 DEF Pool!pool_destroy, PoolInv, Pool!TypeOK
<1>5. CASE UNCHANGED poolVars
  BY <1>5 DEF poolVars, PoolInv, Pool!TypeOK
<1> QED BY <1>1, <1>2, <1>3, <1>4, <1>5, OneRuns DEF Pool!Next, Pool!vars, poolVars

(* pool_init() links all the slots. *)
LEMMA PoolInit == Init => PoolInv
<1> SUFFICES ASSUME Init PROVE PoolInv
  OBVIOUS
<1>0. /\ PoolSlots \in Nat /\ NULL \notin Int
      /\ Pool!Slots = 1 .. PoolSlots
      /\ word = [s \in 1 .. PoolSlots |-> IF s = 1 THEN NULL ELSE s - 1]
      /\ free_head = IF PoolSlots = 0 THEN NULL ELSE PoolSlots
      /\ live = {} /\ pool_mapped \in BOOLEAN
  BY AllocatorsAssumption
     DEF Init, Pool!Init, Pool!PoolAssumption, Pool!Slots, Pool!FirstLink
<1> DEFINE s == [i \in 1 .. PoolSlots |-> PoolSlots + 1 - i]
<1>1. s \in [1 .. PoolSlots -> 1 .. PoolSlots]
  BY <1>0
<1>2. \A x \in 1 .. PoolSlots : \E i \in 1 .. PoolSlots : s[i] = x
  <2> TAKE x \in 1 .. PoolSlots
  <2>1. PoolSlots + 1 - x \in 1 .. PoolSlots /\ s[PoolSlots + 1 - x] = x
    BY <1>0
  <2> QED BY <2>1
<1>3. Linked(PoolSlots, s, free_head, word, 1 .. PoolSlots)
  BY <1>0, <1>1, <1>2 DEF Linked
<1>4. IsList(free_head, word, 1 .. PoolSlots)
  BY <1>0, <1>1, <1>3 DEF IsList
<1>5. Pool!Slots \ live = 1 .. PoolSlots
  BY <1>0
<1> QED BY <1>0, <1>4, <1>5 DEF PoolInv, Pool!TypeOK

(* The list is what Chain finds. *)
LEMMA PoolListIsFree == PoolInv => Pool!TypeOK /\ Pool!ListIsFree
<1> SUFFICES ASSUME PoolInv, pool_mapped PROVE Pool!ListIsFree
  BY DEF PoolInv, Pool!ListIsFree
<1> DEFINE F == Pool!Slots \ live
<1>1. /\ PoolSlots \in Nat /\ NULL \notin F /\ F \subseteq 1 .. PoolSlots
      /\ IsList(free_head, word, F)
  BY AllocatorsAssumption DEF Pool!PoolAssumption, Pool!Slots, PoolInv
<1>2. Cardinality(F) <= PoolSlots /\ Cardinality(F) \in Nat
  <2>1. IsFiniteSet(1 .. PoolSlots) /\ Cardinality(1 .. PoolSlots) = PoolSlots
    BY <1>1, FS_Interval
  <2> QED BY <1>1, <2>1, FS_Subset, FS_CardinalityType
<1>3. PoolSlots + 1 \in Nat /\ Cardinality(F) < PoolSlots + 1
  BY <1>1, <1>2
<1>4. IsChainOf(Chain(free_head, word, PoolSlots + 1, NULL), F)
  BY <1>1, <1>3, ListIsChain
<1>5. Pool!Chain(free_head, word, PoolSlots + 1, NULL) = Chain(free_head, word, PoolSlots + 1, NULL)
  BY DEF Pool!Chain, Chain
<1>6. ASSUME NEW c, IsChainOf(c, F) PROVE Pool!IsChainOf(c, F)
  <2>1. Pool!Cardinality(F) = Cardinality(F)
    BY DEF Pool!Cardinality, Cardinality, Pool!IsFiniteSet, IsFiniteSet
  <2> QED BY <1>6, <2>1, Zenon DEF Pool!IsChainOf, Pool!Nodes, IsChainOf, Nodes
<1> QED BY <1>4, <1>5, <1>6, Zenon DEF Pool!ListIsFree
-----------------------------------------------------------------------------
(* The doubly linked list of 04_freelist.c, s[1] to s[n]: the forward      *)
(* links make a list of S and the backward links of its nodes undo them.   *)
LinksAt(n, S, s, head, prev, next) ==
  /\ prev \in [Chunks -> Links!Pointers]
  /\ next \in [Chunks -> Links!Pointers]
  /\ Linked(n, s, head, next, S)
  /\ n # 0 => prev[s[1]] = NULL
  /\ \A j \in 1 .. n - 1 : prev[s[j + 1]] = s[j]

LinksInv == \E n \in Nat : \E S \in SUBSET Chunks : \E s \in [1 .. n -> S] :
              LinksAt(n, S, s, list_head, prev_free, next_free)

(* The list that the module's own definitions find. *)
LEMMA LinksList ==
  ASSUME NEW n \in Nat, NEW S \in SUBSET Chunks, NEW s \in [1 .. n -> S],
         NEW head, NEW next, Linked(n, s, head, next, S)
  PROVE  /\ Links!Chain(head, next, Links!Cardinality(Chunks) + 1, NULL) = s
         /\ Links!Nodes(s) = S
         /\ Len(s) = n /\ s \in Seq(Chunks) /\ DOMAIN s = 1 .. n
         /\ Links!Cardinality(S) = n
<1>1. \A T : Links!Cardinality(T) = Cardinality(T)
  BY DEF Links!Cardinality, Cardinality, Links!IsFiniteSet, IsFiniteSet
<1>2. NULL \notin S /\ IsFiniteSet(Chunks)
  BY AllocatorsAssumption DEF Links!NullAssumption, Links!IsFiniteSet, IsFiniteSet
<1>3. Cardinality(S) = n
  BY LinkedLength
<1>4. n <= Cardinality(Chunks) /\ Cardinality(Chunks) \in Nat
  BY <1>2, <1>3, FS_Subset, FS_CardinalityType
<1>5. Chain(head, next, Cardinality(Chunks) + 1, NULL) = s
  <2>1. Cardinality(Chunks) + 1 \in Nat /\ n <= Cardinality(Chunks) + 1 /\ 1 <= Cardinality(Chunks) + 1
    BY <1>4
  <2> QED BY <1>2, <2>1, ChainIsLinked
<1>6. Links!Chain(head, next, Cardinality(Chunks) + 1, NULL) = s
  BY <1>5 DEF Links!Chain, Chain
<1>7. Links!Nodes(s) = S
  BY DEF Links!Nodes, Linked
<1> QED BY <1>1, <1>3, <1>6, <1>7

(* Putting one element in front of a sequence. *)
LEMMA InFront ==
  ASSUME NEW T, NEW s \in Seq(T), NEW q \in T
  PROVE  <<q>> \o s = [i \in 1 .. Len(s) + 1 |-> IF i = 1 THEN q ELSE s[i - 1]]
<1> DEFINE c == <<q>> \o s
           r == [i \in 1 .. Len(s) + 1 |-> IF i = 1 THEN q ELSE s[i - 1]]
<1>0. <<q>> \in Seq(T) /\ Len(<<q>>) = 1 /\ <<q>>[1] = q
  OBVIOUS
<1>1. /\ c \in Seq(T) /\ Len(c) = 1 + Len(s)
      /\ \A i \in 1 .. 1 + Len(s) : c[i] = IF i <= 1 THEN <<q>>[i] ELSE s[i - 1]
  BY <1>0, ConcatProperties
<1>2. Len(s) \in Nat
  OBVIOUS
<1> HIDE DEF c
<1>3. c \in [1 .. Len(s) + 1 -> T]
  BY <1>1, <1>2, LenProperties
<1>4. \A i \in 1 .. Len(s) + 1 : c[i] = r[i]
  BY <1>0, <1>1, <1>2
<1>5. c = r
  BY <1>3, <1>4
<1> QED BY <1>5 DEF c

(* fl_insert() keeps the links and puts its argument in front. *)
LEMMA InsertLinks ==
  ASSUME NEW n \in Nat, NEW S \in SUBSET Chunks, NEW s \in [1 .. n -> S],
         LinksAt(n, S, s, list_head, prev_free, next_free),
         NEW h \in Chunks \ S, Links!fl_insert(h)
  PROVE  LinksAt(n + 1, S \cup {h}, Front(n, s, h), list_head', prev_free', next_free')
<1> DEFINE r == Front(n, s, h)
<1>0. /\ list_head' = h
      /\ next_free' = [next_free EXCEPT ![h] = list_head]
      /\ prev_free' = [c \in Chunks |-> IF c = list_head THEN h
                                   ELSE IF c = h THEN NULL ELSE prev_free[c]]
      /\ NULL \notin Chunks
  BY AllocatorsAssumption DEF Links!fl_insert, Links!InsertPrev, Links!NullAssumption
<1>1. /\ n = 0 => list_head = NULL
      /\ n # 0 => list_head = s[1] /\ list_head \in Chunks
  BY DEF LinksAt, Linked
<1>2. /\ prev_free' \in [Chunks -> Links!Pointers]
      /\ next_free' \in [Chunks -> Links!Pointers]
  BY <1>0, <1>1 DEF LinksAt, Links!Pointers
<1>3. next_free'[h] = list_head /\ \A x \in S : next_free'[x] = next_free[x]
  BY <1>0 DEF LinksAt
<1>4. Linked(n + 1, r, h, next_free', S \cup {h})
  BY <1>3, PushLinked DEF LinksAt
<1>5. prev_free'[h] = NULL
  BY <1>0, <1>1
<1>6. ASSUME NEW j \in 1 .. n PROVE prev_free'[r[j + 1]] = r[j]
  <2>1. CASE j = 1
    BY <1>0, <1>1, <2>1 DEF Front
  <2>2. CASE j # 1
    <3>1. j - 1 \in 1 .. n - 1 /\ j \in 1 .. n /\ 1 \in 1 .. n /\ (j - 1) + 1 = j
      BY <2>2
    <3>2. r[j + 1] = s[j] /\ r[j] = s[j - 1]
      BY <2>2 DEF Front
    <3>3. s[j] # s[1] /\ s[j] # h /\ s[j] \in Chunks
      BY <2>2, <3>1 DEF LinksAt, Linked
    <3>4. prev_free[s[j]] = s[j - 1]
      BY <3>1 DEF LinksAt
    <3> HIDE DEF r
    <3> QED BY <1>0, <1>1, <3>2, <3>3, <3>4
  <2> QED BY <2>1, <2>2
<1>7. r[1] = h /\ (n + 1) - 1 = n
  BY DEF Front
<1> HIDE DEF r
<1>8. LinksAt(n + 1, S \cup {h}, r, list_head', prev_free', next_free')
  BY <1>0, <1>2, <1>4, <1>5, <1>6, <1>7 DEF LinksAt
<1> QED BY <1>8 DEF r

(* fl_remove() keeps the links and takes its argument out. *)
LEMMA RemoveLinks ==
  ASSUME NEW n \in Nat, NEW S \in SUBSET Chunks, NEW s \in [1 .. n -> S],
         LinksAt(n, S, s, list_head, prev_free, next_free),
         NEW k \in 1 .. n, Links!fl_remove(s[k])
  PROVE  LinksAt(n - 1, S \ {s[k]}, Drop(n, s, k), list_head', prev_free', next_free')
<1> DEFINE r == Drop(n, s, k)
           h == s[k]
<1>0. /\ NULL \notin Chunks /\ h \in S /\ h \in Chunks
      /\ \A i, j \in 1 .. n : s[i] = s[j] => i = j
      /\ \A i \in 1 .. n : s[i] \in S /\ s[i] \in Chunks
  BY AllocatorsAssumption DEF Links!NullAssumption, LinksAt, Linked
<1>1. /\ k = 1 => prev_free[h] = NULL
      /\ k # 1 => k - 1 \in 1 .. n /\ prev_free[h] = s[k - 1] /\ prev_free[h] # NULL
  <2>1. k # 1 => k - 1 \in 1 .. n - 1 /\ (k - 1) + 1 = k /\ k - 1 \in 1 .. n
    OBVIOUS
  <2> QED BY <1>0, <2>1 DEF LinksAt
<1>2. /\ k = 1 => list_head' = next_free[h] /\ next_free' = next_free
      /\ k # 1 => /\ list_head' = list_head
                  /\ next_free' = [next_free EXCEPT ![s[k - 1]] = next_free[h]]
      /\ prev_free' = [c \in Chunks |-> IF c = next_free[h] THEN prev_free[h]
                                        ELSE prev_free[c]]
  BY <1>1 DEF Links!fl_remove, Links!RemovePrev
<1>3. /\ prev_free' \in [Chunks -> Links!Pointers]
      /\ next_free' \in [Chunks -> Links!Pointers]
  BY <1>0, <1>1, <1>2 DEF LinksAt, Links!Pointers
<1>4. Linked(n - 1, r, list_head', next_free', S \ {h})
  <2>1. k # 1 => /\ list_head' = list_head /\ next_free'[s[k - 1]] = next_free[s[k]]
                 /\ \A x \in S \ {s[k - 1], s[k]} : next_free'[x] = next_free[x]
    BY <1>0, <1>1, <1>2 DEF LinksAt
  <2>2. Linked(n, s, list_head, next_free, S)
    BY DEF LinksAt
  <2>3. k = 1 => /\ list_head' = next_free[s[k]]
                 /\ \A x \in S \ {s[k]} : next_free'[x] = next_free[x]
    BY <1>2
  <2>4. Unlinks(s, k, S, list_head, next_free, list_head', next_free')
    BY <2>1, <2>3 DEF Unlinks
  <2> QED BY <2>2, <2>4, DropLinked
<1>5. \A j \in 1 .. n - 1 : /\ j < k => r[j] = s[j] /\ j \in 1 .. n
                            /\ ~(j < k) => r[j] = s[j + 1] /\ j + 1 \in 1 .. n
  BY DEF Drop
<1>6. k # n => next_free[h] = s[k + 1] /\ k + 1 \in 1 .. n
  <2>1. k # n => k \in 1 .. n - 1 /\ k + 1 \in 1 .. n
    OBVIOUS
  <2> QED BY <2>1 DEF LinksAt, Linked
<1>7. k = n => next_free[h] = NULL
  BY DEF LinksAt, Linked
<1>8. \A i \in 1 .. n : prev_free'[s[i]] = IF k # n /\ i = k + 1 THEN prev_free[h] ELSE prev_free[s[i]]
  BY <1>0, <1>2, <1>6, <1>7
<1> HIDE DEF r, h
<1>9. n - 1 # 0 => prev_free'[r[1]] = NULL
  <2> SUFFICES ASSUME n - 1 # 0 PROVE prev_free'[r[1]] = NULL
    OBVIOUS
  <2>1. CASE k = 1
    <3>1. r[1] = s[2] /\ 2 \in 1 .. n /\ k # n /\ 2 = k + 1
      BY <1>5, <2>1
    <3> QED BY <1>1, <1>8, <2>1, <3>1
  <2>2. CASE k # 1
    <3>1. r[1] = s[1] /\ 1 \in 1 .. n /\ 1 # k + 1
      BY <1>5, <2>2
    <3>2. prev_free[s[1]] = NULL
      BY DEF LinksAt
    <3> QED BY <1>8, <3>1, <3>2
  <2> QED BY <2>1, <2>2
<1>10. ASSUME NEW j \in 1 .. (n - 1) - 1 PROVE prev_free'[r[j + 1]] = r[j]
  <2>0. j \in 1 .. n - 1 /\ j + 1 \in 1 .. n - 1 /\ j + 1 \in 1 .. n
    OBVIOUS
  <2>1. CASE j + 1 < k
    <3>1. r[j] = s[j] /\ r[j + 1] = s[j + 1] /\ j + 1 # k + 1
      BY <1>5, <2>0, <2>1
    <3>2. prev_free[s[j + 1]] = s[j]
      BY <2>0 DEF LinksAt
    <3> QED BY <1>8, <2>0, <3>1, <3>2
  <2>2. CASE j + 1 = k
    <3>1. r[j] = s[k - 1] /\ r[j + 1] = s[k + 1] /\ k # n /\ k # 1 /\ k + 1 \in 1 .. n
      <4>1. j < k /\ ~(j + 1 < k) /\ j = k - 1 /\ (j + 1) + 1 = k + 1
        BY <2>2
      <4> QED BY <1>5, <2>0, <2>2, <4>1
    <3> QED BY <1>1, <1>8, <3>1
  <2>3. CASE j + 1 > k
    <3>1. r[j] = s[j + 1] /\ r[j + 1] = s[(j + 1) + 1] /\ (j + 1) + 1 # k + 1 /\ (j + 1) + 1 \in 1 .. n
      <4>1. ~(j < k) /\ ~(j + 1 < k)
        BY <2>3
      <4> QED BY <1>5, <2>0, <2>3, <4>1
    <3>2. prev_free[s[(j + 1) + 1]] = s[j + 1]
      BY <2>0 DEF LinksAt
    <3> QED BY <1>8, <3>1, <3>2
  <2> QED BY <2>1, <2>2, <2>3
<1>11. LinksAt(n - 1, S \ {h}, r, list_head', prev_free', next_free')
  BY <1>3, <1>4, <1>9, <1>10 DEF LinksAt
<1> QED BY <1>11 DEF r, h

(* Every call and every write outside the list keeps the links, and is a   *)
(* step of FreeSequence.                                                   *)
LEMMA LinksStep ==
  LinksInv /\ [Next]_vars => LinksInv' /\ (Links!Sequence!Next \/ UNCHANGED Links!List)
<1> SUFFICES ASSUME LinksInv, [Next]_vars
             PROVE  LinksInv' /\ (Links!Sequence!Next \/ UNCHANGED Links!List)
  OBVIOUS
<1>1. PICK n \in Nat, S \in SUBSET Chunks : \E s \in [1 .. n -> S] :
        LinksAt(n, S, s, list_head, prev_free, next_free)
  BY DEF LinksInv
<1>2. PICK s \in [1 .. n -> S] : LinksAt(n, S, s, list_head, prev_free, next_free)
  BY <1>1
<1>3. /\ Links!List = s /\ Links!OnList = S
      /\ Len(s) = n /\ s \in Seq(Chunks) /\ DOMAIN s = 1 .. n
  BY <1>2, LinksList DEF LinksAt, Links!List, Links!OnList
<1>4. ASSUME NEW m \in Nat, NEW T \in SUBSET Chunks, NEW r \in [1 .. m -> T],
             LinksAt(m, T, r, list_head', prev_free', next_free')
      PROVE  LinksInv' /\ Links!List' = r
  <2>1. LinksInv'
    BY <1>4 DEF LinksInv
  <2>2. Links!Chain(list_head', next_free', Links!Cardinality(Chunks) + 1, NULL) = r
    BY <1>4, LinksList DEF LinksAt
  <2> QED BY <2>1, <2>2 DEF Links!List
<1>5. ASSUME NEW h \in Chunks \ S, Links!fl_insert(h)
      PROVE  LinksInv' /\ Links!Sequence!Next
  <2>1. LinksAt(n + 1, S \cup {h}, Front(n, s, h), list_head', prev_free', next_free')
    BY <1>2, <1>5, InsertLinks
  <2>2. /\ n + 1 \in Nat /\ S \cup {h} \in SUBSET Chunks
        /\ Front(n, s, h) \in [1 .. n + 1 -> S \cup {h}]
    BY DEF Front
  <2>3. LinksInv' /\ Links!List' = Front(n, s, h)
    BY <1>4, <2>1, <2>2
  <2>4. Front(n, s, h) = <<h>> \o s
    BY <1>3, InFront DEF Front
  <2>5. h \notin {s[j] : j \in DOMAIN s}
    BY <1>3
  <2>6. Links!Sequence!Insert(h)
    BY <1>3, <2>3, <2>4, <2>5 DEF Links!Sequence!Insert, Links!Sequence!Members
  <2> QED BY <2>3, <2>6 DEF Links!Sequence!Next
<1>6. ASSUME NEW h \in S, Links!fl_remove(h)
      PROVE  LinksInv' /\ Links!Sequence!Next
  <2>1. PICK k \in 1 .. n : s[k] = h
    BY <1>2 DEF LinksAt, Linked
  <2>2. LinksAt(n - 1, S \ {s[k]}, Drop(n, s, k), list_head', prev_free', next_free')
    BY <1>2, <1>6, <2>1, RemoveLinks
  <2>3. /\ n - 1 \in Nat /\ S \ {s[k]} \in SUBSET Chunks
        /\ Drop(n, s, k) \in [1 .. n - 1 -> S \ {s[k]}]
    BY <2>2 DEF LinksAt, Linked
  <2>4. LinksInv' /\ Links!List' = Drop(n, s, k)
    BY <1>4, <2>2, <2>3
  <2>5. Links!Sequence!Remove(h)
    BY <1>3, <2>1, <2>4 DEF Links!Sequence!Remove, Drop
  <2> QED BY <2>4, <2>5 DEF Links!Sequence!Next
<1>7. ASSUME NEW h \in Chunks \ S, Links!Overwrite(h)
      PROVE  LinksInv' /\ UNCHANGED Links!List
  <2>1. PICK p \in Links!Pointers, q \in Links!Pointers :
          /\ prev_free' = [prev_free EXCEPT ![h] = p]
          /\ next_free' = [next_free EXCEPT ![h] = q]
          /\ UNCHANGED list_head
    BY <1>7 DEF Links!Overwrite
  <2>2. /\ \A i \in 1 .. n : /\ next_free'[s[i]] = next_free[s[i]]
                             /\ prev_free'[s[i]] = prev_free[s[i]]
        /\ prev_free' \in [Chunks -> Links!Pointers]
        /\ next_free' \in [Chunks -> Links!Pointers]
    BY <1>2, <2>1 DEF LinksAt
  <2>3. Linked(n, s, list_head', next_free', S)
    BY <1>2, <2>1, <2>2 DEF LinksAt, Linked
  <2>4. LinksAt(n, S, s, list_head', prev_free', next_free')
    BY <1>2, <2>2, <2>3 DEF LinksAt
  <2> QED BY <1>3, <1>4, <2>4
<1>8. CASE UNCHANGED linksVars
  BY <1>8 DEF linksVars, LinksInv, Links!List
<1> QED BY <1>3, <1>5, <1>6, <1>7, <1>8, OneRuns DEF Links!Next

(* The empty list at the start. *)
LEMMA LinksInit == Init => LinksInv /\ Links!List = <<>>
<1> SUFFICES ASSUME Init PROVE LinksInv /\ Links!List = <<>>
  OBVIOUS
<1>1. /\ list_head = NULL
      /\ prev_free = [c \in Chunks |-> NULL]
      /\ next_free = [c \in Chunks |-> NULL]
  BY DEF Init, Links!Init
<1>2. << >> \in [1 .. 0 -> {}]
  OBVIOUS
<1>3. LinksAt(0, {}, << >>, list_head, prev_free, next_free)
  BY <1>1, <1>2 DEF LinksAt, Linked, Links!Pointers
<1>4. LinksInv
  BY <1>2, <1>3 DEF LinksInv
<1>5. Links!List = << >>
  <2>1. Linked(0, << >>, list_head, next_free, {}) /\ {} \in SUBSET Chunks /\ 0 \in Nat
    BY <1>3 DEF LinksAt
  <2> QED BY <1>2, <2>1, LinksList DEF Links!List
<1> QED BY <1>4, <1>5

(* Forward and backward links agree, and what Chain finds is the list. *)
LEMMA LinksAreWell == LinksInv => Links!WellLinked
<1> SUFFICES ASSUME LinksInv PROVE Links!WellLinked
  OBVIOUS
<1>1. PICK n \in Nat, S \in SUBSET Chunks : \E s \in [1 .. n -> S] :
        LinksAt(n, S, s, list_head, prev_free, next_free)
  BY DEF LinksInv
<1>2. PICK s \in [1 .. n -> S] : LinksAt(n, S, s, list_head, prev_free, next_free)
  BY <1>1
<1>3. /\ Links!List = s /\ Links!OnList = S /\ Links!Nodes(s) = S
      /\ Len(s) = n /\ DOMAIN s = 1 .. n /\ Links!Cardinality(S) = n
  BY <1>2, LinksList DEF LinksAt, Links!List, Links!OnList
<1>4. ASSUME NEW j \in 1 .. n
      PROVE  prev_free[s[j]] = IF j = 1 THEN NULL ELSE s[j - 1]
  <2>1. CASE j = 1
    BY <1>2, <2>1 DEF LinksAt
  <2>2. CASE j # 1
    <3>1. j - 1 \in 1 .. n - 1 /\ (j - 1) + 1 = j
      BY <2>2
    <3> QED BY <1>2, <2>2, <3>1 DEF LinksAt
  <2> QED BY <2>1, <2>2
<1> QED BY <1>3, <1>4 DEF Links!WellLinked, Links!IsChainOf

(* 04_freelist.c, for any number of chunks: fl_insert() puts its argument  *)
(* in front, fl_remove() takes its argument out and keeps the order of the *)
(* others, and what is written outside the list does not change it.        *)
THEOREM LinksCorrect == Spec => ImplementsSequence
<1>1. Init => LinksInv /\ Links!Sequence!Init
  BY LinksInit DEF Links!Sequence!Init
<1> QED
  BY <1>1, LinksStep, PTL DEF Spec, ImplementsSequence, Links!ImplementsSequence,
     Links!Sequence!Spec

(* 02_pool.c and 04_freelist.c, for pools and lists of any length: the     *)
(* lists kept in memory that callers write are sound.                      *)
THEOREM ListsCorrect == Spec => []ListsAreSound
<1>1. Init => BumpInv
  BY AllocatorsAssumption DEF Init, Bump!Init, BumpInv, Bump!RequestsAssumption
<1>2. BumpInv => Bump!TypeOK
  BY DEF BumpInv, Bump!TypeOK
<1> QED
  BY <1>1, <1>2, BumpStep, PoolInit, PoolStep, PoolListIsFree, LinksInit, LinksStep, LinksAreWell,
     PTL DEF Spec, ListsAreSound
-----------------------------------------------------------------------------
(* The objects of the slabs: each belongs to one. *)
LEMMA SlabObjects ==
  /\ MaxSlabs \in Nat /\ objs_per_slab \in Nat \ {0}
  /\ NULL \notin Slab!Objects /\ NULL \notin 1 .. MaxSlabs
  /\ \A s \in 1 .. MaxSlabs : Slab!ObjectsOf(s) \subseteq Slab!Objects
  /\ \A s : \A o \in Slab!ObjectsOf(s) : o[1] = s
  /\ \A o \in Slab!Objects : o[1] \in 1 .. MaxSlabs /\ o \in Slab!ObjectsOf(o[1])
BY AllocatorsAssumption DEF Slab!SlabAssumption, Slab!ForeignAssumption, Slab!Objects, Slab!ObjectsOf

(* new_slab() links all the objects of its slab. *)
LEMMA FreshSlab ==
  ASSUME NEW s \in 1 .. MaxSlabs, NEW w,
         \A j \in 0 .. objs_per_slab - 1 : w[<<s, j>>] = Slab!FirstLink(s, j)
  PROVE  /\ IsList(<<s, objs_per_slab - 1>>, w, Slab!ObjectsOf(s))
         /\ IsFiniteSet(Slab!ObjectsOf(s))
         /\ Cardinality(Slab!ObjectsOf(s)) = objs_per_slab
<1> DEFINE n == objs_per_slab
           r == [i \in 1 .. n |-> <<s, n - i>>]
<1>0. n \in Nat \ {0}
  BY SlabObjects
<1>1. r \in [1 .. n -> Slab!ObjectsOf(s)]
  BY <1>0 DEF Slab!ObjectsOf
<1>2. \A x \in Slab!ObjectsOf(s) : \E i \in 1 .. n : r[i] = x
  <2> TAKE x \in Slab!ObjectsOf(s)
  <2>1. PICK j \in 0 .. n - 1 : x = <<s, j>>
    BY DEF Slab!ObjectsOf
  <2>2. n - j \in 1 .. n /\ n - (n - j) = j
    BY <1>0
  <2>3. r[n - j] = x
    BY <2>1, <2>2
  <2> QED BY <2>2, <2>3
<1>3. \A i, j \in 1 .. n : r[i] = r[j] => i = j
  BY <1>0
<1>4. <<s, n - 1>> = r[1] /\ w[r[n]] = NULL
  <2>1. r[n] = <<s, 0>> /\ r[1] = <<s, n - 1>> /\ 0 \in 0 .. n - 1
    BY <1>0
  <2> QED BY <2>1 DEF Slab!FirstLink
<1>5. ASSUME NEW i \in 1 .. n - 1 PROVE w[r[i]] = r[i + 1]
  <2>1. r[i] = <<s, n - i>> /\ r[i + 1] = <<s, n - (i + 1)>>
    BY <1>0
  <2>2. n - i \in 0 .. n - 1 /\ n - i # 0 /\ (n - i) - 1 = n - (i + 1)
    BY <1>0
  <2>3. w[<<s, n - i>>] = Slab!FirstLink(s, n - i)
    BY <2>2
  <2>4. Slab!FirstLink(s, n - i) = <<s, (n - i) - 1>>
    BY <2>2 DEF Slab!FirstLink
  <2> HIDE DEF r
  <2> QED BY <2>1, <2>2, <2>3, <2>4
<1> HIDE DEF r
<1>6. Linked(n, r, <<s, n - 1>>, w, Slab!ObjectsOf(s))
  BY <1>0, <1>1, <1>2, <1>3, <1>4, <1>5 DEF Linked
<1>7. IsList(<<s, n - 1>>, w, Slab!ObjectsOf(s))
  BY <1>0, <1>1, <1>6 DEF IsList
<1> QED BY <1>6, <1>7, LinkedLength

(* So a slab has objs_per_slab objects. *)
LEMMA SlabSize ==
  ASSUME NEW s \in 1 .. MaxSlabs
  PROVE  /\ IsFiniteSet(Slab!ObjectsOf(s))
         /\ Cardinality(Slab!ObjectsOf(s)) = objs_per_slab
<1> DEFINE w == [o \in Slab!ObjectsOf(s) |-> Slab!FirstLink(s, o[2])]
<1>1. \A j \in 0 .. objs_per_slab - 1 : w[<<s, j>>] = Slab!FirstLink(s, j)
  BY DEF Slab!ObjectsOf
<1> HIDE DEF w
<1> QED BY <1>1, FreshSlab
-----------------------------------------------------------------------------
(* 03_slab.c: each slab's list holds its objects that nobody holds, in_use *)
(* counts the others, and partial lists the slabs with a free object.      *)
HasRoom(k, held_objects) ==
  {s \in 1 .. k : Slab!ObjectsOf(s) \ held_objects # {}}

SlabInv ==
  /\ Slab!TypeOK
  /\ \A o \in slab_live : o[1] \in 1 .. nslabs
  /\ \A s \in 1 .. nslabs : IsList(free[s], slab_word, Slab!ObjectsOf(s) \ slab_live)
  /\ \A s \in 1 .. nslabs : in_use[s] = Cardinality(Slab!ObjectsOf(s) \cap slab_live)
  /\ \A s \in nslabs + 1 .. MaxSlabs : in_use[s] = 0
  /\ IsList(partial, next_partial, HasRoom(nslabs, slab_live))

(* What holds when cache_alloc() has chosen the slab s, of k that there    *)
(* then are, to take the object head from: s is the first of those with    *)
(* room, and w has the links of every slab.                                *)
CanTake(k, s, head, w) ==
  /\ k \in nslabs .. MaxSlabs
  /\ k \in {nslabs, nslabs + 1}
  /\ s \in 1 .. k
  /\ k = nslabs \/ s = k
  /\ w \in [Slab!Objects -> Slab!Objects \cup Data \cup {NULL}]
  /\ IsList(head, w, Slab!ObjectsOf(s) \ slab_live)
  /\ \A t \in (1 .. k) \ {s} : /\ IsList(free[t], w, Slab!ObjectsOf(t) \ slab_live)
                             /\ t <= nslabs
  /\ IsList(s, next_partial', HasRoom(k, slab_live))
  /\ nslabs' = k
  /\ next_partial' \in [1 .. MaxSlabs -> 1 .. k \cup {NULL}]

(* The second part of cache_alloc() keeps it then. *)
LEMMA TakeStep ==
  ASSUME SlabInv, NEW k, NEW s, NEW head, NEW w,
         CanTake(k, s, head, w),
         Slab!Take(s, head, w)
  PROVE  SlabInv'
<1> USE DEF CanTake
<1> DEFINE F == Slab!ObjectsOf(s) \ slab_live
<1>0. /\ nslabs \in 0 .. MaxSlabs /\ k \in 0 .. MaxSlabs
      /\ s \in 1 .. MaxSlabs /\ 1 .. k \subseteq 1 .. MaxSlabs
      /\ MaxSlabs \in Nat
      /\ free \in [1 .. MaxSlabs -> Slab!Objects \cup {NULL}]
      /\ in_use \in [1 .. MaxSlabs -> 0 .. objs_per_slab]
      /\ slab_live \subseteq Slab!Objects
  BY SlabObjects DEF SlabInv, Slab!TypeOK
<1>1. /\ free' = [free EXCEPT ![s] = w[head]]
      /\ in_use' = [in_use EXCEPT ![s] = @ + 1]
      /\ partial' = IF w[head] = NULL THEN next_partial'[s] ELSE s
      /\ slab_live' = slab_live \cup {head}
      /\ slab_word' = w
  BY DEF Slab!Take, Slab!PartialAfter
<1>2. NULL \notin F /\ s \in HasRoom(k, slab_live)
  <2>1. s # NULL /\ NULL \notin HasRoom(k, slab_live)
    BY <1>0, SlabObjects DEF HasRoom
  <2> QED BY <1>0, <2>1, SlabObjects, HeadOfList
<1>3. /\ head # NULL /\ head \in F
      /\ w[head] \in (F \ {head}) \cup {NULL}
  <2>1. F # {}
    BY <1>2 DEF HasRoom
  <2> QED BY <1>2, <2>1, HeadOfList
<1>4. /\ Slab!ObjectsOf(s) \ slab_live' = F \ {head}
      /\ IsList(w[head], w, F \ {head})
  BY <1>1, <1>3, PopList
<1>5. w[head] = NULL <=> F \ {head} = {}
  BY <1>2, <1>4, HeadOfList
<1>6. \A t \in (1 .. k) \ {s} : /\ Slab!ObjectsOf(t) \ slab_live' = Slab!ObjectsOf(t) \ slab_live
                                /\ Slab!ObjectsOf(t) \cap slab_live' = Slab!ObjectsOf(t) \cap slab_live
  <2>1. \A t \in (1 .. k) \ {s} : Slab!ObjectsOf(t) \cap Slab!ObjectsOf(s) = {}
    BY <1>0, SlabObjects
  <2>2. head \in Slab!ObjectsOf(s) /\ slab_live' = slab_live \cup {head}
    BY <1>1, <1>3
  <2> QED BY <2>1, <2>2, Zenon
<1>7. ASSUME NEW t \in 1 .. k
      PROVE  IsList(free'[t], slab_word', Slab!ObjectsOf(t) \ slab_live')
  <2>1. CASE t = s
    BY <1>0, <1>1, <1>4, <2>1
  <2>2. CASE t # s
    BY <1>0, <1>1, <1>6, <2>2
  <2> QED BY <2>1, <2>2
<1>8. /\ Slab!ObjectsOf(s) \cap slab_live' = (Slab!ObjectsOf(s) \cap slab_live) \cup {head}
      /\ head \notin Slab!ObjectsOf(s) \cap slab_live
  BY <1>1, <1>3
<1>9. /\ IsFiniteSet(Slab!ObjectsOf(s) \cap slab_live)
      /\ Cardinality(Slab!ObjectsOf(s) \cap slab_live) \in Nat
      /\ Cardinality(Slab!ObjectsOf(s) \cap slab_live') = Cardinality(Slab!ObjectsOf(s) \cap slab_live) + 1
      /\ Cardinality(Slab!ObjectsOf(s) \cap slab_live') <= objs_per_slab
  <2>1. IsFiniteSet(Slab!ObjectsOf(s)) /\ Cardinality(Slab!ObjectsOf(s)) = objs_per_slab
    BY <1>0, SlabSize
  <2>2. /\ IsFiniteSet(Slab!ObjectsOf(s) \cap slab_live)
        /\ Slab!ObjectsOf(s) \cap slab_live' \subseteq Slab!ObjectsOf(s)
    BY <2>1, FS_Subset
  <2>3. Cardinality(Slab!ObjectsOf(s) \cap slab_live') <= objs_per_slab
    BY <2>1, <2>2, FS_Subset
  <2> QED BY <1>8, <2>2, <2>3, FS_AddElement, FS_CardinalityType
<1>10. in_use[s] = Cardinality(Slab!ObjectsOf(s) \cap slab_live)
  <2>1. CASE s \in 1 .. nslabs
    BY <2>1 DEF SlabInv
  <2>2. CASE s \notin 1 .. nslabs
    <3>1. s = nslabs + 1 /\ s \in nslabs + 1 .. MaxSlabs
      BY <1>0, <2>2
    <3>2. Slab!ObjectsOf(s) \cap slab_live = {}
      BY <2>2, SlabObjects DEF SlabInv
    <3> QED BY <3>1, <3>2, FS_EmptySet DEF SlabInv
  <2> QED BY <2>1, <2>2
<1>11. ASSUME NEW t \in 1 .. k
       PROVE  in_use'[t] = Cardinality(Slab!ObjectsOf(t) \cap slab_live')
  <2>1. CASE t = s
    BY <1>0, <1>1, <1>9, <1>10, <2>1
  <2>2. CASE t # s
    <3>1. t \in 1 .. nslabs
      BY <1>0, <2>2
    <3>2. in_use[t] = Cardinality(Slab!ObjectsOf(t) \cap slab_live)
      BY <3>1 DEF SlabInv
    <3>3. in_use'[t] = in_use[t]
      BY <1>0, <1>1, <2>2
    <3> QED BY <1>6, <2>2, <3>2, <3>3
  <2> QED BY <2>1, <2>2
<1>12. \A t \in k + 1 .. MaxSlabs : in_use'[t] = 0
  <2> TAKE t \in k + 1 .. MaxSlabs
  <2>1. t # s /\ t \in 1 .. MaxSlabs /\ t \in nslabs + 1 .. MaxSlabs
    BY <1>0
  <2>2. in_use'[t] = in_use[t]
    BY <1>0, <1>1, <2>1
  <2> QED BY <2>1, <2>2 DEF SlabInv
<1>13. /\ partial' \in 1 .. k \cup {NULL}
       /\ IsList(partial', next_partial', HasRoom(k, slab_live'))
  <2>1. CASE w[head] = NULL
    <3>1. HasRoom(k, slab_live') = HasRoom(k, slab_live) \ {s}
      BY <1>4, <1>5, <1>6, <2>1 DEF HasRoom
    <3>2. s # NULL
      BY <1>0, SlabObjects
    <3>3. IsList(next_partial'[s], next_partial', HasRoom(k, slab_live) \ {s})
      BY <3>2, PopList
    <3> QED BY <1>0, <1>1, <2>1, <3>1, <3>3
  <2>2. CASE w[head] # NULL
    <3>1. HasRoom(k, slab_live') = HasRoom(k, slab_live)
      BY <1>2, <1>4, <1>5, <1>6, <2>2 DEF HasRoom
    <3> QED BY <1>1, <2>2, <3>1
  <2> QED BY <2>1, <2>2
<1>14. /\ free' \in [1 .. MaxSlabs -> Slab!Objects \cup {NULL}]
       /\ slab_live' \subseteq Slab!Objects
       /\ \A o \in slab_live' : o[1] \in 1 .. k
  <2>1. F \subseteq Slab!Objects /\ head[1] = s
    BY <1>0, <1>3, SlabObjects
  <2>2. \A o \in slab_live : o[1] \in 1 .. k
    BY <1>0 DEF SlabInv
  <2> QED BY <1>0, <1>1, <1>3, <2>1, <2>2
<1>15. in_use' \in [1 .. MaxSlabs -> 0 .. objs_per_slab]
  BY <1>0, <1>1, <1>9, <1>10, SlabObjects
<1> QED BY <1>0, <1>1, <1>7, <1>11, <1>12, <1>13, <1>14, <1>15 DEF SlabInv, Slab!TypeOK, Slab!Slabs

(* cache_alloc(), with a slab that has room and with a new one. *)
LEMMA AllocStep ==
  ASSUME SlabInv, Slab!cache_alloc
  PROVE  SlabInv'
<1>0. /\ nslabs \in 0 .. MaxSlabs /\ MaxSlabs \in Nat
      /\ next_partial \in [1 .. MaxSlabs -> 1 .. nslabs \cup {NULL}]
      /\ slab_word \in [Slab!Objects -> Slab!Objects \cup Data \cup {NULL}]
      /\ NULL \notin HasRoom(nslabs, slab_live)
  BY SlabObjects DEF SlabInv, Slab!TypeOK, Slab!Slabs, HasRoom
<1>1. CASE /\ partial # NULL
           /\ UNCHANGED <<nslabs, next_partial>>
           /\ Slab!Take(partial, free[partial], slab_word)
  <2>1. partial \in 1 .. nslabs
    BY <1>1 DEF SlabInv, Slab!TypeOK, Slab!Slabs
  <2>2. \A t \in 1 .. nslabs : IsList(free[t], slab_word, Slab!ObjectsOf(t) \ slab_live)
    BY DEF SlabInv
  <2>3. IsList(partial, next_partial', HasRoom(nslabs, slab_live))
    BY <1>1 DEF SlabInv
  <2>4. nslabs \in nslabs .. MaxSlabs
    BY <1>0
  <2>5. nslabs' = nslabs /\ next_partial' = next_partial
    BY <1>1
  <2>6. CanTake(nslabs, partial, free[partial], slab_word)
    <3>1. \A t \in (1 .. nslabs) \ {partial} : t \in 1 .. nslabs /\ t <= nslabs
      BY <1>0
    <3>2. \A t \in (1 .. nslabs) \ {partial} :
            IsList(free[t], slab_word, Slab!ObjectsOf(t) \ slab_live) /\ t <= nslabs
      BY <2>2, <3>1, Zenon
    <3>3. IsList(free[partial], slab_word, Slab!ObjectsOf(partial) \ slab_live)
      BY <2>1, <2>2, Zenon
    <3>4. next_partial' \in [1 .. MaxSlabs -> 1 .. nslabs \cup {NULL}]
      BY <1>0, <2>5
    <3>5. nslabs \in {nslabs, nslabs + 1}
      OBVIOUS
    <3> QED BY <1>0, <2>1, <2>3, <2>4, <2>5, <3>2, <3>3, <3>4, <3>5, Zenon DEF CanTake
  <2> QED BY <1>1, <2>6, TakeStep
<1>2. CASE /\ partial = NULL
           /\ nslabs < MaxSlabs
           /\ LET s == nslabs + 1
                  w == [o \in Slab!Objects |-> IF o[1] = s THEN Slab!FirstLink(s, o[2])
                                                           ELSE slab_word[o]]
              IN  /\ nslabs' = s
                  /\ next_partial' = [next_partial EXCEPT ![s] = partial]
                  /\ Slab!Take(s, <<s, objs_per_slab - 1>>, w)
  <2> DEFINE s == nslabs + 1
             w == [o \in Slab!Objects |-> IF o[1] = s THEN Slab!FirstLink(s, o[2])
                                                      ELSE slab_word[o]]
             head == <<s, objs_per_slab - 1>>
  <2>1. /\ s \in 1 .. MaxSlabs /\ s \in nslabs .. MaxSlabs /\ s \in 1 .. s
        /\ \A t \in (1 .. s) \ {s} : t \in 1 .. nslabs /\ t <= nslabs
        /\ nslabs' = s /\ next_partial' = [next_partial EXCEPT ![s] = NULL]
        /\ Slab!Take(s, head, w)
    BY <1>0, <1>2
  <2>2. Slab!ObjectsOf(s) \ slab_live = Slab!ObjectsOf(s)
    BY <1>0, SlabObjects DEF SlabInv
  <2>3. \A j \in 0 .. objs_per_slab - 1 : w[<<s, j>>] = Slab!FirstLink(s, j)
    <3> TAKE j \in 0 .. objs_per_slab - 1
    <3>1. <<s, j>> \in Slab!Objects
      BY <2>1 DEF Slab!Objects
    <3> QED BY <3>1
  <2>4. \A t \in 1 .. nslabs : \A o \in Slab!ObjectsOf(t) : w[o] = slab_word[o]
    BY <1>0, SlabObjects
  <2>5. w \in [Slab!Objects -> Slab!Objects \cup Data \cup {NULL}]
    <3>1. ASSUME NEW o \in Slab!Objects, o[1] = s
          PROVE  Slab!FirstLink(s, o[2]) \in Slab!Objects \cup {NULL}
      <4>1. o[2] \in 0 .. objs_per_slab - 1 /\ objs_per_slab \in Nat
        BY <3>1, SlabObjects DEF Slab!Objects
      <4>2. CASE o[2] = 0
        BY <4>2 DEF Slab!FirstLink
      <4>3. CASE o[2] # 0
        <5>1. o[2] - 1 \in 0 .. objs_per_slab - 1
          BY <4>1, <4>3
        <5> QED BY <2>1, <4>3, <5>1 DEF Slab!FirstLink, Slab!Objects
      <4> QED BY <4>2, <4>3
    <3> QED BY <1>0, <3>1
  <2> HIDE DEF w
  <2>6. IsList(head, w, Slab!ObjectsOf(s) \ slab_live)
    BY <2>1, <2>2, <2>3, FreshSlab
  <2>7. \A t \in 1 .. nslabs : IsList(free[t], w, Slab!ObjectsOf(t) \ slab_live)
    <3> TAKE t \in 1 .. nslabs
    <3>1. IsList(free[t], slab_word, Slab!ObjectsOf(t) \ slab_live)
      BY DEF SlabInv
    <3>2. \A o \in Slab!ObjectsOf(t) \ slab_live : w[o] = slab_word[o]
      BY <2>4
    <3> QED BY <3>1, <3>2, SameList
  <2>8. HasRoom(nslabs, slab_live) = {}
    <3>1. IsList(NULL, next_partial, HasRoom(nslabs, slab_live))
      BY <1>2 DEF SlabInv
    <3> QED BY <1>0, <3>1, HeadOfList
  <2>9. HasRoom(s, slab_live) = {s}
    <3>1. Slab!ObjectsOf(s) # {}
      <4>1. 0 \in 0 .. objs_per_slab - 1
        BY SlabObjects
      <4>2. <<s, 0>> \in Slab!ObjectsOf(s)
        BY <4>1 DEF Slab!ObjectsOf
      <4> QED BY <4>2
    <3>2. \A t \in 1 .. nslabs : Slab!ObjectsOf(t) \ slab_live = {}
      BY <2>8 DEF HasRoom
    <3>3. \A t \in 1 .. s : t = s \/ t \in 1 .. nslabs
      BY <1>0
    <3> QED BY <2>1, <2>2, <3>1, <3>2, <3>3 DEF HasRoom
  <2>10. IsList(s, next_partial', HasRoom(s, slab_live))
    <3>1. next_partial'[s] = NULL
      BY <1>0, <2>1
    <3>2. IsList(NULL, next_partial, {})
      BY EmptyList
    <3>3. {} \cup {s} = {s}
      OBVIOUS
    <3>4. IsList(s, next_partial', {} \cup {s})
      BY <3>1, <3>2, PushList
    <3> QED BY <2>9, <3>3, <3>4
  <2>11. next_partial' \in [1 .. MaxSlabs -> 1 .. s \cup {NULL}]
    <3>1. 1 .. nslabs \subseteq 1 .. s
      BY <1>0
    <3> QED BY <1>0, <2>1, <3>1
  <2> HIDE DEF s, head
  <2>12. s \in {nslabs, nslabs + 1}
    BY DEF s
  <2>13. \A t \in (1 .. s) \ {s} :
           IsList(free[t], w, Slab!ObjectsOf(t) \ slab_live) /\ t <= nslabs
    BY <2>1, <2>7, Zenon
  <2>14. CanTake(s, s, head, w)
    BY <2>1, <2>5, <2>6, <2>10, <2>11, <2>12, <2>13, Zenon DEF CanTake
  <2> QED BY <2>1, <2>14, TakeStep
<1> QED BY <1>1, <1>2 DEF Slab!cache_alloc

(* cache_free() of an object that somebody holds. *)
LEMMA FreeStep ==
  ASSUME SlabInv, NEW p \in slab_live, Slab!cache_free(p)
  PROVE  SlabInv'
<1>0. /\ nslabs \in 0 .. MaxSlabs /\ MaxSlabs \in Nat
      /\ partial \in 1 .. nslabs \cup {NULL}
      /\ next_partial \in [1 .. MaxSlabs -> 1 .. nslabs \cup {NULL}]
      /\ free \in [1 .. MaxSlabs -> Slab!Objects \cup {NULL}]
      /\ in_use \in [1 .. MaxSlabs -> 0 .. objs_per_slab]
      /\ slab_word \in [Slab!Objects -> Slab!Objects \cup Data \cup {NULL}]
      /\ slab_live \subseteq Slab!Objects
      /\ 1 .. nslabs \subseteq 1 .. MaxSlabs
      /\ NULL \notin HasRoom(nslabs, slab_live)
  BY SlabObjects DEF SlabInv, Slab!TypeOK, Slab!Slabs, HasRoom
<1>1. PICK s \in 1 .. nslabs :
        /\ p \in Slab!ObjectsOf(s)
        /\ slab_word' = [slab_word EXCEPT ![p] = free[s]]
        /\ free' = [free EXCEPT ![s] = p]
        /\ in_use' = [in_use EXCEPT ![s] = in_use[s] - 1]
        /\ \/ /\ free[s] = NULL
              /\ next_partial' = [next_partial EXCEPT ![s] = partial]
              /\ partial' = s
           \/ /\ free[s] # NULL
              /\ UNCHANGED <<next_partial, partial>>
        /\ slab_live' = slab_live \ {p}
        /\ UNCHANGED nslabs
  BY DEF Slab!cache_free, Slab!Slabs, Slab!FreedLink, Slab!InUseAfterFree, Slab!WasFull
<1> DEFINE F == Slab!ObjectsOf(s) \ slab_live
<1>2. p \in Slab!Objects /\ p \notin F /\ IsList(free[s], slab_word, F) /\ NULL \notin F
  BY <1>0, <1>1, SlabObjects DEF SlabInv
<1>3. IsList(p, slab_word', F \cup {p})
  <2>1. slab_word'[p] = free[s] /\ \A x \in F : slab_word'[x] = slab_word[x]
    BY <1>0, <1>1, <1>2
  <2> QED BY <1>2, <2>1, PushList
<1>4. Slab!ObjectsOf(s) \ slab_live' = F \cup {p}
  BY <1>1, <1>2
<1>5. \A t \in (1 .. nslabs) \ {s} :
        /\ Slab!ObjectsOf(t) \ slab_live' = Slab!ObjectsOf(t) \ slab_live
        /\ Slab!ObjectsOf(t) \cap slab_live' = Slab!ObjectsOf(t) \cap slab_live
        /\ p \notin Slab!ObjectsOf(t)
  BY <1>1, SlabObjects
<1>6. ASSUME NEW t \in 1 .. nslabs
      PROVE  IsList(free'[t], slab_word', Slab!ObjectsOf(t) \ slab_live')
  <2>1. CASE t = s
    BY <1>0, <1>1, <1>3, <1>4, <2>1
  <2>2. CASE t # s
    <3>1. IsList(free[t], slab_word, Slab!ObjectsOf(t) \ slab_live)
      BY DEF SlabInv
    <3>2. \A o \in Slab!ObjectsOf(t) \ slab_live : slab_word'[o] = slab_word[o]
      BY <1>0, <1>1, <1>5, <2>2, SlabObjects
    <3>3. free'[t] = free[t]
      BY <1>0, <1>1, <2>2
    <3>4. IsList(free[t], slab_word', Slab!ObjectsOf(t) \ slab_live)
      BY <3>1, <3>2, SameList
    <3> QED BY <1>5, <2>2, <3>3, <3>4
  <2> QED BY <2>1, <2>2
<1>7. /\ in_use[s] = Cardinality(Slab!ObjectsOf(s) \cap slab_live)
      /\ Cardinality(Slab!ObjectsOf(s) \cap slab_live') = in_use[s] - 1
      /\ in_use[s] - 1 \in 0 .. objs_per_slab
  <2>1. IsFiniteSet(Slab!ObjectsOf(s) \cap slab_live)
    BY <1>0, SlabSize, FS_Subset
  <2>2. /\ Slab!ObjectsOf(s) \cap slab_live' = (Slab!ObjectsOf(s) \cap slab_live) \ {p}
        /\ p \in Slab!ObjectsOf(s) \cap slab_live
    BY <1>1
  <2>3. in_use[s] = Cardinality(Slab!ObjectsOf(s) \cap slab_live)
    BY DEF SlabInv
  <2>4. Cardinality(Slab!ObjectsOf(s) \cap slab_live') = in_use[s] - 1
    BY <2>1, <2>2, <2>3, FS_RemoveElement
  <2>5. Cardinality(Slab!ObjectsOf(s) \cap slab_live') \in Nat
    BY <2>1, <2>2, FS_RemoveElement, FS_CardinalityType
  <2>6. in_use[s] \in 0 .. objs_per_slab
    BY <1>0
  <2> QED BY <2>3, <2>4, <2>5, <2>6, SlabObjects
<1>8. ASSUME NEW t \in 1 .. nslabs
      PROVE  in_use'[t] = Cardinality(Slab!ObjectsOf(t) \cap slab_live')
  <2>1. CASE t = s
    BY <1>0, <1>1, <1>7, <2>1
  <2>2. CASE t # s
    BY <1>0, <1>1, <1>5, <2>2 DEF SlabInv
  <2> QED BY <2>1, <2>2
<1>9. \A t \in nslabs + 1 .. MaxSlabs : in_use'[t] = 0
  BY <1>0, <1>1 DEF SlabInv
<1>10. IsList(partial, next_partial, HasRoom(nslabs, slab_live))
  BY DEF SlabInv
<1>11. IsList(partial', next_partial', HasRoom(nslabs, slab_live'))
  <2>1. CASE free[s] = NULL
    <3>1. F = {}
      BY <1>2, <2>1, HeadOfList
    <3>2. /\ s \notin HasRoom(nslabs, slab_live)
          /\ HasRoom(nslabs, slab_live') = HasRoom(nslabs, slab_live) \cup {s}
      BY <1>4, <1>5, <3>1 DEF HasRoom
    <3>3. /\ next_partial'[s] = partial /\ partial' = s
          /\ \A t \in HasRoom(nslabs, slab_live) : next_partial'[t] = next_partial[t]
      BY <1>0, <1>1, <2>1, <3>2 DEF HasRoom
    <3>4. IsList(s, next_partial', HasRoom(nslabs, slab_live) \cup {s})
      BY <1>10, <3>2, <3>3, PushList
    <3> QED BY <3>2, <3>3, <3>4
  <2>2. CASE free[s] # NULL
    <3>1. F # {}
      BY <1>2, <2>2, HeadOfList
    <3>2. HasRoom(nslabs, slab_live') = HasRoom(nslabs, slab_live)
      BY <1>4, <1>5, <3>1 DEF HasRoom
    <3> QED BY <1>1, <1>10, <2>2, <3>2
  <2> QED BY <2>1, <2>2
<1>12. /\ partial' \in 1 .. nslabs \cup {NULL}
       /\ next_partial' \in [1 .. MaxSlabs -> 1 .. nslabs \cup {NULL}]
       /\ free' \in [1 .. MaxSlabs -> Slab!Objects \cup {NULL}]
       /\ slab_word' \in [Slab!Objects -> Slab!Objects \cup Data \cup {NULL}]
       /\ slab_live' \subseteq Slab!Objects
       /\ \A o \in slab_live' : o[1] \in 1 .. nslabs
  BY <1>0, <1>1, <1>2 DEF SlabInv
<1>13. in_use' \in [1 .. MaxSlabs -> 0 .. objs_per_slab]
  BY <1>0, <1>1, <1>7
<1> QED
  BY <1>0, <1>1, <1>6, <1>8, <1>9, <1>11, <1>12, <1>13 DEF SlabInv, Slab!TypeOK, Slab!Slabs

(* Every call, and every write to an object that is held, keeps it. *)
LEMMA SlabStep == SlabInv /\ [Next]_vars => SlabInv'
<1> SUFFICES ASSUME SlabInv, [Next]_vars PROVE SlabInv'
  OBVIOUS
<1>1. ASSUME NEW p \in slab_live, Slab!UserWrite(p) PROVE SlabInv'
  <2>1. PICK d \in Data : /\ slab_word' = [slab_word EXCEPT ![p] = d]
                          /\ UNCHANGED <<nslabs, partial, next_partial, free, in_use, slab_live>>
    BY <1>1 DEF Slab!UserWrite
  <2>2. slab_word' \in [Slab!Objects -> Slab!Objects \cup Data \cup {NULL}]
    BY <2>1 DEF SlabInv, Slab!TypeOK
  <2>3. ASSUME NEW s \in 1 .. nslabs
        PROVE  IsList(free[s], slab_word', Slab!ObjectsOf(s) \ slab_live)
    <3>0. s \in 1 .. MaxSlabs
      BY SlabObjects DEF SlabInv, Slab!TypeOK
    <3>1. \A o \in Slab!ObjectsOf(s) \ slab_live : slab_word'[o] = slab_word[o]
      BY <2>1, <3>0, SlabObjects DEF SlabInv, Slab!TypeOK
    <3>2. IsList(free[s], slab_word, Slab!ObjectsOf(s) \ slab_live)
      BY DEF SlabInv
    <3> QED BY <3>1, <3>2, SameList
  <2> QED BY <2>1, <2>2, <2>3 DEF SlabInv, Slab!TypeOK, Slab!Slabs
<1>2. CASE UNCHANGED slabVars
  BY <1>2 DEF slabVars, SlabInv, Slab!TypeOK, Slab!Slabs
<1> QED
  BY <1>1, <1>2, AllocStep, FreeStep, OneRuns
     DEF Slab!Next, Slab!AllocFails, Slab!FreeForeign, Slab!vars, slabVars

(* There is no slab at the start. *)
LEMMA SlabInit == Init => SlabInv
<1> SUFFICES ASSUME Init PROVE SlabInv
  OBVIOUS
<1>1. /\ nslabs = 0 /\ partial = NULL /\ slab_live = {} /\ in_use = [s \in 1 .. MaxSlabs |-> 0]
      /\ Slab!TypeOK
  BY SlabObjects DEF Init, Slab!Init, Slab!TypeOK, Slab!Slabs
<1>2. HasRoom(nslabs, slab_live) = {}
  BY <1>1 DEF HasRoom
<1>3. IsList(partial, next_partial, HasRoom(nslabs, slab_live))
  BY <1>1, <1>2, EmptyList
<1>4. 1 .. nslabs = {} /\ nslabs + 1 .. MaxSlabs = 1 .. MaxSlabs
  BY <1>1, SlabObjects
<1>5. /\ \A s \in nslabs + 1 .. MaxSlabs : in_use[s] = 0
      /\ \A s \in 1 .. nslabs : FALSE
      /\ \A o \in slab_live : FALSE
  BY <1>1, <1>4
<1> QED BY <1>1, <1>3, <1>5, Zenon DEF SlabInv

(* The lists are what Chain finds. *)
LEMMA SlabIsSoundIf == SlabInv => SlabIsSound
<1> SUFFICES ASSUME SlabInv PROVE SlabIsSound
  OBVIOUS
<1>0. nslabs \in 0 .. MaxSlabs /\ MaxSlabs \in Nat /\ objs_per_slab \in Nat
  BY SlabObjects DEF SlabInv, Slab!TypeOK
<1>1. \A T : Slab!Cardinality(T) = Cardinality(T)
  BY DEF Slab!Cardinality, Cardinality, Slab!IsFiniteSet, IsFiniteSet
<1>2. ASSUME NEW c, NEW T, IsChainOf(c, T) PROVE Slab!IsChainOf(c, T)
  BY <1>1, <1>2, Zenon DEF Slab!IsChainOf, Slab!Nodes, IsChainOf, Nodes
<1>3. ASSUME NEW a, NEW f, NEW b PROVE Slab!Chain(a, f, b, NULL) = Chain(a, f, b, NULL)
  BY DEF Slab!Chain, Chain
<1>4. ASSUME NEW s \in 1 .. nslabs
      PROVE  /\ Slab!IsChainOf(Slab!Chain(free[s], slab_word, objs_per_slab + 1, NULL),
                               Slab!ObjectsOf(s) \ slab_live)
             /\ in_use[s] = Slab!Cardinality(Slab!ObjectsOf(s) \cap slab_live)
  <2> DEFINE F == Slab!ObjectsOf(s) \ slab_live
  <2>0. s \in 1 .. MaxSlabs
    BY <1>0
  <2>1. NULL \notin F /\ IsList(free[s], slab_word, F)
    <3>1. NULL \notin Slab!ObjectsOf(s)
      BY <2>0, SlabObjects
    <3>2. IsList(free[s], slab_word, F)
      BY Zenon DEF SlabInv
    <3> QED BY <3>1, <3>2
  <2>2. Cardinality(F) <= objs_per_slab /\ Cardinality(F) \in Nat
    BY <2>0, SlabSize, FS_Subset, FS_CardinalityType
  <2>3. objs_per_slab + 1 \in Nat /\ Cardinality(F) < objs_per_slab + 1
    BY <1>0, <2>2
  <2>4. IsChainOf(Chain(free[s], slab_word, objs_per_slab + 1, NULL), F)
    BY <2>1, <2>3, ListIsChain
  <2> QED BY <1>1, <1>2, <1>3, <2>4 DEF SlabInv
<1>5. Slab!IsChainOf(Slab!Chain(partial, next_partial, MaxSlabs + 1, NULL), HasRoom(nslabs, slab_live))
  <2> DEFINE R == HasRoom(nslabs, slab_live)
  <2>1. NULL \notin R /\ IsList(partial, next_partial, R) /\ R \subseteq 1 .. MaxSlabs
    BY <1>0, SlabObjects DEF SlabInv, HasRoom
  <2>2. IsFiniteSet(1 .. MaxSlabs) /\ Cardinality(1 .. MaxSlabs) = MaxSlabs
    BY <1>0, FS_Interval
  <2>3. Cardinality(R) <= MaxSlabs /\ Cardinality(R) \in Nat
    BY <2>1, <2>2, FS_Subset, FS_CardinalityType
  <2>4. MaxSlabs + 1 \in Nat /\ Cardinality(R) < MaxSlabs + 1
    BY <1>0, <2>3
  <2>5. IsChainOf(Chain(partial, next_partial, MaxSlabs + 1, NULL), R)
    BY <2>1, <2>4, ListIsChain
  <2> QED BY <1>2, <1>3, <2>5
<1>6. Slab!SlabAccounts
  BY <1>4 DEF Slab!SlabAccounts, Slab!Slabs
<1>7. Slab!PartialHasRoom
  BY <1>5 DEF Slab!PartialHasRoom, Slab!Slabs, HasRoom
<1> QED BY <1>6, <1>7 DEF SlabIsSound, SlabInv

(* 03_slab.c, for any number of slabs and objects: an object goes back to  *)
(* the slab it came from, the counts are right, and cache_alloc() never    *)
(* meets a full slab and never maps one in vain.                           *)
THEOREM SlabCorrect == Spec => []SlabIsSound
BY SlabInit, SlabStep, SlabIsSoundIf, PTL DEF Spec
-----------------------------------------------------------------------------
(* 05_buddy.c: blocks of 2 ^ o pages at multiples of their size. *)
PagesOf(o) == 2 ^ o
Run(o, p) == p .. p + PagesOf(o) - 1
IsBlock(o, p) == /\ o \in Buddy!Orders /\ p \in Buddy!Pages
                 /\ \E k \in Nat : p = k * PagesOf(o)

(* The sizes of blocks, and what the model's definitions say of blocks. *)
LEMMA Sizes ==
  /\ MAX_ORDER \in 0 .. 30 /\ Buddy!Orders = 0 .. MAX_ORDER
  /\ Buddy!Pages = 0 .. PagesOf(MAX_ORDER) - 1
  /\ \A o \in Buddy!Orders : PagesOf(o) \in Nat \ {0}
  /\ \A o \in Buddy!Orders : o + 1 \in Buddy!Orders => PagesOf(o + 1) = 2 * PagesOf(o)
  /\ \A i, j \in Buddy!Orders : i <= j => \E k \in Nat \ {0} : PagesOf(j) = k * PagesOf(i)
  /\ \A o, p : Buddy!Extent(<<o, p>>) = Run(o, p)
  /\ MAX_ORDER \in Buddy!Orders /\ Buddy!Orders \subseteq Nat /\ Buddy!Pages \subseteq Nat
<1>0. MAX_ORDER \in 0 .. 19
  BY AllocatorsAssumption, Zenon DEF AllocatorsAssumption, Buddy!BuddyAssumption
<1>1. MAX_ORDER \in 0 .. 30
  BY <1>0
<1>2. /\ Buddy!Orders = 0 .. MAX_ORDER /\ Buddy!Pages = 0 .. PagesOf(MAX_ORDER) - 1
      /\ \A o, p : Buddy!Extent(<<o, p>>) = Run(o, p)
  BY Zenon DEF Buddy!Orders, Buddy!Pages, PagesOf, Run, Buddy!Extent
<1>3. \A o \in Buddy!Orders : o \in 0 .. 30
  BY <1>1, <1>2
<1>4. \A o \in Buddy!Orders : PagesOf(o) \in Nat \ {0}
  BY <1>3, Powers, Zenon DEF PagesOf
<1>5. \A o \in Buddy!Orders : o + 1 \in Buddy!Orders => PagesOf(o + 1) = 2 * PagesOf(o)
  <2>1. \A o \in Buddy!Orders : o + 1 \in Buddy!Orders => o \in 0 .. 29
    BY <1>1, <1>2
  <2> QED BY <2>1, Doubles, Zenon DEF PagesOf
<1>6. \A i, j \in Buddy!Orders : i <= j => \E k \in Nat \ {0} : PagesOf(j) = k * PagesOf(i)
  BY <1>3, PowersDivide, Zenon DEF PagesOf
<1>7. MAX_ORDER \in Buddy!Orders /\ Buddy!Orders \subseteq Nat
  BY <1>1, <1>2
<1>8. PagesOf(MAX_ORDER) \in Nat
  BY <1>4, <1>7, Zenon
<1>9. Buddy!Pages \subseteq Nat
  BY <1>2, <1>8
<1> QED BY <1>1, <1>2, <1>4, <1>5, <1>6, <1>7, <1>9, Zenon

(* A multiple is what leaves no remainder. *)
LEMMA Multiples ==
  ASSUME NEW o \in Buddy!Orders, NEW p \in Buddy!Pages
  PROVE  p % (2 ^ o) = 0 <=> IsBlock(o, p)
<1>1. PagesOf(o) \in Nat \ {0} /\ p \in Nat
  BY Sizes
<1>2. ASSUME NEW d \in Nat \ {0} PROVE p % d = 0 <=> \E k \in Nat : p = k * d
  <2>1. ASSUME p % d = 0 PROVE p = (p \div d) * d /\ p \div d \in Nat
    BY <1>1, <2>1
  <2>2. ASSUME NEW k \in Nat, p = k * d PROVE p % d = 0
    BY <2>2
  <2> QED BY <2>1, <2>2
<1>3. p % PagesOf(o) = 0 <=> \E k \in Nat : p = k * PagesOf(o)
  BY <1>1, <1>2
<1> QED BY <1>3, Zenon DEF IsBlock, PagesOf

(* Two blocks that share a page are one inside the other. *)
LEMMA Nested ==
  ASSUME NEW o, NEW p, IsBlock(o, p), NEW c, NEW q, IsBlock(c, q), o <= c,
         NEW x \in Run(o, p), x \in Run(c, q)
  PROVE  Run(o, p) \subseteq Run(c, q)
<1>1. /\ o \in Buddy!Orders /\ c \in Buddy!Orders
      /\ PagesOf(o) \in Nat \ {0} /\ PagesOf(c) \in Nat \ {0} /\ p \in Nat /\ q \in Nat
  BY Sizes DEF IsBlock
<1>2. PICK k \in Nat : p = k * PagesOf(o)
  BY DEF IsBlock
<1>3. PICK l \in Nat : q = l * PagesOf(c)
  BY DEF IsBlock
<1>4. PICK m \in Nat \ {0} : PagesOf(c) = m * PagesOf(o)
  BY <1>1, Sizes
<1>5. ASSUME NEW d \in Nat \ {0}, p = k * d, q = (l * m) * d,
             p <= x, x < p + d, q <= x, x < q + m * d
      PROVE  q <= p /\ p + d <= q + m * d
  <2>1. l * m \in Nat /\ x \in Int
    BY <1>1 DEF Run
  <2>2. (l * m) * d < (k + 1) * d /\ k * d < (l * m + m) * d
    BY <1>5, <2>1
  <2>3. \A a, b \in Nat : a * d < b * d => a < b
    OBVIOUS
  <2>4. l * m < k + 1 /\ k < l * m + m
    BY <2>1, <2>2, <2>3
  <2>5. \A a, b \in Nat : a <= b => a * d <= b * d
    OBVIOUS
  <2>6. (l * m) * d <= k * d /\ (k + 1) * d <= (l * m + m) * d
    BY <2>1, <2>4, <2>5
  <2> QED BY <1>5, <2>1, <2>6
<1>6. q = (l * m) * PagesOf(o)
  BY <1>1, <1>3, <1>4
<1>7. q <= p /\ p + PagesOf(o) <= q + m * PagesOf(o)
  BY <1>1, <1>2, <1>4, <1>5, <1>6 DEF Run
<1> QED BY <1>1, <1>4, <1>7 DEF Run

(* A block lies in the arena. *)
LEMMA InArena ==
  ASSUME NEW o, NEW p, IsBlock(o, p)
  PROVE  Run(o, p) \subseteq Buddy!Pages /\ p \in Run(o, p) /\ o <= MAX_ORDER
<1>1. /\ o \in Buddy!Orders /\ o <= MAX_ORDER /\ MAX_ORDER \in Buddy!Orders
      /\ PagesOf(o) \in Nat \ {0} /\ PagesOf(MAX_ORDER) \in Nat \ {0}
      /\ p \in Nat
  BY Sizes DEF IsBlock
<1>2. p \in Run(o, p)
  BY <1>1 DEF Run
<1>3. IsBlock(MAX_ORDER, 0) /\ Run(MAX_ORDER, 0) = Buddy!Pages
  <2>1. 0 = 0 * PagesOf(MAX_ORDER) /\ 0 \in Nat
    BY <1>1
  <2>2. Run(MAX_ORDER, 0) = 0 .. PagesOf(MAX_ORDER) - 1 /\ 0 \in Run(MAX_ORDER, 0)
    BY <1>1 DEF Run
  <2>3. Run(MAX_ORDER, 0) = Buddy!Pages
    BY <2>2, Sizes, Zenon
  <2> QED BY <1>1, <2>1, <2>2, <2>3 DEF IsBlock
<1>4. p \in Run(MAX_ORDER, 0)
  BY <1>3 DEF IsBlock
<1> QED BY <1>1, <1>2, <1>3, <1>4, Nested

(* The halves of a block are each other's buddy. *)
LEMMA Halves ==
  ASSUME NEW o, NEW p, IsBlock(o + 1, p), o \in Nat
  PROVE  /\ IsBlock(o, p) /\ IsBlock(o, p + PagesOf(o))
         /\ Run(o + 1, p) = Run(o, p) \cup Run(o, p + PagesOf(o))
         /\ Run(o, p) \cap Run(o, p + PagesOf(o)) = {}
         /\ Buddy!BuddyOf(p, o) = p + PagesOf(o)
         /\ Buddy!BuddyOf(p + PagesOf(o), o) = p
<1>1. /\ o \in Buddy!Orders /\ o + 1 \in Buddy!Orders
      /\ PagesOf(o) \in Nat \ {0} /\ PagesOf(o + 1) = 2 * PagesOf(o) /\ p \in Nat
  <2>1. o + 1 \in Buddy!Orders /\ p \in Nat
    BY Sizes DEF IsBlock
  <2>2. o \in Buddy!Orders
    BY <2>1, Sizes
  <2> QED BY <2>1, <2>2, Sizes
<1>2. PICK k \in Nat : p = k * PagesOf(o + 1)
  BY DEF IsBlock
<1>3. PICK d \in Nat \ {0} : d = PagesOf(o)
  BY <1>1
<1>4. p = (2 * k) * d /\ p + d = (2 * k + 1) * d /\ 2 * k \in Nat /\ 2 * k + 1 \in Nat
  BY <1>1, <1>2, <1>3
<1>5. Run(o + 1, p) = Run(o, p) \cup Run(o, p + d) /\ Run(o, p) \cap Run(o, p + d) = {}
  BY <1>1, <1>3 DEF Run
<1>6. p + d \in Run(o + 1, p)
  BY <1>1, <1>3 DEF Run
<1>7. p \in Buddy!Pages /\ p + d \in Buddy!Pages
  BY <1>6, InArena DEF IsBlock
<1>8. IsBlock(o, p) /\ IsBlock(o, p + d)
  BY <1>1, <1>3, <1>4, <1>7 DEF IsBlock
<1>9. p \div d = 2 * k /\ (p + d) \div d = 2 * k + 1
  <2>1. \A n \in Nat : (n * d) \div d = n
    OBVIOUS
  <2> QED BY <1>4, <2>1
<1>10. (2 * k) % 2 = 0 /\ (2 * k + 1) % 2 = 1
  OBVIOUS
<1>11. \A q : Buddy!BuddyOf(q, o) = IF (q \div d) % 2 = 0 THEN q + d ELSE q - d
  BY <1>3, Zenon DEF Buddy!BuddyOf, PagesOf
<1>12. Buddy!BuddyOf(p, o) = p + d /\ Buddy!BuddyOf(p + d, o) = (p + d) - d
  BY <1>9, <1>10, <1>11
<1> QED BY <1>1, <1>3, <1>5, <1>8, <1>12

(* A block, its buddy, and the block of twice the size they make. *)
LEMMA Buddies ==
  ASSUME NEW o, NEW p, IsBlock(o, p), o + 1 \in Buddy!Orders
  PROVE  LET b == Buddy!BuddyOf(p, o)
             m == Buddy!LowerOf(p, b)
         IN  /\ IsBlock(o, b) /\ IsBlock(o + 1, m) /\ b # p
             /\ Buddy!BuddyOf(b, o) = p
             /\ Run(o + 1, m) = Run(o, p) \cup Run(o, b)
             /\ Run(o, p) \cap Run(o, b) = {}
<1> DEFINE b == Buddy!BuddyOf(p, o)
           m == Buddy!LowerOf(p, b)
<1>1. /\ o \in Buddy!Orders /\ o \in Nat /\ p \in Buddy!Pages
      /\ PagesOf(o) \in Nat \ {0} /\ PagesOf(o + 1) = 2 * PagesOf(o) /\ p \in Nat
  BY Sizes DEF IsBlock
<1>2. PICK k \in Nat : p = k * PagesOf(o)
  BY DEF IsBlock
<1>3. PICK d \in Nat \ {0} : d = PagesOf(o)
  BY <1>1
<1>4. PICK h \in Nat : k = 2 * h \/ k = 2 * h + 1
  <2>1. k \div 2 \in Nat /\ (k = 2 * (k \div 2) \/ k = 2 * (k \div 2) + 1)
    OBVIOUS
  <2> QED BY <2>1
<1> DEFINE s == h * PagesOf(o + 1)
<1>5. s \in Nat /\ s = (2 * h) * d /\ (p = s \/ p = s + d)
  BY <1>1, <1>2, <1>3, <1>4
<1>6. s \in Buddy!Pages
  <2>1. s <= p
    BY <1>1, <1>3, <1>5
  <2>2. \A n \in Int : p \in 0 .. n /\ s <= p /\ s \in Nat => s \in 0 .. n
    BY <1>1
  <2>3. PagesOf(MAX_ORDER) - 1 \in Int
    BY Sizes
  <2> QED BY <1>1, <1>5, <2>1, <2>2, <2>3, Sizes
<1>7. IsBlock(o + 1, s)
  BY <1>6 DEF IsBlock
<1> HIDE DEF s
<1>8. /\ IsBlock(o, s) /\ IsBlock(o, s + d)
      /\ Run(o + 1, s) = Run(o, s) \cup Run(o, s + d)
      /\ Run(o, s) \cap Run(o, s + d) = {}
      /\ Buddy!BuddyOf(s, o) = s + d /\ Buddy!BuddyOf(s + d, o) = s
  BY <1>1, <1>3, <1>7, Halves
<1>9. s # s + d /\ s < s + d /\ ~ (s + d < s)
  BY <1>3, <1>5
<1>10. CASE p = s
  BY <1>7, <1>8, <1>9, <1>10 DEF Buddy!LowerOf
<1>11. CASE p = s + d
  BY <1>7, <1>8, <1>9, <1>11 DEF Buddy!LowerOf
<1> QED BY <1>5, <1>10, <1>11

(* Blocks that tile the arena. *)
Apart(B) == \A b, c \in B : b # c => Buddy!Extent(b) \cap Buddy!Extent(c) = {}
Covered(B) == UNION {Buddy!Extent(b) : b \in B}
AreBlocks(B) == \A b \in B : b = <<b[1], b[2]>> /\ IsBlock(b[1], b[2])
Tiles(B) == AreBlocks(B) /\ Apart(B) /\ Buddy!Pages \subseteq Covered(B)

(* Some of the blocks can be replaced by others that cover the same. *)
LEMMA ReplaceTiles ==
  ASSUME NEW B, Tiles(B), NEW C \in SUBSET B, NEW D, AreBlocks(D), Apart(D),
         Covered(C) = Covered(D)
  PROVE  Tiles((B \ C) \cup D)
<1> DEFINE R == (B \ C) \cup D
<1>1. AreBlocks(R)
  BY DEF Tiles, AreBlocks
<1>2. Apart(R)
  <2>1. \A b \in B \ C : \A d \in D : Buddy!Extent(b) \cap Buddy!Extent(d) = {}
    <3> SUFFICES ASSUME NEW b \in B \ C, NEW d \in D, NEW x \in Buddy!Extent(b), x \in Buddy!Extent(d)
                 PROVE  FALSE
      OBVIOUS
    <3>1. x \in Covered(C)
      BY DEF Covered
    <3>2. PICK c \in C : x \in Buddy!Extent(c)
      BY <3>1 DEF Covered
    <3> QED BY <3>2 DEF Tiles, Apart
  <2> QED BY <2>1 DEF Tiles, Apart
<1>3. Buddy!Pages \subseteq Covered(R)
  <2> SUFFICES ASSUME NEW x \in Buddy!Pages PROVE x \in Covered(R)
    OBVIOUS
  <2>1. PICK b \in B : x \in Buddy!Extent(b)
    BY DEF Tiles, Covered
  <2>2. CASE b \in C
    <3>1. x \in Covered(D)
      BY <2>1, <2>2 DEF Covered
    <3> QED BY <3>1 DEF Covered
  <2>3. CASE b \notin C
    BY <2>1, <2>3 DEF Covered
  <2> QED BY <2>2, <2>3
<1> QED BY <1>1, <1>2, <1>3 DEF Tiles

(* A block and its two halves cover the same. *)
LEMMA SplitTiles ==
  ASSUME NEW B, Tiles(B), NEW o \in Nat, NEW p, <<o + 1, p>> \in B
  PROVE  Tiles((B \ {<<o + 1, p>>}) \cup {<<o, p>>, <<o, p + PagesOf(o)>>})
<1> DEFINE C == {<<o + 1, p>>}
           D == {<<o, p>>, <<o, p + PagesOf(o)>>}
<1>1. IsBlock(o + 1, p)
  BY DEF Tiles, AreBlocks
<1>2. /\ IsBlock(o, p) /\ IsBlock(o, p + PagesOf(o))
      /\ Run(o + 1, p) = Run(o, p) \cup Run(o, p + PagesOf(o))
      /\ Run(o, p) \cap Run(o, p + PagesOf(o)) = {}
  BY <1>1, Halves
<1>3. \A i, q : Buddy!Extent(<<i, q>>) = Run(i, q)
  BY Sizes
<1>4. AreBlocks(D) /\ Apart(D)
  BY <1>2, <1>3 DEF AreBlocks, Apart
<1>5. Covered(C) = Run(o + 1, p)
  BY <1>3 DEF Covered
<1>6. Covered(D) = Run(o, p) \cup Run(o, p + PagesOf(o))
  BY <1>3 DEF Covered
<1>7. C \in SUBSET B
  OBVIOUS
<1> HIDE DEF C, D
<1>8. Tiles((B \ C) \cup D)
  BY <1>2, <1>4, <1>5, <1>6, <1>7, ReplaceTiles
<1> QED BY <1>8 DEF C, D

(* Two buddies and the block they make cover the same. *)
LEMMA MergeTiles ==
  ASSUME NEW B, Tiles(B), NEW o, NEW p, NEW b, b = Buddy!BuddyOf(p, o),
         <<o, p>> \in B, <<o, b>> \in B, o + 1 \in Buddy!Orders
  PROVE  Tiles((B \ {<<o, p>>, <<o, b>>}) \cup {<<o + 1, Buddy!LowerOf(p, b)>>})
<1> DEFINE C == {<<o, p>>, <<o, b>>}
           D == {<<o + 1, Buddy!LowerOf(p, b)>>}
<1>1. IsBlock(o, p)
  BY DEF Tiles, AreBlocks
<1>2. /\ IsBlock(o + 1, Buddy!LowerOf(p, b))
      /\ Run(o + 1, Buddy!LowerOf(p, b)) = Run(o, p) \cup Run(o, b)
  BY <1>1, Buddies
<1>3. \A i, q : Buddy!Extent(<<i, q>>) = Run(i, q)
  BY Sizes
<1>4. AreBlocks(D) /\ Apart(D)
  BY <1>2, <1>3 DEF AreBlocks, Apart
<1>5. Covered(D) = Run(o + 1, Buddy!LowerOf(p, b))
  BY <1>3 DEF Covered
<1>6. Covered(C) = Run(o, p) \cup Run(o, b)
  BY <1>3 DEF Covered
<1>7. C \in SUBSET B
  OBVIOUS
<1> HIDE DEF C, D
<1>8. Tiles((B \ C) \cup D)
  BY <1>2, <1>4, <1>5, <1>6, <1>7, ReplaceTiles
<1> QED BY <1>8 DEF C, D
-----------------------------------------------------------------------------
(* 05_buddy.c: free and used blocks tile the arena, no two callers hold    *)
(* the same block, and no two buddies are free.                            *)
Free == Buddy!FreeBlocks
Used == Buddy!LiveBlocks

NoBuddies(F) == \A b \in F : <<b[1], Buddy!BuddyOf(b[2], b[1])>> \notin F

BuddyInv ==
  /\ Buddy!TypeOK
  /\ Tiles(Free \cup Used)
  /\ Free \cap Used = {}
  /\ \A o \in Buddy!Orders : Buddy!IsInjective(fl[o])
  /\ \A r, s \in pages_live : r[1] = s[1] => r = s
  /\ NoBuddies(Free)

(* fl_push(): the block is on the list, once if it was not there. *)
LEMMA Pushed ==
  ASSUME NEW S, NEW s \in Seq(S), NEW x \in S
  PROVE  LET t == Buddy!fl_push(s, x)
         IN  /\ t \in Seq(S)
             /\ \A y : Buddy!Contains(t, y) <=> y = x \/ Buddy!Contains(s, y)
             /\ Buddy!IsInjective(s) /\ ~ Buddy!Contains(s, x) => Buddy!IsInjective(t)
<1> DEFINE t == Buddy!fl_push(s, x)
           n == Len(s)
<1>1. n \in Nat /\ DOMAIN s = 1 .. n /\ \A i \in 1 .. n : s[i] \in S
  OBVIOUS
<1>2. t \in Seq(S) /\ Len(t) = n + 1 /\ DOMAIN t = 1 .. n + 1
  BY <1>1 DEF Buddy!fl_push
<1>3. t[1] = x
  BY <1>1 DEF Buddy!fl_push
<1>4. \A i \in 1 .. n : t[i + 1] = s[i]
  BY <1>1 DEF Buddy!fl_push
<1>5. \A i \in 2 .. n + 1 : i - 1 \in 1 .. n /\ t[i] = s[i - 1]
  <2> TAKE i \in 2 .. n + 1
  <2>1. i - 1 \in 1 .. n /\ (i - 1) + 1 = i
    BY <1>1
  <2> QED BY <1>4, <2>1
<1> HIDE DEF t, n
<1>6. ASSUME NEW y PROVE Buddy!Contains(t, y) <=> y = x \/ Buddy!Contains(s, y)
  <2>1. Buddy!Contains(t, y) <=> \E i \in 1 .. n + 1 : t[i] = y
    BY <1>2 DEF Buddy!Contains
  <2>2. Buddy!Contains(s, y) <=> \E i \in 1 .. n : s[i] = y
    BY DEF Buddy!Contains, n
  <2>3. \A i \in 1 .. n + 1 : i = 1 \/ i \in 2 .. n + 1
    BY <1>1
  <2>4. 1 \in 1 .. n + 1 /\ \A i \in 1 .. n : i + 1 \in 1 .. n + 1
    BY <1>1
  <2> QED BY <1>3, <1>4, <1>5, <2>1, <2>2, <2>3, <2>4, Zenon
<1>7. ASSUME Buddy!IsInjective(s), ~ Buddy!Contains(s, x) PROVE Buddy!IsInjective(t)
  <2>1. \A i \in 1 .. n : s[i] # x
    BY <1>7 DEF Buddy!Contains, n
  <2>2. \A i, j \in 1 .. n : s[i] = s[j] => i = j
    BY <1>1, <1>7 DEF Buddy!IsInjective
  <2>3. \A i, j \in 1 .. n + 1 : t[i] = t[j] => i = j
    <3> SUFFICES ASSUME NEW i \in 1 .. n + 1, NEW j \in 1 .. n + 1, t[i] = t[j] PROVE i = j
      OBVIOUS
    <3>0. \A h \in 2 .. n + 1 : t[h] # x
      BY <1>5, <2>1
    <3>1. CASE i = 1 \/ j = 1
      <4>1. (i = 1 \/ i \in 2 .. n + 1) /\ (j = 1 \/ j \in 2 .. n + 1)
        BY <1>1
      <4> QED BY <1>3, <3>0, <3>1, <4>1, Zenon
    <3>2. CASE i # 1 /\ j # 1
      <4>1. i \in 2 .. n + 1 /\ j \in 2 .. n + 1
        BY <1>1, <3>2
      <4>2. i - 1 = j - 1
        BY <1>5, <2>2, <4>1
      <4> QED BY <1>1, <4>2
    <3> QED BY <3>1, <3>2
  <2> QED BY <1>2, <2>3 DEF Buddy!IsInjective
<1> QED BY <1>2, <1>6, <1>7 DEF t

(* A list without its k-th block. *)
Without(s, k) == [j \in 1 .. Len(s) - 1 |-> s[IF j < k THEN j ELSE j + 1]]

(* The other blocks are still on it. *)
LEMMA Cut ==
  ASSUME NEW S, NEW s \in Seq(S), Buddy!IsInjective(s), NEW k \in 1 .. Len(s), NEW t,
         t = Without(s, k)
  PROVE  /\ t \in Seq(S)
         /\ \A y : Buddy!Contains(t, y) <=> Buddy!Contains(s, y) /\ y # s[k]
         /\ Buddy!IsInjective(t)
<1> DEFINE n == Len(s)
           at(j) == IF j < k THEN j ELSE j + 1
<1>1. n \in Nat /\ n - 1 \in Nat /\ DOMAIN s = 1 .. n /\ \A i \in 1 .. n : s[i] \in S
  OBVIOUS
<1>2. /\ \A j \in 1 .. n - 1 : at(j) \in 1 .. n /\ at(j) # k
      /\ \A i, j \in 1 .. n - 1 : at(i) = at(j) => i = j
      /\ \A i \in 1 .. n : i # k => \E j \in 1 .. n - 1 : at(j) = i
  <2>1. ASSUME NEW i \in 1 .. n, i # k PROVE \E j \in 1 .. n - 1 : at(j) = i
    <3>1. CASE i < k
      <4>1. i \in 1 .. n - 1 /\ at(i) = i
        BY <1>1, <3>1
      <4> QED BY <4>1
    <3>2. CASE i > k
      <4>1. i - 1 \in 1 .. n - 1 /\ at(i - 1) = i
        BY <1>1, <3>2
      <4> QED BY <4>1
    <3> QED BY <1>1, <2>1, <3>1, <3>2
  <2> QED BY <1>1, <2>1
<1>3. DOMAIN t = 1 .. n - 1 /\ \A j \in 1 .. n - 1 : t[j] = s[at(j)]
  BY DEF Without
<1>4. t \in Seq(S) /\ Len(t) = n - 1
  <2>1. t \in [1 .. n - 1 -> S]
    BY <1>1, <1>2 DEF Without
  <2> HIDE DEF n
  <2> QED BY <1>1, <2>1
<1>5. \A i, j \in 1 .. n : s[i] = s[j] => i = j
  BY <1>1 DEF Buddy!IsInjective
<1> HIDE DEF at
<1>6. Buddy!IsInjective(t)
  <2>1. \A i, j \in 1 .. n - 1 : t[i] = t[j] => i = j
    <3> SUFFICES ASSUME NEW i \in 1 .. n - 1, NEW j \in 1 .. n - 1, t[i] = t[j] PROVE i = j
      OBVIOUS
    <3>1. s[at(i)] = s[at(j)] /\ at(i) \in 1 .. n /\ at(j) \in 1 .. n
      BY <1>2, <1>3
    <3>2. at(i) = at(j)
      BY <1>5, <3>1, Zenon
    <3> QED BY <1>2, <3>2, Zenon
  <2> QED BY <1>3, <2>1 DEF Buddy!IsInjective
<1>7. ASSUME NEW y PROVE Buddy!Contains(t, y) <=> Buddy!Contains(s, y) /\ y # s[k]
  <2>1. Buddy!Contains(t, y) <=> \E j \in 1 .. n - 1 : t[j] = y
    BY <1>4 DEF Buddy!Contains
  <2>2. Buddy!Contains(s, y) <=> \E i \in 1 .. n : s[i] = y
    BY DEF Buddy!Contains
  <2>3. ASSUME NEW j \in 1 .. n - 1, t[j] = y PROVE Buddy!Contains(s, y) /\ y # s[k]
    <3>1. s[at(j)] = y /\ at(j) \in 1 .. n /\ at(j) # k
      BY <1>2, <1>3, <2>3
    <3> QED BY <1>5, <2>2, <3>1
  <2>4. ASSUME NEW i \in 1 .. n, s[i] = y, y # s[k] PROVE Buddy!Contains(t, y)
    <3>1. PICK j \in 1 .. n - 1 : at(j) = i
      BY <1>2, <2>4
    <3> QED BY <1>3, <2>1, <2>4, <3>1
  <2> QED BY <2>1, <2>2, <2>3, <2>4
<1> QED BY <1>4, <1>6, <1>7

(* fl_pop(): the head, and the list without it. *)
LEMMA Popped ==
  ASSUME NEW S, NEW s \in Seq(S), s # << >>, Buddy!IsInjective(s)
  PROVE  /\ Head(s) \in S /\ Buddy!Contains(s, Head(s))
         /\ Tail(s) \in Seq(S)
         /\ \A y : Buddy!Contains(Tail(s), y) <=> Buddy!Contains(s, y) /\ y # Head(s)
         /\ Buddy!IsInjective(Tail(s))
<1>1. Len(s) \in Nat \ {0} /\ Head(s) = s[1] /\ 1 \in 1 .. Len(s) /\ s[1] \in S
  OBVIOUS
<1>2. Tail(s) \in Seq(S) /\ Len(Tail(s)) = Len(s) - 1 /\ \A j \in 1 .. Len(s) - 1 : Tail(s)[j] = s[j + 1]
  OBVIOUS
<1>3. DOMAIN Tail(s) = 1 .. Len(s) - 1 /\ Tail(s) = [j \in DOMAIN Tail(s) |-> Tail(s)[j]]
  <2> DEFINE t == Tail(s)
  <2>1. t \in Seq(S) /\ Len(t) = Len(s) - 1
    BY <1>2
  <2> HIDE DEF t
  <2>2. DOMAIN t = 1 .. Len(s) - 1 /\ t = [j \in DOMAIN t |-> t[j]]
    BY <2>1
  <2> QED BY <2>2 DEF t
<1>4. \A j \in 1 .. Len(s) - 1 : Tail(s)[j] = s[IF j < 1 THEN j ELSE j + 1]
  BY <1>1, <1>2
<1>5. Tail(s) = Without(s, 1)
  BY <1>3, <1>4 DEF Without
<1>6. Buddy!Contains(s, s[1])
  BY <1>1 DEF Buddy!Contains
<1> QED BY <1>1, <1>5, <1>6, Cut

(* fl_remove(): the list without the block. *)
LEMMA Removed ==
  ASSUME NEW S, NEW s \in Seq(S), NEW x, Buddy!Contains(s, x), Buddy!IsInjective(s)
  PROVE  LET t == Buddy!fl_remove(s, x)
         IN  /\ t \in Seq(S)
             /\ \A y : Buddy!Contains(t, y) <=> Buddy!Contains(s, y) /\ y # x
             /\ Buddy!IsInjective(t)
<1> DEFINE k == CHOOSE k \in DOMAIN s : s[k] = x /\ \A i \in 1 .. k - 1 : s[i] # x
<1>1. DOMAIN s = 1 .. Len(s) /\ Len(s) \in Nat
  OBVIOUS
<1>2. PICK i \in 1 .. Len(s) : s[i] = x
  BY DEF Buddy!Contains
<1>3. \A j \in 1 .. Len(s) : j # i => s[j] # x
  BY <1>1, <1>2 DEF Buddy!IsInjective
<1>4. \A j \in 1 .. i - 1 : s[j] # x
  BY <1>1, <1>3
<1>5. k \in 1 .. Len(s) /\ s[k] = x
  BY <1>1, <1>2, <1>4
<1>6. Buddy!fl_remove(s, x) = Without(s, k)
  BY Zenon DEF Buddy!fl_remove, Without
<1> HIDE DEF k
<1> QED BY <1>5, <1>6, Cut

(* The order that both functions compute has room for the pages. *)
LEMMA OrderFits ==
  ASSUME NEW pages \in PageRequests
  PROVE  /\ Buddy!OrderOf(pages) \in 0 .. 30
         /\ pages \in Nat /\ pages <= PagesOf(Buddy!OrderOf(pages))
<1> DEFINE S == {o \in 0 .. 30 : pages <= 2 ^ o}
<1>0. pages \in Nat /\ 30 \in S
  <2>1. pages \in 0 .. 2 ^ 30
    BY AllocatorsAssumption, Zenon DEF Buddy!BuddyAssumption
  <2> QED BY <2>1
<1>1. PICK m \in S : \A x \in S : m <= x
  <2>1. S \in SUBSET Nat /\ S # {}
    <3>1. \A o \in 0 .. 30 : o \in Nat
      OBVIOUS
    <3> QED BY <1>0, <3>1, Zenon
  <2> HIDE DEF S
  <2> QED BY <2>1, LeastMember
<1>2. m = 0 \/ 2 ^ (m - 1) < pages
  <2> SUFFICES ASSUME m # 0 PROVE 2 ^ (m - 1) < pages
    OBVIOUS
  <2>1. m - 1 \in 0 .. 30 /\ ~ (m <= m - 1)
    OBVIOUS
  <2>2. ~ (pages <= 2 ^ (m - 1))
    BY <1>1, <2>1, Zenon
  <2>3. 2 ^ (m - 1) \in Nat \ {0}
    BY <2>1, Powers, Zenon
  <2>4. \A d \in Nat \ {0} : ~ (pages <= d) => d < pages
    BY <1>0
  <2> QED BY <2>2, <2>3, <2>4, Zenon
<1>3. \E o \in 0 .. 30 : pages <= 2 ^ o /\ (o = 0 \/ 2 ^ (o - 1) < pages)
  BY <1>1, <1>2, Zenon
<1>4. Buddy!OrderOf(pages) \in 0 .. 30 /\ pages <= 2 ^ Buddy!OrderOf(pages)
  BY <1>3, Zenon DEF Buddy!OrderOf
<1> QED BY <1>0, <1>4, Zenon DEF PagesOf

(* The smaller blocks that a block begins with. *)
LEMMA Prefix ==
  ASSUME NEW o, NEW p, IsBlock(o, p), NEW i \in 0 .. o
  PROVE  IsBlock(i, p) /\ Run(i, p) \subseteq Run(o, p)
<1>1. o \in Buddy!Orders /\ i \in Buddy!Orders /\ i <= o /\ p \in Nat
  BY Sizes DEF IsBlock
<1>2. PICK k \in Nat : p = k * PagesOf(o)
  BY DEF IsBlock
<1>3. PICK m \in Nat \ {0} : PagesOf(o) = m * PagesOf(i)
  BY <1>1, Sizes
<1>4. PagesOf(i) \in Nat
  BY <1>1, Sizes
<1>5. p = (k * m) * PagesOf(i) /\ k * m \in Nat
  BY <1>2, <1>3, <1>4
<1>6. IsBlock(i, p)
  BY <1>1, <1>5 DEF IsBlock
<1> QED BY <1>1, <1>6, InArena, Nested

(* What is left of the block <<o, p>> when it has been split down to the   *)
(* order j.                                                                *)
UpperHalves(o, p, j) == {<<i, p + PagesOf(i)>> : i \in j .. o - 1}
SplitTo(B, o, p, j) == ((B \ {<<o, p>>}) \cup {<<j, p>>}) \cup UpperHalves(o, p, j)

(* The upper halves are blocks inside of it. *)
LEMMA HalvesInside ==
  ASSUME NEW o, NEW p, IsBlock(o, p), NEW i, i \in 0 .. o - 1
  PROVE  IsBlock(i, p + PagesOf(i)) /\ Run(i, p + PagesOf(i)) \subseteq Run(o, p)
<1>1. i + 1 \in 0 .. o /\ i \in Nat
  BY Sizes DEF IsBlock
<1>2. IsBlock(i + 1, p) /\ Run(i + 1, p) \subseteq Run(o, p)
  BY <1>1, Prefix
<1> QED BY <1>1, <1>2, Halves

(* Only one of the blocks begins at p. *)
LEMMA OneAt ==
  ASSUME NEW B, Tiles(B), NEW o, NEW p, <<o, p>> \in B, NEW i, <<i, p>> \in B
  PROVE  i = o
<1>1. IsBlock(o, p) /\ IsBlock(i, p)
  BY DEF Tiles, AreBlocks
<1>2. p \in Run(o, p) /\ p \in Run(i, p)
  BY <1>1, InArena
<1>3. p \in Buddy!Extent(<<o, p>>) /\ p \in Buddy!Extent(<<i, p>>)
  BY <1>2, Sizes
<1>4. <<o, p>> = <<i, p>>
  BY <1>3, Zenon DEF Tiles, Apart
<1> QED BY <1>4

(* Splitting a block down leaves a tiling. *)
LEMMA SplitMany ==
  ASSUME NEW B, Tiles(B), NEW o, NEW p, <<o, p>> \in B, NEW r \in 0 .. o
  PROVE  Tiles(SplitTo(B, o, p, r))
<1>0. o \in Nat /\ r \in Nat /\ IsBlock(o, p) /\ o \in Buddy!Orders /\ p \in Nat
  BY Sizes DEF Tiles, AreBlocks, IsBlock
<1>1. \A i : <<i, p>> \in B => i = o
  BY OneAt
<1> DEFINE P == {n \in Nat : n <= o - r => Tiles(SplitTo(B, o, p, o - n))}
<1>2. 0 \in P
  <2>1. SplitTo(B, o, p, o) = B
    <3>1. o .. o - 1 = {}
      BY <1>0
    <3> QED BY <3>1 DEF SplitTo, UpperHalves
  <2>2. o - 0 = o
    BY <1>0
  <2> QED BY <2>1, <2>2
<1>3. \A n \in Nat : n \in P => n + 1 \in P
  <2> SUFFICES ASSUME NEW n \in Nat, n \in P, n + 1 <= o - r
               PROVE  Tiles(SplitTo(B, o, p, o - (n + 1)))
    OBVIOUS
  <2> DEFINE j == o - (n + 1)
             X == SplitTo(B, o, p, j + 1)
  <2>1. j \in Nat /\ o - n = j + 1 /\ n <= o - r /\ j < o
    BY <1>0
  <2>2. Tiles(X)
    BY <2>1
  <2> HIDE DEF j
  <2>3. <<j + 1, p>> \in X
    BY DEF SplitTo
  <2>4. Tiles((X \ {<<j + 1, p>>}) \cup {<<j, p>>, <<j, p + PagesOf(j)>>})
    BY <2>1, <2>2, <2>3, SplitTiles
  <2>5. \A i : i \in j .. o - 1 <=> i = j \/ i \in j + 1 .. o - 1
    BY <1>0, <2>1
  <2>6. UpperHalves(o, p, j) = UpperHalves(o, p, j + 1) \cup {<<j, p + PagesOf(j)>>}
    BY <2>5, Zenon DEF UpperHalves
  <2>7. \A i \in j + 1 .. o - 1 : p + PagesOf(i) # p
    <3>1. \A i \in j + 1 .. o - 1 : i \in Buddy!Orders
      BY <1>0, <2>1, Sizes
    <3>2. \A d \in Nat \ {0} : p + d # p
      BY <1>0
    <3> QED BY <3>1, <3>2, Sizes, Zenon
  <2>8. <<j + 1, p>> \notin UpperHalves(o, p, j + 1) /\ <<j + 1, p>> \notin B \ {<<o, p>>}
    BY <1>1, <2>7 DEF UpperHalves
  <2>9. SplitTo(B, o, p, j) = (X \ {<<j + 1, p>>}) \cup {<<j, p>>, <<j, p + PagesOf(j)>>}
    BY <2>6, <2>8, Zenon DEF SplitTo
  <2> QED BY <2>4, <2>9 DEF j
<1> HIDE DEF P
<1>4. Nat \subseteq P
  BY <1>2, <1>3, AllNumbers
<1>5. o - r \in Nat /\ o - (o - r) = r /\ o - r <= o - r
  BY <1>0
<1>6. o - r \in P
  BY <1>4, <1>5
<1> QED BY <1>5, <1>6 DEF P

(* The free blocks, list by list. *)
LEMMA FreeIs ==
  /\ \A j \in Buddy!Orders, q \in Buddy!Pages : <<j, q>> \in Free <=> Buddy!Contains(fl[j], q)
  /\ \A b \in Free : b[1] \in Buddy!Orders /\ b[2] \in Buddy!Pages /\ b = <<b[1], b[2]>>
BY DEF Free, Buddy!FreeBlocks

(* The used blocks are those of the callers. *)
LEMMA UsedIs ==
  /\ \A r \in pages_live : <<Buddy!OrderOf(r[2]), r[1]>> \in Used
  /\ \A b \in Used : \E r \in pages_live : b = <<Buddy!OrderOf(r[2]), r[1]>>
BY Zenon DEF Used, Buddy!LiveBlocks

(* What buddy_alloc() does: the block <<o, b>> is split down to the order  *)
(* that was asked for.                                                     *)
AllocShape(pages, r, o, b) ==
  /\ r = Buddy!OrderOf(pages) /\ o \in Buddy!Orders /\ r \in 0 .. o /\ b \in Buddy!Pages
  /\ <<o, b>> \in Free
  /\ Free' = (Free \ {<<o, b>>}) \cup UpperHalves(o, b, r)
  /\ pages_live' = pages_live \cup {<<b, pages>>}
  /\ Used' = Used \cup {<<r, b>>}
  /\ fl' \in [Buddy!Orders -> Seq(Buddy!Pages)]
  /\ \A j \in Buddy!Orders : Buddy!IsInjective(fl'[j])

(* A new list is its old one with what is taken and added. *)
LEMMA AllocShapeOf ==
  ASSUME BuddyInv, NEW pages \in PageRequests, Buddy!buddy_alloc(pages)
  PROVE  \E r, o, b : AllocShape(pages, r, o, b)
<1> DEFINE r == Buddy!OrderOf(pages)
<1>1. PICK o \in Buddy!Candidates(r) :
        LET b == Head(fl[o]) IN
        /\ fl' = [j \in Buddy!Orders |-> IF j = o THEN Tail(fl[j])
                                         ELSE IF j \in r .. o - 1
                                              THEN Buddy!fl_push(fl[j], Buddy!UpperHalf(b, j))
                                         ELSE fl[j]]
        /\ pages_live' = pages_live \cup {<<b, pages>>}
  BY Zenon DEF Buddy!buddy_alloc
<1> DEFINE b == Head(fl[o])
           half(j) == b + PagesOf(j)
<1>2. o \in Buddy!Orders /\ r \in 0 .. o /\ r \in 0 .. 30 /\ o \in Nat
  <2>1. r \in 0 .. 30 /\ o \in r .. MAX_ORDER /\ MAX_ORDER \in Nat
    <3>1. r \in 0 .. 30
      BY OrderFits, Zenon
    <3>2. o \in r .. MAX_ORDER
      BY Zenon DEF Buddy!Candidates
    <3>3. MAX_ORDER \in Nat
      BY Sizes
    <3> QED BY <3>1, <3>2, <3>3, Zenon
  <2> HIDE DEF r
  <2>2. r \in 0 .. o /\ o \in 0 .. MAX_ORDER /\ o \in Nat
    BY <2>1
  <2> QED BY <2>1, <2>2, Sizes, Zenon
<1>3. /\ \A j \in Buddy!Orders : fl[j] \in Seq(Buddy!Pages) /\ Buddy!IsInjective(fl[j])
      /\ fl[o] # << >>
  BY DEF BuddyInv, Buddy!TypeOK, Buddy!Candidates
<1>4. /\ b \in Buddy!Pages /\ Buddy!Contains(fl[o], b)
      /\ Tail(fl[o]) \in Seq(Buddy!Pages)
      /\ \A y : Buddy!Contains(Tail(fl[o]), y) <=> Buddy!Contains(fl[o], y) /\ y # b
      /\ Buddy!IsInjective(Tail(fl[o]))
  BY <1>2, <1>3, Popped
<1>5. <<o, b>> \in Free
  BY <1>2, <1>4, FreeIs
<1>6. IsBlock(o, b)
  BY <1>5 DEF BuddyInv, Tiles, AreBlocks
<1>7. ASSUME NEW j \in r .. o - 1
      PROVE  /\ j \in Buddy!Orders /\ j # o /\ half(j) \in Buddy!Pages
             /\ ~ Buddy!Contains(fl[j], half(j))
  <2>1. j \in 0 .. o - 1 /\ j \in Buddy!Orders /\ j # o
    <3> HIDE DEF r
    <3> QED BY <1>2, Sizes
  <2> HIDE DEF b
  <2>2. IsBlock(j, half(j)) /\ Run(j, half(j)) \subseteq Run(o, b)
    BY <1>6, <2>1, HalvesInside
  <2>3. half(j) \in Run(j, half(j)) /\ half(j) \in Buddy!Pages
    BY <2>2, InArena DEF IsBlock
  <2>4. <<j, half(j)>> \notin Free
    <3> SUFFICES ASSUME <<j, half(j)>> \in Free PROVE FALSE
      OBVIOUS
    <3>1. half(j) \in Buddy!Extent(<<j, half(j)>>) /\ half(j) \in Buddy!Extent(<<o, b>>)
      <4>1. \A i, q : Buddy!Extent(<<i, q>>) = Run(i, q)
        BY Sizes
      <4> HIDE DEF half
      <4> QED BY <2>2, <2>3, <4>1
    <3>2. <<j, half(j)>> # <<o, b>>
      BY <2>1
    <3> QED BY <1>5, <3>1, <3>2, Zenon DEF BuddyInv, Tiles, Apart
  <2> QED BY <2>1, <2>3, <2>4, FreeIs
<1> HIDE DEF r, b
<1>8. /\ fl'[o] = Tail(fl[o])
      /\ \A j \in r .. o - 1 : fl'[j] = Buddy!fl_push(fl[j], half(j))
      /\ \A j \in Buddy!Orders : j # o /\ j \notin r .. o - 1 => fl'[j] = fl[j]
      /\ DOMAIN fl' = Buddy!Orders /\ fl' = [j \in Buddy!Orders |-> fl'[j]]
      /\ pages_live' = pages_live \cup {<<b, pages>>}
  <2>1. \A j : Buddy!UpperHalf(b, j) = half(j)
    BY Zenon DEF Buddy!UpperHalf, PagesOf
  <2>2. fl' = [j \in Buddy!Orders |-> IF j = o THEN Tail(fl[j])
                                      ELSE IF j \in r .. o - 1
                                           THEN Buddy!fl_push(fl[j], half(j))
                                      ELSE fl[j]]
    BY <1>1, <2>1, Zenon DEF b
  <2>3. pages_live' = pages_live \cup {<<b, pages>>}
    BY <1>1 DEF b
  <2> HIDE DEF half
  <2> QED BY <1>2, <1>7, <2>2, <2>3, Zenon
<1>9. ASSUME NEW j \in Buddy!Orders
      PROVE  /\ fl'[j] \in Seq(Buddy!Pages) /\ Buddy!IsInjective(fl'[j])
             /\ \A q : Buddy!Contains(fl'[j], q) <=>
                         \/ Buddy!Contains(fl[j], q) /\ ~ (j = o /\ q = b)
                         \/ j \in r .. o - 1 /\ q = half(j)
  <2>1. CASE j = o
    <3>1. o \notin r .. o - 1
      BY <1>2
    <3> QED BY <1>4, <1>8, <2>1, <3>1
  <2>2. CASE j \in r .. o - 1
    <3>1. /\ fl[j] \in Seq(Buddy!Pages) /\ half(j) \in Buddy!Pages /\ j # o
          /\ Buddy!IsInjective(fl[j]) /\ ~ Buddy!Contains(fl[j], half(j))
      BY <1>3, <1>7, <2>2
    <3> HIDE DEF half
    <3> QED BY <1>8, <2>2, <3>1, Pushed
  <2>3. CASE j # o /\ j \notin r .. o - 1
    BY <1>3, <1>8, <2>3
  <2> QED BY <2>1, <2>2, <2>3
<1>10. Free' = (Free \ {<<o, b>>}) \cup UpperHalves(o, b, r)
  <2>1. /\ \A j \in Buddy!Orders, q \in Buddy!Pages : <<j, q>> \in Free' <=> Buddy!Contains(fl'[j], q)
        /\ \A c \in Free' : c[1] \in Buddy!Orders /\ c[2] \in Buddy!Pages /\ c = <<c[1], c[2]>>
    BY DEF Free, Buddy!FreeBlocks
  <2>2. UpperHalves(o, b, r) = {<<j, half(j)>> : j \in r .. o - 1}
    BY DEF UpperHalves
  <2> HIDE DEF half
  <2>3. \A j, q : <<j, q>> \in UpperHalves(o, b, r) <=> j \in r .. o - 1 /\ q = half(j)
    BY <2>2
  <2>4. \A c \in UpperHalves(o, b, r) :
          c[1] \in Buddy!Orders /\ c[2] \in Buddy!Pages /\ c = <<c[1], c[2]>>
    BY <1>7, <2>2
  <2>5. ASSUME NEW j \in Buddy!Orders, NEW q \in Buddy!Pages
        PROVE  <<j, q>> \in Free' <=> <<j, q>> \in (Free \ {<<o, b>>}) \cup UpperHalves(o, b, r)
    BY <1>9, <2>1, <2>3, FreeIs
  <2>6. ASSUME NEW c PROVE c \in Free' <=> c \in (Free \ {<<o, b>>}) \cup UpperHalves(o, b, r)
    <3>1. CASE c = <<c[1], c[2]>> /\ c[1] \in Buddy!Orders /\ c[2] \in Buddy!Pages
      BY <2>5, <3>1, Zenon
    <3>2. CASE ~ (c = <<c[1], c[2]>> /\ c[1] \in Buddy!Orders /\ c[2] \in Buddy!Pages)
      BY <2>1, <2>4, <3>2, FreeIs, Zenon
    <3> QED BY <3>1, <3>2
  <2> QED BY <2>6
<1>11. Used' = Used \cup {<<r, b>>}
  <2>1. Used' = {<<Buddy!OrderOf(u[2]), u[1]>> : u \in pages_live'}
    BY Zenon DEF Used, Buddy!LiveBlocks
  <2>2. Used = {<<Buddy!OrderOf(u[2]), u[1]>> : u \in pages_live}
    BY Zenon DEF Used, Buddy!LiveBlocks
  <2> DEFINE block(u) == <<Buddy!OrderOf(u[2]), u[1]>>
  <2>3. block(<<b, pages>>) = <<r, b>>
    BY DEF r
  <2>4. Used' = {block(u) : u \in pages_live \cup {<<b, pages>>}} /\ Used = {block(u) : u \in pages_live}
    BY <1>8, <2>1, <2>2, Zenon
  <2> HIDE DEF block
  <2> QED BY <2>3, <2>4
<1>12. fl' \in [Buddy!Orders -> Seq(Buddy!Pages)]
  BY <1>8, <1>9
<1>13. AllocShape(pages, r, o, b)
  BY <1>2, <1>4, <1>5, <1>8, <1>9, <1>10, <1>11, <1>12 DEF AllocShape, r
<1> QED BY <1>13

(* Splitting keeps the invariant. *)
LEMMA BuddyAllocStep ==
  ASSUME BuddyInv, NEW pages \in PageRequests, NEW r, NEW o, NEW b, AllocShape(pages, r, o, b)
  PROVE  BuddyInv'
<1> DEFINE B == Free \cup Used
           H == UpperHalves(o, b, r)
<1>0. /\ r = Buddy!OrderOf(pages) /\ o \in Buddy!Orders /\ r \in 0 .. o /\ b \in Buddy!Pages
      /\ <<o, b>> \in Free /\ <<o, b>> \in B /\ <<o, b>> \notin Used
      /\ Free' = (Free \ {<<o, b>>}) \cup H
      /\ Used' = Used \cup {<<r, b>>}
      /\ Tiles(B) /\ Free \cap Used = {}
  BY DEF AllocShape, BuddyInv
<1>1. IsBlock(o, b)
  BY <1>0 DEF Tiles, AreBlocks
<1>2. Free' \cup Used' = SplitTo(B, o, b, r)
  BY <1>0, Zenon DEF SplitTo
<1>3. Tiles(Free' \cup Used') /\ Tiles(Free \cup Used)'
  <2>1. Tiles(SplitTo(B, o, b, r))
    <3> HIDE DEF B
    <3> QED BY <1>0, SplitMany
  <2>2. Tiles(Free' \cup Used')
    BY <1>2, <2>1
  <2>3. Tiles(Free \cup Used)'
    BY <2>2, Zenon DEF Tiles, AreBlocks, Apart, Covered
  <2> QED BY <2>2, <2>3
<1>4. \A j : <<j, b>> \in B => j = o
  BY <1>0, OneAt
<1>5. ASSUME NEW c \in H
      PROVE  \E j \in 0 .. o - 1 : /\ c = <<j, b + PagesOf(j)>> /\ IsBlock(j, b + PagesOf(j))
                                   /\ b + PagesOf(j) # b /\ c \notin B
                                   /\ j + 1 \in Buddy!Orders
                                   /\ Buddy!BuddyOf(b + PagesOf(j), j) = b
  <2>1. PICK j \in r .. o - 1 : c = <<j, b + PagesOf(j)>>
    BY DEF UpperHalves
  <2>2. j \in 0 .. o - 1 /\ j + 1 \in 0 .. o /\ j \in Nat /\ j # o /\ j \in Buddy!Orders
    BY <1>0, Sizes
  <2>3. IsBlock(j, b + PagesOf(j)) /\ Run(j, b + PagesOf(j)) \subseteq Run(o, b)
    BY <1>1, <2>2, HalvesInside
  <2>4. IsBlock(j + 1, b)
    BY <1>1, <2>2, Prefix
  <2>5. Buddy!BuddyOf(b + PagesOf(j), j) = b
    BY <2>2, <2>4, Halves
  <2>6. b + PagesOf(j) # b
    <3>1. b \in Nat /\ PagesOf(j) \in Nat \ {0}
      BY <1>0, <2>2, Sizes
    <3> QED BY <3>1
  <2>7. b + PagesOf(j) \in Buddy!Extent(c) /\ b + PagesOf(j) \in Buddy!Extent(<<o, b>>)
    <3>1. b + PagesOf(j) \in Run(j, b + PagesOf(j))
      BY <2>3, InArena
    <3>2. \A i, q : Buddy!Extent(<<i, q>>) = Run(i, q)
      BY Sizes
    <3> QED BY <2>1, <2>3, <3>1, <3>2, Zenon
  <2>8. c # <<o, b>>
    BY <2>1, <2>2
  <2>9. c \notin B
    BY <1>0, <2>7, <2>8, Zenon DEF Tiles, Apart
  <2> QED BY <2>1, <2>2, <2>3, <2>4, <2>5, <2>6, <2>9 DEF IsBlock
<1>6. <<r, b>> \notin Free'
  <2>1. <<r, b>> \notin H
    <3> SUFFICES ASSUME <<r, b>> \in H PROVE FALSE
      OBVIOUS
    <3>1. PICK j \in 0 .. o - 1 : <<r, b>> = <<j, b + PagesOf(j)>> /\ b + PagesOf(j) # b
      BY <1>5
    <3> QED BY <3>1
  <2>2. <<r, b>> \notin Free \ {<<o, b>>}
    BY <1>4
  <2> QED BY <1>0, <2>1, <2>2
<1>7. (Free \cap Used)' = {}
  <2>1. H \cap Used = {}
    BY <1>5
  <2> QED BY <1>0, <1>6, <2>1, Zenon
<1>8. \A j : <<j, b>> \notin Free'
  <2> SUFFICES ASSUME NEW j, <<j, b>> \in Free' PROVE FALSE
    OBVIOUS
  <2>1. <<r, b>> \in Free' \cup Used' /\ <<j, b>> \in Free' \cup Used'
    BY <1>0
  <2>2. Tiles(Free' \cup Used')
    BY <1>3
  <2>3. j = r
    BY <2>1, <2>2, OneAt
  <2> QED BY <1>6, <2>3
<1>9. NoBuddies(Free)'
  <2> SUFFICES ASSUME NEW c \in Free', NEW d, d = <<c[1], Buddy!BuddyOf(c[2], c[1])>>, d \in Free'
               PROVE  FALSE
    BY Zenon DEF NoBuddies, Buddy!BuddyOf
  <2>1. CASE c \in H
    <3>1. PICK j \in 0 .. o - 1 : c = <<j, b + PagesOf(j)>> /\ Buddy!BuddyOf(b + PagesOf(j), j) = b
      BY <1>5, <2>1
    <3>2. d = <<j, b>>
      BY <3>1
    <3> QED BY <1>8, <3>2
  <2>2. CASE d \in H /\ c \in Free
    <3>1. PICK j \in 0 .. o - 1 : /\ d = <<j, b + PagesOf(j)>> /\ j + 1 \in Buddy!Orders
                                  /\ Buddy!BuddyOf(b + PagesOf(j), j) = b
      BY <1>5, <2>2
    <3>2. c[1] = j /\ Buddy!BuddyOf(c[2], j) = b + PagesOf(j)
      BY <3>1
    <3>3. IsBlock(j, c[2]) /\ c = <<j, c[2]>>
      BY <1>0, <2>2, <3>2, Zenon DEF Tiles, AreBlocks
    <3>4. Buddy!BuddyOf(b + PagesOf(j), j) = c[2]
      BY <3>1, <3>2, <3>3, Buddies
    <3> QED BY <1>8, <3>1, <3>3, <3>4
  <2>3. CASE c \in Free /\ d \in Free
    BY <2>3 DEF BuddyInv, NoBuddies
  <2> QED BY <1>0, <2>1, <2>2, <2>3
<1>10. pages_live' = pages_live \cup {<<b, pages>>} /\ pages_live \subseteq Buddy!Pages \X PageRequests
  BY DEF AllocShape, BuddyInv, Buddy!TypeOK
<1>11. \A u, v \in pages_live' : u[1] = v[1] => u = v
  <2>1. ASSUME NEW u \in pages_live PROVE u[1] # b
    <3>1. <<Buddy!OrderOf(u[2]), u[1]>> \in Used
      BY UsedIs
    <3> QED BY <1>0, <1>4, <3>1
  <2>2. \A u, v \in pages_live : u[1] = v[1] => u = v
    BY DEF BuddyInv
  <2> QED BY <1>10, <2>1, <2>2
<1>12. Buddy!TypeOK'
  BY <1>0, <1>10 DEF AllocShape, Buddy!TypeOK
<1>13. \A j \in Buddy!Orders : Buddy!IsInjective(fl'[j])
  BY DEF AllocShape
<1>14. (\A j \in Buddy!Orders : Buddy!IsInjective(fl[j]))'
  BY <1>13, Zenon DEF Buddy!IsInjective
<1> QED BY <1>3, <1>7, <1>9, <1>11, <1>12, <1>14, Zenon DEF BuddyInv

(* What buddy_free() does: at[j] is the block it has merged by the order   *)
(* j, Mate(at, j) the buddy that it finds there.                           *)
Mate(at, j) == Buddy!BuddyOf(at[j], j)
FreeShape(p, pages, r, last, at) ==
  /\ r = Buddy!OrderOf(pages) /\ r \in Buddy!Orders /\ last \in r .. MAX_ORDER
  /\ at[r] = p
  /\ \A j \in r .. last - 1 : /\ Buddy!Contains(fl[j], Mate(at, j))
                              /\ at[j + 1] = Buddy!LowerOf(at[j], Mate(at, j))
  /\ last = MAX_ORDER \/ ~ Buddy!Contains(fl[last], Mate(at, last))
  /\ pages_live' = pages_live \ {<<p, pages>>}
  /\ fl' = [j \in Buddy!Orders |-> IF j = last THEN Buddy!fl_push(fl[j], at[j])
                                   ELSE IF j \in r .. last - 1
                                        THEN Buddy!fl_remove(fl[j], Mate(at, j))
                                   ELSE fl[j]]

(* A round of the loop finds a block, or the loop is over. *)
LEMMA MergedIs ==
  ASSUME BuddyInv, NEW q \in Buddy!Pages \cup {-1}, NEW j \in Nat
  PROVE  /\ Buddy!Merged(q, j) \in Buddy!Pages \cup {-1}
         /\ Buddy!Merged(q, j) # -1 =>
              /\ q # -1 /\ j < MAX_ORDER /\ Buddy!Contains(fl[j], Buddy!BuddyOf(q, j))
              /\ Buddy!Merged(q, j) = Buddy!LowerOf(q, Buddy!BuddyOf(q, j))
         /\ Buddy!Merged(q, j) = -1 /\ q # -1 /\ j < MAX_ORDER =>
              ~ Buddy!Contains(fl[j], Buddy!BuddyOf(q, j))
<1> DEFINE b == Buddy!BuddyOf(q, j)
<1>1. Buddy!Merged(q, j) = IF q # -1 /\ j < MAX_ORDER /\ Buddy!Contains(fl[j], b)
                           THEN Buddy!LowerOf(q, b) ELSE -1
  BY Zenon DEF Buddy!Merged, Buddy!Merges
<1> HIDE DEF b
<1>2. ASSUME q # -1, j < MAX_ORDER, Buddy!Contains(fl[j], b)
      PROVE  Buddy!LowerOf(q, b) \in Buddy!Pages /\ Buddy!LowerOf(q, b) # -1
  <2>1. j \in Buddy!Orders
    BY <1>2, Sizes
  <2>2. fl[j] \in Seq(Buddy!Pages)
    BY <2>1 DEF BuddyInv, Buddy!TypeOK
  <2>3. b \in Buddy!Pages
    BY <1>2, <2>2 DEF Buddy!Contains
  <2>4. Buddy!LowerOf(q, b) \in Buddy!Pages
    BY <1>2, <2>3 DEF Buddy!LowerOf
  <2>5. -1 \notin Buddy!Pages
    BY Sizes
  <2> QED BY <2>4, <2>5
<1>3. CASE q # -1 /\ j < MAX_ORDER /\ Buddy!Contains(fl[j], b)
  BY <1>1, <1>2, <1>3 DEF b
<1>4. CASE ~ (q # -1 /\ j < MAX_ORDER /\ Buddy!Contains(fl[j], b))
  BY <1>1, <1>4 DEF b
<1> QED BY <1>3, <1>4

(* The loop ends, and each of its rounds has merged. *)
LEMMA FreeShapeOf ==
  ASSUME BuddyInv, NEW p, NEW pages, <<p, pages>> \in pages_live, Buddy!buddy_free(p, pages)
  PROVE  \E r, last, at : FreeShape(p, pages, r, last, at)
<1> DEFINE r == Buddy!OrderOf(pages)
           S == Buddy!Pages \cup {-1}
           F(f) == [o \in r .. MAX_ORDER |-> IF o = r THEN p ELSE Buddy!Merged(f[o - 1], o - 1)]
           at == CHOOSE f : f = F(f)
           last == CHOOSE o \in r .. MAX_ORDER :
                     at[o] # -1 /\ (o = MAX_ORDER \/ at[o + 1] = -1)
<1>1. /\ pages_live' = pages_live \ {<<p, pages>>}
      /\ fl' = [j \in Buddy!Orders |-> IF j = last THEN Buddy!fl_push(fl[j], at[j])
                                       ELSE IF j \in r .. last - 1
                                            THEN Buddy!fl_remove(fl[j], Buddy!BuddyOf(at[j], j))
                                       ELSE fl[j]]
  BY DEF Buddy!buddy_free
<1>2. <<r, p>> \in Used
  BY UsedIs
<1> HIDE DEF r
<1>3. /\ r \in Buddy!Orders /\ r \in Nat /\ MAX_ORDER \in Nat /\ r <= MAX_ORDER
      /\ p \in Buddy!Pages /\ p # -1
  <2>1. IsBlock(r, p)
    BY <1>2 DEF BuddyInv, Tiles, AreBlocks
  <2> QED BY <2>1, Sizes DEF IsBlock
<1>4. PICK f \in [r .. MAX_ORDER -> S] :
        f[r] = p /\ \A o \in r + 1 .. MAX_ORDER : f[o] = Buddy!Merged(f[o - 1], o - 1)
  <2> DEFINE g == [x \in Nat \X S |-> Buddy!Merged(x[2], x[1])]
  <2>1. g \in [Nat \X S -> S]
    BY MergedIs
  <2>2. \A j \in Nat, q \in S : g[<<j, q>>] = Buddy!Merged(q, j)
    OBVIOUS
  <2>3. p \in S
    BY <1>3
  <2> HIDE DEF g, S
  <2>4. PICK f \in [r .. MAX_ORDER -> S] : Iterates(f, p, r, MAX_ORDER, g)
    BY <1>3, <2>1, <2>3, StepByStep
  <2>5. ASSUME NEW o \in r + 1 .. MAX_ORDER PROVE f[o] = Buddy!Merged(f[o - 1], o - 1)
    <3>1. o - 1 \in Nat /\ o - 1 \in r .. MAX_ORDER
      BY <1>3
    <3> QED BY <2>2, <2>4, <3>1 DEF Iterates
  <2> QED BY <2>4, <2>5 DEF Iterates
<1>5. at = F(at)
  <2>1. f = F(f)
    <3>1. \A o \in r .. MAX_ORDER : f[o] = IF o = r THEN p ELSE Buddy!Merged(f[o - 1], o - 1)
      <4>1. \A o \in r .. MAX_ORDER : o # r => o \in r + 1 .. MAX_ORDER
        BY <1>3
      <4> QED BY <1>4, <4>1
    <3>2. f = [o \in r .. MAX_ORDER |-> f[o]]
      BY <1>4
    <3> QED BY <3>1, <3>2
  <2> HIDE DEF F
  <2> QED BY <2>1
<1> HIDE DEF at
<1>6. at[r] = p /\ \A j \in r .. MAX_ORDER - 1 : at[j + 1] = Buddy!Merged(at[j], j)
  <2>1. r \in r .. MAX_ORDER
    BY <1>3
  <2>2. at[r] = p
    BY <1>5, <2>1
  <2>3. ASSUME NEW j \in r .. MAX_ORDER - 1 PROVE at[j + 1] = Buddy!Merged(at[j], j)
    <3>1. j + 1 \in r .. MAX_ORDER /\ j + 1 # r /\ (j + 1) - 1 = j
      BY <1>3
    <3> QED BY <1>5, <3>1
  <2> QED BY <2>2, <2>3
<1> HIDE DEF F, S
<1>7. \A j \in r .. MAX_ORDER : at[j] \in S
  <2> DEFINE P == {n \in Nat : r + n <= MAX_ORDER => at[r + n] \in S}
  <2>1. 0 \in P
    <3>1. r + 0 = r /\ p \in S
      BY <1>3 DEF S
    <3> QED BY <1>6, <3>1
  <2>2. \A n \in Nat : n \in P => n + 1 \in P
    <3> SUFFICES ASSUME NEW n \in Nat, n \in P, r + (n + 1) <= MAX_ORDER PROVE at[r + (n + 1)] \in S
      OBVIOUS
    <3>1. r + n \in r .. MAX_ORDER - 1 /\ r + n \in Nat /\ r + (n + 1) = (r + n) + 1 /\ r + n <= MAX_ORDER
      BY <1>3
    <3>2. at[r + n] \in S
      BY <3>1
    <3>3. Buddy!Merged(at[r + n], r + n) \in S
      BY <3>1, <3>2, MergedIs DEF S
    <3> QED BY <1>6, <3>1, <3>3
  <2> HIDE DEF P
  <2>3. Nat \subseteq P
    BY <2>1, <2>2, AllNumbers
  <2> SUFFICES ASSUME NEW j \in r .. MAX_ORDER PROVE at[j] \in S
    OBVIOUS
  <2>4. j - r \in Nat /\ r + (j - r) = j /\ j <= MAX_ORDER
    BY <1>3
  <2>5. j - r \in P
    BY <2>3, <2>4
  <2> QED BY <2>4, <2>5 DEF P
<1>8. /\ last \in r .. MAX_ORDER /\ at[last] # -1
      /\ last = MAX_ORDER \/ at[last + 1] = -1
  <2> DEFINE Z == {o \in r .. MAX_ORDER : at[o] # -1}
  <2>1. r \in Z /\ Z \in SUBSET Nat /\ \A x \in Z : x <= MAX_ORDER
    BY <1>3, <1>6
  <2>2. PICK m \in Z : \A x \in Z : x <= m
    <3> HIDE DEF Z
    <3> QED BY <1>3, <2>1, GreatestMember
  <2>3. m = MAX_ORDER \/ at[m + 1] = -1
    <3>1. m # MAX_ORDER => m + 1 \in r .. MAX_ORDER /\ ~ (m + 1 <= m)
      BY <1>3
    <3> QED BY <2>2, <3>1
  <2> QED BY <2>2, <2>3
<1> HIDE DEF last
<1>9. \A j \in r .. last : at[j] # -1
  <2> DEFINE P == {n \in Nat : n <= last - r => at[last - n] # -1}
  <2>0. last \in Nat /\ r <= last /\ last <= MAX_ORDER
    BY <1>3, <1>8
  <2>1. 0 \in P
    <3>1. last - 0 = last
      BY <2>0
    <3> QED BY <1>8, <3>1
  <2>2. \A n \in Nat : n \in P => n + 1 \in P
    <3> SUFFICES ASSUME NEW n \in Nat, n \in P, n + 1 <= last - r PROVE at[last - (n + 1)] # -1
      OBVIOUS
    <3> DEFINE j == last - (n + 1)
    <3>1. j \in r .. MAX_ORDER - 1 /\ j \in r .. MAX_ORDER /\ j \in Nat /\ j + 1 = last - n /\ n <= last - r
      BY <1>3, <2>0
    <3>2. at[j + 1] # -1
      BY <3>1
    <3> HIDE DEF j
    <3>3. at[j] \in Buddy!Pages \cup {-1}
      BY <1>7, <3>1 DEF S
    <3>4. at[j] # -1
      BY <1>6, <3>1, <3>2, <3>3, MergedIs
    <3> QED BY <3>4 DEF j
  <2> HIDE DEF P
  <2>3. Nat \subseteq P
    BY <2>1, <2>2, AllNumbers
  <2> SUFFICES ASSUME NEW j \in r .. last PROVE at[j] # -1
    OBVIOUS
  <2>4. last - j \in Nat /\ last - (last - j) = j /\ last - j <= last - r
    BY <1>3, <2>0
  <2>5. last - j \in P
    BY <2>3, <2>4
  <2> QED BY <2>4, <2>5 DEF P
<1>10. ASSUME NEW j \in r .. last - 1
       PROVE  /\ Buddy!Contains(fl[j], Mate(at, j))
              /\ at[j + 1] = Buddy!LowerOf(at[j], Mate(at, j))
  <2>1. /\ j \in r .. MAX_ORDER /\ j \in r .. MAX_ORDER - 1 /\ j \in Nat /\ j + 1 \in r .. last
    BY <1>3, <1>8
  <2>2. at[j] \in Buddy!Pages \cup {-1}
    BY <1>7, <2>1 DEF S
  <2>3. at[j + 1] # -1
    BY <1>9, <2>1
  <2> QED BY <1>6, <2>1, <2>2, <2>3, MergedIs DEF Mate
<1>11. last = MAX_ORDER \/ ~ Buddy!Contains(fl[last], Mate(at, last))
  <2> SUFFICES ASSUME last # MAX_ORDER PROVE ~ Buddy!Contains(fl[last], Mate(at, last))
    OBVIOUS
  <2>1. last \in r .. MAX_ORDER - 1 /\ last \in Nat /\ last < MAX_ORDER
    BY <1>3, <1>8
  <2>2. at[last] \in Buddy!Pages \cup {-1}
    BY <1>7, <1>8 DEF S
  <2> QED BY <1>6, <1>8, <2>1, <2>2, MergedIs DEF Mate
<1>12. FreeShape(p, pages, r, last, at)
  BY <1>1, <1>3, <1>6, <1>8, <1>10, <1>11, Zenon DEF FreeShape, Mate, r
<1> QED BY <1>12

(* The tiling when the loop of buddy_free() is at the order j. *)
Mates(at, r, j) == {<<i, Mate(at, i)>> : i \in r .. j - 1}
MergeTo(B, at, r, p, j) == (B \ ({<<r, p>>} \cup Mates(at, r, j))) \cup {<<j, at[j]>>}

(* The buddies that it merges with are free blocks. *)
LEMMA MatesAreFree ==
  ASSUME BuddyInv, NEW p, NEW pages, NEW r, NEW last, NEW at, FreeShape(p, pages, r, last, at),
         NEW j \in r .. last - 1
  PROVE  /\ j \in Nat /\ j \in Buddy!Orders /\ j + 1 \in Buddy!Orders
         /\ Mate(at, j) \in Buddy!Pages /\ <<j, Mate(at, j)>> \in Free
<1>1. r \in Buddy!Orders /\ last \in r .. MAX_ORDER
  BY DEF FreeShape
<1>2. j \in Nat /\ j \in Buddy!Orders /\ j + 1 \in Buddy!Orders
  BY <1>1, Sizes
<1>3. fl[j] \in Seq(Buddy!Pages)
  BY <1>2 DEF BuddyInv, Buddy!TypeOK
<1>4. Buddy!Contains(fl[j], Mate(at, j))
  BY DEF FreeShape
<1>5. Mate(at, j) \in Buddy!Pages
  BY <1>3, <1>4 DEF Buddy!Contains
<1> QED BY <1>2, <1>4, <1>5, FreeIs

(* Each round merges two blocks of the tiling, so it leaves a tiling. *)
LEMMA MergeMany ==
  ASSUME BuddyInv, NEW p, NEW pages, <<p, pages>> \in pages_live,
         NEW r, NEW last, NEW at, FreeShape(p, pages, r, last, at),
         NEW B, B = Free \cup Used, NEW h \in r .. last
  PROVE  Tiles(MergeTo(B, at, r, p, h)) /\ p \in Run(h, at[h])
<1>0. /\ Tiles(B) /\ <<r, p>> \in Used /\ <<r, p>> \in B /\ <<r, p>> \notin Free
      /\ at[r] = p /\ IsBlock(r, p)
  <2>1. <<r, p>> \in Used
    BY UsedIs DEF FreeShape
  <2> QED BY <2>1 DEF BuddyInv, FreeShape, Tiles, AreBlocks
<1>1. r \in Nat /\ last \in Nat /\ r <= last
  BY Sizes DEF FreeShape
<1> DEFINE Good(j) == Tiles(MergeTo(B, at, r, p, j)) /\ p \in Run(j, at[j])
           P == {n \in Nat : r + n <= last => Good(r + n)}
<1>2. 0 \in P
  <2>1. r + 0 = r /\ r .. r - 1 = {}
    BY <1>1
  <2>2. MergeTo(B, at, r, p, r) = B
    BY <1>0, <2>1 DEF MergeTo, Mates
  <2>3. Good(r)
    BY <1>0, <2>2, InArena
  <2> QED BY <2>1, <2>3
<1>3. ASSUME NEW j \in r .. last - 1, Good(j) PROVE Good(j + 1)
  <2> DEFINE U == MergeTo(B, at, r, p, j)
             b == Mate(at, j)
  <2>1. /\ j \in Nat /\ j + 1 \in Buddy!Orders /\ <<j, b>> \in Free
        /\ at[j + 1] = Buddy!LowerOf(at[j], b)
    BY MatesAreFree DEF FreeShape
  <2>2. <<j, at[j]>> \in U
    BY DEF MergeTo
  <2>3. <<j, b>> \notin Mates(at, r, j)
    <3>1. \A i \in r .. j - 1 : i # j
      BY <1>1, <2>1
    <3> QED BY <3>1 DEF Mates
  <2>4. <<j, b>> \in U
    BY <1>0, <2>1, <2>3 DEF MergeTo
  <2>5. IsBlock(j, at[j])
    BY <1>3, <2>2 DEF Tiles, AreBlocks
  <2>6. <<j, at[j]>> \in B => <<j, at[j]>> = <<r, p>>
    <3>1. p \in Run(j, at[j]) /\ p \in Run(r, p)
      BY <1>0, <1>3, InArena
    <3>2. \A i, q : Buddy!Extent(<<i, q>>) = Run(i, q)
      BY Sizes
    <3>3. p \in Buddy!Extent(<<j, at[j]>>) /\ p \in Buddy!Extent(<<r, p>>)
      BY <3>1, <3>2, Zenon
    <3> QED BY <1>0, <3>3, Zenon DEF Tiles, Apart
  <2>7. Mates(at, r, j + 1) = Mates(at, r, j) \cup {<<j, b>>}
    <3>1. \A i : i \in r .. (j + 1) - 1 <=> i \in r .. j - 1 \/ i = j
      BY <1>1, <2>1
    <3> QED BY <3>1, Zenon DEF Mates
  <2> DEFINE V == (U \ {<<j, at[j]>>, <<j, b>>}) \cup {<<j + 1, Buddy!LowerOf(at[j], b)>>}
  <2>8. Tiles(V)
    <3>1. Tiles(U) /\ b = Buddy!BuddyOf(at[j], j)
      BY <1>3 DEF Mate
    <3> HIDE DEF U, b
    <3> QED BY <2>1, <2>2, <2>4, <3>1, MergeTiles
  <2>9. MergeTo(B, at, r, p, j + 1) = V
    <3>1. <<j, at[j]>> \notin B \ ({<<r, p>>} \cup Mates(at, r, j))
      BY <2>6
    <3> HIDE DEF b
    <3> QED BY <2>1, <2>7, <3>1, Zenon DEF MergeTo
  <2>10. p \in Run(j + 1, at[j + 1])
    BY <1>3, <2>1, <2>5, Buddies DEF Mate
  <2> QED BY <2>8, <2>9, <2>10
<1> HIDE DEF Good
<1>4. \A n \in Nat : n \in P => n + 1 \in P
  <2> SUFFICES ASSUME NEW n \in Nat, n \in P, r + (n + 1) <= last PROVE Good(r + (n + 1))
    OBVIOUS
  <2>1. r + n \in r .. last - 1 /\ r + (n + 1) = (r + n) + 1 /\ r + n <= last
    BY <1>1
  <2>2. Good(r + n)
    BY <2>1
  <2> QED BY <1>3, <2>1, <2>2
<1> HIDE DEF P
<1>5. Nat \subseteq P
  BY <1>2, <1>4, AllNumbers
<1>6. h - r \in Nat /\ r + (h - r) = h /\ h <= last
  BY <1>1
<1>7. h - r \in P
  BY <1>5, <1>6
<1>8. Good(h)
  BY <1>6, <1>7 DEF P
<1> QED BY <1>8 DEF Good

(* The whole arena has no buddy. *)
LEMMA TopBlock ==
  ASSUME NEW q, IsBlock(MAX_ORDER, q)
  PROVE  q = 0 /\ Buddy!BuddyOf(q, MAX_ORDER) \notin Buddy!Pages
<1>1. PagesOf(MAX_ORDER) \in Nat \ {0} /\ Buddy!Pages = 0 .. PagesOf(MAX_ORDER) - 1
  BY Sizes
<1>2. PICK k \in Nat : q = k * PagesOf(MAX_ORDER)
  BY DEF IsBlock
<1>3. PICK d \in Nat \ {0} : d = PagesOf(MAX_ORDER)
  BY <1>1
<1>4. q = k * d /\ q < d
  BY <1>1, <1>2, <1>3 DEF IsBlock
<1>5. k = 0
  BY <1>4
<1>6. q = 0 /\ 0 \div d = 0 /\ 0 % 2 = 0
  BY <1>4, <1>5
<1>7. Buddy!BuddyOf(q, MAX_ORDER) = IF (q \div d) % 2 = 0 THEN q + d ELSE q - d
  BY <1>3, Zenon DEF Buddy!BuddyOf, PagesOf
<1>8. Buddy!BuddyOf(q, MAX_ORDER) = d
  BY <1>6, <1>7
<1> QED BY <1>1, <1>3, <1>6, <1>8

(* Merging keeps the invariant. *)
LEMMA BuddyFreeStep ==
  ASSUME BuddyInv, NEW p, NEW pages, <<p, pages>> \in pages_live,
         NEW r, NEW last, NEW at, FreeShape(p, pages, r, last, at)
  PROVE  BuddyInv'
<1> DEFINE M == Mates(at, r, last)
           a == at[last]
<1>0. PICK B : B = Free \cup Used
  OBVIOUS
<1>1. /\ Tiles(B) /\ <<r, p>> \in Used /\ <<r, p>> \in B /\ <<r, p>> \notin Free
      /\ Free \cap Used = {} /\ NoBuddies(Free)
      /\ last \in Buddy!Orders /\ r \in Nat /\ last \in Nat /\ r <= last /\ last \in r .. last
      /\ r = Buddy!OrderOf(pages)
  <2>1. <<r, p>> \in Used
    BY UsedIs DEF FreeShape
  <2>2. last \in Buddy!Orders /\ r \in Nat /\ last \in Nat /\ r <= last /\ last \in r .. last
    BY Sizes DEF FreeShape
  <2> QED BY <1>0, <2>1, <2>2 DEF BuddyInv, FreeShape
<1>2. Tiles(MergeTo(B, at, r, p, last)) /\ p \in Run(last, a)
  BY <1>0, <1>1, MergeMany
<1>3. IsBlock(last, a) /\ a \in Buddy!Pages
  <2>1. <<last, a>> \in MergeTo(B, at, r, p, last)
    BY DEF MergeTo
  <2>2. IsBlock(last, a)
    BY <1>2, <2>1 DEF Tiles, AreBlocks
  <2> QED BY <2>2 DEF IsBlock
<1>4. <<last, a>> \in B => <<last, a>> = <<r, p>>
  <2>1. p \in Run(r, p)
    BY <1>1, InArena DEF Tiles, AreBlocks
  <2>2. \A i, q : Buddy!Extent(<<i, q>>) = Run(i, q)
    BY Sizes
  <2>3. p \in Buddy!Extent(<<last, a>>) /\ p \in Buddy!Extent(<<r, p>>)
    BY <1>2, <2>1, <2>2, Zenon
  <2> QED BY <1>1, <2>3, Zenon DEF Tiles, Apart
<1>5. <<last, a>> \notin Free /\ ~ Buddy!Contains(fl[last], a)
  BY <1>0, <1>1, <1>3, <1>4, FreeIs
<1>6. \A j \in r .. last - 1 : j \in Buddy!Orders /\ j # last /\ Mate(at, j) \in Buddy!Pages
                               /\ <<j, Mate(at, j)>> \in Free
  BY <1>1, MatesAreFree
<1>7. /\ \A j \in Buddy!Orders : fl[j] \in Seq(Buddy!Pages) /\ Buddy!IsInjective(fl[j])
      /\ pages_live \subseteq Buddy!Pages \X PageRequests
      /\ \A u, v \in pages_live : u[1] = v[1] => u = v
  BY DEF BuddyInv, Buddy!TypeOK
<1>8. /\ fl'[last] = Buddy!fl_push(fl[last], a)
      /\ \A j \in r .. last - 1 : /\ fl'[j] = Buddy!fl_remove(fl[j], Mate(at, j))
                                  /\ Buddy!Contains(fl[j], Mate(at, j))
      /\ \A j \in Buddy!Orders : j # last /\ j \notin r .. last - 1 => fl'[j] = fl[j]
      /\ DOMAIN fl' = Buddy!Orders /\ fl' = [j \in Buddy!Orders |-> fl'[j]]
      /\ pages_live' = pages_live \ {<<p, pages>>}
  <2>1. fl' = [j \in Buddy!Orders |-> IF j = last THEN Buddy!fl_push(fl[j], at[j])
                                   ELSE IF j \in r .. last - 1
                                        THEN Buddy!fl_remove(fl[j], Mate(at, j))
                                   ELSE fl[j]]
    BY DEF FreeShape
  <2>2. /\ pages_live' = pages_live \ {<<p, pages>>}
        /\ \A j \in r .. last - 1 : Buddy!Contains(fl[j], Mate(at, j))
    BY DEF FreeShape
  <2> QED BY <1>1, <1>6, <2>1, <2>2, Zenon
<1>9. ASSUME NEW j \in Buddy!Orders
      PROVE  /\ fl'[j] \in Seq(Buddy!Pages) /\ Buddy!IsInjective(fl'[j])
             /\ \A q : Buddy!Contains(fl'[j], q) <=>
                         \/ Buddy!Contains(fl[j], q) /\ ~ (j \in r .. last - 1 /\ q = Mate(at, j))
                         \/ j = last /\ q = a
  <2>1. CASE j = last
    <3>1. last \notin r .. last - 1
      BY <1>1
    <3>2. fl[last] \in Seq(Buddy!Pages) /\ Buddy!IsInjective(fl[last])
      BY <1>1, <1>7
    <3> HIDE DEF a
    <3> QED BY <1>3, <1>5, <1>8, <2>1, <3>1, <3>2, Pushed
  <2>2. CASE j \in r .. last - 1
    <3>1. /\ fl[j] \in Seq(Buddy!Pages) /\ Buddy!IsInjective(fl[j])
          /\ Buddy!Contains(fl[j], Mate(at, j)) /\ j # last
      BY <1>6, <1>7, <1>8, <2>2
    <3> QED BY <1>8, <2>2, <3>1, Removed
  <2>3. CASE j # last /\ j \notin r .. last - 1
    BY <1>7, <1>8, <2>3
  <2> QED BY <2>1, <2>2, <2>3
<1>10. Free' = (Free \ M) \cup {<<last, a>>}
  <2>1. /\ \A j \in Buddy!Orders, q \in Buddy!Pages : <<j, q>> \in Free' <=> Buddy!Contains(fl'[j], q)
        /\ \A c \in Free' : c[1] \in Buddy!Orders /\ c[2] \in Buddy!Pages /\ c = <<c[1], c[2]>>
    BY DEF Free, Buddy!FreeBlocks
  <2>2. \A j, q : <<j, q>> \in M <=> j \in r .. last - 1 /\ q = Mate(at, j)
    BY DEF Mates
  <2> HIDE DEF M, a
  <2>3. ASSUME NEW j \in Buddy!Orders, NEW q \in Buddy!Pages
        PROVE  <<j, q>> \in Free' <=> <<j, q>> \in (Free \ M) \cup {<<last, a>>}
    BY <1>9, <2>1, <2>2, FreeIs
  <2>4. ASSUME NEW c PROVE c \in Free' <=> c \in (Free \ M) \cup {<<last, a>>}
    <3>1. CASE c = <<c[1], c[2]>> /\ c[1] \in Buddy!Orders /\ c[2] \in Buddy!Pages
      BY <2>3, <3>1, Zenon
    <3>2. CASE ~ (c = <<c[1], c[2]>> /\ c[1] \in Buddy!Orders /\ c[2] \in Buddy!Pages)
      <4>1. c # <<last, a>>
        BY <1>1, <1>3, <3>2
      <4> QED BY <2>1, <3>2, <4>1, FreeIs, Zenon
    <3> QED BY <3>1, <3>2
  <2> QED BY <2>4
<1>11. Used' = Used \ {<<r, p>>}
  <2> DEFINE block(u) == <<Buddy!OrderOf(u[2]), u[1]>>
  <2>1. Used' = {block(u) : u \in pages_live \ {<<p, pages>>}} /\ Used = {block(u) : u \in pages_live}
    BY <1>8, Zenon DEF Used, Buddy!LiveBlocks
  <2>2. block(<<p, pages>>) = <<r, p>>
    BY <1>1
  <2>3. ASSUME NEW u \in pages_live, block(u) = <<r, p>> PROVE u = <<p, pages>>
    <3>1. u[1] = p /\ <<p, pages>>[1] = p
      BY <2>3
    <3> QED BY <1>7, <3>1
  <2> HIDE DEF block
  <2> QED BY <2>1, <2>2, <2>3
<1>12. M \subseteq Free
  BY <1>6 DEF Mates
<1>13. Tiles(Free \cup Used)' /\ (Free \cap Used)' = {}
  <2>1. Free' \cup Used' = MergeTo(B, at, r, p, last)
    BY <1>0, <1>1, <1>10, <1>11, <1>12, Zenon DEF MergeTo
  <2>2. Tiles(Free' \cup Used')
    BY <1>2, <2>1
  <2>3. Tiles(Free \cup Used)'
    BY <2>2, Zenon DEF Tiles, AreBlocks, Apart, Covered
  <2>4. Free' \cap Used' = {}
    BY <1>0, <1>1, <1>4, <1>10, <1>11, Zenon
  <2> QED BY <2>3, <2>4
<1>14. NoBuddies(Free)'
  <2> SUFFICES ASSUME NEW c \in Free', NEW d, d = <<c[1], Buddy!BuddyOf(c[2], c[1])>>, d \in Free'
               PROVE  FALSE
    BY Zenon DEF NoBuddies, Buddy!BuddyOf
  <2> HIDE DEF a
  <2>0. \A e \in Free' : e[2] \in Buddy!Pages /\ e = <<e[1], e[2]>>
    BY DEF Free, Buddy!FreeBlocks
  <2>1. CASE c \in Free /\ d \in Free
    BY <1>1, <2>1 DEF NoBuddies
  <2>2. ASSUME last # MAX_ORDER PROVE last + 1 \in Buddy!Orders /\ <<last, Mate(at, last)>> \notin Free
    <3>0. last \in 0 .. MAX_ORDER /\ MAX_ORDER \in 0 .. 30 /\ last # MAX_ORDER
      BY <1>1, <2>2, Sizes, Zenon
    <3>4. last + 1 \in 0 .. MAX_ORDER
      BY <3>0
    <3>1. last + 1 \in Buddy!Orders
      BY <3>4, Sizes, Zenon
    <3>2. ~ Buddy!Contains(fl[last], Mate(at, last))
      BY <2>2 DEF FreeShape
    <3>3. ASSUME <<last, Mate(at, last)>> \in Free PROVE FALSE
      BY <1>1, <3>2, <3>3 DEF Free, Buddy!FreeBlocks
    <3> QED BY <3>1, <3>3
  <2>3. CASE c = <<last, a>>
    <3>1. d = <<last, Mate(at, last)>> /\ d[2] = Buddy!BuddyOf(a, last)
      BY <2>3 DEF Mate, a
    <3>2. CASE last = MAX_ORDER
      BY <1>3, <2>0, <3>1, <3>2, TopBlock
    <3>3. CASE last # MAX_ORDER
      <4>1. Buddy!BuddyOf(a, last) # a
        BY <1>3, <2>2, <3>3, Buddies
      <4>2. d # <<last, a>>
        BY <3>1, <4>1
      <4> QED BY <1>10, <2>2, <3>1, <3>3, <4>2
    <3> QED BY <3>2, <3>3
  <2>4. CASE d = <<last, a>> /\ c \in Free
    <3>1. c[1] = last /\ Buddy!BuddyOf(c[2], last) = a
      BY <2>4
    <3>2. IsBlock(last, c[2]) /\ c = <<last, c[2]>>
      BY <1>0, <1>1, <2>4, <3>1, Zenon DEF Tiles, AreBlocks
    <3>3. CASE last = MAX_ORDER
      BY <1>3, <3>1, <3>2, <3>3, TopBlock
    <3>4. CASE last # MAX_ORDER
      <4>1. Buddy!BuddyOf(a, last) = c[2]
        BY <2>2, <3>1, <3>2, <3>4, Buddies
      <4>2. c = <<last, Mate(at, last)>>
        BY <3>2, <4>1 DEF Mate, a
      <4> QED BY <2>2, <2>4, <3>4, <4>2
    <3> QED BY <3>3, <3>4
  <2> QED BY <1>10, <2>1, <2>3, <2>4
<1>15. Buddy!TypeOK'
  <2>1. fl' \in [Buddy!Orders -> Seq(Buddy!Pages)]
    BY <1>8, <1>9
  <2> QED BY <1>7, <1>8, <2>1 DEF Buddy!TypeOK
<1>16. (\A j \in Buddy!Orders : Buddy!IsInjective(fl[j]))'
  BY <1>9, Zenon DEF Buddy!IsInjective
<1>17. \A u, v \in pages_live' : u[1] = v[1] => u = v
  BY <1>7, <1>8
<1> QED BY <1>13, <1>14, <1>15, <1>16, <1>17, Zenon DEF BuddyInv

(* buddy_init(), and every call. *)
LEMMA BuddyInit == Init => BuddyInv
<1> SUFFICES ASSUME Init PROVE BuddyInv
  OBVIOUS
<1>1. pages_live = {} /\ fl = [o \in Buddy!Orders |-> IF o = MAX_ORDER THEN <<0>> ELSE << >>]
  BY DEF Init, Buddy!Init
<1>2. /\ MAX_ORDER \in Buddy!Orders /\ 0 \in Buddy!Pages /\ IsBlock(MAX_ORDER, 0)
      /\ Buddy!Pages = Run(MAX_ORDER, 0)
  <2>1. PagesOf(MAX_ORDER) \in Nat \ {0} /\ Buddy!Pages = 0 .. PagesOf(MAX_ORDER) - 1
        /\ MAX_ORDER \in Buddy!Orders
    BY Sizes
  <2>2. 0 \in Buddy!Pages /\ 0 = 0 * PagesOf(MAX_ORDER) /\ 0 \in Nat
    BY <2>1
  <2>3. Buddy!Pages = Run(MAX_ORDER, 0)
    BY <2>1 DEF Run
  <2> QED BY <2>1, <2>2, <2>3 DEF IsBlock
<1>3. /\ fl[MAX_ORDER] = <<0>> /\ \A o \in Buddy!Orders : o # MAX_ORDER => fl[o] = << >>
  BY <1>1, <1>2
<1>4. /\ \A y : Buddy!Contains(<<0>>, y) <=> y = 0
      /\ \A y : ~ Buddy!Contains(<< >>, y)
      /\ Buddy!IsInjective(<<0>>) /\ Buddy!IsInjective(<< >>)
  BY DEF Buddy!Contains, Buddy!IsInjective
<1>5. Free = {<<MAX_ORDER, 0>>}
  BY <1>2, <1>3, <1>4 DEF Free, Buddy!FreeBlocks
<1>6. Used = {}
  BY <1>1 DEF Used, Buddy!LiveBlocks
<1>7. Tiles(Free \cup Used)
  <2>1. Buddy!Extent(<<MAX_ORDER, 0>>) = Run(MAX_ORDER, 0)
    BY Sizes
  <2>2. Free \cup Used = {<<MAX_ORDER, 0>>}
    BY <1>5, <1>6
  <2> QED BY <1>2, <2>1, <2>2 DEF Tiles, AreBlocks, Apart, Covered
<1>8. NoBuddies(Free)
  <2>1. Buddy!BuddyOf(0, MAX_ORDER) # 0
    BY <1>2, TopBlock
  <2> QED BY <1>5, <2>1 DEF NoBuddies
<1>9. Buddy!TypeOK
  BY <1>1, <1>2 DEF Buddy!TypeOK
<1>10. \A o \in Buddy!Orders : Buddy!IsInjective(fl[o])
  BY <1>3, <1>4
<1> QED BY <1>1, <1>5, <1>6, <1>7, <1>8, <1>9, <1>10 DEF BuddyInv

(* The pages that callers asked for, and the blocks they are in. *)
HeldPages(u) == u[1] .. u[1] + u[2] - 1
HeldBlocks == {HeldPages(u) : u \in pages_live}

(* The pages of a caller are in the block it was given. *)
LEMMA HeldInBlock ==
  ASSUME BuddyInv, NEW u \in pages_live
  PROVE  /\ u = <<u[1], u[2]>> /\ u[1] \in Nat /\ u[2] \in Nat
         /\ <<Buddy!OrderOf(u[2]), u[1]>> \in Used
         /\ HeldPages(u) \subseteq Run(Buddy!OrderOf(u[2]), u[1])
<1>1. u = <<u[1], u[2]>> /\ u[1] \in Buddy!Pages /\ u[2] \in PageRequests
  BY DEF BuddyInv, Buddy!TypeOK
<1>2. u[2] \in Nat /\ u[2] <= PagesOf(Buddy!OrderOf(u[2])) /\ u[1] \in Nat
  BY <1>1, OrderFits, Sizes
<1>3. <<Buddy!OrderOf(u[2]), u[1]>> \in Used
  BY UsedIs
<1>4. IsBlock(Buddy!OrderOf(u[2]), u[1])
  BY <1>3 DEF BuddyInv, Tiles, AreBlocks
<1>5. PagesOf(Buddy!OrderOf(u[2])) \in Nat
  BY <1>4, Sizes DEF IsBlock
<1>6. PICK d \in Nat : d = PagesOf(Buddy!OrderOf(u[2]))
  BY <1>5
<1>7. u[1] .. u[1] + u[2] - 1 \subseteq u[1] .. u[1] + d - 1
  BY <1>2, <1>6
<1> QED BY <1>1, <1>2, <1>3, <1>6, <1>7 DEF HeldPages, Run

(* buddy_alloc() hands out pages that nobody holds. *)
LEMMA AllocIsAlloc ==
  ASSUME BuddyInv, NEW pages \in PageRequests, NEW r, NEW o, NEW b, AllocShape(pages, r, o, b)
  PROVE  \E e \in HeldBlocks' : /\ e \subseteq Buddy!Pages
                                /\ \A x \in HeldBlocks : x \cap e = {}
                                /\ HeldBlocks' = HeldBlocks \cup {e}
<1> DEFINE e == HeldPages(<<b, pages>>)
<1>1. /\ r = Buddy!OrderOf(pages) /\ r \in 0 .. o /\ <<o, b>> \in Free
      /\ pages_live' = pages_live \cup {<<b, pages>>}
  BY DEF AllocShape
<1>2. IsBlock(o, b)
  BY <1>1 DEF BuddyInv, Tiles, AreBlocks
<1>3. IsBlock(r, b) /\ Run(r, b) \subseteq Run(o, b) /\ Run(o, b) \subseteq Buddy!Pages
  BY <1>1, <1>2, Prefix, InArena
<1>4. e \subseteq Run(r, b)
  <2>1. pages \in Nat /\ pages <= PagesOf(r) /\ b \in Nat /\ PagesOf(r) \in Nat
    BY <1>1, <1>3, OrderFits, Sizes DEF IsBlock
  <2>2. PICK d \in Nat : d = PagesOf(r)
    BY <2>1
  <2>3. b .. b + pages - 1 \subseteq b .. b + d - 1
    BY <2>1, <2>2
  <2> QED BY <2>2, <2>3 DEF HeldPages, Run
<1>5. ASSUME NEW u \in pages_live PROVE HeldPages(u) \cap e = {}
  <2> DEFINE c == <<Buddy!OrderOf(u[2]), u[1]>>
  <2>1. c \in Used /\ HeldPages(u) \subseteq Run(Buddy!OrderOf(u[2]), u[1])
    BY HeldInBlock
  <2>2. c # <<o, b>>
    BY <1>1, <2>1 DEF BuddyInv
  <2>3. Buddy!Extent(c) = Run(Buddy!OrderOf(u[2]), u[1]) /\ Buddy!Extent(<<o, b>>) = Run(o, b)
    BY Sizes
  <2> HIDE DEF c
  <2>4. Buddy!Extent(c) \cap Buddy!Extent(<<o, b>>) = {}
    BY <1>1, <2>1, <2>2, Zenon DEF BuddyInv, Tiles, Apart
  <2> QED BY <1>3, <1>4, <2>1, <2>3, <2>4
<1>6. HeldBlocks' = {HeldPages(u) : u \in pages_live'}
  BY Zenon DEF HeldBlocks, HeldPages
<1> HIDE DEF e
<1>7. HeldBlocks' = HeldBlocks \cup {e} /\ e \in HeldBlocks'
  BY <1>1, <1>6 DEF HeldBlocks, e
<1>8. \A x \in HeldBlocks : x \cap e = {}
  BY <1>5 DEF HeldBlocks
<1> QED BY <1>3, <1>4, <1>7, <1>8

(* buddy_free() takes back the pages of one caller, if it had any. *)
LEMMA FreeIsFree ==
  ASSUME BuddyInv, NEW v \in pages_live, pages_live' = pages_live \ {v}
  PROVE  (\E x \in HeldBlocks : HeldBlocks' = HeldBlocks \ {x}) \/ HeldBlocks' = HeldBlocks
<1>1. HeldBlocks' = {HeldPages(u) : u \in pages_live \ {v}} /\ HeldBlocks = {HeldPages(u) : u \in pages_live}
  BY Zenon DEF HeldBlocks, HeldPages
<1>2. CASE \E u \in pages_live \ {v} : HeldPages(u) = HeldPages(v)
  BY <1>1, <1>2
<1>3. CASE \A u \in pages_live \ {v} : HeldPages(u) # HeldPages(v)
  <2>1. HeldBlocks' = HeldBlocks \ {HeldPages(v)} /\ HeldPages(v) \in HeldBlocks
    BY <1>1, <1>3
  <2> QED BY <2>1
<1> QED BY <1>2, <1>3

(* Every step keeps the invariant, and is one of BlockAllocator. *)
LEMMA BuddyStep ==
  BuddyInv /\ [Next]_vars => BuddyInv' /\ (Buddy!Blocks!Next \/ UNCHANGED HeldBlocks)
<1> SUFFICES ASSUME BuddyInv, [Next]_vars
             PROVE  BuddyInv' /\ (Buddy!Blocks!Next \/ UNCHANGED HeldBlocks)
  OBVIOUS
<1>1. ASSUME NEW pages \in PageRequests, Buddy!buddy_alloc(pages)
      PROVE  BuddyInv' /\ Buddy!Blocks!Next
  <2>1. PICK r, o, b : AllocShape(pages, r, o, b)
    BY <1>1, AllocShapeOf
  <2>2. BuddyInv'
    BY <2>1, BuddyAllocStep
  <2>3. \E e \in HeldBlocks' : /\ e \subseteq Buddy!Pages
                               /\ \A x \in HeldBlocks : x \cap e = {}
                               /\ HeldBlocks' = HeldBlocks \cup {e}
    BY <2>1, AllocIsAlloc
  <2>4. Buddy!Blocks!Alloc
    BY <2>3, Zenon DEF Buddy!Blocks!Alloc, HeldBlocks, HeldPages
  <2> QED BY <2>2, <2>4 DEF Buddy!Blocks!Next
<1>2. ASSUME NEW v \in pages_live, Buddy!buddy_free(v[1], v[2])
      PROVE  BuddyInv' /\ (Buddy!Blocks!Next \/ UNCHANGED HeldBlocks)
  <2>1. v = <<v[1], v[2]>> /\ <<v[1], v[2]>> \in pages_live
    BY HeldInBlock
  <2>2. PICK r, last, at : FreeShape(v[1], v[2], r, last, at)
    BY <1>2, <2>1, FreeShapeOf
  <2>3. BuddyInv'
    BY <2>1, <2>2, BuddyFreeStep
  <2>4. pages_live' = pages_live \ {v}
    BY <2>1, <2>2 DEF FreeShape
  <2>5. (\E x \in HeldBlocks : HeldBlocks' = HeldBlocks \ {x}) \/ HeldBlocks' = HeldBlocks
    BY <2>4, FreeIsFree
  <2>6. (\E x \in HeldBlocks : HeldBlocks' = HeldBlocks \ {x}) => Buddy!Blocks!Free
    BY Zenon DEF Buddy!Blocks!Free, HeldBlocks, HeldPages
  <2> QED BY <2>3, <2>5, <2>6 DEF Buddy!Blocks!Next
<1>3. CASE UNCHANGED buddyVars
  <2>1. fl' = fl /\ pages_live' = pages_live
    BY <1>3 DEF buddyVars
  <2>2. Free' = Free /\ Used' = Used /\ HeldBlocks' = HeldBlocks
    BY <2>1, Zenon DEF Free, Used, Buddy!FreeBlocks, Buddy!LiveBlocks, HeldBlocks, HeldPages
  <2>3. Tiles(Free \cup Used)' <=> Tiles(Free \cup Used)
    BY <2>2, Zenon DEF Tiles, AreBlocks, Apart, Covered
  <2>4. NoBuddies(Free)' <=> NoBuddies(Free)
    BY <2>2, Zenon DEF NoBuddies
  <2>5. (\A o \in Buddy!Orders : Buddy!IsInjective(fl[o]))'
          <=> \A o \in Buddy!Orders : Buddy!IsInjective(fl[o])
    BY <2>1, Zenon DEF Buddy!IsInjective
  <2>6. Buddy!TypeOK' <=> Buddy!TypeOK
    BY <2>1 DEF Buddy!TypeOK
  <2> QED BY <2>1, <2>2, <2>3, <2>4, <2>5, <2>6, Zenon DEF BuddyInv
<1>4. Buddy!Next \/ UNCHANGED buddyVars
  BY OneRuns
<1>5. ASSUME NEW pages, Buddy!AllocFails(pages) PROVE UNCHANGED buddyVars
  BY <1>5 DEF Buddy!AllocFails, Buddy!vars, buddyVars
<1> QED BY <1>1, <1>2, <1>3, <1>4, <1>5, Zenon DEF Buddy!Next

(* 05_buddy.c, for any MAX_ORDER an int has room for and any requests: the *)
(* pages that callers asked for are in the arena and nobody else's.        *)
THEOREM BuddyPagesCorrect == Spec => BuddyImplementsBlocks
<1>1. Init => BuddyInv
  BY BuddyInit
<1>2. Init => Buddy!Blocks!Init
  BY DEF Init, Buddy!Init, Buddy!Blocks!Init
<1>3. BuddyInv /\ [Next]_vars
      => BuddyInv' /\ [Buddy!Blocks!Next]_{r[1] .. r[1] + r[2] - 1 : r \in pages_live}
  BY BuddyStep, Zenon DEF HeldBlocks, HeldPages
<1> QED
  BY <1>1, <1>2, <1>3, PTL
     DEF Spec, BuddyImplementsBlocks, Buddy!ImplementsBlocks, Buddy!Blocks!Spec
-----------------------------------------------------------------------------
(* Room that nobody uses, and the free block it would be found in. *)
Clear(n, p) == IsBlock(n, p) /\ \A b \in Used : Run(b[1], b[2]) \cap Run(n, p) = {}
InFree(n, p) == \E f \in Free : n <= f[1] /\ Run(n, p) \subseteq Run(f[1], f[2])

(* The facts of the invariant that the next lemmas use. *)
LEMMA BlocksOf ==
  ASSUME BuddyInv
  PROVE  /\ \A b \in Free \cup Used : b = <<b[1], b[2]>> /\ IsBlock(b[1], b[2])
         /\ \A b : b = <<b[1], b[2]>> => Buddy!Extent(b) = Run(b[1], b[2])
         /\ \A x \in Buddy!Pages : \E b \in Free \cup Used : x \in Run(b[1], b[2])
<1>1. \A b \in Free \cup Used : b = <<b[1], b[2]>> /\ IsBlock(b[1], b[2])
  BY Zenon DEF BuddyInv, Tiles, AreBlocks
<1>2. \A b : b = <<b[1], b[2]>> => Buddy!Extent(b) = Run(b[1], b[2])
  BY Zenon DEF Buddy!Extent, Run, PagesOf
<1>3. \A x \in Buddy!Pages : \E b \in Free \cup Used : x \in Buddy!Extent(b)
  BY Zenon DEF BuddyInv, Tiles, Covered
<1>4. ASSUME NEW x \in Buddy!Pages PROVE \E b \in Free \cup Used : x \in Run(b[1], b[2])
  <2>1. PICK b \in Free \cup Used : x \in Buddy!Extent(b)
    BY <1>3
  <2>2. x \in Run(b[1], b[2])
    BY <1>1, <1>2, <2>1
  <2> QED BY <2>2
<1> QED BY <1>1, <1>2, <1>4

(* A run of 2 ^ n pages that nobody uses, at a multiple of its size, is    *)
(* part of one free block: its halves are by induction, and would have     *)
(* been merged.                                                            *)
LEMMA RoomIsFree ==
  ASSUME BuddyInv, NEW k \in Nat, NEW q, Clear(k, q)
  PROVE  InFree(k, q)
<1> DEFINE P == {n \in Nat : \A p : Clear(n, p) => InFree(n, p)}
<1>1. 0 \in P
  <2> SUFFICES ASSUME NEW p, Clear(0, p) PROVE InFree(0, p)
    BY DEF P
  <2>1. IsBlock(0, p) /\ p \in Run(0, p) /\ p \in Buddy!Pages
    BY InArena DEF Clear
  <2>2. PICK b \in Free \cup Used : p \in Run(b[1], b[2])
    BY <2>1, BlocksOf
  <2>3. b \in Free
    BY <2>1, <2>2 DEF Clear
  <2>4. IsBlock(b[1], b[2]) /\ 0 <= b[1]
    <3>1. IsBlock(b[1], b[2])
      BY BlocksOf
    <3>2. b[1] \in Nat
      BY <3>1, Sizes DEF IsBlock
    <3> QED BY <3>1, <3>2
  <2>5. Run(0, p) \subseteq Run(b[1], b[2])
    BY <2>1, <2>2, <2>4, Nested
  <2> QED BY <2>3, <2>4, <2>5 DEF InFree
<1>2. ASSUME NEW m \in Nat, m \in P PROVE m + 1 \in P
  <2> SUFFICES ASSUME NEW p, Clear(m + 1, p) PROVE InFree(m + 1, p)
    BY DEF P
  <2> DEFINE up == p + PagesOf(m)
  <2>1. IsBlock(m + 1, p)
    BY DEF Clear
  <2>2. /\ IsBlock(m, p) /\ IsBlock(m, up)
        /\ Run(m + 1, p) = Run(m, p) \cup Run(m, up)
        /\ Buddy!BuddyOf(p, m) = up
    BY <2>1, Halves
  <2> HIDE DEF up
  <2>3. Clear(m, p) /\ Clear(m, up)
    BY <2>2 DEF Clear
  <2>4. InFree(m, p) /\ InFree(m, up)
    BY <1>2, <2>3
  <2>5. PICK f \in Free : m <= f[1] /\ Run(m, p) \subseteq Run(f[1], f[2])
    BY <2>4 DEF InFree
  <2>6. PICK g \in Free : m <= g[1] /\ Run(m, up) \subseteq Run(g[1], g[2])
    BY <2>4 DEF InFree
  <2>7. p \in Run(m, p) /\ up \in Run(m, up)
    BY <2>2, InArena
  <2>8. /\ IsBlock(f[1], f[2]) /\ f = <<f[1], f[2]>> /\ f[1] \in Nat
        /\ IsBlock(g[1], g[2]) /\ g = <<g[1], g[2]>> /\ g[1] \in Nat
    <3>1. /\ IsBlock(f[1], f[2]) /\ f = <<f[1], f[2]>>
          /\ IsBlock(g[1], g[2]) /\ g = <<g[1], g[2]>>
      BY BlocksOf
    <3> QED BY <3>1, Sizes DEF IsBlock
  <2>9. CASE m + 1 <= f[1]
    <3>1. Run(m + 1, p) \subseteq Run(f[1], f[2])
      BY <2>1, <2>2, <2>5, <2>7, <2>8, <2>9, Nested
    <3> QED BY <2>9, <3>1 DEF InFree
  <2>10. CASE m + 1 <= g[1]
    <3>1. Run(m + 1, p) \subseteq Run(g[1], g[2])
      BY <2>1, <2>2, <2>6, <2>7, <2>8, <2>10, Nested
    <3> QED BY <2>10, <3>1 DEF InFree
  <2>11. CASE f[1] = m /\ g[1] = m
    <3>1. ASSUME NEW s, NEW t, IsBlock(m, s), IsBlock(m, t), Run(m, s) \subseteq Run(m, t)
          PROVE  s = t
      <4>1. PagesOf(m) \in Nat \ {0} /\ s \in Nat /\ t \in Nat
        BY <3>1, Sizes DEF IsBlock
      <4>2. s \in Run(m, t) /\ s + PagesOf(m) - 1 \in Run(m, t)
        BY <3>1, <4>1 DEF Run
      <4> QED BY <4>1, <4>2 DEF Run
    <3>2. f[2] = p /\ g[2] = up
      BY <2>2, <2>5, <2>6, <2>8, <2>11, <3>1
    <3>3. f = <<m, p>> /\ g = <<m, up>>
      BY <2>8, <2>11, <3>2
    <3>4. <<f[1], Buddy!BuddyOf(f[2], f[1])>> = g
      BY <2>2, <2>11, <3>2, <3>3
    <3>5. NoBuddies(Free)
      BY DEF BuddyInv
    <3> QED BY <3>4, <3>5 DEF NoBuddies
  <2> QED BY <2>5, <2>6, <2>8, <2>9, <2>10, <2>11
<1> HIDE DEF P
<1>3. k \in P
  BY <1>1, <1>2, AllNumbers
<1> QED BY <1>3 DEF P

(* What Tiling says of remainders and extents follows from the invariant. *)
LEMMA TilingIf == BuddyInv => Buddy!Tiling
<1> SUFFICES ASSUME BuddyInv PROVE Buddy!Tiling
  OBVIOUS
<1> DEFINE B == Free \cup Used
<1>1. ASSUME NEW b \in B PROVE b[2] % (2 ^ b[1]) = 0 /\ Buddy!Extent(b) \subseteq Buddy!Pages
  <2>1. IsBlock(b[1], b[2]) /\ b[1] \in Buddy!Orders /\ b[2] \in Buddy!Pages
    BY BlocksOf DEF IsBlock
  <2>2. Buddy!Extent(b) = Run(b[1], b[2])
    BY BlocksOf
  <2> QED BY <2>1, <2>2, Multiples, InArena, Zenon
<1>2. \A b, c \in B : b # c => Buddy!Extent(b) \cap Buddy!Extent(c) = {}
  BY Zenon DEF BuddyInv, Tiles, Apart
<1>3. UNION {Buddy!Extent(b) : b \in B} = Buddy!Pages
  <2>1. Buddy!Pages \subseteq UNION {Buddy!Extent(b) : b \in B}
    BY Zenon DEF BuddyInv, Tiles, Covered
  <2> QED BY <1>1, <2>1
<1> QED BY <1>1, <1>2, <1>3, Zenon DEF BuddyInv, Buddy!Tiling, Free, Used

(* Once every block is freed the arena is one block again. *)
LEMMA AllMerged == BuddyInv /\ pages_live = {} => Buddy!Init
<1> SUFFICES ASSUME BuddyInv, pages_live = {} PROVE Buddy!Init
  OBVIOUS
<1>1. Used = {}
  BY DEF Used, Buddy!LiveBlocks
<1>2. /\ MAX_ORDER \in Buddy!Orders /\ MAX_ORDER \in Nat /\ 0 \in Buddy!Pages
      /\ PagesOf(MAX_ORDER) \in Nat \ {0} /\ Run(MAX_ORDER, 0) = Buddy!Pages
  <2>1. MAX_ORDER \in Buddy!Orders /\ PagesOf(MAX_ORDER) \in Nat \ {0} /\ MAX_ORDER \in Nat
    BY Sizes
  <2>2. Buddy!Pages = 0 .. PagesOf(MAX_ORDER) - 1
    BY Sizes, Zenon
  <2> QED BY <2>1, <2>2 DEF Run
<1>3. Clear(MAX_ORDER, 0)
  <2>1. 0 = 0 * PagesOf(MAX_ORDER)
    BY <1>2
  <2> QED BY <1>1, <1>2, <2>1 DEF Clear, IsBlock
<1>4. InFree(MAX_ORDER, 0)
  BY <1>2, <1>3, RoomIsFree
<1>5. PICK f \in Free : MAX_ORDER <= f[1]
  BY <1>4 DEF InFree
<1>6. f = <<MAX_ORDER, 0>>
  <2>1. f = <<f[1], f[2]>> /\ IsBlock(f[1], f[2])
    BY BlocksOf
  <2>2. f[1] = MAX_ORDER
    BY <1>2, <1>5, <2>1, InArena, Sizes DEF IsBlock
  <2>3. f[2] = 0
    BY <2>1, <2>2, TopBlock
  <2> QED BY <2>1, <2>2, <2>3
<1>7. ASSUME NEW c \in Free PROVE c = <<MAX_ORDER, 0>>
  <2>1. c = <<c[1], c[2]>> /\ IsBlock(c[1], c[2]) /\ Buddy!Extent(c) = Run(c[1], c[2])
    BY BlocksOf
  <2>2. c[2] \in Buddy!Extent(c) /\ c[2] \in Buddy!Pages
    BY <2>1, InArena
  <2>3. Buddy!Extent(f) = Buddy!Pages
    BY <1>2, <1>6, Sizes
  <2>4. c # f => Buddy!Extent(c) \cap Buddy!Extent(f) = {}
    BY <1>5, Zenon DEF BuddyInv, Tiles, Apart
  <2> QED BY <1>6, <2>2, <2>3, <2>4
<1>8. fl \in [Buddy!Orders -> Seq(Buddy!Pages)]
  BY DEF BuddyInv, Buddy!TypeOK
<1>9. ASSUME NEW o \in Buddy!Orders, NEW i \in 1 .. Len(fl[o]) PROVE o = MAX_ORDER /\ fl[o][i] = 0
  <2>1. fl[o][i] \in Buddy!Pages /\ Buddy!Contains(fl[o], fl[o][i])
    BY <1>8 DEF Buddy!Contains
  <2>2. <<o, fl[o][i]>> \in Free
    BY <2>1, FreeIs
  <2> QED BY <1>7, <2>2
<1>10. ASSUME NEW o \in Buddy!Orders, o # MAX_ORDER PROVE fl[o] = <<>>
  <2>1. fl[o] \in Seq(Buddy!Pages) /\ ~ (1 \in 1 .. Len(fl[o]))
    BY <1>8, <1>9, <1>10
  <2> QED BY <2>1
<1>11. fl[MAX_ORDER] = <<0>>
  <2>1. fl[MAX_ORDER] \in Seq(Buddy!Pages)
    BY <1>2, <1>8
  <2>2. Buddy!Contains(fl[MAX_ORDER], 0)
    BY <1>2, <1>5, <1>6, FreeIs
  <2>3. 1 <= Len(fl[MAX_ORDER])
    BY <2>1, <2>2 DEF Buddy!Contains
  <2>4. Buddy!IsInjective(fl[MAX_ORDER])
    BY <1>2 DEF BuddyInv
  <2>5. ~ (2 \in 1 .. Len(fl[MAX_ORDER]))
    <3> SUFFICES ASSUME 2 \in 1 .. Len(fl[MAX_ORDER]) PROVE FALSE
      OBVIOUS
    <3>1. 1 \in 1 .. Len(fl[MAX_ORDER]) /\ 2 \in DOMAIN fl[MAX_ORDER] /\ 1 \in DOMAIN fl[MAX_ORDER]
      BY <2>1, <2>3
    <3>2. fl[MAX_ORDER][1] = fl[MAX_ORDER][2]
      BY <1>2, <1>9, <3>1
    <3> QED BY <2>4, <3>1, <3>2 DEF Buddy!IsInjective
  <2>6. Len(fl[MAX_ORDER]) = 1 /\ fl[MAX_ORDER][1] = 0
    <3>1. Len(fl[MAX_ORDER]) \in Nat
      BY <2>1
    <3>2. Len(fl[MAX_ORDER]) = 1 /\ 1 \in 1 .. Len(fl[MAX_ORDER])
      <4>1. \A n \in Nat : 1 <= n /\ ~ (2 \in 1 .. n) => n = 1 /\ 1 \in 1 .. n
        OBVIOUS
      <4> QED BY <2>3, <2>5, <3>1, <4>1, Zenon
    <3> QED BY <1>2, <1>9, <3>2
  <2> QED BY <2>1, <2>6
<1>12. fl = [o \in Buddy!Orders |-> IF o = MAX_ORDER THEN <<0>> ELSE <<>>]
  BY <1>8, <1>10, <1>11
<1> QED BY <1>12 DEF Buddy!Init

(* 05_buddy.c, for any MAX_ORDER an int has room for and any requests:     *)
(* blocks tile the arena and start at multiples of their size, no list     *)
(* holds a block twice, no two buddies are free, and after the last        *)
(* buddy_free() the arena is one block as buddy_init() left it.            *)
THEOREM BuddyCorrect == Spec => []BuddyIsSound
<1>1. BuddyInv => BuddyIsSound
  <2>1. BuddyInv => \A b \in Buddy!FreeBlocks :
                      <<b[1], Buddy!BuddyOf(b[2], b[1])>> \notin Buddy!FreeBlocks
    BY Zenon DEF BuddyInv, NoBuddies, Free
  <2> QED BY <2>1, TilingIf, AllMerged, Zenon DEF BuddyIsSound, Buddy!NoFreeBuddies
<1>2. BuddyInv /\ [Next]_vars => BuddyInv'
  BY BuddyStep
<1> QED BY <1>1, <1>2, BuddyInit, PTL DEF Spec

(* 05_buddy.c: when buddy_alloc() returns NULL, every aligned run of the   *)
(* pages it rounds the request up to really holds a page in use.           *)
THEOREM RoomCorrect == Spec => []NullOnlyIfNoRoom
<1>1. BuddyInv => NullOnlyIfNoRoom
  <2> SUFFICES ASSUME BuddyInv, NEW pages \in PageRequests, NEW o, o = Buddy!OrderOf(pages),
                      Buddy!Candidates(o) = {}, NEW p \in Buddy!Pages,
                      p % (2 ^ o) = 0, o <= MAX_ORDER
               PROVE  \E b \in Used : Buddy!Extent(b) \cap Buddy!Extent(<<o, p>>) # {}
    BY Zenon DEF NullOnlyIfNoRoom, Buddy!NullOnlyIfNoRoom, Used
  <2>1. o \in Buddy!Orders /\ o \in Nat /\ MAX_ORDER \in Nat
    <3>1. o \in 0 .. 30
      BY OrderFits
    <3>2. Buddy!Orders = 0 .. MAX_ORDER /\ MAX_ORDER \in 0 .. 30
      BY Sizes, Zenon
    <3>3. \A n, m \in 0 .. 30 : n <= m => n \in 0 .. m /\ n \in Nat /\ m \in Nat
      OBVIOUS
    <3> QED BY <3>1, <3>2, <3>3, Zenon
  <2>2. IsBlock(o, p)
    BY <2>1, Multiples
  <2>3. ~ InFree(o, p)
    <3> SUFFICES ASSUME NEW f \in Free, o <= f[1] PROVE FALSE
      BY DEF InFree
    <3>1. f[1] \in Buddy!Orders /\ f[2] \in Buddy!Pages /\ Buddy!Contains(fl[f[1]], f[2])
      BY DEF Free, Buddy!FreeBlocks
    <3>2. fl[f[1]] # <<>>
      BY <3>1 DEF Buddy!Contains
    <3>3. f[1] \in o .. MAX_ORDER
      <4>1. f[1] \in 0 .. MAX_ORDER
        BY <3>1, Sizes, Zenon
      <4> QED BY <2>1, <4>1
    <3> QED BY <3>2, <3>3 DEF Buddy!Candidates
  <2>4. ~ Clear(o, p)
    BY <2>1, <2>3, RoomIsFree
  <2>5. PICK b \in Used : Run(b[1], b[2]) \cap Run(o, p) # {}
    BY <2>2, <2>4 DEF Clear
  <2>6. Buddy!Extent(b) = Run(b[1], b[2]) /\ Buddy!Extent(<<o, p>>) = Run(o, p)
    BY BlocksOf, Sizes
  <2> QED BY <2>5, <2>6
<1>2. BuddyInv /\ [Next]_vars => BuddyInv'
  BY BuddyStep
<1> QED BY <1>1, <1>2, BuddyInit, PTL DEF Spec
=============================================================================
