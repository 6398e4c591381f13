-------------------------- MODULE MCOverlay_proofs --------------------------
(***************************************************************************)
(* The properties of the overlay that MCOverlay checks for a few systems,  *)
(* proved for systems of every size and for every round.                   *)
(***************************************************************************)
EXTENDS MCOverlay, Overlay_proofs, FiniteSetTheorems

\* A system the code can set up.
SystemOK ==
  /\ num_meters \in Nat /\ num_meters > 1 /\ num_meters % 2 = 1
  /\ num_groups \in 1 .. num_meters /\ can_pick_proxies(num_groups, num_meters)
  /\ two_is_root(num_meters)
  /\ round \in Nat \cup {-1}

LEMMA SystemIsOK == Spec => []SystemOK
<1>1. Init => SystemOK
  <2> SUFFICES ASSUME Init PROVE SystemOK
    OBVIOUS
  <2>1. PICK s \in Systems : num_meters = s[1] /\ num_groups = 2 * s[2] + 1
    BY DEF Init
  <2>2. /\ num_meters \in Nat /\ num_groups \in Nat \ {0} /\ num_meters % 2 = 1
        /\ can_pick_proxies(num_groups, num_meters) /\ two_is_root(num_meters)
    BY <2>1, SystemsAssumption, RootAssumption
  <2>3. num_meters \div num_groups >= 2
    BY <2>2 DEF can_pick_proxies, standard_group_size
  <2> DEFINE size == num_meters \div num_groups
             rest == num_meters % num_groups
  <2>4. num_meters = (num_groups * size) + rest /\ size \in Nat /\ rest \in Nat
    BY <2>2, DivMod
  <2> HIDE DEF size, rest
  <2>5. num_groups * 2 <= num_groups * size
    BY <2>2, <2>3, <2>4, MulMono DEF size
  <2>6. num_groups * size \in Nat
    BY <2>2, <2>4
  <2>7. num_groups * 2 <= num_meters
    BY <2>2, <2>4, <2>5, <2>6
  <2> QED
    BY <2>2, <2>7 DEF Init, SystemOK
<1>2. SystemOK /\ [NextRound]_vars => SystemOK'
  BY DEF SystemOK, NextRound, vars
<1> QED
  BY <1>1, <1>2, PTL DEF Spec

-----------------------------------------------------------------------------
(* The gossip graph *)

\* In every round of every system of an odd size the sends form a permutation
\* without fixed points: nobody waits for a node that sends to somebody else.
THEOREM PredecessorsSend == Spec => []PredecessorSendsToMe
<1>1. SystemOK => PredecessorSendsToMe
  <2> SUFFICES ASSUME SystemOK, NEW i \in Node
               PROVE  /\ target(i) \in Node \ {i}
                      /\ predecessor(target(i)) = i
                      /\ target(predecessor(i)) = i
    BY DEF PredecessorSendsToMe
  <2>1. /\ num_meters \in Nat /\ num_meters > 1 /\ num_meters % 2 = 1
        /\ round \in Nat \cup {-1} /\ i \in 0 .. num_meters - 1
    BY DEF SystemOK, Node
  <2>2. target(i) \in Node \ {i} /\ predecessor(target(i)) = i
    BY <2>1, TargetWaits DEF target, predecessor, Node
  <2>3. target(predecessor(i)) = i
    BY <2>1, PredecessorSends DEF target, predecessor
  <2> QED
    BY <2>2, <2>3
<1> QED
  BY <1>1, SystemIsOK, PTL

-----------------------------------------------------------------------------
(* The period of the offsets *)

\* 2 is a primitive root of the number of nodes, as PrimeModuli.hpp requires of
\* its primes: its powers are all the numbers from 1 on.
TwoIsRoot(n) == {power(1, 2, k, n) : k \in 0 .. n - 2} = 1 .. n - 1

\* Modulo an odd number only equal numbers have equal doubles.
LEMMA HalvesAreEqual ==
  ASSUME NEW n \in Nat, n % 2 = 1, NEW x \in 0 .. n - 1, NEW y \in 0 .. n - 1,
         (2 * x) % n = (2 * y) % n
  PROVE  x = y
<1>1. PICK h \in Nat : n = 2 * h + 1
  OBVIOUS
<1>2. \A z \in 0 .. n - 1 : (2 * z) % n = IF 2 * z < n THEN 2 * z ELSE 2 * z - n
  OBVIOUS
<1> QED
  BY <1>1, <1>2

\* Of n - 1 powers in a row, all different, the next is the first again.
LEMMA RootPeriod ==
  ASSUME NEW n \in Nat, n > 1, n % 2 = 1, TwoIsRoot(n)
  PROVE  power(1, 2, n - 1, n) = 1
<1> DEFINE a(k) == power(1, 2, k, n)
<1>1. a(0) = 1 /\ \A k \in Nat : a(k) \in 0 .. n - 1 /\ a(k + 1) = (2 * a(k)) % n
  <2>1. 1 \in 0 .. n - 1 /\ n \in Nat \ {0} /\ 1 \in Nat /\ 0 \in Nat /\ 2 \in Nat
    OBVIOUS
  <2>2. \A k \in Nat : power(1, 2, k, n) \in 0 .. n - 1
    BY <2>1, PowerLinear
  <2>3. \A k \in Nat : power(1, 2, k + 1, n) = (2 * power(1, 2, k, n)) % n
    BY <2>1, PowerNext
  <2>4. power(1, 2, 0, n) = 1
    BY <2>1, PowerStep
  <2> QED
    BY <2>2, <2>3, <2>4
<1>2. a(n - 1) \in 1 .. n - 1
  <2>1. gossip_offset(n - 1, n) \in 1 .. n - 1 /\ n - 1 \in Nat
    BY OffsetInRange
  <2> QED
    BY <2>1, OffsetIsPower
<1>3. {a(k) : k \in 0 .. n - 2} = 1 .. n - 1
  BY DEF TwoIsRoot
<1> HIDE DEF a
<1>4. PICK j \in 0 .. n - 2 : a(n - 1) = a(j)
  BY <1>2, <1>3
<1>5. ASSUME j # 0 PROVE FALSE
  <2>1. /\ j - 1 \in Nat /\ n - 2 \in Nat /\ (j - 1) + 1 = j /\ (n - 2) + 1 = n - 1
        /\ j - 1 \in 0 .. n - 3
    BY <1>5
  <2>2. a(j - 1) = a(n - 2)
    <3>1. /\ a(j - 1) \in 0 .. n - 1 /\ a(n - 2) \in 0 .. n - 1
          /\ a(j) = (2 * a(j - 1)) % n /\ a(n - 1) = (2 * a(n - 2)) % n
      BY <1>1, <2>1
    <3> QED
      BY <1>4, <3>1, HalvesAreEqual
  <2> DEFINE A == 0 .. n - 3
             B == 1 .. n - 1
             f == [k \in A |-> a(k)]
  <2>3. \A v \in B : \E k \in A : a(k) = v
    <3> SUFFICES ASSUME NEW v \in B PROVE \E k \in A : a(k) = v
      OBVIOUS
    <3>1. PICK k \in 0 .. n - 2 : a(k) = v
      BY <1>3
    <3>2. k = n - 2 \/ k \in A
      OBVIOUS
    <3> QED
      BY <2>1, <2>2, <3>1, <3>2
  <2>4. f \in Surjection(A, B)
    <3>1. \A k \in A : a(k) \in B
      BY <1>3, <2>1
    <3> QED
      BY <2>3, <3>1 DEF Surjection
  <2>5. IsFiniteSet(A) /\ Cardinality(A) = n - 2
    <3>1. 0 \in Int /\ n - 3 \in Int
      OBVIOUS
    <3>2. Cardinality(A) = IF 0 > n - 3 THEN 0 ELSE n - 3 - 0 + 1
      BY <3>1, FS_Interval
    <3> QED
      BY <3>1, <3>2, <2>1, FS_Interval
  <2>6. Cardinality(B) = n - 1
    <3>1. 1 \in Int /\ n - 1 \in Int
      OBVIOUS
    <3>2. Cardinality(B) = IF 1 > n - 1 THEN 0 ELSE n - 1 - 1 + 1
      BY <3>1, FS_Interval
    <3> QED
      BY <3>2
  <2>7. Cardinality(B) <= Cardinality(A)
    <3> HIDE DEF A, B, f
    <3> QED
      BY <2>4, <2>5, FS_Surjection
  <2> QED
    BY <2>5, <2>6, <2>7
<1> QED
  BY <1>1, <1>4, <1>5 DEF a

\* The doublings of MCOverlay are those powers.
LEMMA DoubledIsPower ==
  ASSUME NEW n \in Nat, n > 1
  PROVE  \A k \in Nat : doubled(n)[k] = power(1, 2, k, n)
<1> DEFINE D(g) == g = [k \in Nat |-> IF k = 0 THEN 1 ELSE (2 * g[k - 1]) % n]
           d == CHOOSE g : D(g)
           a == [k \in Nat |-> power(1, 2, k, n)]
           S == {k \in Nat : d[k] = a[k]}
<1>1. doubled(n) = d
  BY Zenon DEF doubled
<1>2. a[0] = 1 /\ \A k \in Nat : a[k + 1] = (2 * a[k]) % n
  <2>1. 1 \in 0 .. n - 1 /\ n \in Nat \ {0} /\ 1 \in Nat /\ 0 \in Nat /\ 2 \in Nat
    OBVIOUS
  <2>2. power(1, 2, 0, n) = 1
    BY <2>1, PowerStep
  <2>3. \A k \in Nat : power(1, 2, k + 1, n) = (2 * power(1, 2, k, n)) % n
    BY <2>1, PowerNext
  <2>4. \A k \in Nat : k + 1 \in Nat
    OBVIOUS
  <2> QED
    BY <2>2, <2>3, <2>4
<1>3. D(a)
  <2>1. ASSUME NEW k \in Nat PROVE a[k] = IF k = 0 THEN 1 ELSE (2 * a[k - 1]) % n
    <3>1. CASE k = 0
      BY <1>2, <3>1
    <3>2. CASE k # 0
      <4> DEFINE j == k - 1
      <4>1. j \in Nat /\ k = j + 1
        BY <3>2
      <4> HIDE DEF a, j
      <4>2. a[j + 1] = (2 * a[j]) % n
        BY <1>2, <4>1
      <4> QED
        BY <3>2, <4>1, <4>2 DEF j
    <3> QED
      BY <3>1, <3>2
  <2>2. a = [k \in Nat |-> a[k]]
    OBVIOUS
  <2> HIDE DEF a
  <2> QED
    BY <2>1, <2>2
<1>4. D(d)
  <2> HIDE DEF D, a
  <2> QED
    BY <1>3
<1> HIDE DEF d, a
<1>5. ASSUME NEW k \in Nat, \A j \in 0 .. k - 1 : j \in S PROVE k \in S
  <2>1. CASE k = 0
    BY <1>3, <1>4, <2>1
  <2>2. CASE k # 0
    <3>1. k - 1 \in 0 .. k - 1
      BY <2>2
    <3>2. d[k - 1] = a[k - 1]
      BY <1>5, <3>1
    <3> QED
      BY <1>3, <1>4, <2>2, <3>2
  <2> QED
    BY <2>1, <2>2
<1>6. S = Nat
  <2>1. S \in SUBSET Nat
    OBVIOUS
  <2> HIDE DEF S, D
  <2> QED
    BY <1>5, <2>1, Induction
<1> QED
  BY <1>1, <1>6 DEF a

LEMMA RootIsRoot ==
  ASSUME NEW n \in Nat, n > 1, two_is_root(n)
  PROVE  TwoIsRoot(n)
<1>1. \A k \in 0 .. n - 2 : k \in Nat
  OBVIOUS
<1>2. \A k \in 0 .. n - 2 : doubled(n)[k] = power(1, 2, k, n)
  BY <1>1, DoubledIsPower
<1> QED
  BY <1>2 DEF two_is_root, TwoIsRoot

\* The offsets repeat themselves after n - 1 rounds.
LEMMA PowerPeriod ==
  ASSUME NEW n \in Nat, n > 1, n % 2 = 1, TwoIsRoot(n), NEW k \in Nat
  PROVE  \A q \in Nat : power(1, 2, (n - 1) * q + k, n) = power(1, 2, k, n)
<1> DEFINE a(j) == power(1, 2, j, n)
           S == {q \in Nat : a((n - 1) * q + k) = a(k)}
<1>1. a(n - 1) = 1
  BY RootPeriod
<1>2. \A i, j \in Nat : a(i + j) = (a(i) * a(j)) % n
  BY PowerAdds
<1>3. \A j \in Nat : a(j) \in 0 .. n - 1
  <2>1. 1 \in 0 .. n - 1 /\ 2 \in Nat
    OBVIOUS
  <2> QED
    BY <2>1, PowerLinear
<1> HIDE DEF a
<1>4. ASSUME NEW q \in Nat, \A j \in 0 .. q - 1 : j \in S PROVE q \in S
  <2>1. CASE q = 0
    <3>1. (n - 1) * q + k = k
      BY <2>1
    <3> QED
      BY <3>1
  <2>2. CASE q # 0
    <3> DEFINE j == q - 1
               l == (n - 1) * j + k
    <3>1. j \in Nat /\ j \in 0 .. q - 1 /\ q = j + 1
      BY <2>2
    <3>2. a(l) = a(k)
      BY <1>4, <3>1
    <3> HIDE DEF j
    <3>3. l \in Nat /\ (n - 1) * q + k = (n - 1) + l /\ n - 1 \in Nat
      <4>1. (n - 1) * (j + 1) = ((n - 1) * j) + (n - 1) /\ (n - 1) * j \in Nat
        BY <3>1
      <4> QED
        BY <3>1, <4>1
    <3> HIDE DEF l
    <3>4. a((n - 1) + l) = (1 * a(k)) % n
      BY <1>1, <1>2, <3>2, <3>3
    <3> DEFINE x == a(k)
    <3>5. x \in 0 .. n - 1
      BY <1>3
    <3> HIDE DEF x
    <3>6. (1 * x) % n = x
      BY <3>5
    <3> QED
      BY <3>3, <3>4, <3>6 DEF x
  <2> QED
    BY <2>1, <2>2
<1>5. S = Nat
  <2>1. S \in SUBSET Nat
    OBVIOUS
  <2> HIDE DEF S
  <2> QED
    BY <1>4, <2>1, Induction
<1> QED
  BY <1>5 DEF a

LEMMA PowerReduced ==
  ASSUME NEW n \in Nat, n > 1, n % 2 = 1, TwoIsRoot(n), NEW e \in Nat
  PROVE  power(1, 2, e, n) = power(1, 2, e % (n - 1), n)
<1> DEFINE o == n - 1
           q == e \div o
           k == e % o
<1>1. o \in Nat \ {0}
  OBVIOUS
<1>2. q \in Nat /\ k \in 0 .. o - 1 /\ e = (o * q) + k
  <2> HIDE DEF o
  <2> QED
    BY <1>1, DivMod
<1>3. k \in Nat
  BY <1>1, <1>2
<1> HIDE DEF q, k
<1>4. power(1, 2, (n - 1) * q + k, n) = power(1, 2, k, n)
  BY <1>2, <1>3, PowerPeriod
<1> QED
  BY <1>2, <1>4 DEF k

\* Any n - 1 consecutive rounds have all the offsets.
LEMMA WindowOfOffsets ==
  ASSUME NEW n \in Nat, n > 1, n % 2 = 1, TwoIsRoot(n), NEW r \in Nat, NEW v \in 1 .. n - 1
  PROVE  \E t \in r .. r + n - 2 : gossip_offset(t, n) = v
<1> DEFINE o == n - 1
           q == r \div o
           s == r % o
<1>1. o \in Nat \ {0}
  OBVIOUS
<1>2. q \in Nat /\ s \in 0 .. o - 1 /\ r = (o * q) + s
  <2> HIDE DEF o
  <2> QED
    BY <1>1, DivMod
<1>3. PICK k \in 0 .. n - 2 : power(1, 2, k, n) = v
  BY DEF TwoIsRoot
<1> HIDE DEF q, s
<1>4. ASSUME NEW p \in Nat, (o * p) + k \in r .. r + n - 2
      PROVE  \E t \in r .. r + n - 2 : gossip_offset(t, n) = v
  <2> DEFINE t == (n - 1) * p + k
  <2>1. k \in Nat /\ t \in Nat /\ t \in r .. r + n - 2
    BY <1>1, <1>4
  <2>2. power(1, 2, t, n) = power(1, 2, k, n)
    BY <2>1, PowerPeriod
  <2> HIDE DEF t
  <2>3. gossip_offset(t, n) = power(1, 2, t, n)
    BY <2>1, OffsetIsPower
  <2> QED
    BY <1>3, <2>1, <2>2, <2>3
<1>5. o * (q + 1) = (o * q) + o /\ o * q \in Nat
  BY <1>1, <1>2
<1> DEFINE m == o * q
<1>6. m \in Nat /\ r = m + s /\ o * (q + 1) = m + o
  BY <1>2, <1>5
<1>7. CASE k >= s
  <2>1. m + k \in r .. r + n - 2
    <3> HIDE DEF m
    <3> QED
      BY <1>1, <1>2, <1>6, <1>7
  <2> QED
    BY <1>2, <1>4, <2>1
<1>8. CASE k < s
  <2>1. (m + o) + k \in r .. r + n - 2
    <3> HIDE DEF m
    <3> QED
      BY <1>1, <1>2, <1>6, <1>8
  <2>2. q + 1 \in Nat /\ (o * (q + 1)) + k \in r .. r + n - 2
    BY <1>2, <1>6, <2>1
  <2> QED
    BY <1>4, <2>2
<1>9. k >= s \/ k < s
  BY <1>1, <1>2
<1> QED
  BY <1>7, <1>8, <1>9

\* The square-and-multiply loop computes the powers of two: in every system and
\* every round the offset doubles to the next round's, and in round -1 it is
\* that of the exponent 2^32 - 1, reduced by the order of 2.
THEOREM OffsetsArePowers == Spec => []PowersOfTwo
<1>1. SystemOK => PowersOfTwo
  <2> SUFFICES ASSUME SystemOK PROVE PowersOfTwo
    OBVIOUS
  <2> DEFINE n == num_meters
             o == n - 1
             offset(r) == gossip_offset(r, n)
  <2>1. n \in Nat /\ n > 1 /\ n % 2 = 1 /\ TwoIsRoot(n) /\ n \in Nat \ {0}
    BY RootIsRoot DEF SystemOK
  <2>2. /\ \A r \in Nat : offset(r) = power(1, 2, r, n)
        /\ offset(-1) = power(1, 2, 65535 * 65537, n)
    BY <2>1, OffsetIsPower
  <2>3. CASE round = -1
    <3> DEFINE x == 65535
               y == 65537
               e == ((x % o) * (y % o)) % o
    <3>1. 1 \in Nat /\ 2 \in Nat /\ 0 \in Nat
      OBVIOUS
    <3>2. offset(0) = 1
      BY <2>1, <2>2, <3>1, PowerStep
    <3>3. x \in Nat /\ y \in Nat /\ o \in Nat \ {0}
      BY <2>1
    <3>4. x * y \in Nat
      OBVIOUS
    <3>5. offset(-1) = power(1, 2, (x * y) % o, n)
      BY <2>1, <2>2, <3>4, PowerReduced
    <3> HIDE DEF x, y, o, n
    <3>6. ((x % o) * (y % o)) % o = (x * (y % o)) % o /\ (x * (y % o)) % o = (x * y) % o
      <4>1. y % o \in Nat
        BY <3>3
      <4> QED
        BY <3>3, <4>1, ModMult
    <3>7. e \in Nat
      <4>1. (x * y) % o \in Nat
        BY <3>3, <3>4
      <4> QED
        BY <3>6, <4>1
    <3>8. offset(-1) = offset(e)
      BY <2>2, <3>5, <3>6, <3>7
    <3> QED
      BY <2>3, <3>2, <3>8 DEF PowersOfTwo, x, y, o, n
  <2>4. CASE round # -1
    <3>1. round \in Nat /\ round + 1 \in Nat /\ 1 \in 0 .. n - 1 /\ 2 \in Nat
      BY <2>1, <2>4 DEF SystemOK
    <3>2. power(1, 2, round + 1, n) = (2 * power(1, 2, round, n)) % n
      BY <2>1, <3>1, PowerNext
    <3> QED
      BY <2>2, <2>4, <3>1, <3>2 DEF PowersOfTwo
  <2> QED
    BY <2>3, <2>4
<1> QED
  BY <1>1, SystemIsOK, PTL

\* In every system any num_meters - 1 consecutive rounds connect each node to all
\* the others, so a message that waits for its next hop meets that round.
THEOREM AllNodesAreMet ==
  ASSUME NEW n \in Nat, n > 1, n % 2 = 1, two_is_root(n),
         NEW r \in Nat, NEW i \in 0 .. n - 1
  PROVE  {gossip_target(i, t, n) : t \in r .. r + n - 2} = (0 .. n - 1) \ {i}
<1>1. TwoIsRoot(n)
  BY RootIsRoot
<1>2. ASSUME NEW t \in r .. r + n - 2 PROVE gossip_target(i, t, n) \in (0 .. n - 1) \ {i}
  <2>1. t \in Nat \cup {-1}
    OBVIOUS
  <2> QED
    BY <2>1, TargetWaits
<1>3. ASSUME NEW x \in (0 .. n - 1) \ {i}
      PROVE  \E t \in r .. r + n - 2 : gossip_target(i, t, n) = x
  <2> DEFINE v == IF x > i THEN x - i ELSE (x - i) + n
  <2>1. v \in 1 .. n - 1 /\ (i + v) % n = x
    OBVIOUS
  <2>2. PICK t \in r .. r + n - 2 : gossip_offset(t, n) = v
    <3> HIDE DEF v
    <3> QED
      BY <1>1, <2>1, WindowOfOffsets
  <2> QED
    BY <2>1, <2>2 DEF gossip_target
<1> QED
  BY <1>2, <1>3

\* The property of the sweep follows.
THEOREM NodesAreMet == Spec => []EveryNodeIsMet
<1>1. SystemOK => EveryNodeIsMet
  <2> SUFFICES ASSUME SystemOK, round >= 0, NEW i \in {0, 1, num_meters - 1}
               PROVE  {gossip_target(i, t, num_meters) :
                         t \in round .. round + num_meters - 2} = Node \ {i}
    BY DEF EveryNodeIsMet
  <2>1. /\ num_meters \in Nat /\ num_meters > 1 /\ num_meters % 2 = 1
        /\ two_is_root(num_meters) /\ round \in Nat /\ i \in 0 .. num_meters - 1
    BY DEF SystemOK
  <2> QED
    BY <2>1, AllNodesAreMet DEF Node
<1> QED
  BY <1>1, SystemIsOK, PTL

-----------------------------------------------------------------------------
(* The groups *)

\* A group's members are the nodes of its range.
LEMMA MembersAreRange ==
  ASSUME SystemOK, NEW g \in Group,
         NEW first, first = group_first_id(g, num_groups, num_meters),
         NEW size, size = group_size_of(g, num_groups, num_meters)
  PROVE  /\ first \in Nat /\ size \in Nat /\ size >= 2
         /\ members(g) = first .. first + (size - 1)
<1>1. /\ num_meters \in Nat \ {0} /\ num_groups \in 1 .. num_meters
      /\ g \in 0 .. num_groups - 1
  BY DEF SystemOK, Group
<1>2. first \in Nat /\ size \in Nat /\ first + size <= num_meters
      /\ size >= standard_group_size(num_groups, num_meters)
      /\ standard_group_size(num_groups, num_meters) \in Nat
  BY <1>1, GroupRange
<1>3. size >= 2
  BY <1>2 DEF SystemOK, can_pick_proxies
<1>4. \A i \in 0 .. num_meters - 1 :
        group_of(i) = g <=> first <= i /\ i < first + size
  BY <1>1, GroupMembers DEF group_of
<1>5. members(g) = {i \in 0 .. num_meters - 1 : first <= i /\ i < first + size}
  BY <1>4 DEF members, Node
<1>6. first .. first + (size - 1)
        = {i \in 0 .. num_meters - 1 : first <= i /\ i < first + size}
  BY <1>1, <1>2
<1> QED
  BY <1>2, <1>3, <1>5, <1>6

\* pick_proxies and aggregation_group_for cut the nodes of every system into the
\* same groups, though one computes ranges and the other divides.
THEOREM GroupsAreRanges == Spec => []GroupsAgree
<1>1. SystemOK => GroupsAgree
  <2> SUFFICES ASSUME SystemOK, NEW g \in Group
               PROVE  members(g) = proxy_range(g, num_groups, num_meters)
    BY DEF GroupsAgree
  <2> DEFINE first == group_first_id(g, num_groups, num_meters)
             size  == group_size_of(g, num_groups, num_meters)
             std   == standard_group_size(num_groups, num_meters)
             share == second_last_group_size(num_groups, num_meters)
             begin == (num_groups - 2) * std
  <2>1. members(g) = first .. first + (size - 1) /\ first \in Nat /\ size \in Nat
    BY MembersAreRange
  <2>2. /\ num_meters \in Nat \ {0} /\ num_groups \in 1 .. num_meters
        /\ g \in 0 .. num_groups - 1
    BY DEF SystemOK, Group
  <2>3. std \in Nat /\ share \in Nat /\ begin \in Int
    BY <2>2, GroupSizes
  <2>4. proxy_range(g, num_groups, num_meters) =
          CASE g < num_groups - 2 -> g * std .. g * std + (std - 1)
            [] g = num_groups - 2 -> begin .. begin + (share - 1)
            [] OTHER -> begin + share .. num_meters - 1
    BY DEF proxy_range
  <2>5. first = IF g = num_groups - 1 THEN begin + share ELSE g * std
    BY DEF group_first_id
  <2>6. size = CASE g = num_groups - 1 -> num_meters - first
                 [] g = num_groups - 2 -> share
                 [] OTHER -> std
    BY DEF group_size_of
  <2>7. g * std \in Int
    BY <2>2, <2>3
  <2>8. g = num_groups - 2 => g * std = begin
    OBVIOUS
  <2> DEFINE f == g * std
  <2> HIDE DEF first, size, std, share, begin, f
  <2>9. f \in Int /\ (g = num_groups - 2 => f = begin)
        /\ first = (IF g = num_groups - 1 THEN begin + share ELSE f)
        /\ proxy_range(g, num_groups, num_meters) =
             CASE g < num_groups - 2 -> f .. f + (std - 1)
               [] g = num_groups - 2 -> begin .. begin + (share - 1)
               [] OTHER -> begin + share .. num_meters - 1
    BY <2>4, <2>5, <2>7, <2>8 DEF f
  <2>10. CASE g < num_groups - 2
    BY <2>1, <2>2, <2>3, <2>6, <2>9, <2>10
  <2>11. CASE g = num_groups - 2
    BY <2>1, <2>2, <2>3, <2>6, <2>9, <2>11
  <2>12. CASE g = num_groups - 1
    <3>1. first + (size - 1) = num_meters - 1
      BY <2>1, <2>2, <2>6, <2>12
    <3>2. first = begin + share
      BY <2>9, <2>12
    <3> QED
      BY <2>1, <2>2, <2>9, <2>12, <3>1, <3>2
  <2> QED
    BY <2>2, <2>10, <2>11, <2>12
<1> QED
  BY <1>1, SystemIsOK, PTL

\* random_int_exclude draws every number of a range but the excluded one.
LEMMA ExcludesOne ==
  ASSUME NEW a \in Int, NEW b \in Int, a < b, NEW i \in a .. b
  PROVE  random_int_exclude(a .. b, i) = (a .. b) \ {i}
<1> DEFINE range == a .. b
           top   == CHOOSE x \in range : \A y \in range : y <= x
<1>1. top = b
  <2>1. b \in range /\ \A y \in range : y <= b
    OBVIOUS
  <2>2. top \in range /\ \A y \in range : y <= top
    <3> HIDE DEF range
    <3> QED
      BY <2>1
  <2> HIDE DEF top
  <2> QED
    BY <2>1, <2>2
<1> HIDE DEF top
<1>2. random_int_exclude(range, i) =
        {IF choice = i THEN top ELSE choice : choice \in range \ {top}}
  BY DEF random_int_exclude, top
<1> QED
  BY <1>1, <1>2

\* A node may be given any other member of a group as its proxy, never itself,
\* and there is one: who signs a value is not who contributed it.
THEOREM ProxiesAreOthers == Spec => []ProxyIsSomeoneElse
<1>1. SystemOK /\ GroupsAgree => ProxyIsSomeoneElse
  <2> SUFFICES ASSUME SystemOK, GroupsAgree, NEW i \in Node, NEW g \in Group
               PROVE  /\ pick_proxies(i, g, num_groups, num_meters) = members(g) \ {i}
                      /\ members(g) \ {i} # {}
    BY DEF ProxyIsSomeoneElse
  <2> DEFINE first == group_first_id(g, num_groups, num_meters)
             size  == group_size_of(g, num_groups, num_meters)
             range == members(g)
             final == first + (size - 1)
  <2>1. range = first .. final /\ first \in Int /\ final \in Int /\ first < final
    BY MembersAreRange
  <2>2. pick_proxies(i, g, num_groups, num_meters) =
          IF i \in range THEN random_int_exclude(range, i) ELSE range
    BY DEF pick_proxies, GroupsAgree
  <2>3. i \in Int
    BY DEF Node, SystemOK
  <2> HIDE DEF first, final, range
  <2>4. i \in range => random_int_exclude(range, i) = range \ {i}
    BY <2>1, ExcludesOne
  <2>5. range \ {i} # {}
    <3>1. first \in range /\ final \in range /\ first # final
      BY <2>1
    <3> QED
      BY <3>1
  <2> QED
    BY <2>2, <2>4, <2>5 DEF range
<1> QED
  BY <1>1, SystemIsOK, GroupsAreRanges, PTL

-----------------------------------------------------------------------------
(* The trees *)

\* aggregation_tree_children and aggregation_tree_parent are inverse in every
\* system: a node receives the aggregates of the children it waits for, and of
\* no others.
THEOREM ParentsKnowTheirChildren == Spec => []ChildrenAndParentAgree
<1>1. SystemOK => ChildrenAndParentAgree
  <2> SUFFICES ASSUME SystemOK, NEW i \in Node
               PROVE  children(i) =
                        {c \in Node : group_of(c) = group_of(i) /\ parent(c) = i}
    BY DEF ChildrenAndParentAgree
  <2>1. num_meters \in Nat \ {0} /\ num_groups \in 1 .. num_meters
        /\ i \in 0 .. num_meters - 1
    BY DEF SystemOK, Node
  <2>2. children(i) = {c \in Node : parent(c) = i}
    BY <2>1, ChildrenOf DEF children, parent, Node
  <2>3. ASSUME NEW c \in Node, parent(c) = i PROVE group_of(c) = group_of(i)
    <3>1. c \in 0 .. num_meters - 1 /\ i # NoNode
      BY <2>1 DEF Node, NoNode
    <3> QED
      BY <2>1, <2>3, <3>1, ParentInGroup DEF parent, group_of
  <2> QED
    BY <2>2, <2>3
<1> QED
  BY <1>1, SystemIsOK, PTL

\* Each group of every system is one tree: only its first member has no parent,
\* and all other parents are members with smaller numbers.
THEOREM GroupsAreTrees == Spec => []OneTreePerGroup
<1>1. SystemOK => OneTreePerGroup
  <2> SUFFICES ASSUME SystemOK, NEW g \in Group
               PROVE  \E root \in members(g) : \A i \in members(g) :
                        IF i = root THEN parent(i) = NoNode
                                    ELSE parent(i) \in members(g) /\ parent(i) < i
    BY DEF OneTreePerGroup
  <2> DEFINE first == group_first_id(g, num_groups, num_meters)
  <2>1. /\ num_meters \in Nat \ {0} /\ num_groups \in 1 .. num_meters
        /\ g \in 0 .. num_groups - 1
    BY DEF SystemOK, Group
  <2>2. first \in members(g)
    BY <2>1, FirstIsMember DEF members, group_of, Node
  <2>3. ASSUME NEW i \in members(g)
        PROVE  IF i = first THEN parent(i) = NoNode
                            ELSE parent(i) \in members(g) /\ parent(i) < i
    <3>1. i \in 0 .. num_meters - 1 /\ aggregation_group_for(i, num_groups, num_meters) = g
      BY DEF members, group_of, Node
    <3> QED
      BY <2>1, <3>1, ParentInGroup DEF parent, members, group_of, Node
  <2> HIDE DEF first
  <2> QED
    BY <2>2, <2>3
<1> QED
  BY <1>1, SystemIsOK, PTL

-----------------------------------------------------------------------------
(* The search for a path *)

\* The loop of find_path: its states, when it ends, and its body.
SearchState == [time : Nat, infected : SUBSET Path]

search_start(source, start) == [time |-> start, infected |-> {<<source>>}]

arriving(s, dest, n, start) ==
  IF s.time - start < MIN_PATH_LENGTH THEN {} ELSE paths_to(dest, s.infected, s.time, n)

search_left(dest, n, start, max_round) ==
  [s \in SearchState |-> IF s.time >= max_round \/ arriving(s, dest, n, start) # {}
                           THEN 0 ELSE max_round - s.time]

search_out(dest, n, start, max_round) ==
  [s \in SearchState |-> IF s.time >= max_round THEN NoPath
                           ELSE CHOOSE p \in arriving(s, dest, n, start) : TRUE]

search_next(n, exclude_nodes) ==
  [s \in SearchState |-> [time     |-> s.time + 1,
                          infected |-> infect(s.infected, s.time, n, exclude_nodes)]]

search_loop(dest, n, start, max_round, exclude_nodes) ==
  CHOOSE f : Loop(f, SearchState, search_left(dest, n, start, max_round),
                  search_next(n, exclude_nodes), search_out(dest, n, start, max_round))

LEMMA HopIsNode ==
  ASSUME NEW n \in Nat, n > 1, n % 2 = 1, NEW p \in Path, NEW time \in Nat
  PROVE  hop(p, time, n) \in 0 .. n - 1
<1> DEFINE l == last(p)
           o == gossip_offset(time, n)
<1>1. l \in Nat
  BY DEF last, Path
<1>2. o \in Nat
  BY OffsetInRange
<1> HIDE DEF l, o
<1>3. (l + o) % n \in 0 .. n - 1
  BY <1>1, <1>2
<1> QED
  BY <1>3 DEF hop, gossip_target, l, o

LEMMA LongerPath ==
  ASSUME NEW p \in Path, NEW v \in Nat
  PROVE  /\ Append(p, v) \in Path /\ Len(Append(p, v)) = Len(p) + 1
         /\ Append(p, v)[Len(p) + 1] = v
         /\ \A k \in 1 .. Len(p) : Append(p, v)[k] = p[k]
         /\ Len(p) \in Nat \ {0} /\ \A k \in 1 .. Len(p) : p[k] \in Nat
  BY DEF Path

LEMMA InfectPaths ==
  ASSUME NEW n \in Nat, n > 1, n % 2 = 1, NEW infected \in SUBSET Path, NEW time \in Nat,
         NEW exclude_nodes
  PROVE  infect(infected, time, n, exclude_nodes) \in SUBSET Path
<1>1. \A p \in infected : hop(p, time, n) \in Nat
  BY HopIsNode
<1>2. \A p \in infected : Append(p, hop(p, time, n)) \in Path
  BY <1>1, LongerPath
<1> QED
  BY <1>2 DEF infect

LEMMA SearchIsLoop ==
  ASSUME NEW source, NEW dest, NEW n, NEW start \in Nat, NEW max_round \in Nat,
         NEW exclude_nodes
  PROVE  find_path(source, dest, n, start, max_round, exclude_nodes)
           = search_loop(dest, n, start, max_round, exclude_nodes)[search_start(source, start)]
<1> DEFINE left == search_left(dest, n, start, max_round)
           out  == search_out(dest, n, start, max_round)
           next == search_next(n, exclude_nodes)
           s0   == search_start(source, start)
           A(s) == IF s.time - start < MIN_PATH_LENGTH
                     THEN {} ELSE paths_to(dest, s.infected, s.time, n)
           B(f) == [s \in [time : Nat, infected : SUBSET Path] |->
                      IF s.time >= max_round THEN NoPath
                      ELSE IF A(s) # {} THEN CHOOSE p \in A(s) : TRUE
                      ELSE f[[time     |-> s.time + 1,
                              infected |-> infect(s.infected, s.time, n, exclude_nodes)]]]
<1>1. ASSUME NEW f
      PROVE  [s \in SearchState |-> IF left[s] = 0 THEN out[s] ELSE f[next[s]]] = B(f)
  <2>1. ASSUME NEW s \in SearchState
        PROVE  (IF left[s] = 0 THEN out[s] ELSE f[next[s]])
                 = IF s.time >= max_round THEN NoPath
                   ELSE IF A(s) # {} THEN CHOOSE p \in A(s) : TRUE
                   ELSE f[[time     |-> s.time + 1,
                           infected |-> infect(s.infected, s.time, n, exclude_nodes)]]
    <3>1. s.time \in Nat
      BY DEF SearchState
    <3>2. /\ left[s] = IF s.time >= max_round \/ A(s) # {} THEN 0 ELSE max_round - s.time
          /\ out[s] = IF s.time >= max_round THEN NoPath ELSE CHOOSE p \in A(s) : TRUE
          /\ next[s] = [time     |-> s.time + 1,
                        infected |-> infect(s.infected, s.time, n, exclude_nodes)]
      BY DEF search_left, search_out, search_next, arriving
    <3> HIDE DEF left, out, next, A
    <3> QED
      BY <3>1, <3>2
  <2> HIDE DEF left, out, next
  <2> QED
    BY <2>1 DEF SearchState
<1>2. find_path(source, dest, n, start, max_round, exclude_nodes)
        = (CHOOSE f : f = B(f))[s0]
  BY Zenon DEF find_path, search_start
<1>3. search_loop(dest, n, start, max_round, exclude_nodes) = CHOOSE f : f = B(f)
  <2> HIDE DEF B, left, out, next
  <2>1. (CHOOSE f : f = [s \in SearchState |-> IF left[s] = 0 THEN out[s] ELSE f[next[s]]])
          = CHOOSE f : f = B(f)
    BY <1>1, Zenon
  <2> QED
    BY <2>1, Zenon DEF search_loop, Loop, left, out, next
<1> QED
  BY <1>2, <1>3, Zenon

LEMMA SearchLoop ==
  ASSUME NEW dest, NEW n \in Nat, n > 1, n % 2 = 1, NEW start \in Nat,
         NEW max_round \in Nat, NEW exclude_nodes
  PROVE  /\ CountsDown(SearchState, search_left(dest, n, start, max_round),
                       search_next(n, exclude_nodes))
         /\ Loop(search_loop(dest, n, start, max_round, exclude_nodes), SearchState,
                 search_left(dest, n, start, max_round),
                 search_next(n, exclude_nodes), search_out(dest, n, start, max_round))
<1> DEFINE left == search_left(dest, n, start, max_round)
           out  == search_out(dest, n, start, max_round)
           next == search_next(n, exclude_nodes)
           stops(s) == s.time >= max_round \/ arriving(s, dest, n, start) # {}
<1>1. ASSUME NEW s \in SearchState
      PROVE  /\ left[s] = IF stops(s) THEN 0 ELSE max_round - s.time
             /\ left[s] \in Nat /\ next[s] \in SearchState /\ next[s].time = s.time + 1
             /\ s.time \in Nat
  <2>1. s.time \in Nat /\ s.infected \in SUBSET Path
    BY DEF SearchState
  <2>2. left[s] = IF stops(s) THEN 0 ELSE max_round - s.time
    BY DEF search_left
  <2>3. stops(s) \/ s.time < max_round
    BY <2>1
  <2>4. left[s] \in Nat
    <3> HIDE DEF left
    <3> QED
      BY <2>1, <2>2, <2>3
  <2>5. next[s] = [time |-> s.time + 1, infected |-> infect(s.infected, s.time, n, exclude_nodes)]
    BY DEF search_next
  <2>6. infect(s.infected, s.time, n, exclude_nodes) \in SUBSET Path
    BY <2>1, InfectPaths
  <2> HIDE DEF left, next, stops
  <2>7. next[s] \in SearchState
    BY <2>1, <2>5, <2>6 DEF SearchState
  <2> QED
    BY <2>1, <2>2, <2>4, <2>5, <2>7
<1>2. left \in [SearchState -> Nat]
  <2>1. left = [s \in SearchState |-> left[s]]
    BY DEF search_left
  <2> HIDE DEF left
  <2> QED
    BY <1>1, <2>1
<1>3. next \in [SearchState -> SearchState]
  <2>1. next = [s \in SearchState |-> next[s]]
    BY DEF search_next
  <2> HIDE DEF next
  <2> QED
    BY <1>1, <2>1
<1>4. \A s \in SearchState : left[s] # 0 => left[next[s]] < left[s]
  <2> SUFFICES ASSUME NEW s \in SearchState, left[s] # 0 PROVE left[next[s]] < left[s]
    OBVIOUS
  <2> DEFINE t == next[s]
  <2>1. t \in SearchState /\ t.time = s.time + 1 /\ s.time \in Nat
    BY <1>1
  <2>2. ~stops(s) /\ left[s] = max_round - s.time /\ s.time < max_round
    <3>1. ~stops(s)
      <4> HIDE DEF left, stops
      <4> QED
        BY <1>1
    <3>2. s.time < max_round
      BY <2>1, <3>1
    <3> HIDE DEF left, stops
    <3> QED
      BY <1>1, <3>1, <3>2
  <2>3. left[t] = IF stops(t) THEN 0 ELSE max_round - t.time
    <3> HIDE DEF left, stops, t
    <3> QED
      BY <1>1, <2>1
  <2> HIDE DEF left, stops, t
  <2>4. left[t] < left[s]
    BY <2>1, <2>2, <2>3
  <2> QED
    BY <2>4 DEF t
<1>5. CountsDown(SearchState, left, next)
  <2> HIDE DEF left, next
  <2> QED
    BY <1>2, <1>3, <1>4 DEF CountsDown
<1>6. \E f : Loop(f, SearchState, left, next, out)
  <2> HIDE DEF left, next, out
  <2> QED
    BY <1>5, LoopExists
<1> QED
  BY <1>5, <1>6, Zenon DEF search_loop

\* A path the gossip graph has from one round to another: each node on it sends
\* to the next one in a round after the one in which it was reached.
Travels(p, from, to, n) ==
  \E r \in [2 .. Len(p) -> from .. to - 1] :
    /\ \A k \in 2 .. Len(p) : gossip_target(p[k - 1], r[k], n) = p[k]
    /\ \A k \in 3 .. Len(p) : r[k - 1] < r[k]

\* A path to an infected node, and one to the target.
Infects(p, source, n, start, time, exclude_nodes) ==
  /\ p[1] = source
  /\ \A k \in 2 .. Len(p) : p[k] \in (0 .. n - 1) \ (exclude_nodes \cup {source})
  /\ Travels(p, start, time, n)

Reaches(p, source, dest, n, start, max_round, exclude_nodes) ==
  /\ Len(p) >= 2 /\ p[1] = source /\ p[Len(p)] = dest
  /\ \A k \in 2 .. Len(p) - 1 : p[k] \in (0 .. n - 1) \ (exclude_nodes \cup {source})
  /\ Travels(p, start, max_round, n)

LEMMA TravelsOn ==
  ASSUME NEW n, NEW p \in Path, NEW start \in Nat, NEW time \in Nat, time >= start,
         Travels(p, start, time, n), NEW to \in Nat, to > time
  PROVE  /\ Travels(p, start, to, n)
         /\ \A v \in Nat : hop(p, time, n) = v => Travels(Append(p, v), start, to, n)
<1>1. PICK r \in [2 .. Len(p) -> start .. time - 1] :
        /\ \A k \in 2 .. Len(p) : gossip_target(p[k - 1], r[k], n) = p[k]
        /\ \A k \in 3 .. Len(p) : r[k - 1] < r[k]
  BY DEF Travels
<1>2. Travels(p, start, to, n)
  <2>1. r \in [2 .. Len(p) -> start .. to - 1]
    <3>1. start .. time - 1 \subseteq start .. to - 1
      OBVIOUS
    <3> QED
      BY <3>1
  <2> QED
    BY <1>1, <2>1 DEF Travels
<1>3. ASSUME NEW v \in Nat, hop(p, time, n) = v PROVE Travels(Append(p, v), start, to, n)
  <2> DEFINE q == Append(p, v)
             m == Len(p)
             s == [k \in 2 .. m + 1 |-> IF k = m + 1 THEN time ELSE r[k]]
  <2>1. /\ Len(q) = m + 1 /\ q[m + 1] = v /\ m \in Nat \ {0}
        /\ \A k \in 1 .. m : q[k] = p[k]
    BY LongerPath
  <2> HIDE DEF q
  <2>2. gossip_target(p[m], time, n) = v
    BY <1>3 DEF hop, last
  <2> HIDE DEF m
  <2>3. r \in [2 .. m -> start .. time - 1]
        /\ (\A k \in 2 .. m : gossip_target(p[k - 1], r[k], n) = p[k])
        /\ (\A k \in 3 .. m : r[k - 1] < r[k])
    BY <1>1 DEF m
  <2>4. s \in [2 .. m + 1 -> start .. to - 1]
    <3> SUFFICES ASSUME NEW k \in 2 .. m + 1
                 PROVE  (IF k = m + 1 THEN time ELSE r[k]) \in start .. to - 1
      OBVIOUS
    <3>1. k # m + 1 => k \in 2 .. m
      BY <2>1
    <3>2. k # m + 1 => r[k] \in start .. time - 1
      BY <2>3, <3>1
    <3> QED
      BY <3>2
  <2>5. ASSUME NEW k \in 2 .. m + 1 PROVE gossip_target(q[k - 1], s[k], n) = q[k]
    <3>1. CASE k = m + 1
      <4>1. k - 1 = m /\ m \in 1 .. m /\ s[k] = time
        BY <2>1, <3>1
      <4> HIDE DEF s
      <4> QED
        BY <2>1, <2>2, <3>1, <4>1
    <3>2. CASE k # m + 1
      <4>1. k \in 2 .. m /\ k - 1 \in 1 .. m /\ k \in 1 .. m /\ s[k] = r[k]
        BY <2>1, <3>2
      <4> HIDE DEF s
      <4> QED
        BY <2>1, <2>3, <4>1
    <3> QED
      BY <3>1, <3>2
  <2>6. ASSUME NEW k \in 3 .. m + 1 PROVE s[k - 1] < s[k]
    <3>1. k - 1 \in 2 .. m /\ k - 1 # m + 1 /\ k - 1 \in 2 .. m + 1 /\ k \in 2 .. m + 1
      BY <2>1
    <3>2. s[k - 1] = r[k - 1]
      BY <3>1
    <3>3. r[k - 1] \in start .. time - 1
      BY <2>3, <3>1
    <3>4. CASE k = m + 1
      <4>1. s[k] = time
        BY <3>1, <3>4
      <4> HIDE DEF s
      <4> QED
        BY <3>2, <3>3, <4>1
    <3>5. CASE k # m + 1
      <4>1. k \in 3 .. m /\ s[k] = r[k]
        BY <2>1, <3>1, <3>5
      <4> HIDE DEF s
      <4> QED
        BY <2>3, <3>2, <4>1
    <3> QED
      BY <3>4, <3>5
  <2> HIDE DEF s
  <2>7. Travels(q, start, to, n)
    BY <2>1, <2>4, <2>5, <2>6 DEF Travels
  <2> QED
    BY <2>7 DEF q
<1> QED
  BY <1>2, <1>3

LEMMA InfectsOn ==
  ASSUME NEW n \in Nat, n > 1, n % 2 = 1, NEW start \in Nat,
         NEW time \in Nat, time >= start, NEW source \in 0 .. n - 1, NEW exclude_nodes,
         NEW p \in Path, Infects(p, source, n, start, time, exclude_nodes)
  PROVE  /\ Infects(p, source, n, start, time + 1, exclude_nodes)
         /\ \A v \in (0 .. n - 1) \ (exclude_nodes \cup {source}) :
              hop(p, time, n) = v =>
                Infects(Append(p, v), source, n, start, time + 1, exclude_nodes)
         /\ \A v, to \in Nat :
              hop(p, time, n) = v /\ to > time =>
                Reaches(Append(p, v), source, v, n, start, to, exclude_nodes)
<1>1. /\ p[1] = source /\ Travels(p, start, time, n)
      /\ \A k \in 2 .. Len(p) : p[k] \in (0 .. n - 1) \ (exclude_nodes \cup {source})
  BY DEF Infects
<1>2. \A to \in Nat : to > time =>
        /\ Travels(p, start, to, n)
        /\ \A v \in Nat : hop(p, time, n) = v => Travels(Append(p, v), start, to, n)
  BY <1>1, TravelsOn
<1>3. time + 1 \in Nat /\ time + 1 > time
  OBVIOUS
<1>4. \A v \in Nat : /\ Len(Append(p, v)) = Len(p) + 1 /\ Append(p, v)[Len(p) + 1] = v
                     /\ \A k \in 1 .. Len(p) : Append(p, v)[k] = p[k]
  BY LongerPath
<1>5. Len(p) \in Nat \ {0} /\ 1 \in 1 .. Len(p)
  BY DEF Path
<1>6. Infects(p, source, n, start, time + 1, exclude_nodes)
  BY <1>1, <1>2, <1>3 DEF Infects
<1>7. ASSUME NEW v \in (0 .. n - 1) \ (exclude_nodes \cup {source}), hop(p, time, n) = v
      PROVE  Infects(Append(p, v), source, n, start, time + 1, exclude_nodes)
  <2> DEFINE q == Append(p, v)
             m == Len(p)
  <2>1. v \in Nat
    OBVIOUS
  <2>2. Travels(q, start, time + 1, n)
    BY <1>2, <1>3, <1>7, <2>1
  <2>3. Len(q) = m + 1 /\ q[m + 1] = v /\ (\A k \in 1 .. m : q[k] = p[k]) /\ m \in Nat \ {0}
    BY <1>4, <1>5, <2>1
  <2>4. \A k \in 2 .. m : p[k] \in (0 .. n - 1) \ (exclude_nodes \cup {source})
    BY <1>1
  <2> HIDE DEF q, m
  <2>5. \A k \in 2 .. m + 1 : q[k] \in (0 .. n - 1) \ (exclude_nodes \cup {source})
    <3> SUFFICES ASSUME NEW k \in 2 .. m + 1
                 PROVE  q[k] \in (0 .. n - 1) \ (exclude_nodes \cup {source})
      OBVIOUS
    <3>1. k = m + 1 \/ (k \in 2 .. m /\ k \in 1 .. m)
      BY <2>3
    <3> QED
      BY <2>3, <2>4, <3>1
  <2>6. q[1] = source
    BY <1>1, <1>5, <2>3 DEF m
  <2>7. Infects(q, source, n, start, time + 1, exclude_nodes)
    BY <2>2, <2>3, <2>5, <2>6 DEF Infects
  <2> QED
    BY <2>7 DEF q
<1>8. ASSUME NEW v \in Nat, NEW to \in Nat, hop(p, time, n) = v, to > time
      PROVE  Reaches(Append(p, v), source, v, n, start, to, exclude_nodes)
  <2> DEFINE q == Append(p, v)
             m == Len(p)
  <2>1. Travels(q, start, to, n)
    BY <1>2, <1>8
  <2>2. Len(q) = m + 1 /\ q[m + 1] = v /\ (\A k \in 1 .. m : q[k] = p[k]) /\ m \in Nat \ {0}
    BY <1>4, <1>5
  <2>3. \A k \in 2 .. m : p[k] \in (0 .. n - 1) \ (exclude_nodes \cup {source})
    BY <1>1
  <2>4. q[1] = source
    BY <1>1, <1>5, <2>2
  <2> HIDE DEF q, m
  <2>5. ASSUME NEW k \in 2 .. Len(q) - 1
        PROVE  q[k] \in (0 .. n - 1) \ (exclude_nodes \cup {source})
    <3>1. k \in 2 .. m /\ k \in 1 .. m
      BY <2>2
    <3> QED
      BY <2>2, <2>3, <3>1
  <2>6. Len(q) >= 2 /\ q[Len(q)] = v
    BY <2>2
  <2>7. Reaches(q, source, v, n, start, to, exclude_nodes)
    BY <2>1, <2>4, <2>5, <2>6 DEF Reaches
  <2> QED
    BY <2>7 DEF q
<1> QED
  BY <1>6, <1>7, <1>8

\* A path that find_path returns leads from the source to the target before the
\* last round, over hops the gossip graph has in this order and over none of the
\* excluded nodes; `infected' holds such paths all along.
THEOREM SearchFindsPaths ==
  ASSUME NEW n \in Nat, n > 1, n % 2 = 1, NEW source \in 0 .. n - 1, NEW dest \in Nat,
         NEW start \in Nat, NEW max_round \in Nat, NEW exclude_nodes
  PROVE  LET path == find_path(source, dest, n, start, max_round, exclude_nodes)
         IN path = NoPath \/ /\ path \in Path
                             /\ Reaches(path, source, dest, n, start, max_round, exclude_nodes)
<1> DEFINE left == search_left(dest, n, start, max_round)
           out  == search_out(dest, n, start, max_round)
           next == search_next(n, exclude_nodes)
           f    == search_loop(dest, n, start, max_round, exclude_nodes)
           R    == {NoPath} \cup
                   {p \in Path : Reaches(p, source, dest, n, start, max_round, exclude_nodes)}
           I    == {s \in SearchState :
                      /\ s.time >= start /\ <<source>> \in s.infected
                      /\ \A p \in s.infected :
                           Infects(p, source, n, start, s.time, exclude_nodes)}
           s0   == search_start(source, start)
<1>1. find_path(source, dest, n, start, max_round, exclude_nodes) = f[s0]
  BY SearchIsLoop
<1>2. CountsDown(SearchState, left, next) /\ Loop(f, SearchState, left, next, out)
  BY SearchLoop
<1>3. s0 \in I
  <2> DEFINE p == <<source>>
  <2>1. p \in Path /\ Len(p) = 1 /\ p[1] = source
    BY DEF Path
  <2> HIDE DEF p
  <2>2. 2 .. Len(p) = {} /\ 3 .. Len(p) = {}
    BY <2>1
  <2>3. Travels(p, start, start, n)
    <3>1. [k \in {} |-> 0] \in [{} -> start .. start - 1]
      OBVIOUS
    <3> QED
      BY <2>2, <3>1 DEF Travels
  <2>4. Infects(p, source, n, start, start, exclude_nodes)
    BY <2>1, <2>2, <2>3 DEF Infects
  <2>5. s0 \in SearchState
    BY <2>1 DEF SearchState, search_start, p
  <2> QED
    BY <2>4, <2>5 DEF search_start, p
<1>4. ASSUME NEW s \in I PROVE IF left[s] = 0 THEN out[s] \in R ELSE next[s] \in I
  <2> DEFINE time == s.time
             infected == s.infected
             A == arriving(s, dest, n, start)
  <2>1. /\ time \in Nat /\ infected \in SUBSET Path /\ time >= start
        /\ <<source>> \in infected /\ s \in SearchState
        /\ \A p \in infected : p \in Path /\ Infects(p, source, n, start, time, exclude_nodes)
    BY DEF SearchState
  <2>2. left[s] = IF time >= max_round \/ A # {} THEN 0 ELSE max_round - time
    BY <2>1 DEF search_left
  <2>3. out[s] = IF time >= max_round THEN NoPath ELSE CHOOSE p \in A : TRUE
    BY <2>1 DEF search_out
  <2>4. next[s] = [time |-> time + 1, infected |-> infect(infected, time, n, exclude_nodes)]
    BY <2>1 DEF search_next
  <2>5. ASSUME NEW q \in A, time < max_round PROVE q \in R
    <3>1. q \in paths_to(dest, infected, time, n)
      BY DEF arriving
    <3>2. PICK p \in infected : hop(p, time, n) = dest /\ q = Append(p, dest)
      BY <3>1 DEF paths_to
    <3>3. p \in Path /\ Infects(p, source, n, start, time, exclude_nodes)
      BY <2>1
    <3> HIDE DEF time
    <3>4. Reaches(q, source, dest, n, start, max_round, exclude_nodes)
      BY <2>1, <2>5, <3>2, <3>3, InfectsOn
    <3>5. q \in Path
      BY <3>2, <3>3, LongerPath
    <3> QED
      BY <3>4, <3>5
  <2>6. ASSUME left[s] = 0 PROVE out[s] \in R
    <3>1. CASE time >= max_round
      BY <2>3, <3>1
    <3>2. CASE ~(time >= max_round)
      <4>1. time < max_round
        BY <2>1, <3>2
      <4>2. A # {}
        <5> HIDE DEF left, A, time
        <5> QED
          BY <2>1, <2>2, <2>6, <4>1
      <4>3. (CHOOSE p \in A : TRUE) \in A
        <5> HIDE DEF A
        <5> QED
          BY <4>2
      <4> HIDE DEF A, out, R, time
      <4> QED
        BY <2>3, <2>5, <3>2, <4>1, <4>3
    <3> QED
      BY <3>1, <3>2
  <2>7. next[s] \in I
    <3> DEFINE new == infect(infected, time, n, exclude_nodes)
               t   == next[s]
    <3>1. infected \subseteq new
      BY DEF infect
    <3>2. ASSUME NEW q \in new
          PROVE  q \in Path /\ Infects(q, source, n, start, time + 1, exclude_nodes)
      <4>1. CASE q \in infected
        <5> HIDE DEF time, infected
        <5> QED
          BY <2>1, <4>1, InfectsOn
      <4>2. CASE q \notin infected
        <5>1. PICK p \in infected : /\ q = Append(p, hop(p, time, n))
                                    /\ may_infect(hop(p, time, n), infected, exclude_nodes)
          BY <4>2 DEF infect
        <5> DEFINE v == hop(p, time, n)
        <5>2. p \in Path /\ Infects(p, source, n, start, time, exclude_nodes)
          BY <2>1
        <5>3. v \in 0 .. n - 1
          <6> HIDE DEF time
          <6> QED
            BY <2>1, <5>2, HopIsNode
        <5>4. v \notin exclude_nodes /\ v # source
          <6>1. last(<<source>>) = source
            BY DEF last
          <6> HIDE DEF v
          <6>2. v \notin exclude_nodes \cup {last(x) : x \in infected}
            BY <5>1 DEF may_infect, v
          <6> QED
            BY <2>1, <6>1, <6>2
        <5> HIDE DEF v, time, infected
        <5>5. Infects(Append(p, v), source, n, start, time + 1, exclude_nodes)
          <6>1. v \in (0 .. n - 1) \ (exclude_nodes \cup {source}) /\ hop(p, time, n) = v
            BY <5>3, <5>4 DEF v
          <6> QED
            BY <2>1, <5>2, <6>1, InfectsOn
        <5>6. Append(p, v) \in Path
          <6>1. v \in Nat
            BY <5>3
          <6> QED
            BY <5>2, <6>1, LongerPath
        <5> QED
          BY <5>1, <5>5, <5>6 DEF v
      <4> QED
        BY <4>1, <4>2
    <3>3. t.time = time + 1 /\ t.infected = new /\ t \in SearchState
      <4> HIDE DEF next, new, time, infected
      <4>1. new \in SUBSET Path
        BY <3>2
      <4> QED
        BY <2>1, <2>4, <4>1 DEF SearchState, new
    <3> HIDE DEF t, new, time, infected
    <3>4. t \in I
      BY <2>1, <3>1, <3>2, <3>3
    <3> QED
      BY <3>4 DEF t
  <2> HIDE DEF left, out, next, R, I
  <2> QED
    BY <2>6, <2>7
<1>5. f[s0] \in R
  <2>1. I \in SUBSET SearchState
    OBVIOUS
  <2> HIDE DEF left, out, next, f, R, I, s0
  <2>2. StaysIn(I, R, left, next, out)
    BY <1>4 DEF StaysIn
  <2>3. CountsDown(SearchState, left, next) /\ Loop(f, SearchState, left, next, out)
    BY <1>2
  <2>4. \A x \in I : f[x] \in R
    BY <2>1, <2>2, <2>3, LoopResult
  <2> QED
    BY <1>3, <2>4
<1> QED
  BY <1>1, <1>5

-----------------------------------------------------------------------------
(* The paths to several targets *)

\* The loop of find_paths: its states, when it ends, and its body.
FoundState == [paths : Seq(Seq(Nat)), used_nodes : SUBSET Nat]

found_max(target_ids, n, start) == start + rounds_limit(n, Len(target_ids))

found_path(s, source, target_ids, n, start) ==
  find_path(source, target_ids[Len(s.paths) + 1], n, start, found_max(target_ids, n, start),
            s.used_nodes)

found_left(target_ids) ==
  [s \in FoundState |-> IF Len(s.paths) >= Len(target_ids) THEN 0
                        ELSE Len(target_ids) - Len(s.paths)]

found_out == [s \in FoundState |-> s.paths]

found_next(source, target_ids, n, start) ==
  [s \in FoundState |->
     LET path == found_path(s, source, target_ids, n, start)
     IN IF Len(s.paths) >= Len(target_ids) THEN s
        ELSE [paths      |-> Append(s.paths, IF path = NoPath THEN NoPath ELSE Tail(path)),
              used_nodes |-> s.used_nodes \cup (hops(path) \ {source})]]

found_loop(source, target_ids, n, start) ==
  CHOOSE f : Loop(f, FoundState, found_left(target_ids),
                  found_next(source, target_ids, n, start), found_out)

\* ceil_log2 counts a finite set.
LEMMA LimitIsNat ==
  ASSUME NEW n, NEW num_targets \in Nat
  PROVE  rounds_limit(n, num_targets) \in Nat
<1> DEFINE S == 0 .. 30
           T == {k \in S : 2^k < n}
<1>1. IsFiniteSet(S)
  <2>1. 0 \in Int /\ 30 \in Int
    OBVIOUS
  <2> QED
    BY <2>1, FS_Interval
<1>2. T \in SUBSET S
  OBVIOUS
<1> HIDE DEF S, T
<1>3. IsFiniteSet(T)
  BY <1>1, <1>2, FS_Subset
<1>4. Cardinality(T) \in Nat
  BY <1>3, FS_CardinalityType
<1>5. ceil_log2(n) = Cardinality(T)
  BY DEF ceil_log2, S, T
<1> QED
  BY <1>4, <1>5 DEF rounds_limit, MIN_PATH_LENGTH

LEMMA TailOfPath ==
  ASSUME NEW p \in Path, Len(p) >= 2
  PROVE  /\ Tail(p) \in Seq(Nat) /\ Tail(p) # <<>> /\ Len(p) \in Nat
         /\ hops(Tail(p)) = {p[k] : k \in 2 .. Len(p)}
<1>1. p \in Seq(Nat) /\ Len(p) \in Nat
  BY DEF Path
<1>2. Tail(p) \in Seq(Nat) /\ Len(Tail(p)) = Len(p) - 1
      /\ \A k \in 1 .. Len(p) - 1 : Tail(p)[k] = p[k + 1]
  BY <1>1
<1>3. DOMAIN Tail(p) = 1 .. Len(p) - 1
  BY <1>2
<1> DEFINE t == Tail(p)
           m == Len(p)
<1> HIDE DEF t, m
<1>4. hops(t) = {p[k] : k \in 2 .. m}
  <2>1. hops(t) = {t[k] : k \in 1 .. m - 1}
    BY <1>3 DEF hops, t, m
  <2>2. \A k \in 1 .. m - 1 : k + 1 \in 2 .. m /\ t[k] = p[k + 1]
    BY <1>1, <1>2 DEF t, m
  <2>3. \A k \in 2 .. m : k - 1 \in 1 .. m - 1 /\ t[k - 1] = p[k]
    <3> SUFFICES ASSUME NEW k \in 2 .. m PROVE k - 1 \in 1 .. m - 1 /\ t[k - 1] = p[k]
      OBVIOUS
    <3>1. k - 1 \in 1 .. m - 1 /\ (k - 1) + 1 = k
      BY <1>1 DEF m
    <3> QED
      BY <2>2, <3>1
  <2> QED
    BY <2>1, <2>2, <2>3
<1>5. t # <<>>
  <2>1. Len(t) = m - 1 /\ m >= 2 /\ m \in Nat
    BY <1>1, <1>2 DEF t, m
  <2> QED
    BY <2>1
<1> QED
  BY <1>1, <1>2, <1>4, <1>5 DEF t, m

LEMMA FoundIsLoop ==
  ASSUME NEW source, NEW target_ids \in Seq(Nat), NEW n, NEW start
  PROVE  find_paths(source, target_ids, n, start)
           = found_loop(source, target_ids, n, start)
               [[paths |-> <<>>, used_nodes |-> hops(target_ids)]]
<1> DEFINE left == found_left(target_ids)
           next == found_next(source, target_ids, n, start)
           s0   == [paths |-> <<>>, used_nodes |-> hops(target_ids)]
           p(s) == find_path(source, target_ids[Len(s.paths) + 1], n, start,
                             start + rounds_limit(n, Len(target_ids)), s.used_nodes)
           after(s, f) == f[[paths      |-> Append(s.paths, IF p(s) = NoPath THEN NoPath
                                                                           ELSE Tail(p(s))),
                             used_nodes |-> s.used_nodes \cup (hops(p(s)) \ {source})]]
           B(f) == [s \in [paths : Seq(Seq(Nat)), used_nodes : SUBSET Nat] |->
                      IF Len(s.paths) >= Len(target_ids) THEN s.paths ELSE after(s, f)]
<1>1. ASSUME NEW f
      PROVE  [s \in FoundState |-> IF left[s] = 0 THEN found_out[s] ELSE f[next[s]]] = B(f)
  <2>1. ASSUME NEW s \in FoundState
        PROVE  (IF left[s] = 0 THEN found_out[s] ELSE f[next[s]])
                 = IF Len(s.paths) >= Len(target_ids) THEN s.paths ELSE after(s, f)
    <3>1. Len(s.paths) \in Nat /\ Len(target_ids) \in Nat
      BY DEF FoundState
    <3>2. left[s] = IF Len(s.paths) >= Len(target_ids) THEN 0
                    ELSE Len(target_ids) - Len(s.paths)
      BY DEF found_left
    <3>3. found_out[s] = s.paths
      BY DEF found_out
    <3>4. ~(Len(s.paths) >= Len(target_ids)) => f[next[s]] = after(s, f)
      BY DEF found_next, found_path, found_max
    <3> HIDE DEF left, next, after
    <3> QED
      BY <3>1, <3>2, <3>3, <3>4
  <2> HIDE DEF left, next, after
  <2> QED
    BY <2>1 DEF FoundState
<1>2. find_paths(source, target_ids, n, start) = (CHOOSE f : f = B(f))[s0]
  BY Zenon DEF find_paths
<1>3. found_loop(source, target_ids, n, start) = CHOOSE f : f = B(f)
  <2> HIDE DEF B, left, next
  <2>1. (CHOOSE f : f = [s \in FoundState |-> IF left[s] = 0 THEN found_out[s] ELSE f[next[s]]])
          = CHOOSE f : f = B(f)
    BY <1>1, Zenon
  <2> QED
    BY <2>1, Zenon DEF found_loop, Loop, left, next
<1> QED
  BY <1>2, <1>3, Zenon

\* One iteration, with what find_path returned.
LEMMA FoundStep ==
  ASSUME NEW n \in Nat, n > 1, n % 2 = 1, NEW source \in 0 .. n - 1,
         NEW target_ids \in Seq(Nat), NEW start \in Nat, NEW s \in FoundState
  PROVE  LET path == found_path(s, source, target_ids, n, start)
         IN /\ Len(s.paths) < Len(target_ids) =>
                 path = NoPath
                   \/ /\ path \in Path
                      /\ Reaches(path, source, target_ids[Len(s.paths) + 1], n, start,
                                 found_max(target_ids, n, start), s.used_nodes)
            /\ found_next(source, target_ids, n, start)[s] =
                 IF Len(s.paths) >= Len(target_ids) THEN s
                 ELSE [paths      |-> Append(s.paths, IF path = NoPath THEN NoPath
                                                                       ELSE Tail(path)),
                       used_nodes |-> s.used_nodes \cup (hops(path) \ {source})]
            /\ Len(s.paths) \in Nat /\ Len(target_ids) \in Nat
<1>1. Len(s.paths) \in Nat /\ Len(target_ids) \in Nat
  BY DEF FoundState
<1>2. found_max(target_ids, n, start) \in Nat
  BY <1>1, LimitIsNat DEF found_max
<1> DEFINE path == found_path(s, source, target_ids, n, start)
<1>3. ASSUME Len(s.paths) < Len(target_ids)
      PROVE  path = NoPath
               \/ /\ path \in Path
                  /\ Reaches(path, source, target_ids[Len(s.paths) + 1], n, start,
                             found_max(target_ids, n, start), s.used_nodes)
  <2>1. target_ids[Len(s.paths) + 1] \in Nat
    BY <1>1, <1>3
  <2> QED
    BY <1>2, <2>1, SearchFindsPaths DEF found_path
<1>4. found_next(source, target_ids, n, start)[s] =
        IF Len(s.paths) >= Len(target_ids) THEN s
        ELSE [paths      |-> Append(s.paths, IF path = NoPath THEN NoPath ELSE Tail(path)),
              used_nodes |-> s.used_nodes \cup (hops(path) \ {source})]
  BY DEF found_next
<1> HIDE DEF path
<1> QED
  BY <1>1, <1>3, <1>4 DEF path

LEMMA FoundLoop ==
  ASSUME NEW n \in Nat, n > 1, n % 2 = 1, NEW source \in 0 .. n - 1,
         NEW target_ids \in Seq(Nat), NEW start \in Nat
  PROVE  /\ CountsDown(FoundState, found_left(target_ids),
                       found_next(source, target_ids, n, start))
         /\ Loop(found_loop(source, target_ids, n, start), FoundState,
                 found_left(target_ids), found_next(source, target_ids, n, start), found_out)
<1> DEFINE left == found_left(target_ids)
           next == found_next(source, target_ids, n, start)
           max  == Len(target_ids)
<1>1. ASSUME NEW s \in FoundState
      PROVE  /\ left[s] = IF Len(s.paths) >= max THEN 0 ELSE max - Len(s.paths)
             /\ left[s] \in Nat /\ next[s] \in FoundState
             /\ Len(s.paths) \in Nat /\ max \in Nat
             /\ Len(s.paths) < max => Len(next[s].paths) = Len(s.paths) + 1
  <2> DEFINE path == found_path(s, source, target_ids, n, start)
             t    == IF path = NoPath THEN NoPath ELSE Tail(path)
  <2>1. Len(s.paths) \in Nat /\ max \in Nat /\ s.paths \in Seq(Seq(Nat))
        /\ s.used_nodes \in SUBSET Nat
    BY DEF FoundState
  <2>2. left[s] = IF Len(s.paths) >= max THEN 0 ELSE max - Len(s.paths)
    BY DEF found_left
  <2>3. left[s] \in Nat
    <3> HIDE DEF left, max
    <3> QED
      BY <2>1, <2>2
  <2>4. next[s] = IF Len(s.paths) >= max THEN s
                  ELSE [paths |-> Append(s.paths, t),
                        used_nodes |-> s.used_nodes \cup (hops(path) \ {source})]
    <3> HIDE DEF path
    <3> QED
      BY DEF found_next, path
  <2>5. ASSUME Len(s.paths) < max
        PROVE  t \in Seq(Nat) /\ hops(path) \in SUBSET Nat
    <3>1. path = NoPath \/ (path \in Path /\ Len(path) >= 2)
      BY <2>5, FoundStep DEF Reaches
    <3> HIDE DEF path
    <3>2. CASE path = NoPath
      <4>1. hops(<<>>) = {}
        BY DEF hops
      <4> QED
        BY <3>2, <4>1 DEF NoPath
    <3>3. CASE path # NoPath
      <4>1. path \in Seq(Nat) /\ Tail(path) \in Seq(Nat)
        BY <3>1, <3>3, TailOfPath DEF Path
      <4> QED
        BY <3>3, <4>1 DEF hops
    <3> QED
      BY <3>2, <3>3
  <2> HIDE DEF left, next, max, t, path
  <2>6. next[s] \in FoundState
    <3>1. CASE Len(s.paths) >= max
      BY <2>4, <3>1
    <3>2. CASE ~(Len(s.paths) >= max)
      <4>1. t \in Seq(Nat) /\ hops(path) \in SUBSET Nat
        BY <2>1, <2>5, <3>2
      <4>2. Append(s.paths, t) \in Seq(Seq(Nat))
        <5> DEFINE V == Seq(Nat)
        <5> HIDE DEF V
        <5>1. s.paths \in Seq(V) /\ t \in V
          BY <2>1, <4>1 DEF V
        <5>2. Append(s.paths, t) \in Seq(V)
          BY <5>1
        <5> QED
          BY <5>2 DEF V
      <4> QED
        BY <2>1, <2>4, <3>2, <4>1, <4>2 DEF FoundState
    <3> QED
      BY <3>1, <3>2
  <2>7. Len(s.paths) < max => Len(next[s].paths) = Len(s.paths) + 1
    <3> SUFFICES ASSUME Len(s.paths) < max PROVE Len(next[s].paths) = Len(s.paths) + 1
      OBVIOUS
    <3>1. next[s].paths = Append(s.paths, t)
      BY <2>1, <2>4
    <3> DEFINE ps == s.paths
    <3>2. ps \in Seq(Seq(Nat))
      BY <2>1
    <3> HIDE DEF ps
    <3>3. Len(Append(ps, t)) = Len(ps) + 1
      BY <3>2
    <3> QED
      BY <3>1, <3>3 DEF ps
  <2> QED
    BY <2>1, <2>2, <2>3, <2>6, <2>7
<1>2. left \in [FoundState -> Nat]
  <2>1. left = [s \in FoundState |-> left[s]]
    BY DEF found_left
  <2> HIDE DEF left
  <2> QED
    BY <1>1, <2>1
<1>3. next \in [FoundState -> FoundState]
  <2>1. next = [s \in FoundState |-> next[s]]
    BY DEF found_next
  <2> HIDE DEF next
  <2> QED
    BY <1>1, <2>1
<1>4. \A s \in FoundState : left[s] # 0 => left[next[s]] < left[s]
  <2> SUFFICES ASSUME NEW s \in FoundState, left[s] # 0 PROVE left[next[s]] < left[s]
    OBVIOUS
  <2> DEFINE t == next[s]
             a == Len(s.paths)
             b == Len(t.paths)
  <2>1. t \in FoundState /\ a \in Nat /\ max \in Nat /\ left[s] = IF a >= max THEN 0 ELSE max - a
    BY <1>1
  <2>2. a < max /\ b = a + 1
    <3>1. a < max
      <4> HIDE DEF left, max, a
      <4> QED
        BY <2>1
    <3> QED
      BY <1>1, <3>1
  <2>3. left[t] = IF b >= max THEN 0 ELSE max - b
    <3> HIDE DEF left, max, t
    <3> QED
      BY <1>1, <2>1
  <2> HIDE DEF left, max, t, a, b
  <2>4. left[t] < left[s]
    BY <2>1, <2>2, <2>3
  <2> QED
    BY <2>4 DEF t
<1>5. CountsDown(FoundState, left, next)
  <2> HIDE DEF left, next
  <2> QED
    BY <1>2, <1>3, <1>4 DEF CountsDown
<1>6. \E f : Loop(f, FoundState, left, next, found_out)
  <2> HIDE DEF left, next
  <2> QED
    BY <1>5, LoopExists
<1> QED
  BY <1>5, <1>6, Zenon DEF found_loop

\* The targets are different, and the source is none of them.
AreTargets(target_ids, source) ==
  /\ target_ids \in Seq(Nat) /\ source \notin hops(target_ids)
  /\ \A j, k \in DOMAIN target_ids : j # k => target_ids[j] # target_ids[k]

\* What is true of the paths found so far.
Leads(t, source, dest, targets, n, start, max_round) ==
  t = NoPath \/ \E p \in Path :
                  t = Tail(p) /\ Reaches(p, source, dest, n, start, max_round, targets)

FoundSoFar(s, source, target_ids, n, start) ==
  /\ Len(s.paths) <= Len(target_ids) /\ hops(target_ids) \subseteq s.used_nodes
  /\ \A k \in 1 .. Len(s.paths) :
       /\ Leads(s.paths[k], source, target_ids[k], hops(target_ids), n, start,
                found_max(target_ids, n, start))
       /\ hops(s.paths[k]) \subseteq s.used_nodes
       /\ hops(s.paths[k]) \cap hops(target_ids) \subseteq {target_ids[k]}
  /\ \A j, k \in 1 .. Len(s.paths) : j # k => hops(s.paths[j]) \cap hops(s.paths[k]) = {}

\* A new path meets no earlier one: only its last node was in use, and that is a
\* target of its own.
LEMMA NewPath ==
  ASSUME NEW n \in Nat, n > 1, n % 2 = 1, NEW source \in 0 .. n - 1,
         NEW target_ids, AreTargets(target_ids, source), NEW start \in Nat,
         NEW s \in FoundState, FoundSoFar(s, source, target_ids, n, start),
         Len(s.paths) < Len(target_ids)
  PROVE  LET path == found_path(s, source, target_ids, n, start)
             t    == IF path = NoPath THEN NoPath ELSE Tail(path)
             m    == Len(s.paths) + 1
         IN /\ t \in Seq(Nat)
            /\ Leads(t, source, target_ids[m], hops(target_ids), n, start,
                     found_max(target_ids, n, start))
            /\ hops(t) \subseteq s.used_nodes \cup (hops(path) \ {source})
            /\ hops(t) \cap hops(target_ids) \subseteq {target_ids[m]}
            /\ \A k \in 1 .. Len(s.paths) : hops(s.paths[k]) \cap hops(t) = {}
<1> DEFINE path    == found_path(s, source, target_ids, n, start)
           t       == IF path = NoPath THEN NoPath ELSE Tail(path)
           m       == Len(s.paths) + 1
           max     == found_max(target_ids, n, start)
           targets == hops(target_ids)
           used    == s.used_nodes
           dest  == target_ids[m]
<1>1. path = NoPath \/ /\ path \in Path
                       /\ Reaches(path, source, dest, n, start, max, used)
  BY FoundStep DEF AreTargets
<1>0. t = IF path = NoPath THEN NoPath ELSE Tail(path)
  OBVIOUS
<1>2. /\ Len(s.paths) \in Nat /\ Len(target_ids) \in Nat /\ m \in DOMAIN target_ids
      /\ targets \subseteq used /\ dest \in targets /\ dest # source
  <2>1. Len(s.paths) \in Nat /\ Len(target_ids) \in Nat
    BY FoundStep DEF AreTargets
  <2>2. m \in DOMAIN target_ids
    BY <2>1 DEF AreTargets
  <2>3. target_ids[m] \in hops(target_ids)
    BY <2>2 DEF hops
  <2> QED
    BY <2>1, <2>2, <2>3 DEF FoundSoFar, AreTargets
<1>3. \A k \in 1 .. Len(s.paths) :
        hops(s.paths[k]) \subseteq used /\ dest \notin hops(s.paths[k])
  <2> SUFFICES ASSUME NEW k \in 1 .. Len(s.paths)
               PROVE  hops(s.paths[k]) \subseteq used /\ dest \notin hops(s.paths[k])
    OBVIOUS
  <2>1. k \in DOMAIN target_ids /\ k # m
    BY <1>2 DEF AreTargets
  <2>2. dest # target_ids[k]
    BY <1>2, <2>1 DEF AreTargets
  <2>3. hops(s.paths[k]) \cap targets \subseteq {target_ids[k]} /\ hops(s.paths[k]) \subseteq used
    BY DEF FoundSoFar
  <2> HIDE DEF targets, dest
  <2> QED
    BY <1>2, <2>2, <2>3
<1>6. m = Len(s.paths) + 1
  OBVIOUS
<1> SUFFICES /\ t \in Seq(Nat)
             /\ Leads(t, source, dest, targets, n, start, max)
             /\ hops(t) \subseteq used \cup (hops(path) \ {source})
             /\ hops(t) \cap targets \subseteq {dest}
             /\ \A k \in 1 .. Len(s.paths) : hops(s.paths[k]) \cap hops(t) = {}
  OBVIOUS
<1> HIDE DEF path, t, m
<1>4. CASE path = NoPath
  <2>1. t = <<>> /\ hops(t) = {}
    BY <1>0, <1>4 DEF NoPath, hops
  <2>2. t \in Seq(Nat)
    BY <2>1
  <2> QED
    BY <1>0, <1>4, <2>1, <2>2 DEF Leads
<1>5. CASE path # NoPath
  <2>1. path \in Path /\ Reaches(path, source, dest, n, start, max, used) /\ t = Tail(path)
    BY <1>0, <1>1, <1>5
  <2>2. /\ Len(path) >= 2 /\ path[Len(path)] = dest
        /\ \A k \in 2 .. Len(path) - 1 : path[k] \in (0 .. n - 1) \ (used \cup {source})
    BY <2>1 DEF Reaches
  <2>3. t \in Seq(Nat) /\ hops(t) = {path[k] : k \in 2 .. Len(path)} /\ Len(path) \in Nat
    BY <2>1, <2>2, TailOfPath
  <2>4. \A x \in hops(t) : x # source /\ x \in hops(path) /\ (x \notin used \/ x = dest)
    <3> SUFFICES ASSUME NEW x \in hops(t)
                 PROVE  x # source /\ x \in hops(path) /\ (x \notin used \/ x = dest)
      OBVIOUS
    <3>1. PICK k \in 2 .. Len(path) : x = path[k]
      BY <2>3
    <3>2. k = Len(path) \/ k \in 2 .. Len(path) - 1
      BY <2>3
    <3>3. x \in hops(path)
      <4>1. k \in DOMAIN path
        BY <2>1, <2>3 DEF Path
      <4> QED
        BY <3>1, <4>1 DEF hops
    <3> HIDE DEF dest, used
    <3> QED
      BY <1>2, <2>2, <3>1, <3>2, <3>3
  <2>5. Leads(t, source, dest, targets, n, start, max)
    <3>1. \A k \in 2 .. Len(path) - 1 : path[k] \in (0 .. n - 1) \ (targets \cup {source})
      BY <1>2, <2>2
    <3>2. Reaches(path, source, dest, n, start, max, targets)
      BY <2>1, <3>1 DEF Reaches
    <3> QED
      BY <2>1, <3>2 DEF Leads
  <2> HIDE DEF dest, targets, used, max
  <2>6. hops(t) \subseteq used \cup (hops(path) \ {source})
    BY <2>4
  <2>7. hops(t) \cap targets \subseteq {dest}
    BY <1>2, <2>4
  <2>8. \A k \in 1 .. Len(s.paths) : hops(s.paths[k]) \cap hops(t) = {}
    BY <1>3, <2>4
  <2> QED
    BY <2>3, <2>5, <2>6, <2>7, <2>8 DEF dest, targets, used, max
<1> QED
  BY <1>4, <1>5

LEMMA FoundSoFarIsKept ==
  ASSUME NEW n \in Nat, n > 1, n % 2 = 1, NEW source \in 0 .. n - 1,
         NEW target_ids, AreTargets(target_ids, source), NEW start \in Nat,
         NEW s \in FoundState, FoundSoFar(s, source, target_ids, n, start),
         Len(s.paths) < Len(target_ids)
  PROVE  FoundSoFar(found_next(source, target_ids, n, start)[s], source, target_ids, n, start)
<1> DEFINE path    == found_path(s, source, target_ids, n, start)
           t       == IF path = NoPath THEN NoPath ELSE Tail(path)
           next    == found_next(source, target_ids, n, start)[s]
           old     == s.paths
           new     == Append(s.paths, t)
           m       == Len(s.paths) + 1
           used    == s.used_nodes \cup (hops(path) \ {source})
           targets == hops(target_ids)
           max     == found_max(target_ids, n, start)
<1>1. /\ t \in Seq(Nat)
      /\ Leads(t, source, target_ids[m], targets, n, start, max)
      /\ hops(t) \subseteq used
      /\ hops(t) \cap targets \subseteq {target_ids[m]}
      /\ \A k \in 1 .. Len(old) : hops(old[k]) \cap hops(t) = {}
  BY NewPath
<1>2. Len(old) \in Nat /\ Len(target_ids) \in Nat /\ old \in Seq(Seq(Nat))
  BY FoundStep DEF FoundState, AreTargets
<1>3. next.paths = new /\ next.used_nodes = used
  <2>1. next = [paths |-> new, used_nodes |-> used]
    <3> HIDE DEF path
    <3> QED
      BY <1>2 DEF found_next, path
  <2> HIDE DEF next, new, used
  <2> QED
    BY <2>1
<1>4. Len(new) = m /\ new[m] = t /\ m \in Nat /\ \A k \in 1 .. Len(old) : new[k] = old[k]
  <2> DEFINE V == Seq(Nat)
  <2> HIDE DEF V, t, old
  <2>1. old \in Seq(V) /\ t \in V
    BY <1>1, <1>2 DEF V
  <2>2. Len(Append(old, t)) = Len(old) + 1 /\ Append(old, t)[Len(old) + 1] = t
        /\ \A k \in 1 .. Len(old) : Append(old, t)[k] = old[k]
    BY <2>1
  <2> QED
    BY <1>2, <2>2 DEF old
<1>5. /\ Len(old) <= Len(target_ids) /\ targets \subseteq s.used_nodes
      /\ \A k \in 1 .. Len(old) :
           /\ Leads(old[k], source, target_ids[k], targets, n, start, max)
           /\ hops(old[k]) \subseteq s.used_nodes
           /\ hops(old[k]) \cap targets \subseteq {target_ids[k]}
      /\ \A j, k \in 1 .. Len(old) : j # k => hops(old[j]) \cap hops(old[k]) = {}
  BY DEF FoundSoFar
<1>6. m <= Len(target_ids) /\ targets \subseteq used /\ s.used_nodes \subseteq used
      /\ m = Len(old) + 1
  BY <1>2, <1>5
<1> HIDE DEF path, t, next, old, new, m, used, targets, max
<1>7. \A k \in 1 .. m : (k = m /\ new[k] = t) \/ (k \in 1 .. Len(old) /\ new[k] = old[k])
  <2> SUFFICES ASSUME NEW k \in 1 .. m
               PROVE  (k = m /\ new[k] = t) \/ (k \in 1 .. Len(old) /\ new[k] = old[k])
    OBVIOUS
  <2>1. k = m \/ k \in 1 .. Len(old)
    BY <1>2, <1>6
  <2> QED
    BY <1>4, <2>1
<1>8. \A k \in 1 .. m :
        /\ Leads(new[k], source, target_ids[k], targets, n, start, max)
        /\ hops(new[k]) \subseteq used
        /\ hops(new[k]) \cap targets \subseteq {target_ids[k]}
  <2> SUFFICES ASSUME NEW k \in 1 .. m
               PROVE  /\ Leads(new[k], source, target_ids[k], targets, n, start, max)
                      /\ hops(new[k]) \subseteq used
                      /\ hops(new[k]) \cap targets \subseteq {target_ids[k]}
    OBVIOUS
  <2>1. CASE k = m /\ new[k] = t
    BY <1>1, <2>1
  <2>2. CASE k \in 1 .. Len(old) /\ new[k] = old[k]
    BY <1>5, <1>6, <2>2
  <2> QED
    BY <1>7, <2>1, <2>2
<1>9. \A j, k \in 1 .. m : j # k => hops(new[j]) \cap hops(new[k]) = {}
  <2> SUFFICES ASSUME NEW j \in 1 .. m, NEW k \in 1 .. m, j # k
               PROVE  hops(new[j]) \cap hops(new[k]) = {}
    OBVIOUS
  <2>1. CASE j \in 1 .. Len(old) /\ k \in 1 .. Len(old)
    BY <1>4, <1>5, <2>1
  <2>2. CASE j = m /\ k \in 1 .. Len(old)
    BY <1>1, <1>4, <2>2
  <2>3. CASE k = m /\ j \in 1 .. Len(old)
    BY <1>1, <1>4, <2>3
  <2> QED
    BY <1>7, <2>1, <2>2, <2>3
<1> QED
  BY <1>3, <1>4, <1>6, <1>8, <1>9 DEF FoundSoFar, next, targets, max

\* find_paths returns, for each of several targets, the rest of a path that
\* find_path finds, and no two of its paths have a node in common.
THEOREM FoundPathsAreDisjoint ==
  ASSUME NEW n \in Nat, n > 1, n % 2 = 1, NEW source \in 0 .. n - 1,
         NEW target_ids, AreTargets(target_ids, source), NEW start \in Nat
  PROVE  LET paths_found == find_paths(source, target_ids, n, start)
         IN /\ DOMAIN paths_found = DOMAIN target_ids
            /\ \A k \in DOMAIN target_ids :
                 Leads(paths_found[k], source, target_ids[k], hops(target_ids), n, start,
                       found_max(target_ids, n, start))
            /\ \A j, k \in DOMAIN target_ids :
                 j # k => hops(paths_found[j]) \cap hops(paths_found[k]) = {}
<1> DEFINE left == found_left(target_ids)
           next == found_next(source, target_ids, n, start)
           f    == found_loop(source, target_ids, n, start)
           R    == {ps \in Seq(Seq(Nat)) :
                      /\ DOMAIN ps = DOMAIN target_ids
                      /\ \A k \in DOMAIN target_ids :
                           Leads(ps[k], source, target_ids[k], hops(target_ids), n, start,
                                 found_max(target_ids, n, start))
                      /\ \A j, k \in DOMAIN target_ids :
                           j # k => hops(ps[j]) \cap hops(ps[k]) = {}}
           I    == {s \in FoundState : FoundSoFar(s, source, target_ids, n, start)}
           s0   == [paths |-> <<>>, used_nodes |-> hops(target_ids)]
<1>1. find_paths(source, target_ids, n, start) = f[s0]
  BY FoundIsLoop DEF AreTargets
<1>2. CountsDown(FoundState, left, next) /\ Loop(f, FoundState, left, next, found_out)
  BY FoundLoop DEF AreTargets
<1>3. s0 \in I
  <2>1. hops(target_ids) \in SUBSET Nat /\ Len(target_ids) \in Nat
    BY DEF hops, AreTargets
  <2>2. s0 \in FoundState
    <3> DEFINE V == Seq(Nat)
    <3> HIDE DEF V
    <3>1. <<>> \in Seq(V)
      OBVIOUS
    <3> QED
      BY <2>1, <3>1 DEF FoundState, V
  <2>3. s0.paths = <<>> /\ s0.used_nodes = hops(target_ids) /\ Len(<<>>) = 0 /\ 1 .. 0 = {}
    OBVIOUS
  <2> HIDE DEF s0
  <2> QED
    BY <2>1, <2>2, <2>3 DEF FoundSoFar
<1>4. ASSUME NEW s \in I PROVE IF left[s] = 0 THEN found_out[s] \in R ELSE next[s] \in I
  <2>1. /\ s \in FoundState /\ FoundSoFar(s, source, target_ids, n, start)
        /\ Len(s.paths) \in Nat /\ Len(target_ids) \in Nat
    <3>1. s \in FoundState
      OBVIOUS
    <3> QED
      BY <3>1, FoundStep DEF AreTargets
  <2>2. left[s] = IF Len(s.paths) >= Len(target_ids) THEN 0 ELSE Len(target_ids) - Len(s.paths)
    BY <2>1 DEF found_left
  <2>3. found_out[s] = s.paths
    BY <2>1 DEF found_out
  <2>4. ASSUME left[s] = 0 PROVE s.paths \in R
    <3>1. Len(s.paths) = Len(target_ids)
      <4>1. Len(s.paths) >= Len(target_ids)
        <5> HIDE DEF left
        <5> QED
          BY <2>1, <2>2, <2>4
      <4> QED
        BY <2>1, <4>1 DEF FoundSoFar
    <3> DEFINE ps == s.paths
    <3>2. ps \in Seq(Seq(Nat))
      BY <2>1 DEF FoundState
    <3> HIDE DEF ps
    <3>3. DOMAIN ps = 1 .. Len(ps)
      BY <3>2
    <3>4. DOMAIN target_ids = 1 .. Len(target_ids)
      BY DEF AreTargets
    <3> QED
      BY <2>1, <3>1, <3>2, <3>3, <3>4 DEF FoundSoFar, ps
  <2>5. ASSUME left[s] # 0 PROVE next[s] \in I
    <3>1. Len(s.paths) < Len(target_ids)
      <4> HIDE DEF left
      <4> QED
        BY <2>1, <2>2, <2>5
    <3>2. FoundSoFar(next[s], source, target_ids, n, start)
      BY <2>1, <3>1, FoundSoFarIsKept
    <3>3. next[s] \in FoundState
      <4> HIDE DEF next, left, f
      <4> QED
        BY <1>2, <2>1 DEF CountsDown
    <3> HIDE DEF next
    <3> QED
      BY <3>2, <3>3
  <2> HIDE DEF left, next, R, I
  <2> QED
    BY <2>3, <2>4, <2>5
<1>5. f[s0] \in R
  <2>1. I \in SUBSET FoundState
    OBVIOUS
  <2> DEFINE out == found_out
  <2> HIDE DEF left, next, f, R, I, s0
  <2>2. StaysIn(I, R, left, next, out)
    BY <1>4 DEF StaysIn
  <2>3. CountsDown(FoundState, left, next) /\ Loop(f, FoundState, left, next, out)
    BY <1>2
  <2> HIDE DEF out
  <2>4. \A x \in I : f[x] \in R
    BY <2>1, <2>2, <2>3, LoopResult
  <2> QED
    BY <1>3, <2>4
<1> HIDE DEF f
<1> QED
  BY <1>1, <1>5

-----------------------------------------------------------------------------
(* The paths to the proxies *)

\* The first and the last number of a range without one of its numbers.
LEMMA Ends ==
  ASSUME NEW a \in Int, NEW b \in Int, a < b, NEW i \in Int,
         NEW S, S = (a .. b) \ {i}
  PROVE  smallest(S) \in S /\ largest(S) \in S
<1>1. \E x \in S : \A y \in S : x <= y
  <2> DEFINE x == IF i = a THEN a + 1 ELSE a
  <2>1. x \in S /\ \A y \in S : x <= y
    OBVIOUS
  <2> QED
    BY <2>1
<1>2. \E x \in S : \A y \in S : x >= y
  <2> DEFINE x == IF i = b THEN b - 1 ELSE b
  <2>1. x \in S /\ \A y \in S : x >= y
    OBVIOUS
  <2> QED
    BY <2>1
<1>3. smallest(S) \in S
  BY <1>1 DEF smallest
<1>4. largest(S) \in S
  BY <1>2 DEF largest
<1> QED
  BY <1>3, <1>4

\* The proxies are other nodes, each of its own group.
LEMMA ProxiesDiffer ==
  ASSUME SystemOK, GroupsAgree, ProxyIsSomeoneElse, NEW source \in Node, NEW selection,
         NEW ps, ps = proxies(source, selection)
  PROVE  DOMAIN ps = 1 .. num_groups /\ AreTargets(ps, source)
<1>1. num_meters \in Nat \ {0} /\ num_groups \in Nat \ {0} /\ source \in Int
  BY DEF SystemOK, Node
<1>2. ASSUME NEW g \in 1 .. num_groups
      PROVE  ps[g] \in members(g - 1) \ {source}
  <2> DEFINE h     == g - 1
             range == pick_proxies(source, h, num_groups, num_meters)
             first == group_first_id(h, num_groups, num_meters)
             size  == group_size_of(h, num_groups, num_meters)
  <2>1. h \in Group
    BY <1>1 DEF Group
  <2>2. range = members(h) \ {source}
    BY <2>1 DEF ProxyIsSomeoneElse
  <2>3. /\ first \in Int /\ size \in Int /\ first < first + (size - 1)
        /\ members(h) = first .. first + (size - 1)
    BY <2>1, MembersAreRange
  <2> HIDE DEF first, size
  <2>4. smallest(range) \in range /\ largest(range) \in range
    <3>1. first + (size - 1) \in Int /\ range = (first .. first + (size - 1)) \ {source}
      BY <2>2, <2>3
    <3> HIDE DEF range
    <3> QED
      BY <1>1, <2>3, <3>1, Ends
  <2>5. ps[g] = CASE selection = "lowest"  -> smallest(range)
                  [] selection = "highest" -> largest(range)
                  [] OTHER -> IF g % 2 = 0 THEN smallest(range) ELSE largest(range)
    BY DEF proxies
  <2> HIDE DEF range, h
  <2>6. ps[g] \in range
    BY <2>4, <2>5
  <2> QED
    BY <2>2, <2>6 DEF h
<1>3. DOMAIN ps = 1 .. num_groups
  BY DEF proxies
<1>4. \A g \in 1 .. num_groups : ps[g] \in Nat /\ ps[g] # source /\ group_of(ps[g]) = g - 1
  BY <1>1, <1>2 DEF members, Node
<1>5. ps \in Seq(Nat)
  <2>1. ps = [g \in 1 .. num_groups |-> ps[g]]
    BY DEF proxies
  <2>2. ps \in [1 .. num_groups -> Nat]
    BY <1>4, <2>1
  <2> QED
    BY <1>1, <2>2
<1>6. \A j, k \in 1 .. num_groups : j # k => ps[j] # ps[k]
  BY <1>1, <1>4
<1> QED
  BY <1>3, <1>4, <1>5, <1>6 DEF hops, AreTargets

\* In every system, from every node and in every round the paths to the proxies
\* have no node in common, whatever proxies were chosen: one failed node spoils
\* at most one of them.
THEOREM PathsDoNotMeet == Spec => []PathsAreIndependent
<1>1. SystemOK /\ GroupsAgree /\ ProxyIsSomeoneElse => PathsAreIndependent
  <2> SUFFICES ASSUME SystemOK, GroupsAgree, ProxyIsSomeoneElse, searching,
                      NEW source \in Node, NEW selection \in Selections
               PROVE  LET p == paths(source, selection)
                      IN \A i, j \in DOMAIN p : i # j => hops(p[i]) \cap hops(p[j]) = {}
    BY DEF PathsAreIndependent
  <2> DEFINE ps == proxies(source, selection)
  <2>1. AreTargets(ps, source)
    BY ProxiesDiffer
  <2>2. /\ num_meters \in Nat /\ num_meters > 1 /\ num_meters % 2 = 1
        /\ round \in Nat /\ source \in 0 .. num_meters - 1
    BY DEF SystemOK, searching, Node
  <2>3. paths(source, selection) = find_paths(source, ps, num_meters, round)
    BY DEF paths
  <2> DEFINE p == paths(source, selection)
             q == find_paths(source, ps, num_meters, round)
  <2> HIDE DEF ps
  <2>4. /\ DOMAIN q = DOMAIN ps
        /\ \A j, k \in DOMAIN ps : j # k => hops(q[j]) \cap hops(q[k]) = {}
    BY <2>1, <2>2, FoundPathsAreDisjoint
  <2> HIDE DEF p, q
  <2>5. \A i, j \in DOMAIN p : i # j => hops(p[i]) \cap hops(p[j]) = {}
    BY <2>3, <2>4 DEF p, q
  <2> QED
    BY <2>5 DEF p
<1> QED
  BY <1>1, SystemIsOK, GroupsAreRanges, ProxiesAreOthers, PTL
=============================================================================
