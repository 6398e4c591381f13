------------------------ MODULE ProtocolSums_proofs ------------------------
(***************************************************************************)
(* Proofs about the AGGREGATE phase of a query without failures: the root  *)
(* of each group sends the server the values its members have accepted,    *)
(* each counted once.                                                      *)
(***************************************************************************)
EXTENDS ProtocolRounds_proofs

-----------------------------------------------------------------------------
(* The invariant *)

parent_of(n) == aggregation_tree_parent(n, NumGroups, NumMeters)
children_of(n) == {c \in Node : parent_of(c) = n}

\* What a node adds to the sum: the values it accepts.
settled(n) == {v \in proxied_by(n) : acceptable(v)}
own(n) == {[query |-> 0, value |-> v, proxy |-> n] : v \in settled(n)}

\* The invariant is about the sums A of the nodes, the set L of those that have
\* come to their last round, the set S of those among them that have sent their
\* sum, the set W of those whose sum is under way, and, for each node, the set
\* T[n] of children whose sums it has added to its own.
Part(n, T, A, S, L, W) ==
  /\ T[n] \subseteq children_of(n) \cap S /\ T[n] \cap W = {}
  /\ \A c \in T[n] : A[c].contents \subseteq A[n].contents
  /\ A[n].received = Cardinality(T[n])
  /\ IsFiniteSet(A[n].contents) /\ A[n].count = Cardinality(A[n].contents)
  /\ \A x \in A[n].contents : x \in group_contributions(group(n), 0) /\ x.proxy \in S
  /\ IF n \in L THEN A[n].query = 0 /\ A[n].needed = Cardinality(children_of(n))
                ELSE A[n].received = 0 /\ A[n].contents = {}
  /\ n \in S => A[n].received >= A[n].needed /\ own(n) \subseteq A[n].contents

\* Nothing is in two sums of which one is not yet part of a third.
Apart(T, A) ==
  \A a, b \in Node :
    a # b /\ (\A n \in Node : a \notin T[n] /\ b \notin T[n]) =>
      A[a].contents \cap A[b].contents = {}

Sums(T, A, S, L, W) ==
  /\ T \in [Node -> SUBSET Node] /\ A \in [Node -> AggregationState]
  /\ W \subseteq S /\ S \subseteq L /\ L \subseteq Node
  /\ \A n \in Node : Part(n, T, A, S, L, W)
  /\ Apart(T, A)

\* What is under way: in the network or kept by the parent.
message_of(A, c) == aggregate_message(A[c], c)

\* A sum that has been sent does not change any more, and is sent once.
Flight(A, S, net, kept, results) ==
  /\ \A m \in net : m.from \in S /\ m = message_of(A, m.from) /\ m.to # NoNode
  /\ \A m \in results : m.from \in S /\ m = message_of(A, m.from) /\ m.to = NoNode
  /\ \A n \in Node : \A i \in 1 .. Len(kept[n]) :
       /\ kept[n][i].from \in S /\ kept[n][i] = message_of(A, kept[n][i].from)
       /\ kept[n][i].to = n /\ kept[n][i] \notin net
       /\ \A j \in 1 .. Len(kept[n]) : kept[n][i] = kept[n][j] => i = j

under_way(net, kept) ==
  {m.from : m \in net}
    \cup UNION {{kept[n][i].from : i \in 1 .. Len(kept[n])} : n \in Node}

-----------------------------------------------------------------------------
(* The tree *)

LEMMA Tree ==
  ASSUME NEW n \in Node
  PROVE  /\ n # NoNode
         /\ parent_of(n) = NoNode \/ parent_of(n) \in Node
         /\ parent_of(n) \in Node => parent_of(n) < n /\ group(parent_of(n)) = group(n)
         /\ \A m \in Node : parent_of(n) = NoNode /\ parent_of(m) = NoNode
                              /\ group(m) = group(n) => m = n
<1>1. NumMeters \in Nat \ {0} /\ NumGroups \in 1 .. NumMeters
  BY MetersAssumption, GroupsAssumption
<1>2. ASSUME NEW m \in Node
      PROVE  IF m = group_first_id(group(m), NumGroups, NumMeters)
             THEN parent_of(m) = NoNode
             ELSE /\ parent_of(m) \in Node /\ parent_of(m) < m
                  /\ group(parent_of(m)) = group(m)
  BY <1>1, NodeAssumption, ParentInGroup DEF group, parent_of
<1>3. \A m \in Node : m # NoNode
  BY NodeAssumption DEF NoNode
<1> QED
  BY <1>2, <1>3

\* initialize waits for as many sums as there are children.
LEMMA NeededAreChildren ==
  ASSUME NEW agg \in AggregationState, NEW n \in Node
  PROVE  /\ initialize(agg, n, {}) =
              [agg EXCEPT !.received = 0, !.needed = Cardinality(children_of(n))]
         /\ IsFiniteSet(children_of(n)) /\ Cardinality(children_of(n)) \in 0 .. 2
<1> DEFINE c == aggregation_tree_children(n, NumGroups, NumMeters)
           Absent == {i \in {1, 2} : c[i] = NoNode}
<1>1. initialize(agg, n, {}) =
        [agg EXCEPT !.received = 0, !.needed = 2 - Cardinality(Absent)]
  <2>1. Absent = {i \in {1, 2} : c[i] = NoNode \/ c[i] \in {}}
    OBVIOUS
  <2> HIDE DEF Absent
  <2> QED
    BY <2>1 DEF initialize
<1>2. (c[1] # c[2] \/ c[1] = NoNode) /\ {c[1], c[2]} \ {NoNode} = children_of(n)
  BY ChildrenOf, NodeAssumption, MetersAssumption, GroupsAssumption
  DEF children_of, parent_of
<1> HIDE DEF c
<1>3. \A x : IsFiniteSet({x}) /\ Cardinality({x}) = 1
  BY FS_Singleton
<1>4. ASSUME NEW x, NEW y, x # y PROVE IsFiniteSet({x, y}) /\ Cardinality({x, y}) = 2
  <2>1. {x, y} = {x} \cup {y} /\ y \notin {x}
    BY <1>4
  <2>2. IsFiniteSet({x}) /\ Cardinality({x}) = 1
    BY <1>3
  <2>3. IsFiniteSet({x} \cup {y}) /\ Cardinality({x} \cup {y}) = 1 + 1
    BY <2>1, <2>2, FS_AddElement
  <2> QED
    BY <2>1, <2>3
<1>5. IsFiniteSet({}) /\ Cardinality({}) = 0
  BY FS_EmptySet
<1>6. /\ IsFiniteSet(children_of(n)) /\ Cardinality(children_of(n)) \in 0 .. 2
      /\ 2 - Cardinality(Absent) = Cardinality(children_of(n))
  <2>1. CASE c[1] = NoNode /\ c[2] = NoNode
    <3>1. Absent = {1, 2} /\ children_of(n) = {}
      BY <1>2, <2>1
    <3>2. Cardinality(Absent) = 2
      BY <1>4, <3>1
    <3>3. IsFiniteSet(children_of(n)) /\ Cardinality(children_of(n)) = 0
      BY <1>5, <3>1
    <3> HIDE DEF Absent
    <3> QED
      BY <3>2, <3>3
  <2>2. CASE c[1] = NoNode /\ c[2] # NoNode
    <3>1. Absent = {1} /\ children_of(n) = {c[2]}
      BY <1>2, <2>2
    <3>2. Cardinality(Absent) = 1
      BY <1>3, <3>1
    <3>3. IsFiniteSet(children_of(n)) /\ Cardinality(children_of(n)) = 1
      BY <1>3, <3>1
    <3> HIDE DEF Absent
    <3> QED
      BY <3>2, <3>3
  <2>3. CASE c[1] # NoNode /\ c[2] = NoNode
    <3>1. Absent = {2} /\ children_of(n) = {c[1]}
      BY <1>2, <2>3
    <3>2. Cardinality(Absent) = 1
      BY <1>3, <3>1
    <3>3. IsFiniteSet(children_of(n)) /\ Cardinality(children_of(n)) = 1
      BY <1>3, <3>1
    <3> HIDE DEF Absent
    <3> QED
      BY <3>2, <3>3
  <2>4. CASE c[1] # NoNode /\ c[2] # NoNode
    <3>1. Absent = {} /\ children_of(n) = {c[1], c[2]} /\ c[1] # c[2]
      BY <1>2, <2>4
    <3>2. Cardinality(Absent) = 0
      BY <1>5, <3>1
    <3>3. IsFiniteSet({c[1], c[2]}) /\ Cardinality({c[1], c[2]}) = 2
      BY <1>4, <3>1
    <3>4. IsFiniteSet(children_of(n)) /\ Cardinality(children_of(n)) = 2
      BY <3>1, <3>3
    <3> HIDE DEF Absent
    <3> QED
      BY <3>2, <3>4
  <2> QED
    BY <2>1, <2>2, <2>3, <2>4
<1> QED
  BY <1>1, <1>6

-----------------------------------------------------------------------------
(* Sums *)

\* Who has sent its sum has added those of all its children.
LEMMA AllAreTaken ==
  ASSUME NEW T, NEW A, NEW S, NEW L, NEW W, NEW n \in Node,
         Sums(T, A, S, L, W), n \in L, A[n].received >= A[n].needed
  PROVE  T[n] = children_of(n)
<1>1. /\ T[n] \in SUBSET children_of(n) /\ A[n].received = Cardinality(T[n])
      /\ A[n].needed = Cardinality(children_of(n))
  BY DEF Sums, Part
<1>2. IsFiniteSet(children_of(n)) /\ Cardinality(children_of(n)) \in Nat
  BY NodesAreFinite DEF children_of
<1>3. Cardinality(T[n]) <= Cardinality(children_of(n)) /\ Cardinality(T[n]) \in Nat
  BY <1>1, <1>2, FS_Subset, FS_CardinalityType
<1>4. Cardinality(T[n]) = Cardinality(children_of(n))
  BY <1>1, <1>2, <1>3
<1> QED
  BY <1>1, <1>2, <1>4, FS_Subset

\* The sum of the root of a group is the sum of the group.
LEMMA RootHasAll ==
  ASSUME NEW T, NEW A, NEW S, NEW L, NEW W, NEW n \in S,
         Sums(T, A, S, L, W), parent_of(n) = NoNode
  PROVE  A[n].contents = group_contributions(group(n), 0)
<1>1. n \in Node /\ \A x \in A[n].contents : x \in group_contributions(group(n), 0)
  BY DEF Sums, Part
<1>2. \A m \in Node : m \in Nat
  BY NodeAssumption, MetersAssumption
<1> DEFINE I == {k \in Nat : k \in Node /\ group(k) = group(n) =>
                   k \in S /\ A[k].contents \subseteq A[n].contents}
<1>3. ASSUME NEW k \in Nat, \A j \in 0 .. k - 1 : j \in I PROVE k \in I
  <2> SUFFICES ASSUME k \in Node, group(k) = group(n)
               PROVE  k \in S /\ A[k].contents \subseteq A[n].contents
    OBVIOUS
  <2>1. CASE parent_of(k) = NoNode
    <3>1. k = n
      BY <1>1, <2>1, Tree
    <3> QED
      BY <3>1
  <2>2. CASE parent_of(k) # NoNode
    <3> DEFINE p == parent_of(k)
    <3>1. p \in Node /\ p < k /\ group(p) = group(n)
      BY <2>2, Tree
    <3>2. p \in 0 .. k - 1
      <4>1. p \in Nat /\ k \in Nat /\ p < k
        BY <1>2, <3>1
      <4> HIDE DEF p
      <4> QED
        BY <4>1
    <3>3. p \in S /\ A[p].contents \subseteq A[n].contents
      BY <1>3, <3>1, <3>2
    <3>4. T[p] = children_of(p)
      <4>1. p \in L /\ A[p].received >= A[p].needed
        BY <3>1, <3>3 DEF Sums, Part
      <4> HIDE DEF p
      <4> QED
        BY <3>1, <4>1, AllAreTaken
    <3>5. k \in T[p]
      BY <3>4 DEF children_of
    <3>6. k \in S /\ A[k].contents \subseteq A[p].contents
      BY <3>1, <3>5 DEF Sums, Part
    <3> QED
      BY <3>3, <3>6
  <2> QED
    BY <2>1, <2>2
<1>4. I = Nat
  <2>1. I \in SUBSET Nat
    OBVIOUS
  <2> HIDE DEF I
  <2> QED
    BY <1>3, <2>1, Induction
<1>5. ASSUME NEW x \in group_contributions(group(n), 0) PROVE x \in A[n].contents
  <2>1. /\ x.proxy \in Node /\ group(x.proxy) = group(n)
        /\ x = [query |-> 0, value |-> x.value, proxy |-> x.proxy]
        /\ x.value \in settled(x.proxy)
    BY DEF group_contributions, settled
  <2>2. x \in own(x.proxy)
    BY <2>1 DEF own
  <2>3. x.proxy \in S /\ A[x.proxy].contents \subseteq A[n].contents
    BY <1>2, <1>4, <2>1
  <2>4. own(x.proxy) \subseteq A[x.proxy].contents
    BY <2>1, <2>3 DEF Sums, Part
  <2> QED
    BY <2>2, <2>3, <2>4
<1> QED
  BY <1>1, <1>5

\* What is under way may be lost, or be taken for lost.
LEMMA Fewer ==
  ASSUME NEW T, NEW A, NEW S, NEW L, NEW W, NEW V \in SUBSET W, Sums(T, A, S, L, W)
  PROVE  Sums(T, A, S, L, V)
BY DEF Sums, Part

\* A node starts a query, or comes to its last round and waits for its children.
LEMMA Begins ==
  ASSUME NEW T, NEW A, NEW S, NEW L, NEW W, NEW n \in Node \ L, Sums(T, A, S, L, W),
         NEW agg \in AggregationState,
         agg.received = 0, agg.count = 0, agg.contents = {},
         NEW M \in {L, L \cup {n}},
         n \in M => agg.query = 0 /\ agg.needed = Cardinality(children_of(n))
  PROVE  Sums(T, [A EXCEPT ![n] = agg], S, M, W)
<1> DEFINE B == [A EXCEPT ![n] = agg]
<1>1. /\ A \in [Node -> AggregationState] /\ T \in [Node -> SUBSET Node]
      /\ S \subseteq L /\ W \subseteq S /\ L \subseteq Node
      /\ \A k \in Node : Part(k, T, A, S, L, W)
  BY DEF Sums
<1>2. /\ B \in [Node -> AggregationState] /\ \A k \in Node \ {n} : B[k] = A[k]
      /\ B[n] = agg
  BY <1>1
<1> HIDE DEF B
<1>3. A[n].contents = {} /\ A[n].received = 0
  BY <1>1 DEF Part
<1>4. \A k \in Node : B[k].contents = A[k].contents
  BY <1>2, <1>3
<1>5. ASSUME NEW k \in Node PROVE Part(k, T, B, S, M, W)
  <2>1. Part(k, T, A, S, L, W)
    BY <1>1
  <2>2. \A c \in T[k] : B[c].contents \subseteq B[k].contents
    BY <1>1, <1>4, <2>1 DEF Part
  <2>3. CASE k = n
    <3>1. n \notin S /\ IsFiniteSet({}) /\ Cardinality({}) = 0
      BY <1>1, FS_EmptySet
    <3> QED
      BY <1>2, <1>3, <2>1, <2>2, <2>3, <3>1 DEF Part
  <2>4. CASE k # n
    <3>1. B[k] = A[k] /\ (k \in M <=> k \in L)
      BY <1>2, <2>4
    <3> QED
      BY <2>1, <2>2, <3>1 DEF Part
  <2> QED
    BY <2>3, <2>4
<1>6. Apart(T, B)
  BY <1>4 DEF Sums, Apart
<1>7. Sums(T, B, S, M, W)
  BY <1>1, <1>2, <1>5, <1>6 DEF Sums
<1> QED
  BY <1>7 DEF B

\* A node adds the sum of a child to its own: they have nothing in common.
LEMMA Takes ==
  ASSUME NEW T, NEW A, NEW S, NEW L, NEW W, NEW n \in L \ S, NEW c \in W,
         NEW V \in SUBSET (W \ {c}), Sums(T, A, S, L, W), parent_of(c) = n
  PROVE  \E U : Sums(U, [A EXCEPT ![n] = handle_aggregate(A[n], message_of(A, c))],
                     S, L, V)
<1> DEFINE m == message_of(A, c)
           B == [A EXCEPT ![n] = handle_aggregate(A[n], m)]
           U == [T EXCEPT ![n] = @ \cup {c}]
<1>1. /\ A \in [Node -> AggregationState] /\ T \in [Node -> SUBSET Node]
      /\ S \subseteq L /\ W \subseteq S /\ L \subseteq Node
      /\ \A k \in Node : Part(k, T, A, S, L, W)
  BY DEF Sums
<1>2. /\ c \in Node /\ n \in Node /\ c \in S /\ c # n /\ c \in children_of(n)
      /\ group(c) = group(n)
  <2>1. c \in Node /\ n \in Node /\ c \in S /\ c # n
    BY <1>1
  <2> QED
    BY <2>1, Tree DEF children_of
<1>3. m \in AggregationMessage
  BY <1>1, <1>2, AggregateMessageType DEF message_of
<1>4. m.count = A[c].count /\ m.contents = A[c].contents
  BY DEF message_of, aggregate_message
<1> HIDE DEF m
<1>5. handle_aggregate(A[n], m) \in AggregationState
  BY <1>1, <1>2, <1>3, HandleAggregateType
<1>6. /\ B \in [Node -> AggregationState] /\ \A k \in Node \ {n} : B[k] = A[k]
      /\ B[n] = handle_aggregate(A[n], m)
  BY <1>1, <1>5
<1>7. /\ B[n].received = A[n].received + 1 /\ B[n].needed = A[n].needed
      /\ B[n].query = A[n].query
      /\ B[n].count = IF A[n].count = 0 THEN m.count ELSE A[n].count + m.count
      /\ B[n].contents = IF A[n].count = 0 THEN m.contents
                                           ELSE A[n].contents \cup m.contents
  BY <1>1, <1>2, <1>6 DEF handle_aggregate, AggregationState
<1>8. /\ U \in [Node -> SUBSET Node] /\ \A k \in Node \ {n} : U[k] = T[k]
      /\ U[n] = T[n] \cup {c}
  BY <1>1, <1>2
<1> HIDE DEF B, U
<1>9. \A k \in Node : c \notin T[k] /\ n \notin T[k]
  BY <1>1 DEF Part
<1>10. A[n].contents \cap A[c].contents = {}
  BY <1>2, <1>9 DEF Sums, Apart
<1>11. A[n].count = 0 => A[n].contents = {}
  <2>1. IsFiniteSet(A[n].contents) /\ A[n].count = Cardinality(A[n].contents)
    BY <1>1, <1>2 DEF Part
  <2> QED
    BY <2>1, FS_EmptySet
<1>12. B[n].contents = A[n].contents \cup A[c].contents
  BY <1>4, <1>7, <1>11
<1>13. IsFiniteSet(B[n].contents) /\ B[n].count = Cardinality(B[n].contents)
  <2>1. /\ IsFiniteSet(A[n].contents) /\ A[n].count = Cardinality(A[n].contents)
        /\ IsFiniteSet(A[c].contents) /\ A[c].count = Cardinality(A[c].contents)
        /\ A[n].count \in Nat /\ A[c].count \in Nat
    BY <1>1, <1>2 DEF Part, AggregationState
  <2>2. B[n].count = A[n].count + A[c].count
    BY <1>4, <1>7, <2>1
  <2>3. Cardinality(A[n].contents \cap A[c].contents) = 0
    BY <1>10, FS_EmptySet
  <2>4. /\ IsFiniteSet(A[n].contents \cup A[c].contents)
        /\ Cardinality(A[n].contents \cup A[c].contents) =
              Cardinality(A[n].contents) + Cardinality(A[c].contents)
                - Cardinality(A[n].contents \cap A[c].contents)
    BY <2>1, FS_Union
  <2>5. Cardinality(A[n].contents \cup A[c].contents) = A[n].count + A[c].count
    BY <2>1, <2>3, <2>4
  <2> QED
    BY <1>12, <2>2, <2>4, <2>5
<1>14. B[n].received = Cardinality(U[n])
  <2>1. T[n] \in SUBSET Node /\ A[n].received = Cardinality(T[n])
    BY <1>1, <1>2 DEF Part
  <2>2. IsFiniteSet(T[n]) /\ c \notin T[n]
    BY <1>2, <1>9, <2>1, NodesAreFinite
  <2>3. Cardinality(T[n] \cup {c}) = Cardinality(T[n]) + 1
    BY <2>2, FS_AddElement
  <2> QED
    BY <1>7, <1>8, <2>1, <2>3
<1>15. Part(n, U, B, S, L, V)
  <2>1. Part(n, T, A, S, L, W) /\ Part(c, T, A, S, L, W)
    BY <1>1, <1>2
  <2>2. U[n] \subseteq children_of(n) \cap S /\ U[n] \cap V = {}
    BY <1>2, <1>8, <2>1 DEF Part
  <2>3. \A k \in U[n] : B[k].contents \subseteq B[n].contents
    <3>1. \A k \in T[n] : k \in Node \ {n} /\ A[k].contents \subseteq A[n].contents
      BY <1>1, <1>2, <1>9, <2>1 DEF Part
    <3>2. B[c] = A[c]
      BY <1>2, <1>6
    <3> QED
      BY <1>6, <1>8, <1>12, <3>1, <3>2
  <2>4. \A x \in B[n].contents : x \in group_contributions(group(n), 0) /\ x.proxy \in S
    BY <1>2, <1>12, <2>1 DEF Part
  <2>5. B[n].query = 0 /\ B[n].needed = Cardinality(children_of(n))
    BY <1>7, <2>1 DEF Part
  <2> QED
    BY <1>13, <1>14, <2>2, <2>3, <2>4, <2>5 DEF Part
<1>16. ASSUME NEW k \in Node \ {n} PROVE Part(k, U, B, S, L, V)
  <2>1. Part(k, T, A, S, L, W) /\ U[k] = T[k] /\ B[k] = A[k]
    BY <1>1, <1>6, <1>8
  <2>2. \A j \in T[k] : B[j] = A[j]
    BY <1>1, <1>6, <1>9
  <2> QED
    BY <2>1, <2>2 DEF Part
<1>17. Apart(U, B)
  <2> SUFFICES ASSUME NEW a \in Node, NEW b \in Node, a # b,
                      \A k \in Node : a \notin U[k] /\ b \notin U[k]
               PROVE  B[a].contents \cap B[b].contents = {}
    BY DEF Apart
  <2>1. /\ a # c /\ b # c
        /\ \A k \in Node : a \notin T[k] /\ b \notin T[k]
    BY <1>2, <1>8
  <2>2. /\ A[a].contents \cap A[b].contents = {}
        /\ A[a].contents \cap A[c].contents = {}
        /\ A[b].contents \cap A[c].contents = {}
    BY <1>2, <1>9, <2>1 DEF Sums, Apart
  <2> QED
    BY <1>6, <1>12, <2>2
<1>18. Sums(U, B, S, L, V)
  BY <1>1, <1>6, <1>8, <1>15, <1>16, <1>17 DEF Sums
<1> QED
  BY <1>18 DEF B, m

\* The values a node adds are as many as its own contributions.
LEMMA OwnCount ==
  ASSUME NEW n \in Node
  PROVE  IsFiniteSet(own(n)) /\ Cardinality(own(n)) = Cardinality(settled(n))
<1> DEFINE f == [v \in settled(n) |-> [query |-> 0, value |-> v, proxy |-> n]]
<1>1. settled(n) \in SUBSET Node
  BY DEF settled, proxied_by
<1>2. IsFiniteSet(settled(n))
  BY <1>1, NodesAreFinite
<1>3. f \in Bijection(settled(n), own(n))
  <2>1. \A v, w \in settled(n) : f[v] = f[w] => v = w
    OBVIOUS
  <2>2. f \in [settled(n) -> own(n)] /\ \A x \in own(n) : \E v \in settled(n) : f[v] = x
    BY DEF own
  <2> HIDE DEF f
  <2> QED
    BY <2>1, <2>2 DEF Bijection, Injection, Surjection, IsInjective
<1> HIDE DEF f
<1> QED
  BY <1>2, <1>3, FS_Bijection DEF ExistsBijection

\* A node that has the sums of all its children adds its own values and sends
\* what it then has.
LEMMA Sends ==
  ASSUME NEW T, NEW A, NEW S, NEW L, NEW W, NEW n \in L \ S,
         NEW V \in SUBSET (W \cup {n}), Sums(T, A, S, L, W),
         A[n].received >= A[n].needed
  PROVE  Sums(T, [A EXCEPT ![n] = add_accepted(A[n], n, settled(n))], S \cup {n}, L, V)
<1> DEFINE B == [A EXCEPT ![n] = add_accepted(A[n], n, settled(n))]
<1>1. /\ A \in [Node -> AggregationState] /\ T \in [Node -> SUBSET Node]
      /\ S \subseteq L /\ W \subseteq S /\ L \subseteq Node /\ n \in Node
      /\ \A k \in Node : Part(k, T, A, S, L, W)
  BY DEF Sums
<1>2. settled(n) \in SUBSET Node
  BY DEF settled, proxied_by
<1>3. add_accepted(A[n], n, settled(n)) \in AggregationState
  BY <1>1, <1>2, AddAcceptedType
<1>4. /\ B \in [Node -> AggregationState] /\ \A k \in Node \ {n} : B[k] = A[k]
      /\ B[n] = add_accepted(A[n], n, settled(n))
  BY <1>1, <1>3
<1>5. A[n].query = 0
  BY <1>1 DEF Part
<1>6. /\ B[n].received = A[n].received /\ B[n].needed = A[n].needed
      /\ B[n].query = A[n].query
      /\ B[n].count = A[n].count + Cardinality(settled(n))
      /\ B[n].contents = A[n].contents \cup own(n)
  <2>1. own(n) = {[query |-> A[n].query, value |-> v, proxy |-> n] : v \in settled(n)}
    BY <1>5 DEF own
  <2>2. add_accepted(A[n], n, settled(n)) =
          [A[n] EXCEPT !.count = @ + Cardinality(settled(n)),
                       !.contents = @ \cup own(n)]
    BY <2>1 DEF add_accepted
  <2> QED
    BY <1>1, <1>4, <2>2 DEF AggregationState
<1> HIDE DEF B
<1>7. \A x \in own(n) : x \in group_contributions(group(n), 0) /\ x.proxy = n
  BY <1>1, <1>2 DEF own, settled, group_contributions
<1>8. \A k \in Node : \A x \in A[k].contents : x \notin own(n)
  BY <1>1, <1>7 DEF Part
<1>9. \A k \in Node : n \notin T[k]
  BY <1>1 DEF Part
<1>10. IsFiniteSet(B[n].contents) /\ B[n].count = Cardinality(B[n].contents)
  <2>1. /\ IsFiniteSet(A[n].contents) /\ A[n].count = Cardinality(A[n].contents)
        /\ A[n].count \in Nat
    BY <1>1 DEF Part, AggregationState
  <2>2. /\ IsFiniteSet(own(n)) /\ Cardinality(own(n)) = Cardinality(settled(n))
        /\ Cardinality(settled(n)) \in Nat
    BY <1>1, <1>2, OwnCount, NodesAreFinite
  <2>3. A[n].contents \cap own(n) = {}
    BY <1>1, <1>8
  <2>4. Cardinality(A[n].contents \cap own(n)) = 0
    BY <2>3, FS_EmptySet
  <2>5. /\ IsFiniteSet(A[n].contents \cup own(n))
        /\ Cardinality(A[n].contents \cup own(n)) =
              Cardinality(A[n].contents) + Cardinality(own(n))
                - Cardinality(A[n].contents \cap own(n))
    BY <2>1, <2>2, FS_Union
  <2>6. Cardinality(A[n].contents \cup own(n)) = A[n].count + Cardinality(settled(n))
    BY <2>1, <2>2, <2>4, <2>5
  <2> QED
    BY <1>6, <2>5, <2>6
<1>11. Part(n, T, B, S \cup {n}, L, V)
  <2>1. Part(n, T, A, S, L, W)
    BY <1>1
  <2>2. T[n] \subseteq children_of(n) \cap S /\ T[n] \cap V = {}
    BY <1>9, <1>1, <2>1 DEF Part
  <2>3. \A k \in T[n] : B[k].contents \subseteq B[n].contents
    <3>1. \A k \in T[n] : k \in Node \ {n} /\ A[k].contents \subseteq A[n].contents
      BY <1>1, <1>9, <2>1 DEF Part
    <3> QED
      BY <1>4, <1>6, <3>1
  <2>4. \A x \in B[n].contents :
          x \in group_contributions(group(n), 0) /\ x.proxy \in S \cup {n}
    BY <1>6, <1>7, <2>1 DEF Part
  <2>5. B[n].received >= B[n].needed /\ own(n) \subseteq B[n].contents
    BY <1>6
  <2>6. /\ B[n].query = 0 /\ B[n].needed = Cardinality(children_of(n))
        /\ B[n].received = Cardinality(T[n])
    BY <1>6, <2>1 DEF Part
  <2> QED
    BY <1>10, <2>2, <2>3, <2>4, <2>5, <2>6 DEF Part
<1>12. ASSUME NEW k \in Node \ {n} PROVE Part(k, T, B, S \cup {n}, L, V)
  <2>1. Part(k, T, A, S, L, W) /\ B[k] = A[k] /\ (k \in S \cup {n} <=> k \in S)
    BY <1>1, <1>4
  <2>2. \A j \in T[k] : B[j] = A[j]
    BY <1>1, <1>4, <1>9
  <2>3. T[k] \cap V = {} /\ T[k] \subseteq children_of(k) \cap (S \cup {n})
    BY <1>9, <2>1 DEF Part
  <2> QED
    BY <2>1, <2>2, <2>3 DEF Part
<1>13. Apart(T, B)
  <2> SUFFICES ASSUME NEW a \in Node, NEW b \in Node, a # b,
                      \A k \in Node : a \notin T[k] /\ b \notin T[k]
               PROVE  B[a].contents \cap B[b].contents = {}
    BY DEF Apart
  <2>1. A[a].contents \cap A[b].contents = {}
    BY DEF Sums, Apart
  <2> QED
    BY <1>4, <1>6, <1>8, <2>1
<1>14. Sums(T, B, S \cup {n}, L, V)
  BY <1>1, <1>4, <1>11, <1>12, <1>13 DEF Sums
<1> QED
  BY <1>14 DEF B

-----------------------------------------------------------------------------
(* Sums under way *)

\* What is under way stays as it is while those who sent it keep their sums.
LEMMA FlightStays ==
  ASSUME NEW A, NEW B, NEW S, NEW R, NEW net, NEW kept, NEW results,
         S \subseteq R, \A c \in S : B[c] = A[c], Flight(A, S, net, kept, results)
  PROVE  Flight(B, R, net, kept, results)
<1>1. \A c \in S : message_of(B, c) = message_of(A, c)
  BY DEF message_of
<1> QED
  BY <1>1 DEF Flight

\* A node sends its sum to its parent or to the server.
LEMMA FlightSends ==
  ASSUME NEW A, NEW B, NEW S, NEW net, NEW kept, NEW results, NEW n \in Node \ S,
         \A c \in S : B[c] = A[c], Flight(A, S, net, kept, results),
         NEW m, m = message_of(B, n)
  PROVE  /\ m.to = NoNode => Flight(B, S \cup {n}, net, kept, results \cup {m})
         /\ m.to # NoNode => Flight(B, S \cup {n}, net \cup {m}, kept, results)
<1>1. Flight(B, S \cup {n}, net, kept, results)
  BY FlightStays
<1>2. m.from = n
  BY DEF message_of, aggregate_message
<1>3. \A k \in Node : \A i \in 1 .. Len(kept[k]) : kept[k][i].from \in S
  BY DEF Flight
<1>4. \A k \in Node : \A i \in 1 .. Len(kept[k]) : kept[k][i] # m
  BY <1>2, <1>3
<1>5. m = message_of(B, m.from)
  BY <1>2
<1>6. m.to = NoNode => Flight(B, S \cup {n}, net, kept, results \cup {m})
  BY <1>1, <1>2, <1>5 DEF Flight
<1>7. m.to # NoNode => Flight(B, S \cup {n}, net \cup {m}, kept, results)
  BY <1>1, <1>2, <1>4, <1>5 DEF Flight
<1> QED
  BY <1>6, <1>7

\* After a step of n, R is the set of those that have sent their sums.
Sent(n, R, T, L, kept) ==
  /\ Sums(T, aggregation', R, L, under_way(aggregation_net', kept))
  /\ Flight(aggregation', R, aggregation_net', kept, server_results')
  /\ protocol_phase' = [protocol_phase EXCEPT
       ![n] = IF n \in R THEN "IDLE" ELSE "AGGREGATE"]
  /\ n \in R => T[n] = children_of(n)

\* send_aggregate_if_done, for a node that has come to its last round and has
\* not sent its sum: it may now be among those that have.
LEMMA SendsIfDone ==
  ASSUME NEW T, NEW A, NEW L, NEW S, NEW n \in L \ S, NEW agg, NEW kept, NEW net,
         aggregation \in [Node -> AggregationState],
         agg \in AggregationState, A = [aggregation EXCEPT ![n] = agg],
         Sums(T, A, S, L, under_way(net, kept)),
         Flight(A, S, net, kept, server_results),
         SendAggregateIfDone(n, agg, settled(n), net)
  PROVE  Sent(n, S, T, L, kept) \/ Sent(n, S \cup {n}, T, L, kept)
<1> DEFINE W   == under_way(net, kept)
           sum == add_accepted(agg, n, settled(n))
           m   == aggregate_message(sum, n)
<1>1. n \in Node /\ S \subseteq Node /\ n \notin S
  BY DEF Sums
<1>2. A[n] = agg /\ A \in [Node -> AggregationState]
  BY <1>1
<1>3. Sums(T, A, S, L, W) /\ Flight(A, S, net, kept, server_results)
  OBVIOUS
<1>4. CASE ~done_receiving_from_children(agg)
  <2>1. /\ aggregation' = A /\ aggregation_net' = net /\ server_results' = server_results
        /\ protocol_phase' = [protocol_phase EXCEPT ![n] = "AGGREGATE"]
    BY <1>4 DEF SendAggregateIfDone
  <2> HIDE DEF W
  <2> QED
    BY <1>1, <1>3, <2>1 DEF W, Sent
<1>5. CASE done_receiving_from_children(agg)
  <2> DEFINE B == [aggregation EXCEPT ![n] = sum]
  <2>1. /\ aggregation' = B
        /\ protocol_phase' = [protocol_phase EXCEPT ![n] = "IDLE"]
        /\ IF m.to = NoNode
             THEN server_results' = server_results \cup {m} /\ aggregation_net' = net
             ELSE aggregation_net' = net \cup {m} /\ server_results' = server_results
    BY <1>5 DEF SendAggregateIfDone
  <2>2. settled(n) \in SUBSET Node
    BY DEF settled, proxied_by
  <2>3. sum \in AggregationState
    BY <1>1, <2>2, AddAcceptedType
  <2>4. B = [A EXCEPT ![n] = add_accepted(A[n], n, settled(n))]
    BY <1>1, <1>2
  <2>5. m = message_of(B, n)
    <3>1. B[n] = sum
      BY <1>1
    <3> HIDE DEF B, sum
    <3> QED
      BY <3>1 DEF message_of
  <2>6. m.from = n
    BY DEF aggregate_message
  <2>7. \A c \in S : B[c] = A[c]
    BY <1>1
  <2>8. A[n].received >= A[n].needed
    BY <1>2, <1>5 DEF done_receiving_from_children
  <2> HIDE DEF B, sum, m, W
  <2>9. under_way(aggregation_net', kept) \in SUBSET (W \cup {n})
    BY <2>1, <2>6 DEF under_way, W
  <2>10. Sums(T, B, S \cup {n}, L, under_way(aggregation_net', kept))
    BY <1>3, <2>4, <2>8, <2>9, Sends
  <2>11. /\ m.to = NoNode => Flight(B, S \cup {n}, net, kept, server_results \cup {m})
         /\ m.to # NoNode => Flight(B, S \cup {n}, net \cup {m}, kept, server_results)
    BY <1>1, <1>3, <2>5, <2>7, FlightSends
  <2>12. T[n] = children_of(n)
    BY <1>1, <1>3, <2>8, AllAreTaken
  <2>13. Flight(aggregation', S \cup {n}, aggregation_net', kept, server_results')
    BY <2>1, <2>11
  <2>14. n \in S \cup {n}
    OBVIOUS
  <2> QED
    BY <2>1, <2>10, <2>12, <2>13, <2>14 DEF Sent
<1> QED
  BY <1>4, <1>5

-----------------------------------------------------------------------------
(* The invariant of the nodes *)

last_round == {n \in Node : is_last_round[n]}
has_sent == {n \in Node : is_last_round[n] /\ protocol_phase[n] = "IDLE"}

SumsInv ==
  /\ \E T : Sums(T, aggregation, has_sent, last_round,
                 under_way(aggregation_net, future_aggregation))
  /\ Flight(aggregation, has_sent, aggregation_net, future_aggregation, server_results)
  /\ \A n \in Node : ~is_last_round[n] => aggregation[n] = NewAggregation(query_num[n])
  /\ \A n \in Node : pc[n] = "drain" => protocol_phase[n] = "AGGREGATE"

\* What a step of the aggregation leaves of the invariant to prove.
LEMMA SumsAfter ==
  ASSUME Typed, AggregationTypeOK, SumsInv, NEW n \in Node, NEW T, NEW L, NEW R,
         L = last_round \cup {n}, R \in {has_sent, has_sent \cup {n}},
         n \notin has_sent,
         is_last_round' = [is_last_round EXCEPT ![n] = TRUE],
         query_num' = query_num,
         \A k \in Node \ {n} : aggregation'[k] = aggregation[k] /\ pc'[k] = pc[k],
         pc'[n] = "drain" => n \notin R,
         Sent(n, R, T, L, future_aggregation')
  PROVE  SumsInv'
<1> USE DEF Typed, ControlTypeOK, RoundsTypeOK
<1>1. last_round' = L
  BY DEF last_round
<1>2. has_sent' = R
  BY DEF has_sent, Sent
<1>3. \A k \in Node : ~is_last_round'[k] => aggregation'[k] = NewAggregation(query_num'[k])
  BY DEF SumsInv
<1>4. \A k \in Node : pc'[k] = "drain" => protocol_phase'[k] = "AGGREGATE"
  BY DEF SumsInv, Sent
<1>5. \E U : Sums(U, aggregation', has_sent', last_round',
                 under_way(aggregation_net', future_aggregation'))
  BY <1>1, <1>2 DEF Sent
<1>6. Flight(aggregation', has_sent', aggregation_net', future_aggregation',
             server_results')
  BY <1>2 DEF Sent
<1> QED
  BY <1>3, <1>4, <1>5, <1>6 DEF SumsInv

LEMMA FinishAgreementSums ==
  ASSUME NoFailures, RoutesFit, Typed, RoundsInv, DeliveryInv, AggregationInv, SumsInv,
         NEW n \in Node, FinishAgreement(n), EverybodyAlive'
  PROVE  SumsInv'
<1> USE DEF Typed, ControlTypeOK, RoundsTypeOK, AggregationInv
<1> DEFINE agg == initialize(aggregation[n], n, {})
           W   == under_way(aggregation_net, future_aggregation)
<1>1. query_num[n] = 0 /\ ~is_last_round[n]
  BY RoundEnds DEF EndOverlayRound, InOverlay
<1>2. n \notin last_round /\ n \notin has_sent
  BY <1>1 DEF last_round, has_sent
<1>3. aggregation[n] = NewAggregation(0) /\ aggregation[n] \in AggregationState
  BY <1>1 DEF SumsInv, AggregationTypeOK
<1>4. failed_meter_ids[n] = {} /\ accepted_values(agreement[n]) = settled(n)
  BY AgreementIsComplete DEF RoundsInv, CalmInv, Calm, settled
<1>5. /\ SendAggregateIfDone(n, agg, settled(n), aggregation_net)
      /\ is_last_round' = [is_last_round EXCEPT ![n] = TRUE]
      /\ query_num' = query_num /\ future_aggregation' = future_aggregation
      /\ pc' = [pc EXCEPT ![n] =
           IF ~done_receiving_from_children(agg) /\ future_aggregation[n] # <<>>
             THEN "drain" ELSE "ready"]
  BY <1>4 DEF FinishAgreement
<1>6. /\ agg \in AggregationState
      /\ agg = [aggregation[n] EXCEPT !.received = 0,
                                     !.needed = Cardinality(children_of(n))]
  BY <1>3, NeededAreChildren, InitializeType
<1> HIDE DEF agg
<1>7. /\ agg.received = 0 /\ agg.count = 0 /\ agg.contents = {} /\ agg.query = 0
      /\ agg.needed = Cardinality(children_of(n))
  BY <1>3, <1>6 DEF NewAggregation
<1> DEFINE L == last_round \cup {n}
           A == [aggregation EXCEPT ![n] = agg]
<1>8. PICK T : Sums(T, aggregation, has_sent, last_round, W)
  BY DEF SumsInv
<1>9. Sums(T, A, has_sent, L, W)
  BY <1>2, <1>6, <1>7, <1>8, Begins
<1>10. Flight(A, has_sent, aggregation_net, future_aggregation, server_results)
  <2>1. \A c \in has_sent : A[c] = aggregation[c]
    BY <1>2 DEF has_sent, AggregationTypeOK
  <2> HIDE DEF A
  <2> QED
    BY <2>1, FlightStays DEF SumsInv
<1>11. /\ n \in L \ has_sent /\ L = last_round \cup {n}
       /\ A = [aggregation EXCEPT ![n] = agg]
       /\ W = under_way(aggregation_net, future_aggregation)
       /\ aggregation \in [Node -> AggregationState]
  BY <1>2 DEF AggregationTypeOK
<1> HIDE DEF L, W, A
<1>12. PICK R \in {has_sent, has_sent \cup {n}} : Sent(n, R, T, L, future_aggregation)
  BY <1>5, <1>6, <1>9, <1>10, <1>11, SendsIfDone
<1>13. pc'[n] = "drain" => n \notin R
  <2>1. pc'[n] = "drain" => protocol_phase'[n] = "AGGREGATE"
    BY <1>5 DEF SendAggregateIfDone, AggregationTypeOK
  <2> QED
    BY <1>12, <2>1 DEF Sent
<1>14. \A k \in Node \ {n} : aggregation'[k] = aggregation[k] /\ pc'[k] = pc[k]
  BY <1>5 DEF SendAggregateIfDone, AggregationTypeOK
<1> QED
  BY <1>2, <1>5, <1>11, <1>12, <1>13, <1>14, SumsAfter

\* The node n has received the sum m of a child, and net and kept are left.
Received(n, m, net, kept) ==
  /\ m.from \in under_way(aggregation_net, future_aggregation)
  /\ m = message_of(aggregation, m.from) /\ m.to = n
  /\ under_way(net, kept)
       \in SUBSET (under_way(aggregation_net, future_aggregation) \ {m.from})
  /\ Flight(aggregation, has_sent, net, kept, server_results)

\* It has added the sum to its own, and may have sent that.
Added(n, kept) ==
  \E T : \E R \in {has_sent, has_sent \cup {n}} : Sent(n, R, T, last_round, kept)

\* handle_aggregation_message.
LEMMA HandlesSum ==
  ASSUME Typed, AggregationTypeOK, SumsInv, ProxiesAgree, NEW n \in Node,
         is_last_round[n], protocol_phase[n] = "AGGREGATE",
         NEW m, NEW net, NEW kept, Received(n, m, net, kept),
         HandleAggregation(n, m, net)
  PROVE  Added(n, kept)
<1> USE DEF Received
<1> DEFINE W   == under_way(aggregation_net, future_aggregation)
           V   == under_way(net, kept)
           agg == handle_aggregate(aggregation[n], m)
           A   == [aggregation EXCEPT ![n] = agg]
<1>1. n \in last_round \ has_sent /\ aggregation \in [Node -> AggregationState]
  BY DEF last_round, has_sent, AggregationTypeOK
<1>2. PICK T : Sums(T, aggregation, has_sent, last_round, W)
  BY DEF SumsInv
<1>3. m.from \in Node /\ m.from \in W /\ V \in SUBSET (W \ {m.from})
  BY <1>2 DEF Sums
<1>4. parent_of(m.from) = n
  <2>1. m.to = parent_of(m.from)
    BY <1>3 DEF message_of, aggregate_message, parent_of
  <2> QED
    BY <2>1
<1>5. agg \in AggregationState
  <2>1. aggregation[m.from] \in AggregationState /\ aggregation[n] \in AggregationState
    BY <1>1, <1>3
  <2>2. message_of(aggregation, m.from) \in AggregationMessage
    BY <1>3, <2>1, AggregateMessageType DEF message_of
  <2> QED
    BY <2>1, <2>2, HandleAggregateType
<1>6. accepted[n] = settled(n)
  BY DEF ProxiesAgree, settled
<1>7. SendAggregateIfDone(n, agg, settled(n), net)
  BY <1>6 DEF HandleAggregation
<1>8. Flight(A, has_sent, net, kept, server_results)
  <2>1. has_sent \subseteq has_sent /\ \A c \in has_sent : A[c] = aggregation[c]
    BY <1>1 DEF has_sent
  <2> HIDE DEF A
  <2> QED
    BY <2>1, FlightStays
<1>9. A = [aggregation EXCEPT ![n] =
             handle_aggregate(aggregation[n], message_of(aggregation, m.from))]
  OBVIOUS
<1>10. A = [aggregation EXCEPT ![n] = agg]
  OBVIOUS
<1> HIDE DEF A, agg, W
<1>11. PICK U : Sums(U, A, has_sent, last_round, V)
  BY <1>1, <1>2, <1>3, <1>4, <1>9, Takes
<1>12. Sent(n, has_sent, U, last_round, kept)
         \/ Sent(n, has_sent \cup {n}, U, last_round, kept)
  BY <1>1, <1>5, <1>7, <1>8, <1>10, <1>11, SendsIfDone
<1> QED
  BY <1>12 DEF Added

\* A message that the parent keeps: it is the sum of a child.
LEMMA KeptSum ==
  ASSUME AggregationTypeOK, SumsInv, NEW n \in Node, future_aggregation[n] # <<>>
  PROVE  Received(n, Head(future_aggregation[n]), aggregation_net,
                  [future_aggregation EXCEPT ![n] = Tail(@)])
<1> DEFINE m == Head(future_aggregation[n])
           kept == [future_aggregation EXCEPT ![n] = Tail(@)]
           K == future_aggregation
<1>1. K \in [Node -> Seq(AggregationMessage)] /\ K[n] \in Seq(AggregationMessage)
  BY DEF AggregationTypeOK
<1>2. /\ m = K[n][1] /\ 1 \in 1 .. Len(K[n]) /\ Tail(K[n]) \in Seq(AggregationMessage)
      /\ Len(Tail(K[n])) = Len(K[n]) - 1
      /\ \A i \in 1 .. Len(Tail(K[n])) : Tail(K[n])[i] = K[n][i + 1]
  BY <1>1
<1>3. kept[n] = Tail(K[n]) /\ \A k \in Node \ {n} : kept[k] = K[k]
  BY <1>1
<1>4. Flight(aggregation, has_sent, aggregation_net, K, server_results)
  BY DEF SumsInv
<1>5. /\ m.from \in has_sent /\ m = message_of(aggregation, m.from) /\ m.to = n
      /\ m \notin aggregation_net
  BY <1>2, <1>4 DEF Flight
<1> HIDE DEF m, kept
<1>6. m.from \in under_way(aggregation_net, K)
  <2>1. m.from \in {K[n][i].from : i \in 1 .. Len(K[n])}
    BY <1>2
  <2> QED
    BY <2>1 DEF under_way
<1>7. ASSUME NEW k \in Node, NEW i \in 1 .. Len(kept[k])
      PROVE  \E j \in 1 .. Len(K[k]) : kept[k][i] = K[k][j] /\ (k = n => j = i + 1)
  <2>1. CASE k = n
    <3>1. i + 1 \in 1 .. Len(K[n]) /\ i \in 1 .. Len(Tail(K[n]))
      BY <1>1, <1>2, <1>3, <1>7, <2>1
    <3> QED
      BY <1>2, <1>3, <2>1, <3>1
  <2>2. CASE k # n
    BY <1>3, <2>2
  <2> QED
    BY <2>1, <2>2
<1>8. ASSUME NEW k \in Node, NEW i \in 1 .. Len(kept[k]) PROVE kept[k][i] # m
  <2>1. PICK j \in 1 .. Len(K[k]) : kept[k][i] = K[k][j] /\ (k = n => j = i + 1)
    BY <1>7
  <2>2. K[k][j].to = k /\ (k = n => (K[n][j] = K[n][1] => j = 1))
    BY <1>2, <1>4 DEF Flight
  <2>3. k = n => j # 1
    BY <2>1, <1>8
  <2> QED
    BY <1>2, <1>5, <2>1, <2>2, <2>3
<1>9. Flight(aggregation, has_sent, aggregation_net, kept, server_results)
  <2>1. ASSUME NEW k \in Node, NEW i \in 1 .. Len(kept[k])
        PROVE  /\ kept[k][i].from \in has_sent
               /\ kept[k][i] = message_of(aggregation, kept[k][i].from)
               /\ kept[k][i].to = k /\ kept[k][i] \notin aggregation_net
    BY <1>4, <1>7, <2>1 DEF Flight
  <2>2. ASSUME NEW k \in Node, NEW i \in 1 .. Len(kept[k]), NEW j \in 1 .. Len(kept[k]),
               kept[k][i] = kept[k][j]
        PROVE  i = j
    <3>1. CASE k = n
      <4>1. PICK a \in 1 .. Len(K[n]) : kept[n][i] = K[n][a] /\ a = i + 1
        BY <1>7, <3>1
      <4>2. PICK b \in 1 .. Len(K[n]) : kept[n][j] = K[n][b] /\ b = j + 1
        BY <1>7, <3>1
      <4>3. a = b
        BY <1>4, <2>2, <3>1, <4>1, <4>2 DEF Flight
      <4> QED
        BY <4>1, <4>2, <4>3
    <3>2. CASE k # n
      BY <1>3, <1>4, <2>2, <3>2 DEF Flight
    <3> QED
      BY <3>1, <3>2
  <2> QED
    BY <1>4, <2>1, <2>2 DEF Flight
<1>10. ASSUME NEW c \in under_way(aggregation_net, kept)
       PROVE  c \in under_way(aggregation_net, K) \ {m.from}
  <2>1. CASE \E x \in aggregation_net : c = x.from
    <3>1. PICK x \in aggregation_net : c = x.from
      BY <2>1
    <3>2. x = message_of(aggregation, c)
      BY <1>4, <3>1 DEF Flight
    <3>3. c # m.from
      BY <1>5, <3>1, <3>2
    <3> QED
      BY <3>1, <3>3 DEF under_way
  <2>2. CASE \E k \in Node : \E i \in 1 .. Len(kept[k]) : c = kept[k][i].from
    <3>1. PICK k \in Node : \E i \in 1 .. Len(kept[k]) : c = kept[k][i].from
      BY <2>2
    <3>2. PICK i \in 1 .. Len(kept[k]) : c = kept[k][i].from
      BY <3>1
    <3>3. kept[k][i] = message_of(aggregation, c) /\ kept[k][i] # m
      BY <1>8, <1>9, <3>2 DEF Flight
    <3>4. c # m.from
      BY <1>5, <3>3
    <3>5. c \in {K[k][j].from : j \in 1 .. Len(K[k])}
      BY <1>7, <3>2
    <3> QED
      BY <3>4, <3>5 DEF under_way
  <2> QED
    BY <2>1, <2>2 DEF under_way
<1> QED
  BY <1>5, <1>6, <1>9, <1>10 DEF m, kept, Received

LEMMA DrainSums ==
  ASSUME NoFailures, Typed, RoundsInv, AggregationInv, ProxiesAgree, SumsInv,
         NEW n \in Node, DrainAggregation(n)
  PROVE  SumsInv'
<1> USE DEF Typed, ControlTypeOK, RoundsTypeOK, AggregationInv
<1> DEFINE m == Head(future_aggregation[n])
<1>1. pc[n] = "drain" /\ is_last_round[n] /\ protocol_phase[n] = "AGGREGATE"
  BY DEF DrainAggregation, RoundsInv, RoundInv, SumsInv
<1>2. /\ future_aggregation[n] # <<>>
      /\ HandleAggregation(n, m, aggregation_net)
      /\ future_aggregation' = [future_aggregation EXCEPT ![n] = Tail(@)]
      /\ pc' = [pc EXCEPT
           ![n] = IF Len(future_aggregation[n]) = 1 THEN "ready" ELSE "drain"]
      /\ UNCHANGED <<query_num, is_last_round>>
  BY <1>1 DEF DrainAggregation, DrainHasMessage, roundVars
<1> HIDE DEF m
<1>3. Received(n, m, aggregation_net, future_aggregation')
  BY <1>2, KeptSum DEF m
<1>4. Added(n, future_aggregation')
  <2>1. HandleAggregation(n, m, aggregation_net)
    BY <1>2
  <2> QED
    BY <1>1, <1>3, <2>1, HandlesSum
<1> PICK T : \E R \in {has_sent, has_sent \cup {n}} :
         Sent(n, R, T, last_round, future_aggregation')
  BY <1>4 DEF Added
<1>5. PICK R \in {has_sent, has_sent \cup {n}} :
         Sent(n, R, T, last_round, future_aggregation')
  OBVIOUS
<1>6. /\ n \notin has_sent /\ last_round = last_round \cup {n}
      /\ is_last_round' = [is_last_round EXCEPT ![n] = TRUE]
      /\ query_num' = query_num
  BY <1>1, <1>2 DEF has_sent, last_round
<1>7. \A k \in Node \ {n} : aggregation'[k] = aggregation[k] /\ pc'[k] = pc[k]
  BY <1>2 DEF HandleAggregation, SendAggregateIfDone, AggregationTypeOK
<1>8. pc'[n] = "drain" => n \notin R
  <2> SUFFICES ASSUME pc'[n] = "drain", n \in R PROVE FALSE
    OBVIOUS
  <2> DEFINE kept == future_aggregation'[n]
  <2>1. future_aggregation[n] \in Seq(AggregationMessage) /\ Len(future_aggregation[n]) # 1
    BY <1>2 DEF AggregationTypeOK
  <2>2. 1 \in 1 .. Len(kept)
    <3>1. kept = Tail(future_aggregation[n])
      BY <1>2 DEF AggregationTypeOK
    <3>2. Len(future_aggregation[n]) \in Nat /\ Len(future_aggregation[n]) # 0
      BY <1>2, <2>1
    <3>3. Len(Tail(future_aggregation[n])) = Len(future_aggregation[n]) - 1
      BY <1>2, <2>1
    <3> HIDE DEF kept
    <3>4. Len(kept) = Len(future_aggregation[n]) - 1
      BY <3>1, <3>3
    <3>5. \A l \in Nat : l # 0 /\ l # 1 => 1 \in 1 .. l - 1
      OBVIOUS
    <3> QED
      BY <2>1, <3>2, <3>4, <3>5
  <2>3. T[n] = children_of(n) /\ n \in last_round
    BY <1>1, <1>5 DEF Sent, last_round
  <2> DEFINE W == under_way(aggregation_net', future_aggregation')
  <2>4. Sums(T, aggregation', R, last_round, W)
    BY <1>5 DEF Sent
  <2>5. kept[1].to = n /\ kept[1].from \in R
        /\ kept[1] = message_of(aggregation', kept[1].from)
    BY <1>5, <2>2 DEF Sent, Flight
  <2>6. kept[1].from \in W
    <3>1. kept[1].from \in {kept[i].from : i \in 1 .. Len(kept)}
      BY <2>2
    <3> QED
      BY <3>1 DEF under_way
  <2> HIDE DEF kept, W
  <2>7. parent_of(kept[1].from) = n
    <3>1. kept[1].to = parent_of(kept[1].from)
      BY <2>5 DEF message_of, aggregate_message, parent_of
    <3> QED
      BY <2>5, <3>1
  <2>8. kept[1].from \in T[n]
    BY <2>3, <2>4, <2>5, <2>7 DEF Sums, children_of
  <2> QED
    BY <2>4, <2>6, <2>8 DEF Sums, Part
<1> QED
  BY <1>5, <1>6, <1>7, <1>8, SumsAfter

LEMMA ArrivesSums ==
  ASSUME NoFailures, Typed, RoundsInv, AggregationInv, ProxiesAgree, SumsInv,
         NEW n \in Node, AggregationArrives(n)
  PROVE  SumsInv'
<1> USE DEF Typed, ControlTypeOK, RoundsTypeOK, AggregationInv
<1> DEFINE W == under_way(aggregation_net, future_aggregation)
<1>1. PICK m \in aggregation_net :
        /\ m.to = n
        /\ \/ /\ protocol_phase[n] = "AGGREGATE"
              /\ HandleAggregation(n, m, aggregation_net \ {m})
              /\ UNCHANGED future_aggregation
           \/ /\ protocol_phase[n] # "AGGREGATE"
              /\ future_aggregation' = [future_aggregation EXCEPT
                   ![n] = IF m.query = query_num[n] THEN Append(@, m) ELSE @]
              /\ aggregation_net' = aggregation_net \ {m}
              /\ UNCHANGED <<aggregation, protocol_phase, server_results>>
  BY DEF AggregationArrives
<1>2. UNCHANGED <<query_num, is_last_round, pc>> /\ \A k \in Node : pc[k] = "ready"
  BY DEF AggregationArrives, Starts, Quiet, roundVars
<1>3. Flight(aggregation, has_sent, aggregation_net, future_aggregation, server_results)
  BY DEF SumsInv
<1>4. m.from \in has_sent /\ m = message_of(aggregation, m.from) /\ m.from \in W
  BY <1>1, <1>3 DEF Flight, under_way
<1>5. \A x \in aggregation_net \ {m} : x.from # m.from
  BY <1>3, <1>4 DEF Flight
<1>6. \A k \in Node : \A i \in 1 .. Len(future_aggregation[k]) :
        future_aggregation[k][i].from # m.from
  BY <1>1, <1>3, <1>4 DEF Flight
<1>7. CASE protocol_phase[n] = "AGGREGATE"
  <2>1. HandleAggregation(n, m, aggregation_net \ {m}) /\ UNCHANGED future_aggregation
    BY <1>1, <1>7
  <2>2. is_last_round[n]
    BY <1>7, OneQuery DEF RoundsInv, RoundInv, NoFailures
  <2>3. under_way(aggregation_net \ {m}, future_aggregation) \in SUBSET (W \ {m.from})
    BY <1>5, <1>6 DEF under_way
  <2>4. Flight(aggregation, has_sent, aggregation_net \ {m}, future_aggregation,
               server_results)
    BY <1>3 DEF Flight
  <2>5. Received(n, m, aggregation_net \ {m}, future_aggregation)
    BY <1>1, <1>4, <2>3, <2>4 DEF Received
  <2> PICK T : \E R \in {has_sent, has_sent \cup {n}} :
           Sent(n, R, T, last_round, future_aggregation)
    BY <1>7, <2>1, <2>2, <2>5, HandlesSum DEF Added
  <2>6. PICK R \in {has_sent, has_sent \cup {n}} :
           Sent(n, R, T, last_round, future_aggregation)
    OBVIOUS
  <2>7. /\ n \notin has_sent /\ last_round = last_round \cup {n}
        /\ is_last_round' = [is_last_round EXCEPT ![n] = TRUE]
        /\ query_num' = query_num /\ pc'[n] # "drain"
        /\ Sent(n, R, T, last_round, future_aggregation')
    BY <1>2, <1>7, <2>1, <2>2, <2>6 DEF has_sent, last_round
  <2>8. \A k \in Node \ {n} : aggregation'[k] = aggregation[k] /\ pc'[k] = pc[k]
    BY <1>2, <2>1 DEF HandleAggregation, SendAggregateIfDone, AggregationTypeOK
  <2> QED
    BY <2>7, <2>8, SumsAfter
<1>8. CASE protocol_phase[n] # "AGGREGATE"
  <2>1. /\ future_aggregation' = [future_aggregation EXCEPT
             ![n] = IF m.query = query_num[n] THEN Append(@, m) ELSE @]
        /\ aggregation_net' = aggregation_net \ {m}
        /\ UNCHANGED <<aggregation, protocol_phase, server_results>>
    BY <1>1, <1>8
  <2>2. last_round' = last_round /\ has_sent' = has_sent
    BY <1>2, <2>1 DEF last_round, has_sent
  <2>3. future_aggregation[n] \in Seq(AggregationMessage) /\ m \in AggregationMessage
    BY DEF AggregationTypeOK
  <2>4. ASSUME NEW k \in Node, NEW i \in 1 .. Len(future_aggregation'[k])
        PROVE  \/ /\ i \in 1 .. Len(future_aggregation[k])
                  /\ future_aggregation'[k][i] = future_aggregation[k][i]
               \/ /\ k = n /\ i = Len(future_aggregation[n]) + 1
                  /\ future_aggregation'[k][i] = m
    <3>1. CASE k = n /\ m.query = query_num[n]
      <4>1. future_aggregation'[k] = Append(future_aggregation[n], m)
        BY <2>1, <3>1 DEF AggregationTypeOK
      <4> QED
        BY <2>3, <2>4, <3>1, <4>1
    <3>2. CASE ~(k = n /\ m.query = query_num[n])
      <4>1. future_aggregation'[k] = future_aggregation[k]
        BY <2>1, <3>2 DEF AggregationTypeOK
      <4> QED
        BY <2>4, <4>1
    <3> QED
      BY <3>1, <3>2
  <2>5. under_way(aggregation_net', future_aggregation') \in SUBSET W
    <3>1. \A x \in aggregation_net' : x.from \in W
      BY <2>1 DEF under_way
    <3>2. \A k \in Node : \A i \in 1 .. Len(future_aggregation'[k]) :
            future_aggregation'[k][i].from \in W
      <4> SUFFICES ASSUME NEW k \in Node, NEW i \in 1 .. Len(future_aggregation'[k])
                   PROVE  future_aggregation'[k][i].from \in W
        OBVIOUS
      <4>1. CASE future_aggregation'[k][i] = m
        BY <1>4, <4>1
      <4>2. CASE /\ i \in 1 .. Len(future_aggregation[k])
                 /\ future_aggregation'[k][i] = future_aggregation[k][i]
        <5>1. future_aggregation[k][i].from
                \in {future_aggregation[k][j].from : j \in 1 .. Len(future_aggregation[k])}
          BY <4>2
        <5> QED
          BY <4>2, <5>1 DEF under_way
      <4> QED
        BY <2>4, <4>1, <4>2
    <3> HIDE DEF W
    <3> QED
      BY <3>1, <3>2 DEF under_way
  <2>6. Flight(aggregation', has_sent', aggregation_net', future_aggregation',
               server_results')
    <3>1. ASSUME NEW k \in Node, NEW i \in 1 .. Len(future_aggregation'[k])
          PROVE  LET x == future_aggregation'[k][i]
                 IN /\ x.from \in has_sent /\ x = message_of(aggregation, x.from)
                    /\ x.to = k /\ x \notin aggregation_net'
      BY <1>1, <1>3, <1>4, <2>1, <2>4 DEF Flight
    <3>2. ASSUME NEW k \in Node, NEW i \in 1 .. Len(future_aggregation'[k]),
                 NEW j \in 1 .. Len(future_aggregation'[k]),
                 future_aggregation'[k][i] = future_aggregation'[k][j]
          PROVE  i = j
      <4>1. CASE future_aggregation'[k][i] = m
        BY <1>6, <2>4, <3>2, <4>1
      <4>2. CASE future_aggregation'[k][i] # m
        BY <1>3, <2>4, <3>2, <4>2 DEF Flight
      <4> QED
        BY <4>1, <4>2
    <3> QED
      BY <1>3, <2>1, <2>2, <3>1, <3>2 DEF Flight
  <2>7. PICK T : Sums(T, aggregation, has_sent, last_round, W)
    BY DEF SumsInv
  <2> HIDE DEF W
  <2>8. Sums(T, aggregation', has_sent', last_round',
             under_way(aggregation_net', future_aggregation'))
    BY <2>1, <2>2, <2>5, <2>7, Fewer
  <2>9. \A k \in Node : ~is_last_round'[k] => aggregation'[k] = NewAggregation(query_num'[k])
    BY <1>2, <2>1 DEF SumsInv
  <2> QED
    BY <1>2, <2>6, <2>8, <2>9 DEF SumsInv
<1> QED
  BY <1>7, <1>8

\* A node that starts a query has no part in the sums.
LEMMA QueryRequestSums ==
  ASSUME NoFailures, Typed, RoundsInv, AggregationInv, SumsInv,
         NEW n \in Node, QueryRequestArrives(n)
  PROVE  SumsInv'
<1> USE DEF Typed, ControlTypeOK, RoundsTypeOK, AggregationInv
<1>1. /\ protocol_phase' = [protocol_phase EXCEPT ![n] = "SETUP"]
      /\ query_num' = [query_num EXCEPT ![n] = 0]
      /\ is_last_round' = [is_last_round EXCEPT ![n] = FALSE]
      /\ aggregation' = [aggregation EXCEPT ![n] = NewAggregation(0)]
  BY QueryIsFirst DEF StartQuery
<1>2. UNCHANGED <<pc, future_aggregation, aggregation_net, server_results>>
  BY DEF QueryRequestArrives
<1>3. ~is_last_round[n] /\ pc[n] = "ready"
  BY QueryIsFirst DEF RoundsInv, RoundInv
<1>4. last_round' = last_round /\ has_sent' = has_sent
      /\ n \notin last_round /\ n \notin has_sent
  BY <1>1, <1>3 DEF last_round, has_sent
<1> DEFINE W == under_way(aggregation_net, future_aggregation)
<1>5. PICK T : Sums(T, aggregation, has_sent, last_round, W)
  BY DEF SumsInv
<1>6. /\ NewAggregation(0) \in AggregationState
      /\ NewAggregation(0).received = 0 /\ NewAggregation(0).count = 0
      /\ NewAggregation(0).contents = {}
  BY OneQuery, NewAggregationType DEF NewAggregation
<1> HIDE DEF W
<1>7. Sums(T, aggregation', has_sent, last_round, W)
  BY <1>1, <1>4, <1>5, <1>6, Begins
<1>8. W' = W
  BY <1>2 DEF W, under_way
<1>9. Sums(T, aggregation', has_sent', last_round',
           under_way(aggregation_net', future_aggregation'))
  BY <1>2, <1>4, <1>7 DEF W
<1>10. \A c \in has_sent : aggregation'[c] = aggregation[c]
  BY <1>1, <1>4 DEF has_sent, AggregationTypeOK
<1>11. Flight(aggregation', has_sent', aggregation_net', future_aggregation',
              server_results')
  BY <1>2, <1>4, <1>10, FlightStays DEF SumsInv
<1>12. \A k \in Node : ~is_last_round'[k] => aggregation'[k] = NewAggregation(query_num'[k])
  BY <1>1 DEF SumsInv, AggregationTypeOK
<1>13. \A k \in Node : pc'[k] = "drain" => protocol_phase'[k] = "AGGREGATE"
  BY <1>1, <1>2, <1>3 DEF SumsInv
<1> QED
  BY <1>9, <1>11, <1>12, <1>13 DEF SumsInv

\* The sums stay as they are while no node comes to its last round and the tree
\* is at rest.
LEMMA SumsKept ==
  ASSUME SumsInv,
         UNCHANGED <<query_num, is_last_round, aggregation, future_aggregation,
                     aggregation_net, server_results>>,
         \A n \in Node : is_last_round[n] => protocol_phase'[n] = protocol_phase[n],
         \A n \in Node : pc'[n] = "drain" =>
           pc[n] = "drain" /\ protocol_phase'[n] = protocol_phase[n]
  PROVE  SumsInv'
<1>1. last_round' = last_round /\ has_sent' = has_sent
  BY DEF last_round, has_sent
<1> QED
  BY <1>1 DEF SumsInv

LEMMA OverlaySums ==
  ASSUME NoFailures, Typed, RoundsInv, SumsInv, NEW n \in Node,
         EndsShuffle(n) \/ EndsPhase1(n) \/ Continues(n) \/ OverlayArrives(n)
           \/ SignatureResponseArrives(n),
         EverybodyAlive'
  PROVE  SumsInv'
<1> USE DEF Typed, ControlTypeOK, RoundsTypeOK
<1>1. CASE EndsShuffle(n) \/ EndsPhase1(n) \/ Continues(n)
  <2>1. EndOverlayRound(n)
    BY <1>1 DEF EndsShuffle, EndsPhase1, Continues, EndOverlayRound
  <2>2. ~is_last_round[n]
    BY <2>1, RoundEnds DEF InOverlay
  <2>3. UNCHANGED <<query_num, is_last_round, aggregation, future_aggregation,
                    aggregation_net, server_results>>
    BY <1>1 DEF EndsShuffle, EndsPhase1, Continues, FinishShuffle, FinishPhase1,
       ContinueOverlay, CommonEndOverlayRound, aggregateVars
  <2>4. /\ \E now \in {"ready", "end_round"} : pc' = [pc EXCEPT ![n] = now]
        /\ \E phase \in Phase : protocol_phase' = [protocol_phase EXCEPT ![n] = phase]
    BY <1>1 DEF EndsShuffle, EndsPhase1, Continues, FinishShuffle, FinishPhase1,
       ContinueOverlay, CommonEndOverlayRound, Phase
  <2>5. /\ \A k \in Node : is_last_round[k] => protocol_phase'[k] = protocol_phase[k]
        /\ \A k \in Node : pc'[k] = "drain" =>
             pc[k] = "drain" /\ protocol_phase'[k] = protocol_phase[k]
    BY <2>2, <2>4
  <2> QED
    BY <2>3, <2>5, SumsKept
<1>2. CASE OverlayArrives(n)
  <2>1. /\ UNCHANGED <<query_num, is_last_round, aggregation, future_aggregation,
                       aggregation_net, server_results, protocol_phase>>
        /\ \A k \in Node : pc'[k] = "drain" => pc[k] = "drain"
    BY <1>2 DEF OverlayArrives, HandleOverlay, KeepOverlay, roundVars, aggregateVars
  <2> QED
    BY <2>1, SumsKept
<1>3. CASE SignatureResponseArrives(n)
  <2>1. UNCHANGED <<query_num, is_last_round, aggregation, future_aggregation,
                    aggregation_net, server_results>>
    BY <1>3 DEF SignatureResponseArrives, roundVars, aggregateVars
  <2>2. /\ ~is_last_round[n] /\ pc' = [pc EXCEPT ![n] = "end_round"]
        /\ protocol_phase' = [protocol_phase EXCEPT ![n] = "SHUFFLE"]
    BY <1>3, SignatureIsForQuery
  <2>3. /\ \A k \in Node : is_last_round[k] => protocol_phase'[k] = protocol_phase[k]
        /\ \A k \in Node : pc'[k] = "drain" =>
             pc[k] = "drain" /\ protocol_phase'[k] = protocol_phase[k]
    BY <2>2
  <2> QED
    BY <2>1, <2>3, SumsKept
<1> QED
  BY <1>1, <1>2, <1>3

LEMMA InitSums == ASSUME NoFailures PROVE Init => SumsInv
<1> SUFFICES ASSUME Init PROVE SumsInv
  OBVIOUS
<1>1. /\ aggregation = [n \in Node |-> NewAggregation(-1)]
      /\ future_aggregation = [n \in Node |-> <<>>]
      /\ aggregation_net = {} /\ server_results = {}
      /\ \A n \in Node : ~is_last_round[n] /\ query_num[n] = -1 /\ pc[n] = "ready"
  BY DEF Init
<1>2. has_sent = {} /\ last_round = {} /\ Len(<<>>) = 0
  BY <1>1 DEF has_sent, last_round
<1>3. under_way(aggregation_net, future_aggregation) = {}
  BY <1>1, <1>2 DEF under_way
<1>4. Flight(aggregation, has_sent, aggregation_net, future_aggregation, server_results)
  BY <1>1, <1>2 DEF Flight
<1> DEFINE T == [n \in Node |-> {}]
<1>5. /\ NewAggregation(-1) \in AggregationState
      /\ NewAggregation(-1).received = 0 /\ NewAggregation(-1).count = 0
      /\ NewAggregation(-1).contents = {}
  BY OneQuery, NewAggregationType DEF NewAggregation
<1>6. ASSUME NEW n \in Node PROVE Part(n, T, aggregation, {}, {}, {})
  <2>1. T[n] = {} /\ aggregation[n] = NewAggregation(-1)
    BY <1>1
  <2>2. IsFiniteSet({}) /\ Cardinality({}) = 0
    BY FS_EmptySet
  <2> HIDE DEF T
  <2> QED
    BY <1>5, <2>1, <2>2 DEF Part
<1>7. T \in [Node -> SUBSET Node] /\ aggregation \in [Node -> AggregationState]
  BY <1>1, <1>5
<1>8. Apart(T, aggregation)
  BY <1>1, <1>5 DEF Apart
<1> HIDE DEF T
<1>9. Sums(T, aggregation, {}, {}, {})
  BY <1>6, <1>7, <1>8 DEF Sums
<1>10. \E U : Sums(U, aggregation, has_sent, last_round,
                  under_way(aggregation_net, future_aggregation))
  BY <1>2, <1>3, <1>9
<1> QED
  BY <1>1, <1>4, <1>10 DEF SumsInv

LEMMA NextSums ==
  ASSUME NoFailures, RoutesFit, Typed, RoundsInv, DeliveryInv, AggregationInv,
         ProxiesAgree, SumsInv, [Next]_vars, EverybodyAlive'
  PROVE  SumsInv'
<1>1. CASE UNCHANGED vars \/ Server
  <2>1. UNCHANGED <<query_num, is_last_round, aggregation, future_aggregation,
                    aggregation_net, server_results, protocol_phase, pc>>
    BY <1>1 DEF Server, ServerStartsQuery, ServerSigns, clientVars, vars, roundVars,
       aggregateVars
  <2> QED
    BY <2>1, SumsKept
<1>2. ASSUME NEW n \in Node, EndOverlayRound(n) PROVE SumsInv'
  BY <1>2, RoundEnds, FinishAgreementSums, OverlaySums
<1>3. ASSUME NEW n \in Node, Handler(n) PROVE SumsInv'
  BY <1>2, <1>3, QueryRequestSums, OverlaySums, ArrivesSums, DrainSums DEF Handler
<1>4. \A n \in Node : ~PingArrives(n) /\ ~Timer(n) /\ ~Crash(n)
  BY NobodyFails DEF RoundsInv
<1> QED
  BY <1>1, <1>3, <1>4 DEF Next

\* The results are complete: what the server receives from a group are the
\* values that its members have accepted, each counted once, unless a process has
\* ended of a message it relayed.
THEOREM GroupsReportAll ==
  ASSUME NoFailures, RoutesFit PROVE Spec => [](EverybodyAlive => ResultsAreComplete)
<1>1. ASSUME Typed, SumsInv PROVE ResultsAreComplete
  <2> SUFFICES ASSUME NEW m \in server_results
               PROVE  /\ m.contents = group_contributions(group(m.from), m.query)
                      /\ m.count = Cardinality(m.contents)
    BY DEF ResultsAreComplete
  <2> DEFINE c == m.from
  <2>1. c \in has_sent /\ m = message_of(aggregation, c) /\ m.to = NoNode
    BY <1>1 DEF SumsInv, Flight
  <2>2. PICK T : Sums(T, aggregation, has_sent, last_round,
                      under_way(aggregation_net, future_aggregation))
    BY <1>1 DEF SumsInv
  <2> HIDE DEF c
  <2>3. /\ parent_of(c) = NoNode /\ m.contents = aggregation[c].contents
        /\ m.count = aggregation[c].count /\ m.query = aggregation[c].query
    <3>1. m.to = parent_of(c)
      BY <2>1 DEF message_of, aggregate_message, parent_of
    <3> QED
      BY <2>1, <3>1 DEF message_of, aggregate_message
  <2>4. aggregation[c].contents = group_contributions(group(c), 0)
    BY <2>1, <2>2, <2>3, RootHasAll
  <2>5. aggregation[c].query = 0
        /\ aggregation[c].count = Cardinality(aggregation[c].contents)
    BY <2>1, <2>2 DEF Sums, Part
  <2> QED
    BY <2>3, <2>4, <2>5 DEF c
<1>2. Init => (EverybodyAlive => SumsInv)
  BY InitSums
<1>3. Typed /\ (EverybodyAlive => RoundsInv /\ DeliveryInv) /\ AggregationInv
        /\ (EverybodyAlive => ProxiesAgree) /\ (EverybodyAlive => SumsInv) /\ [Next]_vars =>
          (EverybodyAlive => SumsInv)'
  BY AliveBefore, NextSums
<1>4. Typed /\ SumsInv => ResultsAreComplete
  BY <1>1
<1> QED
  BY <1>2, <1>3, <1>4, DeliveryInvariant, ProxiesAreOfOneMind, AggregationInvariant, PTL
  DEF Spec
=============================================================================
