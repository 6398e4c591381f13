-------------------------- MODULE Overlay_proofs --------------------------
(***************************************************************************)
(* Theorems about the arithmetic of the overlay, for systems of every      *)
(* size: the aggregation groups and their trees, the offsets of the rounds *)
(* and the gossip graph they make.                                         *)
(***************************************************************************)
EXTENDS Overlay, TLAPS, WellFoundedInduction

\* Division and remainder by a positive number, as the code's groups use them.
LEMMA DivMod ==
  ASSUME NEW a \in Nat, NEW b \in Nat \ {0}
  PROVE  /\ a \div b \in Nat /\ a % b \in 0 .. b - 1
         /\ a = (b * (a \div b)) + (a % b)
OBVIOUS

LEMMA MulMono ==
  ASSUME NEW a \in Int, NEW b \in Int, a <= b, NEW c \in Nat
  PROVE  c * a <= c * b
OBVIOUS

LEMMA MulSucc ==
  ASSUME NEW a \in Int, NEW c \in Int
  PROVE  c * (a + 1) = a * c + c /\ c * a = a * c /\ a * c \in Int
OBVIOUS

\* Which quotient a number has.
LEMMA DivIs ==
  ASSUME NEW a \in Nat, NEW b \in Nat \ {0}, NEW c \in Nat
  PROVE  a \div b = c <=> a >= c * b /\ a <= c * b + (b - 1)
<1> DEFINE d == a \div b
           r == a % b
<1>1. d \in Nat /\ r \in 0 .. b - 1 /\ a = (b * d) + r
  BY DivMod
<1> HIDE DEF d, r
<1>2. CASE d = c
  BY <1>1, <1>2 DEF d
<1>3. CASE d < c
  <2>1. d + 1 <= c
    BY <1>1, <1>3
  <2>2. b * (d + 1) <= b * c
    BY <1>1, <2>1
  <2>3. b * (d + 1) = (b * d) + b /\ b * c = c * b
    BY <1>1
  <2>4. b * d \in Int /\ c * b \in Int
    BY <1>1
  <2>5. a < c * b
    BY <1>1, <2>2, <2>3, <2>4
  <2> QED
    BY <1>1, <1>3, <2>4, <2>5 DEF d
<1>4. CASE d > c
  <2>1. c + 1 <= d
    BY <1>1, <1>4
  <2>2. b * (c + 1) <= b * d
    BY <1>1, <2>1
  <2>3. b * (c + 1) = (c * b) + b
    BY <1>1
  <2>4. b * d \in Int /\ c * b \in Int
    BY <1>1
  <2>5. a > c * b + (b - 1)
    BY <1>1, <2>2, <2>3, <2>4
  <2> QED
    BY <1>1, <1>4, <2>4, <2>5 DEF d
<1> QED
  BY <1>1, <1>2, <1>3, <1>4

LEMMA RemIs ==
  ASSUME NEW b \in Nat \ {0}, NEW c \in Nat, NEW r \in 0 .. b - 1
  PROVE  (b * c + r) % b = r
<1> DEFINE a == b * c + r
<1>1. a \in Nat /\ b * c = c * b /\ c * b \in Nat
  OBVIOUS
<1>2. a \div b = c
  BY <1>1, DivIs
<1> HIDE DEF a
<1>3. a = (b * (a \div b)) + (a % b) /\ a % b \in Int
  BY <1>1, DivMod
<1>4. a = b * c + (a % b)
  BY <1>2, <1>3
<1>5. a = b * c + r
  BY DEF a
<1> QED
  BY <1>1, <1>3, <1>4, <1>5 DEF a

\* The sizes of the groups and where they begin: group_size, the begin of the
\* last two groups and the size of the first of them.
LEMMA GroupSizes ==
  ASSUME NEW num_meters \in Nat \ {0}, NEW num_groups \in 1 .. num_meters,
         NEW size, size = standard_group_size(num_groups, num_meters),
         NEW share, share = second_last_group_size(num_groups, num_meters),
         NEW begin, begin = (num_groups - 2) * size
  PROVE  /\ size \in Nat /\ size >= 1 /\ share \in Nat /\ begin \in Int
         /\ size <= share /\ begin + share + size <= num_meters
         /\ num_groups = 1 => begin = 0 - num_meters /\ share = num_meters
         /\ num_groups # 1 => begin >= 0
         /\ begin = size * (num_groups - 2)
<1>1. size \in Nat /\ size >= 1 /\ num_groups * size <= num_meters
  <2>1. size = num_meters \div num_groups
    BY DEF standard_group_size
  <2>2. size \in Nat /\ num_meters = (num_groups * size) + (num_meters % num_groups)
        /\ num_meters % num_groups \in 0 .. num_groups - 1
    BY <2>1, DivMod
  <2>3. size # 0
    BY <2>2
  <2>4. num_groups * size \in Nat
    BY <2>2
  <2> QED
    BY <2>2, <2>3, <2>4
<1>2. share = (size + (num_meters - (num_groups - 1) * size)) \div 2
  BY DEF second_last_group_size
<1>3. (num_groups - 1) * size = (num_groups * size) - size
      /\ begin = (num_groups * size) - 2 * size
      /\ num_groups * size \in Nat
  BY <1>1
<1> DEFINE all == num_groups * size
<1>4. all \in Nat /\ all <= num_meters /\ begin = all - 2 * size
      /\ share = (size + (num_meters - (all - size))) \div 2
  BY <1>1, <1>2, <1>3
<1>5. num_groups = 1 => size = num_meters /\ all = num_meters
  <2>1. num_groups = 1 => size = num_meters \div 1
    BY DEF standard_group_size
  <2> QED
    BY <1>1, <2>1
<1>6. num_groups # 1 => all >= 2 * size
  <2>1. num_groups # 1 => num_groups >= 2
    OBVIOUS
  <2>2. num_groups >= 2 => num_groups * size >= 2 * size
    BY <1>1
  <2> QED
    BY <2>1, <2>2
<1>7. begin = size * (num_groups - 2)
  BY <1>1
<1> HIDE DEF all
<1>8. num_groups = 1 => begin = 0 - num_meters /\ share = num_meters
  BY <1>4, <1>5
<1>9. num_groups # 1 => begin >= 0
  BY <1>1, <1>4, <1>6
<1>10. share \in Nat /\ size <= share /\ begin + share + size <= num_meters /\ begin \in Int
  <2>1. share = (2 * size + (num_meters - all)) \div 2
    BY <1>1, <1>4
  <2> QED
    BY <1>1, <1>4, <2>1
<1> QED
  BY <1>1, <1>7, <1>8, <1>9, <1>10

\* A group is a range of at least a standard group's size, in the order of the
\* groups.
LEMMA GroupRange ==
  ASSUME NEW num_meters \in Nat \ {0}, NEW num_groups \in 1 .. num_meters,
         NEW group \in 0 .. num_groups - 1,
         NEW first, first = group_first_id(group, num_groups, num_meters),
         NEW size, size = group_size_of(group, num_groups, num_meters)
  PROVE  /\ first \in Nat /\ size \in Nat
         /\ size >= standard_group_size(num_groups, num_meters)
         /\ standard_group_size(num_groups, num_meters) \in Nat \ {0}
         /\ first + size <= num_meters
<1> DEFINE std   == standard_group_size(num_groups, num_meters)
           share == second_last_group_size(num_groups, num_meters)
           begin == (num_groups - 2) * std
<1>1. /\ std \in Nat /\ std >= 1 /\ share \in Nat /\ begin \in Int
      /\ std <= share /\ begin + share + std <= num_meters
      /\ num_groups = 1 => begin = 0 - num_meters /\ share = num_meters
      /\ num_groups # 1 => begin >= 0
      /\ begin = std * (num_groups - 2)
  BY GroupSizes
<1>2. first = IF group = num_groups - 1 THEN begin + share ELSE group * std
  BY DEF group_first_id
<1>3. size = CASE group = num_groups - 1 -> num_meters - first
               [] group = num_groups - 2 -> share
               [] OTHER -> std
  BY DEF group_size_of
<1>4. group < num_groups - 2 => group * std >= 0 /\ group * std + std <= begin
  <2> SUFFICES ASSUME group < num_groups - 2
               PROVE  group * std >= 0 /\ group * std + std <= begin
    OBVIOUS
  <2>1. group + 1 <= num_groups - 2
    OBVIOUS
  <2>2. std * (group + 1) <= std * (num_groups - 2)
    BY <1>1, <2>1
  <2>3. std * (group + 1) = group * std + std /\ group * std >= 0
    BY <1>1
  <2> QED
    BY <1>1, <2>2, <2>3
<1> HIDE DEF std, share, begin
<1>5. CASE group = num_groups - 1
  <2>1. first = begin + share /\ size = num_meters - first
    BY <1>2, <1>3, <1>5
  <2>2. begin + share >= 0 /\ begin + share \in Int
    BY <1>1
  <2>3. std = standard_group_size(num_groups, num_meters)
    BY DEF std
  <2>4. first \in Nat /\ size \in Nat /\ size >= std /\ first + size <= num_meters
    BY <1>1, <2>1, <2>2
  <2> QED
    BY <1>1, <2>3, <2>4
<1>6. CASE group = num_groups - 2
  <2>1. first = begin /\ size = share /\ num_groups # 1
    BY <1>2, <1>3, <1>6 DEF begin
  <2>2. std <= share /\ std \in Nat \ {0} /\ begin + share <= num_meters /\ begin >= 0
    BY <1>1, <2>1
  <2>3. std = standard_group_size(num_groups, num_meters)
    BY DEF std
  <2>4. first \in Nat /\ size \in Nat /\ size >= std /\ first + size <= num_meters
    BY <1>1, <2>1, <2>2
  <2> QED
    BY <2>2, <2>3, <2>4
<1>7. CASE group < num_groups - 2
  <2>1. first = group * std /\ size = std /\ group * std \in Int
    BY <1>1, <1>2, <1>3, <1>7
  <2>2. num_groups # 1
    BY <1>7
  <2> DEFINE f == group * std
  <2> HIDE DEF f
  <2>3. first = f /\ f \in Int /\ f >= 0 /\ f + std <= begin
    BY <1>4, <1>7, <2>1 DEF f
  <2> QED
    BY <1>1, <2>1, <2>2, <2>3 DEF std
<1> QED
  BY <1>5, <1>6, <1>7

\* The members of a group are the nodes of its range: aggregation_group_for
\* divides, group_first_id and the sizes add up.
LEMMA GroupMembers ==
  ASSUME NEW num_meters \in Nat \ {0}, NEW num_groups \in 1 .. num_meters,
         NEW node_id \in 0 .. num_meters - 1
  PROVE  /\ aggregation_group_for(node_id, num_groups, num_meters) \in 0 .. num_groups - 1
         /\ \A group \in 0 .. num_groups - 1 :
              aggregation_group_for(node_id, num_groups, num_meters) = group <=>
                /\ group_first_id(group, num_groups, num_meters) <= node_id
                /\ node_id < group_first_id(group, num_groups, num_meters)
                               + group_size_of(group, num_groups, num_meters)
<1> DEFINE std   == standard_group_size(num_groups, num_meters)
           share == second_last_group_size(num_groups, num_meters)
           begin == (num_groups - 2) * std
           q     == node_id \div std
           mine  == aggregation_group_for(node_id, num_groups, num_meters)
           first(g) == group_first_id(g, num_groups, num_meters)
           size(g)  == group_size_of(g, num_groups, num_meters)
<1>1. /\ std \in Nat /\ std >= 1 /\ share \in Nat /\ begin \in Int
      /\ std <= share /\ begin + share + std <= num_meters
      /\ num_groups = 1 => begin = 0 - num_meters /\ share = num_meters
      /\ num_groups # 1 => begin >= 0
      /\ begin = std * (num_groups - 2)
  BY GroupSizes
<1>2. \A g \in 0 .. num_groups - 1 :
        /\ first(g) = IF g = num_groups - 1 THEN begin + share ELSE g * std
        /\ size(g) = CASE g = num_groups - 1 -> num_meters - first(g)
                       [] g = num_groups - 2 -> share
                       [] OTHER -> std
  BY DEF group_first_id, group_size_of
<1>3. mine = IF q < num_groups - 2 THEN q
             ELSE IF node_id >= begin /\ node_id < begin + share
               THEN num_groups - 2 ELSE num_groups - 1
  BY <1>1 DEF aggregation_group_for
<1>4. q \in Nat /\ \A c \in Nat : q = c <=> node_id >= c * std /\ node_id <= c * std + (std - 1)
  <2>1. std \in Nat \ {0} /\ node_id \in Nat
    BY <1>1
  <2> HIDE DEF std
  <2> QED
    BY <2>1, DivIs, DivMod
<1> HIDE DEF std, share, begin, q, mine, first, size
<1>5. q < num_groups - 2 <=> node_id < begin
  <2>1. q * std \in Int /\ node_id >= q * std /\ node_id <= q * std + (std - 1)
    BY <1>1, <1>4, MulSucc
  <2>2. ASSUME q < num_groups - 2 PROVE node_id < begin
    <3>1. q + 1 <= num_groups - 2 /\ q + 1 \in Int /\ num_groups - 2 \in Int
      BY <1>4, <2>2
    <3>2. std * (q + 1) <= std * (num_groups - 2)
      BY <1>1, <3>1, MulMono
    <3>3. std * (q + 1) = q * std + std
      BY <1>1, <1>4, MulSucc
    <3> QED
      BY <1>1, <2>1, <3>2, <3>3
  <2>3. ASSUME q >= num_groups - 2 PROVE node_id >= begin
    <3>1. num_groups - 2 <= q /\ num_groups - 2 \in Int
      BY <2>3
    <3>2. std * (num_groups - 2) <= std * q
      BY <1>1, <1>4, <3>1, MulMono
    <3>3. std * q = q * std
      BY <1>1, <1>4, MulSucc
    <3> QED
      BY <1>1, <2>1, <3>2, <3>3
  <2> QED
    BY <1>1, <1>4, <2>2, <2>3
<1>6. num_groups = 1 => mine = 0
  BY <1>1, <1>3, <1>5
<1>7. mine \in 0 .. num_groups - 1
  BY <1>1, <1>3, <1>4, <1>5
<1>8. ASSUME NEW g \in 0 .. num_groups - 1
      PROVE  mine = g <=> first(g) <= node_id /\ node_id < first(g) + size(g)
  <2>1. CASE g = num_groups - 1
    <3>1. first(g) = begin + share /\ size(g) = num_meters - first(g)
      BY <1>2, <2>1
    <3> QED
      BY <1>1, <1>3, <1>4, <1>5, <1>6, <2>1, <3>1
  <2>2. CASE g = num_groups - 2
    <3>1. first(g) = begin /\ size(g) = share
      BY <1>2, <2>2 DEF begin
    <3> QED
      BY <1>1, <1>3, <1>4, <1>5, <2>2, <3>1
  <2>3. CASE g < num_groups - 2
    <3> DEFINE f == g * std
    <3>1. first(g) = f /\ size(g) = std /\ f \in Int
      BY <1>1, <1>2, <2>3
    <3>2. q = g <=> node_id >= f /\ node_id <= f + (std - 1)
      BY <1>4
    <3> HIDE DEF f
    <3>3. mine = g <=> q = g
      BY <1>3, <1>4, <1>5, <2>3
    <3> QED
      BY <1>1, <3>1, <3>2, <3>3
  <2> QED
    BY <2>1, <2>2, <2>3
<1> QED
  BY <1>7, <1>8 DEF mine, first, size

-----------------------------------------------------------------------------
(* The tree in a group *)

\* A node is in the range of its group.
LEMMA OwnGroup ==
  ASSUME NEW num_meters \in Nat \ {0}, NEW num_groups \in 1 .. num_meters,
         NEW node_id \in 0 .. num_meters - 1,
         NEW group, group = aggregation_group_for(node_id, num_groups, num_meters),
         NEW first, first = group_first_id(group, num_groups, num_meters),
         NEW size, size = group_size_of(group, num_groups, num_meters)
  PROVE  /\ group \in 0 .. num_groups - 1 /\ first \in Nat /\ size \in Nat
         /\ first <= node_id /\ node_id < first + size /\ first + size <= num_meters
<1>1. group \in 0 .. num_groups - 1
  BY GroupMembers
<1>2. first \in Nat /\ size \in Nat /\ first + size <= num_meters
  BY <1>1, GroupRange
<1>3. first <= node_id /\ node_id < first + size
  BY <1>1, GroupMembers
<1> QED
  BY <1>1, <1>2, <1>3

\* Who is in the range of a group is its member.
LEMMA InGroup ==
  ASSUME NEW num_meters \in Nat \ {0}, NEW num_groups \in 1 .. num_meters,
         NEW group \in 0 .. num_groups - 1,
         NEW first, first = group_first_id(group, num_groups, num_meters),
         NEW size, size = group_size_of(group, num_groups, num_meters),
         NEW node_id \in Int, first <= node_id, node_id < first + size
  PROVE  /\ node_id \in 0 .. num_meters - 1
         /\ aggregation_group_for(node_id, num_groups, num_meters) = group
<1>1. first \in Nat /\ size \in Nat /\ first + size <= num_meters
  BY GroupRange
<1>2. node_id \in 0 .. num_meters - 1
  BY <1>1
<1> QED
  BY <1>2, GroupMembers

\* The parent is of the same group, and only the first of a group has none.
LEMMA ParentInGroup ==
  ASSUME NEW num_meters \in Nat \ {0}, NEW num_groups \in 1 .. num_meters,
         NEW node_id \in 0 .. num_meters - 1,
         NEW group, group = aggregation_group_for(node_id, num_groups, num_meters),
         NEW parent, parent = aggregation_tree_parent(node_id, num_groups, num_meters)
  PROVE  IF node_id = group_first_id(group, num_groups, num_meters)
         THEN parent = NoNode
         ELSE /\ parent \in 0 .. num_meters - 1 /\ parent < node_id
              /\ aggregation_group_for(parent, num_groups, num_meters) = group
<1> DEFINE first == group_first_id(group, num_groups, num_meters)
           size  == group_size_of(group, num_groups, num_meters)
<1>1. /\ group \in 0 .. num_groups - 1 /\ first \in Nat /\ size \in Nat
      /\ first <= node_id /\ node_id < first + size
      /\ parent = IF node_id = first THEN NoNode
                  ELSE (node_id - first - 1) \div 2 + first
  BY OwnGroup DEF aggregation_tree_parent
<1>2. CASE node_id = first
  BY <1>1, <1>2
<1>3. CASE node_id # first
  <2> HIDE DEF first, size
  <2>1. parent \in Int /\ first <= parent /\ parent < node_id /\ parent < first + size
    BY <1>1, <1>3
  <2>2. /\ parent \in 0 .. num_meters - 1
        /\ aggregation_group_for(parent, num_groups, num_meters) = group
    BY <1>1, <2>1, InGroup DEF first, size
  <2> QED
    BY <1>3, <2>1, <2>2 DEF first
<1> QED
  BY <1>2, <1>3

\* aggregation_tree_parent returns another node, or none.
THEOREM ParentIsNode ==
  ASSUME NEW num_meters \in Nat \ {0}, NEW num_groups \in 1 .. num_meters,
         NEW node_id \in 0 .. num_meters - 1
  PROVE  LET parent == aggregation_tree_parent(node_id, num_groups, num_meters)
         IN parent = NoNode \/ parent \in 0 .. node_id - 1
BY ParentInGroup

\* The first of a group is in it.
LEMMA FirstIsMember ==
  ASSUME NEW num_meters \in Nat \ {0}, NEW num_groups \in 1 .. num_meters,
         NEW group \in 0 .. num_groups - 1,
         NEW first, first = group_first_id(group, num_groups, num_meters)
  PROVE  /\ first \in 0 .. num_meters - 1
         /\ aggregation_group_for(first, num_groups, num_meters) = group
<1> DEFINE size == group_size_of(group, num_groups, num_meters)
           std  == standard_group_size(num_groups, num_meters)
<1>1. first \in Nat /\ size \in Nat /\ size >= std /\ std \in Nat \ {0}
  BY GroupRange
<1>2. first < first + size
  BY <1>1
<1> QED
  BY <1>1, <1>2, InGroup

\* aggregation_tree_children returns the nodes whose parent the node is.
LEMMA ChildrenOf ==
  ASSUME NEW num_meters \in Nat \ {0}, NEW num_groups \in 1 .. num_meters,
         NEW node_id \in 0 .. num_meters - 1,
         NEW c, c = aggregation_tree_children(node_id, num_groups, num_meters)
  PROVE  /\ c[1] # c[2] \/ c[1] = NoNode
         /\ {c[1], c[2]} \ {NoNode} =
              {m \in 0 .. num_meters - 1 :
                 aggregation_tree_parent(m, num_groups, num_meters) = node_id}
<1> DEFINE group    == aggregation_group_for(node_id, num_groups, num_meters)
           first    == group_first_id(group, num_groups, num_meters)
           size     == group_size_of(group, num_groups, num_meters)
           right    == (node_id - first + 1) * 2
           left     == right - 1
           child(r) == IF r >= size THEN NoNode ELSE r + first
           parent(m) == aggregation_tree_parent(m, num_groups, num_meters)
<1>1. c[1] = child(left) /\ c[2] = child(right)
  BY DEF aggregation_tree_children
<1>2. /\ group \in 0 .. num_groups - 1 /\ first \in Nat /\ size \in Nat
      /\ first <= node_id /\ node_id < first + size /\ first + size <= num_meters
  BY OwnGroup
<1>3. left \in Nat /\ right \in Nat /\ left >= 1 /\ right = left + 1
  BY <1>2
<1>4. ASSUME NEW r \in {left, right}, r < size
      PROVE  child(r) \in 0 .. num_meters - 1 /\ parent(child(r)) = node_id
  <2> DEFINE m == r + first
  <2> HIDE DEF group, first, size
  <2>1. child(r) = m /\ m \in Int /\ first <= m /\ m < first + size /\ m # first
    BY <1>2, <1>3, <1>4
  <2>2. m \in 0 .. num_meters - 1 /\ aggregation_group_for(m, num_groups, num_meters) = group
    <3> HIDE DEF m
    <3> QED
      BY <1>2, <2>1, InGroup DEF first, size
  <2>3. parent(m) = IF m = first THEN NoNode ELSE (m - first - 1) \div 2 + first
    <3> HIDE DEF m
    <3> QED
      BY <2>2 DEF first, aggregation_tree_parent
  <2>4. (m - first - 1) \div 2 + first = node_id
    BY <1>2, <1>3
  <2> QED
    BY <2>1, <2>2, <2>3, <2>4
<1>5. ASSUME NEW m \in 0 .. num_meters - 1, parent(m) = node_id
      PROVE  m \in {child(left), child(right)}
  <2>1. aggregation_group_for(m, num_groups, num_meters) = group
    <3>1. node_id # NoNode
      BY DEF NoNode
    <3> QED
      BY <1>5, <3>1, ParentInGroup
  <2>2. /\ first <= m /\ m < first + size
        /\ parent(m) = IF m = first THEN NoNode ELSE (m - first - 1) \div 2 + first
    <3>1. parent(m) = IF m = first THEN NoNode ELSE (m - first - 1) \div 2 + first
      BY <2>1 DEF aggregation_tree_parent
    <3>2. first <= m /\ m < first + size
      <4> HIDE DEF first, size
      <4> QED
        BY <1>2, <2>1, GroupMembers DEF first, size
    <3> QED
      BY <3>1, <3>2
  <2> HIDE DEF group, first, size, parent
  <2>3. m # first /\ (m - first - 1) \div 2 + first = node_id
    BY <1>5, <2>2 DEF NoNode
  <2>4. m - first = left \/ m - first = right
    BY <1>2, <2>2, <2>3
  <2>5. m - first < size
    BY <1>2, <2>2
  <2>6. CASE m - first = left
    BY <1>2, <1>3, <2>5, <2>6
  <2>7. CASE m - first = right
    BY <1>2, <1>3, <2>5, <2>7
  <2> QED
    BY <2>4, <2>6, <2>7
<1>6. \A r \in {left, right} : child(r) # NoNode => r < size
  BY <1>2, <1>3
<1>7. child(left) # child(right) \/ child(left) = NoNode
  BY <1>2, <1>3
<1>8. \A m \in 0 .. num_meters - 1 : m # NoNode
  BY DEF NoNode
<1> HIDE DEF child, left, right, parent
<1> QED
  BY <1>1, <1>4, <1>5, <1>6, <1>7, <1>8 DEF parent

-----------------------------------------------------------------------------
(* Loops *)

\* Induction over the numbers, for a set of them.
LEMMA Induction ==
  ASSUME NEW S \in SUBSET Nat, \A n \in Nat : (\A m \in 0 .. n - 1 : m \in S) => n \in S
  PROVE  S = Nat
<1> DEFINE T == Nat \ S
           R == OpToRel(<, Nat)
<1> SUFFICES ASSUME T # {} PROVE FALSE
  OBVIOUS
<1>1. PICK x \in T : \A y \in T : <<y, x>> \notin R
  <2>1. T \subseteq Nat
    OBVIOUS
  <2> HIDE DEF T, R
  <2> QED
    BY <2>1, NatLessThanWellFounded, WFMin DEF R
<1>2. \A m \in 0 .. x - 1 : m \in S
  <2> SUFFICES ASSUME NEW m \in 0 .. x - 1, m \notin S PROVE FALSE
    OBVIOUS
  <2>1. m \in T /\ m < x
    OBVIOUS
  <2>2. <<m, x>> \in R
    BY <2>1 DEF OpToRel
  <2> QED
    BY <1>1, <2>1, <2>2
<1> QED
  BY <1>2

\* A loop that counts down: `next' is its body, `left' what it counts down and
\* `out' its result.
Loop(f, D, left, next, out) ==
  f = [x \in D |-> IF left[x] = 0 THEN out[x] ELSE f[next[x]]]

CountsDown(D, left, next) ==
  /\ left \in [D -> Nat] /\ next \in [D -> D]
  /\ \A x \in D : left[x] # 0 => left[next[x]] < left[x]

\* The body keeps a loop in the states of I, and from there it ends in R.
StaysIn(I, R, left, next, out) ==
  \A x \in I : IF left[x] = 0 THEN out[x] \in R ELSE next[x] \in I

\* What is true of a loop's state from iteration to iteration gives its result.
LEMMA LoopResult ==
  ASSUME NEW D, NEW left, NEW next, NEW out, NEW f,
         CountsDown(D, left, next), Loop(f, D, left, next, out),
         NEW I \in SUBSET D, NEW R, StaysIn(I, R, left, next, out)
  PROVE  \A x \in I : f[x] \in R
<1> DEFINE S == {k \in Nat : \A x \in I : left[x] = k => f[x] \in R}
<1>1. ASSUME NEW k \in Nat, \A j \in 0 .. k - 1 : j \in S PROVE k \in S
  <2> SUFFICES ASSUME NEW x \in I, left[x] = k PROVE f[x] \in R
    OBVIOUS
  <2>1. CASE k = 0
    BY <2>1 DEF Loop, StaysIn
  <2>2. CASE k # 0
    <3> DEFINE j == left[next[x]]
    <3>1. next[x] \in I /\ f[x] = f[next[x]]
      BY <2>2 DEF Loop, StaysIn
    <3>2. j \in 0 .. k - 1
      BY <2>2 DEF CountsDown
    <3>3. j \in S
      BY <1>1, <3>2
    <3> QED
      BY <3>1, <3>3
  <2> QED
    BY <2>1, <2>2
<1>2. S = Nat
  <2>1. S \in SUBSET Nat
    OBVIOUS
  <2> HIDE DEF S
  <2> QED
    BY <1>1, <2>1, Induction
<1>3. \A x \in I : left[x] \in S
  BY <1>2 DEF CountsDown
<1> QED
  BY <1>3

\* There is a function that such a loop computes.
LEMMA LoopExists ==
  ASSUME NEW D, NEW left, NEW next, NEW out, CountsDown(D, left, next)
  PROVE  \E f : Loop(f, D, left, next, out)
<1> DEFINE below(k) == {x \in D : left[x] <= k}
           part(g, k) == g = [x \in below(k) |-> IF left[x] = 0 THEN out[x] ELSE g[next[x]]]
<1>1. ASSUME NEW k \in Nat, NEW j \in Nat, NEW g, NEW h, part(g, k), part(h, j),
             NEW x \in below(k) \cap below(j)
      PROVE  g[x] = h[x]
  <2> DEFINE S == {i \in Nat : \A y \in below(k) \cap below(j) : left[y] = i => g[y] = h[y]}
  <2>1. ASSUME NEW i \in Nat, \A l \in 0 .. i - 1 : l \in S PROVE i \in S
    <3> SUFFICES ASSUME NEW y \in below(k) \cap below(j), left[y] = i PROVE g[y] = h[y]
      OBVIOUS
    <3>1. CASE i = 0
      BY <1>1, <3>1
    <3>2. CASE i # 0
      <4>1. next[y] \in D /\ left[next[y]] \in Nat /\ left[next[y]] < i
        BY <3>2 DEF CountsDown
      <4>2. next[y] \in below(k) \cap below(j)
        BY <4>1
      <4>3. left[next[y]] \in 0 .. i - 1
        BY <4>1
      <4>4. g[next[y]] = h[next[y]]
        BY <2>1, <4>2, <4>3
      <4>5. g[y] = g[next[y]] /\ h[y] = h[next[y]]
        BY <1>1, <3>2
      <4> QED
        BY <4>4, <4>5
    <3> QED
      BY <3>1, <3>2
  <2>2. S = Nat
    <3>1. S \in SUBSET Nat
      OBVIOUS
    <3> HIDE DEF S
    <3> QED
      BY <2>1, <3>1, Induction
  <2>3. left[x] \in S
    BY <2>2 DEF CountsDown
  <2> QED
    BY <2>3
<1> DEFINE S == {k \in Nat : \E g : part(g, k)}
<1>2. ASSUME NEW k \in Nat, \A j \in 0 .. k - 1 : j \in S PROVE k \in S
  <2> DEFINE old == CHOOSE g : part(g, k - 1)
             new == [x \in below(k) |-> IF left[x] = 0 THEN out[x]
                                        ELSE old[next[x]]]
  <2>1. ASSUME NEW x \in below(k), left[x] # 0 PROVE old[next[x]] = new[next[x]]
    <3>1. next[x] \in D /\ left[next[x]] \in Nat /\ left[next[x]] < left[x]
          /\ left[x] \in Nat /\ left[x] <= k
      BY <2>1 DEF CountsDown
    <3>2. k - 1 \in 0 .. k - 1 /\ next[x] \in below(k - 1) /\ next[x] \in below(k)
      BY <3>1
    <3>3. \E g : part(g, k - 1)
      BY <1>2, <3>2
    <3>4. part(old, k - 1)
      <4> HIDE DEF part
      <4> QED
        BY <3>3
    <3> DEFINE y == next[x]
    <3>5. old[y] = IF left[y] = 0 THEN out[y] ELSE old[next[y]]
      <4> HIDE DEF old
      <4> QED
        BY <3>2, <3>4
    <3>6. new[y] = IF left[y] = 0 THEN out[y] ELSE old[next[y]]
      <4> HIDE DEF old, below
      <4> QED
        BY <3>2
    <3> HIDE DEF new, old
    <3> QED
      BY <3>5, <3>6
  <2>2. part(new, k)
    <3>1. \A x \in below(k) :
            new[x] = IF left[x] = 0 THEN out[x] ELSE new[next[x]]
      <4> SUFFICES ASSUME NEW x \in below(k)
                   PROVE  new[x] = IF left[x] = 0 THEN out[x] ELSE new[next[x]]
        OBVIOUS
      <4>1. new[x] = IF left[x] = 0 THEN out[x] ELSE old[next[x]]
        <5> HIDE DEF old, below
        <5> QED
          OBVIOUS
      <4> HIDE DEF new, old, below
      <4> QED
        BY <2>1, <4>1
    <3>2. new = [x \in below(k) |-> new[x]]
      <4> HIDE DEF old, below
      <4> QED
        OBVIOUS
    <3> HIDE DEF new, below
    <3> QED
      BY <3>1, <3>2
  <2>3. k \in Nat /\ \E g : part(g, k)
    <3> HIDE DEF new, part
    <3> QED
      BY <2>2
  <2> HIDE DEF part
  <2> QED
    BY <2>3
<1>3. S = Nat
  <2>1. S \in SUBSET Nat
    OBVIOUS
  <2> HIDE DEF S
  <2> QED
    BY <1>2, <2>1, Induction
<1> DEFINE G(k) == CHOOSE g : part(g, k)
           f == [x \in D |-> G(left[x])[x]]
<1>4. \A k \in Nat : part(G(k), k)
  <2> HIDE DEF part
  <2> QED
    BY <1>3
<1> HIDE DEF G
<1>5. ASSUME NEW x \in D
      PROVE  f[x] = IF left[x] = 0 THEN out[x] ELSE f[next[x]]
  <2> DEFINE k == left[x]
             g == G(k)
  <2>1. k \in Nat /\ x \in below(k)
    BY DEF CountsDown
  <2>2. part(g, k)
    BY <1>4, <2>1
  <2>3. CASE k = 0
    BY <2>1, <2>2, <2>3
  <2>4. CASE k # 0
    <3> DEFINE y == next[x]
               j == left[y]
               h == G(j)
    <3>1. y \in D /\ j \in Nat /\ j < k
      BY <2>4 DEF CountsDown
    <3>2. y \in below(k) \cap below(j)
      BY <2>1, <3>1
    <3>3. part(h, j)
      BY <1>4, <3>1
    <3>4. g[y] = h[y]
      <4> HIDE DEF part, below, g, h, y, k, j
      <4> QED
        BY <1>1, <2>1, <2>2, <3>1, <3>2, <3>3
    <3>5. g[x] = g[y]
      BY <2>1, <2>2, <2>4
    <3> QED
      BY <2>4, <3>1, <3>4, <3>5
  <2> QED
    BY <2>3, <2>4
<1>6. Loop(f, D, left, next, out)
  <2>1. f = [x \in D |-> f[x]]
    OBVIOUS
  <2> HIDE DEF f
  <2> QED
    BY <1>5, <2>1 DEF Loop
<1> QED
  BY <1>6

-----------------------------------------------------------------------------
(* The offsets of the rounds *)

\* Numbers that have an inverse modulo n: none of them is 0, and their products
\* are of the same kind.
Invertible(x, n) == \E y, k \in Int : x * y = 1 + k * n

LEMMA InvertibleNotZero ==
  ASSUME NEW n \in Nat, n > 1, NEW x \in Nat, Invertible(x, n)
  PROVE  x % n \in 1 .. n - 1
<1>1. PICK y \in Int, k \in Int : x * y = 1 + k * n
  BY DEF Invertible
<1> DEFINE d == x \div n
           r == x % n
<1>2. d \in Nat /\ r \in 0 .. n - 1 /\ x = (n * d) + r
  BY DivMod
<1> HIDE DEF d, r
<1>3. ASSUME r = 0 PROVE FALSE
  <2> DEFINE m == d * y - k
  <2>1. m \in Int /\ n * m = 1
    <3>1. x = n * d
      BY <1>2, <1>3
    <3>2. n * (d * y) = 1 + k * n
      BY <1>1, <1>2, <3>1
    <3>3. n * (d * y - k) = n * (d * y) - k * n
      BY <1>1, <1>2
    <3>4. n * (d * y) \in Int /\ k * n \in Int
      BY <1>1, <1>2
    <3> QED
      BY <1>1, <1>2, <3>2, <3>3, <3>4
  <2> HIDE DEF m
  <2>2. CASE m <= 0
    <3>1. n * m <= n * 0
      BY <2>1, <2>2, MulMono
    <3> QED
      BY <2>1, <3>1
  <2>3. CASE m >= 1
    <3>1. n * 1 <= n * m
      BY <2>1, <2>3, MulMono
    <3> QED
      BY <2>1, <3>1
  <2> QED
    BY <2>1, <2>2, <2>3
<1> QED
  BY <1>2, <1>3 DEF r

LEMMA InvertibleRemainder ==
  ASSUME NEW n \in Nat, n > 1, NEW x \in Nat, Invertible(x, n)
  PROVE  Invertible(x % n, n)
<1>1. PICK y \in Int, k \in Int : x * y = 1 + k * n
  BY DEF Invertible
<1> DEFINE d == x \div n
           r == x % n
<1>2. d \in Nat /\ r \in 0 .. n - 1 /\ x = (n * d) + r
  BY DivMod
<1> HIDE DEF d, r
<1>3. r * y = x * y - (n * d) * y
  BY <1>1, <1>2
<1>4. (k - d * y) * n = k * n - (n * d) * y
  BY <1>1, <1>2
<1>5. k * n \in Int /\ (n * d) * y \in Int
  BY <1>1, <1>2
<1> DEFINE e == (n * d) * y
           f == k * n
<1>6. r * y = 1 + (k - d * y) * n
  <2>1. r * y = (1 + f) - e /\ (k - d * y) * n = f - e /\ f \in Int /\ e \in Int
    BY <1>1, <1>3, <1>4, <1>5
  <2> HIDE DEF e, f
  <2> QED
    BY <2>1
<1>7. k - d * y \in Int
  BY <1>1, <1>2
<1> QED
  BY <1>1, <1>6, <1>7 DEF Invertible, r

LEMMA InvertibleProduct ==
  ASSUME NEW n \in Nat, NEW a \in Nat, NEW b \in Nat, Invertible(a, n), Invertible(b, n)
  PROVE  Invertible(a * b, n)
<1>1. PICK y \in Int, k \in Int : a * y = 1 + k * n
  BY DEF Invertible
<1>2. PICK z \in Int, l \in Int : b * z = 1 + l * n
  BY DEF Invertible
<1>3. (a * b) * (y * z) = (a * y) * (b * z)
  BY <1>1, <1>2
<1>4. (1 + k * n) * (1 + l * n) = 1 + ((k + l) + (k * l) * n) * n
  BY <1>1, <1>2
<1>5. y * z \in Int /\ (k + l) + (k * l) * n \in Int
  BY <1>1, <1>2
<1> QED
  BY <1>1, <1>2, <1>3, <1>4, <1>5 DEF Invertible

LEMMA TwoIsInvertible ==
  ASSUME NEW n \in Nat, n % 2 = 1 PROVE Invertible(2, n)
<1>1. (n + 1) \div 2 \in Int /\ 2 * ((n + 1) \div 2) = 1 + n
  OBVIOUS
<1>2. 1 + n = 1 + 1 * n
  OBVIOUS
<1> QED
  BY <1>1, <1>2 DEF Invertible

-----------------------------------------------------------------------------
(* The loop of mod_pow *)

PowState == [result : Nat, num : Nat, pow : Nat]
pow_state(result, num, pow) == [result |-> result, num |-> num, pow |-> pow]

pow_left == [s \in PowState |-> s.pow]
pow_out  == [s \in PowState |-> s.result]
pow_next(mod) ==
  [s \in PowState |->
     pow_state(IF s.pow % 2 = 1 THEN (s.result * s.num) % mod ELSE s.result,
               (s.num * s.num) % mod, s.pow \div 2)]
pow_loop(mod) == CHOOSE f : Loop(f, PowState, pow_left, pow_next(mod), pow_out)

LEMMA ModPowIsLoop ==
  ASSUME NEW num, NEW pow, NEW mod
  PROVE  mod_pow(num, pow, mod) = pow_loop(mod)[pow_state(1, num, pow)]
<1>1. ASSUME NEW f
      PROVE  [s \in PowState |-> IF pow_left[s] = 0 THEN pow_out[s] ELSE f[pow_next(mod)[s]]]
               = [s \in [result : Nat, num : Nat, pow : Nat] |->
                    IF s.pow = 0 THEN s.result
                    ELSE f[[result |-> IF s.pow % 2 = 1 THEN (s.result * s.num) % mod
                                                 ELSE s.result,
                            num    |-> (s.num * s.num) % mod,
                            pow    |-> s.pow \div 2]]]
  BY DEF PowState, pow_left, pow_out, pow_next, pow_state
<1>2. mod_pow(num, pow, mod) =
        (CHOOSE f : f = [s \in [result : Nat, num : Nat, pow : Nat] |->
                    IF s.pow = 0 THEN s.result
                    ELSE f[[result |-> IF s.pow % 2 = 1 THEN (s.result * s.num) % mod
                                                 ELSE s.result,
                            num    |-> (s.num * s.num) % mod,
                            pow    |-> s.pow \div 2]]])[pow_state(1, num, pow)]
  BY Zenon DEF mod_pow, pow_state
<1>3. pow_loop(mod) =
        CHOOSE f : f = [s \in [result : Nat, num : Nat, pow : Nat] |->
                    IF s.pow = 0 THEN s.result
                    ELSE f[[result |-> IF s.pow % 2 = 1 THEN (s.result * s.num) % mod
                                                 ELSE s.result,
                            num    |-> (s.num * s.num) % mod,
                            pow    |-> s.pow \div 2]]]
  BY <1>1, Zenon DEF pow_loop, Loop
<1> QED
  BY <1>2, <1>3, Zenon

LEMMA PowLoop ==
  ASSUME NEW mod \in Nat, mod > 0
  PROVE  /\ CountsDown(PowState, pow_left, pow_next(mod))
         /\ Loop(pow_loop(mod), PowState, pow_left, pow_next(mod), pow_out)
<1> DEFINE next == pow_next(mod)
<1>1. CountsDown(PowState, pow_left, next)
  <2>1. \A s \in PowState : s.pow \in Nat /\ s.num \in Nat /\ s.result \in Nat
    BY DEF PowState
  <2>2. \A x \in Nat : x % mod \in Nat /\ x \div 2 \in Nat /\ (x # 0 => x \div 2 < x)
    OBVIOUS
  <2>3. \A s \in PowState : s.result * s.num \in Nat /\ s.num * s.num \in Nat
    BY <2>1
  <2>4. \A s \in PowState : next[s] \in PowState /\ next[s].pow = s.pow \div 2
    BY <2>1, <2>2, <2>3 DEF PowState, pow_next, pow_state
  <2>5. pow_left \in [PowState -> Nat] /\ next \in [PowState -> PowState]
    <3>1. next = [s \in PowState |-> next[s]]
      BY DEF pow_next
    <3> HIDE DEF next
    <3> QED
      BY <2>1, <2>4, <3>1 DEF pow_left
  <2>6. \A x \in PowState : pow_left[x] # 0 => pow_left[next[x]] < pow_left[x]
    <3> HIDE DEF next
    <3> QED
      BY <2>1, <2>2, <2>4 DEF pow_left
  <2> QED
    BY <2>5, <2>6 DEF CountsDown
<1> QED
  BY <1>1, LoopExists, Zenon DEF pow_loop

\* Modulo n the powers of a number that has an inverse have one, too.
LEMMA PowerIsInvertible ==
  ASSUME NEW mod \in Nat, mod > 1, NEW num \in Nat, Invertible(num, mod), NEW pow \in Nat
  PROVE  mod_pow(num, pow, mod) \in {x \in 1 .. mod - 1 : Invertible(x, mod)}
<1> DEFINE loop == pow_loop(mod)
           next == pow_next(mod)
           R    == {x \in 1 .. mod - 1 : Invertible(x, mod)}
           I    == {s \in PowState : s.result \in R /\ Invertible(s.num, mod)}
           s0   == pow_state(1, num, pow)
<1>1. mod_pow(num, pow, mod) = loop[s0]
  BY ModPowIsLoop
<1>2. CountsDown(PowState, pow_left, next) /\ Loop(loop, PowState, pow_left, next, pow_out)
  BY PowLoop
<1>4. \A x \in Nat : Invertible(x, mod) => x % mod \in R
  BY InvertibleNotZero, InvertibleRemainder
<1>5. ASSUME NEW s \in I
      PROVE  IF pow_left[s] = 0 THEN pow_out[s] \in R ELSE next[s] \in I
  <2>1. /\ s.result \in Nat /\ s.num \in Nat /\ s.pow \in Nat
        /\ Invertible(s.result, mod) /\ Invertible(s.num, mod) /\ s.result \in R
        /\ s \in PowState
    BY DEF PowState
  <2>2. (s.num * s.num) % mod \in R /\ (s.result * s.num) % mod \in R
    <3> HIDE DEF R
    <3>1. s.num * s.num \in Nat /\ s.result * s.num \in Nat
      BY <2>1
    <3>2. Invertible(s.num * s.num, mod) /\ Invertible(s.result * s.num, mod)
      BY <2>1, InvertibleProduct
    <3> QED
      BY <1>4, <3>1, <3>2
  <2>3. R \subseteq Nat /\ \A x \in R : Invertible(x, mod)
    OBVIOUS
  <2>4. s.pow \div 2 \in Nat
    BY <2>1
  <2> HIDE DEF R
  <2>5. next[s] \in I
    BY <2>1, <2>2, <2>3, <2>4 DEF pow_next, pow_state, PowState
  <2> QED
    BY <2>1, <2>5 DEF pow_left, pow_out
<1>6. s0 \in I
  <2>1. Invertible(1, mod)
    <3>1. 1 * 1 = 1 + 0 * mod
      OBVIOUS
    <3> QED
      BY <3>1 DEF Invertible
  <2>2. 1 \in R
    BY <2>1
  <2> QED
    BY <2>2 DEF pow_state, PowState
<1>7. loop[s0] \in R
  <2>1. I \in SUBSET PowState
    OBVIOUS
  <2> HIDE DEF next, I, R, loop, s0
  <2> DEFINE left == pow_left
             out == pow_out
  <2> HIDE DEF left, out
  <2>2. StaysIn(I, R, left, next, out)
    BY <1>5 DEF StaysIn, left, out
  <2>3. CountsDown(PowState, left, next) /\ Loop(loop, PowState, left, next, out)
    BY <1>2 DEF left, out
  <2>4. \A x \in I : loop[x] \in R
    BY <2>1, <2>2, <2>3, LoopResult
  <2> QED
    BY <1>6, <2>4
<1> QED
  BY <1>1, <1>7

\* In every round the nodes send to others, if their number is odd, as the
\* primes of PrimeModuli.hpp are: the offset of a round is a power of two and
\* no multiple of an odd number.
THEOREM OffsetInRange ==
  ASSUME NEW group_size \in Nat, group_size > 1, group_size % 2 = 1,
         NEW round \in Nat \cup {-1}
  PROVE  gossip_offset(round, group_size) \in 1 .. group_size - 1
<1>1. Invertible(2, group_size)
  BY TwoIsInvertible
<1> DEFINE R == {x \in 1 .. group_size - 1 : Invertible(x, group_size)}
<1>2. \A pow \in Nat : mod_pow(2, pow, group_size) \in R
  BY <1>1, PowerIsInvertible
<1>3. ASSUME NEW x \in R, NEW pow \in Nat PROVE mod_pow(x, pow, group_size) \in R
  <2>1. x \in Nat /\ Invertible(x, group_size)
    OBVIOUS
  <2> QED
    BY <2>1, PowerIsInvertible
<1>4. mod_pow(2, 65535, group_size) \in R
  BY <1>2
<1>5. mod_pow(mod_pow(2, 65535, group_size), 65537, group_size) \in R
  <2> DEFINE p == mod_pow(2, 65535, group_size)
  <2>1. p \in R
    BY <1>4
  <2> HIDE DEF p, R
  <2>2. mod_pow(p, 65537, group_size) \in R
    BY <1>3, <2>1
  <2> QED
    BY <2>2 DEF p
<1> QED
  BY <1>2, <1>5 DEF gossip_offset

-----------------------------------------------------------------------------
(* Powers of two *)

LEMMA ModMult ==
  ASSUME NEW n \in Nat \ {0}, NEW x \in Nat, NEW y \in Nat
  PROVE  ((x % n) * y) % n = (x * y) % n /\ (y * (x % n)) % n = (y * x) % n
<1> DEFINE d == x \div n
           r == x % n
<1>1. d \in Nat /\ r \in Nat /\ x = (n * d) + r
  BY DivMod
<1> HIDE DEF d, r
<1>2. x * y = n * (d * y) + r * y
  BY <1>1
<1>3. d * y \in Nat /\ r * y \in Nat
  BY <1>1
<1>4. \A q, z \in Nat : (n * q + z) % n = z % n
  <2> SUFFICES ASSUME NEW q \in Nat, NEW z \in Nat PROVE (n * q + z) % n = z % n
    OBVIOUS
  <2> DEFINE e == z \div n
             t == z % n
  <2>1. e \in Nat /\ t \in 0 .. n - 1 /\ z = (n * e) + t
    BY DivMod
  <2> HIDE DEF e, t
  <2>2. n * q + z = n * (q + e) + t /\ q + e \in Nat
    BY <2>1
  <2>3. (n * (q + e) + t) % n = t
    BY <2>1, <2>2, RemIs
  <2> QED
    BY <2>2, <2>3 DEF t
<1>5. (x * y) % n = (r * y) % n
  BY <1>2, <1>3, <1>4
<1>6. y * r = r * y /\ y * x = x * y
  BY <1>1
<1> QED
  BY <1>5, <1>6 DEF r

\* What the loop of mod_pow has for result times num to the power of pow.
power(r, b, e, n) == pow_loop(n)[pow_state(r, b, e)]

LEMMA PowerStep ==
  ASSUME NEW n \in Nat \ {0}, NEW r \in Nat, NEW b \in Nat, NEW e \in Nat
  PROVE  power(r, b, e, n) =
           IF e = 0 THEN r
           ELSE power(IF e % 2 = 1 THEN (r * b) % n ELSE r, (b * b) % n, e \div 2, n)
<1> DEFINE s == pow_state(r, b, e)
<1>1. s \in PowState /\ s.result = r /\ s.num = b /\ s.pow = e
  BY DEF pow_state, PowState
<1>2. Loop(pow_loop(n), PowState, pow_left, pow_next(n), pow_out)
  <2>1. n \in Nat /\ n > 0
    OBVIOUS
  <2> QED
    BY <2>1, PowLoop, Zenon
<1>3. pow_loop(n)[s] = IF pow_left[s] = 0 THEN pow_out[s] ELSE pow_loop(n)[pow_next(n)[s]]
  <2> HIDE DEF s
  <2> QED
    BY <1>1, <1>2 DEF Loop
<1>4. /\ pow_left[s] = e /\ pow_out[s] = r
      /\ pow_next(n)[s] = pow_state(IF e % 2 = 1 THEN (r * b) % n ELSE r, (b * b) % n, e \div 2)
  <2> HIDE DEF s
  <2> QED
    BY <1>1 DEF pow_left, pow_out, pow_next
<1> QED
  BY <1>3, <1>4 DEF power

\* A factor of the result comes out of the loop.
LEMMA PowerLinear ==
  ASSUME NEW n \in Nat, n > 1
  PROVE  \A e, b, c \in Nat : \A r \in 0 .. n - 1 :
           /\ power(r, b, e, n) \in 0 .. n - 1
           /\ power((c * r) % n, b, e, n) = (c * power(r, b, e, n)) % n
<1> DEFINE P(e) == \A b, c \in Nat : \A r \in 0 .. n - 1 :
                     /\ power(r, b, e, n) \in 0 .. n - 1
                     /\ power((c * r) % n, b, e, n) = (c * power(r, b, e, n)) % n
           S == {e \in Nat : P(e)}
<1>0. \A x, y \in Nat : x * y \in Nat /\ x % n \in 0 .. n - 1
  BY DivMod
<1>1. ASSUME NEW e \in Nat, \A k \in 0 .. e - 1 : k \in S PROVE e \in S
  <2> SUFFICES ASSUME NEW b \in Nat, NEW c \in Nat, NEW r \in 0 .. n - 1
               PROVE  /\ power(r, b, e, n) \in 0 .. n - 1
                      /\ power((c * r) % n, b, e, n) = (c * power(r, b, e, n)) % n
    OBVIOUS
  <2> DEFINE x  == (c * r) % n
             r2 == IF e % 2 = 1 THEN (r * b) % n ELSE r
             x2 == IF e % 2 = 1 THEN (x * b) % n ELSE x
             b2 == (b * b) % n
             k  == e \div 2
  <2>1. x \in 0 .. n - 1 /\ r2 \in 0 .. n - 1 /\ b2 \in Nat
    BY <1>0
  <2>2. x2 = (c * r2) % n
    <3>1. (x * b) % n = ((c * r) * b) % n
      <4>1. c * r \in Nat /\ n \in Nat \ {0}
        OBVIOUS
      <4> QED
        BY <4>1, ModMult
    <3>2. (c * ((r * b) % n)) % n = (c * (r * b)) % n
      BY <1>0, ModMult
    <3>3. (c * r) * b = c * (r * b)
      OBVIOUS
    <3> QED
      BY <3>1, <3>2, <3>3
  <2>3. /\ power(r, b, e, n) = IF e = 0 THEN r ELSE power(r2, b2, k, n)
        /\ power(x, b, e, n) = IF e = 0 THEN x ELSE power(x2, b2, k, n)
    <3>1. x \in Nat /\ r \in Nat /\ n \in Nat \ {0}
      BY <2>1
    <3> HIDE DEF x
    <3>2. power(r, b, e, n) = IF e = 0 THEN r ELSE power(r2, b2, k, n)
      BY <3>1, PowerStep, Zenon
    <3>3. power(x, b, e, n) = IF e = 0 THEN x ELSE power(x2, b2, k, n)
      BY <3>1, PowerStep, Zenon
    <3> QED
      BY <3>2, <3>3
  <2> HIDE DEF x, r2, x2, b2
  <2>4. CASE e = 0
    BY <2>3, <2>4 DEF x
  <2>5. CASE e # 0
    <3>1. k \in 0 .. e - 1
      BY <2>5
    <3>2. P(k)
      BY <1>1, <3>1
    <3> HIDE DEF k
    <3>3. power(r2, b2, k, n) \in 0 .. n - 1 /\ power((c * r2) % n, b2, k, n) = (c * power(r2, b2, k, n)) % n
      BY <2>1, <3>2
    <3> QED
      BY <2>2, <2>3, <2>5, <3>3 DEF x
  <2> QED
    BY <2>4, <2>5
<1>2. S = Nat
  <2>1. S \in SUBSET Nat
    OBVIOUS
  <2> HIDE DEF S
  <2> QED
    BY <1>1, <2>1, Induction
<1> QED
  BY <1>2

\* Squaring and halving, the loop multiplies once for each unit of the exponent.
LEMMA PowerNext ==
  ASSUME NEW n \in Nat, n > 1
  PROVE  \A e, b \in Nat : \A r \in 0 .. n - 1 :
           power(r, b, e + 1, n) = (b * power(r, b, e, n)) % n
<1> DEFINE P(e) == \A b \in Nat : \A r \in 0 .. n - 1 :
                     power(r, b, e + 1, n) = (b * power(r, b, e, n)) % n
           S == {e \in Nat : P(e)}
<1>0. \A x, y \in Nat : x * y \in Nat /\ x % n \in 0 .. n - 1
  BY DivMod
<1>1. ASSUME NEW e \in Nat, \A k \in 0 .. e - 1 : k \in S PROVE e \in S
  <2> SUFFICES ASSUME NEW b \in Nat, NEW r \in 0 .. n - 1
               PROVE  power(r, b, e + 1, n) = (b * power(r, b, e, n)) % n
    OBVIOUS
  <2> DEFINE k  == e \div 2
             rb == (r * b) % n
             b2 == (b * b) % n
  <2>1. rb \in 0 .. n - 1 /\ b2 \in Nat /\ k \in Nat /\ rb = (b * r) % n
    <3>1. r * b = b * r
      OBVIOUS
    <3> QED
      BY <1>0, <3>1
  <2>2. power(r, b, e, n) = IF e = 0 THEN r
                            ELSE power(IF e % 2 = 1 THEN rb ELSE r, b2, k, n)
    <3>1. n \in Nat \ {0} /\ r \in Nat
      OBVIOUS
    <3> QED
      BY <3>1, PowerStep
  <2>3. power(r, b, e + 1, n)
          = power(IF (e + 1) % 2 = 1 THEN rb ELSE r, b2, (e + 1) \div 2, n)
    <3>1. e + 1 \in Nat /\ e + 1 # 0 /\ n \in Nat \ {0} /\ r \in Nat
      OBVIOUS
    <3> QED
      BY <3>1, PowerStep
  <2>4. \A x \in 0 .. n - 1 : power((b * x) % n, b2, k, n) = (b * power(x, b2, k, n)) % n
                              /\ power(x, b2, k, n) \in 0 .. n - 1
    <3> HIDE DEF k, b2
    <3> QED
      BY <2>1, PowerLinear
  <2>5. power(rb, b2, k, n) = (b * power(r, b2, k, n)) % n
    BY <2>1, <2>4
  <2>6. CASE e % 2 = 0
    <3>1. (e + 1) % 2 = 1 /\ (e + 1) \div 2 = k
      BY <2>6
    <3>2. power(r, b, e + 1, n) = power(rb, b2, k, n)
      BY <2>3, <3>1
    <3>3. power(r, b, e, n) = power(r, b2, k, n)
      <4>1. CASE e = 0
        <5>1. k = 0
          BY <4>1
        <5>2. power(r, b2, k, n) = r
          BY <2>1, <5>1, PowerStep
        <5> QED
          BY <2>2, <4>1, <5>2
      <4>2. CASE e # 0
        BY <2>2, <2>6, <4>2
      <4> QED
        BY <4>1, <4>2
    <3> QED
      BY <2>5, <3>2, <3>3
  <2>7. CASE e % 2 = 1
    <3>1. (e + 1) % 2 = 0 /\ (e + 1) \div 2 = k + 1 /\ e # 0 /\ k \in 0 .. e - 1
      BY <2>7
    <3>2. power(r, b, e + 1, n) = power(r, b2, k + 1, n)
      BY <2>3, <3>1
    <3>3. P(k)
      BY <1>1, <3>1
    <3> HIDE DEF k, b2, rb
    <3>4. power(r, b2, k + 1, n) = (b2 * power(r, b2, k, n)) % n
      BY <2>1, <3>3
    <3> DEFINE y == power(r, b2, k, n)
    <3>5. y \in Nat
      BY <2>4
    <3>6. power(r, b, e, n) = (b * y) % n
      BY <2>2, <2>5, <2>7, <3>1
    <3> HIDE DEF y
    <3>7. (b2 * y) % n = ((b * b) * y) % n
      BY <1>0, <3>5, ModMult DEF b2
    <3>8. (b * ((b * y) % n)) % n = (b * (b * y)) % n
      BY <1>0, <3>5, ModMult
    <3>9. (b * b) * y = b * (b * y)
      BY <3>5
    <3> QED
      BY <3>2, <3>4, <3>6, <3>7, <3>8, <3>9 DEF y
  <2>8. e % 2 \in {0, 1}
    OBVIOUS
  <2> QED
    BY <2>6, <2>7, <2>8
<1>2. S = Nat
  <2>1. S \in SUBSET Nat
    OBVIOUS
  <2> HIDE DEF S
  <2> QED
    BY <1>1, <2>1, Induction
<1> QED
  BY <1>2

\* mod_pow is that loop from the result 1; its exponents add up and multiply.
LEMMA PowerAdds ==
  ASSUME NEW n \in Nat, n > 1, NEW b \in Nat
  PROVE  \A j, i \in Nat :
           power(1, b, i + j, n) = (power(1, b, i, n) * power(1, b, j, n)) % n
<1> DEFINE a(k) == power(1, b, k, n)
           P(j) == \A i \in Nat : a(i + j) = (a(i) * a(j)) % n
           S == {j \in Nat : P(j)}
<1>1. \A k \in Nat : a(k) \in 0 .. n - 1 /\ a(k + 1) = (b * a(k)) % n
  <2>1. 1 \in 0 .. n - 1
    OBVIOUS
  <2>2. \A k \in Nat : power(1, b, k, n) \in 0 .. n - 1
    BY <2>1, PowerLinear
  <2>3. \A k \in Nat : power(1, b, k + 1, n) = (b * power(1, b, k, n)) % n
    BY <2>1, PowerNext
  <2> QED
    BY <2>2, <2>3
<1>2. a(0) = 1
  <2>1. n \in Nat \ {0} /\ 1 \in Nat /\ 0 \in Nat
    OBVIOUS
  <2> QED
    BY <2>1, PowerStep
<1> HIDE DEF a
<1>3. ASSUME NEW j \in Nat, \A k \in 0 .. j - 1 : k \in S PROVE j \in S
  <2> SUFFICES ASSUME NEW i \in Nat PROVE a(i + j) = (a(i) * a(j)) % n
    OBVIOUS
  <2>1. CASE j = 0
    <3> DEFINE x == a(i)
    <3>1. x \in 0 .. n - 1
      BY <1>1
    <3> HIDE DEF x
    <3>2. x * 1 = x /\ i + j = i /\ x % n = x
      BY <2>1, <3>1
    <3> QED
      BY <1>2, <2>1, <3>2 DEF x
  <2>2. CASE j # 0
    <3> DEFINE k == j - 1
    <3>1. k \in Nat /\ k \in 0 .. j - 1 /\ j = k + 1 /\ i + j = (i + k) + 1 /\ i + k \in Nat
      BY <2>2
    <3>2. a(i + k) = (a(i) * a(k)) % n
      BY <1>3, <3>1
    <3> HIDE DEF k
    <3> DEFINE x == a(i)
               y == a(k)
    <3>3. x \in Nat /\ y \in Nat /\ n \in Nat \ {0}
      BY <1>1, <3>1
    <3>4. a(i + j) = (b * ((x * y) % n)) % n
      BY <1>1, <3>1, <3>2
    <3>5. a(j) = (b * y) % n
      BY <1>1, <3>1
    <3> HIDE DEF x, y
    <3>6. x * y \in Nat /\ b * y \in Nat /\ b * (x * y) = x * (b * y)
      BY <3>3
    <3>7. (b * ((x * y) % n)) % n = (b * (x * y)) % n
      BY <3>3, <3>6, ModMult
    <3>8. (x * ((b * y) % n)) % n = (x * (b * y)) % n
      BY <3>3, <3>6, ModMult
    <3> QED
      BY <3>4, <3>5, <3>6, <3>7, <3>8 DEF x
  <2> QED
    BY <2>1, <2>2
<1>4. S = Nat
  <2>1. S \in SUBSET Nat
    OBVIOUS
  <2> HIDE DEF S
  <2> QED
    BY <1>3, <2>1, Induction
<1> QED
  BY <1>4 DEF a

LEMMA PowerOfPower ==
  ASSUME NEW n \in Nat, n > 1, NEW b \in Nat, NEW m \in Nat
  PROVE  \A k \in Nat : power(1, power(1, b, m, n), k, n) = power(1, b, m * k, n)
<1> DEFINE a(k) == power(1, b, k, n)
           c    == power(1, b, m, n)
           p(k) == power(1, c, k, n)
           S    == {k \in Nat : p(k) = a(m * k)}
<1>1. 1 \in 0 .. n - 1 /\ n \in Nat \ {0}
  OBVIOUS
<1>2. c \in Nat
  <2>1. c \in 0 .. n - 1
    BY <1>1, PowerLinear
  <2> QED
    BY <2>1
<1>3. a(0) = 1 /\ p(0) = 1
  <2>1. 1 \in Nat /\ 0 \in Nat
    OBVIOUS
  <2> HIDE DEF c
  <2> QED
    BY <1>1, <1>2, <2>1, PowerStep
<1>4. \A k \in Nat : p(k + 1) = (c * p(k)) % n
  <2> HIDE DEF c
  <2> QED
    BY <1>1, <1>2, PowerNext
<1>5. \A i, j \in Nat : a(i + j) = (a(i) * a(j)) % n
  BY PowerAdds
<1>6. c = a(m)
  OBVIOUS
<1> HIDE DEF a, p, c
<1>7. ASSUME NEW k \in Nat, \A j \in 0 .. k - 1 : j \in S PROVE k \in S
  <2>1. CASE k = 0
    <3>1. m * k = 0
      BY <2>1
    <3> QED
      BY <1>3, <2>1, <3>1
  <2>2. CASE k # 0
    <3> DEFINE j == k - 1
    <3>1. j \in Nat /\ j \in 0 .. k - 1 /\ k = j + 1
      BY <2>2
    <3> HIDE DEF j
    <3>2. p(j) = a(m * j)
      BY <1>7, <3>1
    <3>3. p(k) = (c * a(m * j)) % n
      BY <1>4, <3>1, <3>2
    <3>4. m * k = m + (m * j) /\ m * j \in Nat
      BY <3>1
    <3> DEFINE l == m * j
    <3> HIDE DEF l
    <3>5. a(m + l) = (a(m) * a(l)) % n
      BY <1>5, <3>4 DEF l
    <3> QED
      BY <1>6, <3>3, <3>4, <3>5 DEF l
  <2> QED
    BY <2>1, <2>2
<1>8. S = Nat
  <2>1. S \in SUBSET Nat
    OBVIOUS
  <2> HIDE DEF S
  <2> QED
    BY <1>7, <2>1, Induction
<1> QED
  BY <1>8 DEF a, p, c

\* The offset of a round is a power of two, in round -1 that of 2^32 - 1.
LEMMA OffsetIsPower ==
  ASSUME NEW n \in Nat, n > 1
  PROVE  /\ \A round \in Nat : gossip_offset(round, n) = power(1, 2, round, n)
         /\ gossip_offset(-1, n) = power(1, 2, 65535 * 65537, n)
<1>1. \A num, pow : mod_pow(num, pow, n) = power(1, num, pow, n)
  BY ModPowIsLoop DEF power
<1>2. gossip_offset(-1, n) = power(1, power(1, 2, 65535, n), 65537, n)
  BY <1>1 DEF gossip_offset
<1>3. power(1, power(1, 2, 65535, n), 65537, n) = power(1, 2, 65535 * 65537, n)
  <2>1. 2 \in Nat /\ 65535 \in Nat /\ 65537 \in Nat
    OBVIOUS
  <2> QED
    BY <2>1, PowerOfPower
<1>4. \A round \in Nat : gossip_offset(round, n) = power(1, 2, round, n)
  <2> SUFFICES ASSUME NEW round \in Nat PROVE gossip_offset(round, n) = power(1, 2, round, n)
    OBVIOUS
  <2>1. round # -1
    OBVIOUS
  <2> QED
    BY <1>1, <2>1 DEF gossip_offset
<1> QED
  BY <1>2, <1>3, <1>4

-----------------------------------------------------------------------------
(* The gossip graph *)

\* gossip_predecessor undoes gossip_target: what a node waits for in a round is
\* another node, and that node's target is the waiting one.
THEOREM PredecessorSends ==
  ASSUME NEW group_size \in Nat, group_size > 1, group_size % 2 = 1,
         NEW round \in Nat \cup {-1}, NEW node_id \in 0 .. group_size - 1
  PROVE  LET sender == gossip_predecessor(node_id, round, group_size)
         IN /\ sender \in (0 .. group_size - 1) \ {node_id}
            /\ gossip_target(sender, round, group_size) = node_id
<1> DEFINE offset == gossip_offset(round, group_size)
           sender == gossip_predecessor(node_id, round, group_size)
<1>1. sender = IF node_id >= offset THEN (node_id - offset) % group_size
               ELSE group_size - ((offset - node_id) % group_size)
  BY DEF gossip_predecessor, mod_subtract
<1>2. gossip_target(sender, round, group_size) = (sender + offset) % group_size
  BY DEF gossip_target
<1>3. offset \in 1 .. group_size - 1
  BY OffsetInRange
<1> HIDE DEF offset, sender
<1>4. CASE node_id >= offset
  <2>1. sender = node_id - offset
    BY <1>1, <1>3, <1>4
  <2> QED
    BY <1>2, <1>3, <1>4, <2>1 DEF offset, sender
<1>5. CASE ~(node_id >= offset)
  <2>1. sender = group_size - (offset - node_id)
    BY <1>1, <1>3, <1>5
  <2>2. (sender + offset) % group_size = node_id
    BY <1>3, <2>1
  <2> QED
    BY <1>2, <1>3, <1>5, <2>1, <2>2 DEF offset, sender
<1> QED
  BY <1>4, <1>5

\* And gossip_target undoes gossip_predecessor: of the nodes only one sends to
\* a node in a round, the one it waits for.
LEMMA TargetWaits ==
  ASSUME NEW group_size \in Nat, group_size > 1, group_size % 2 = 1,
         NEW round \in Nat \cup {-1}, NEW node_id \in 0 .. group_size - 1
  PROVE  LET receiver == gossip_target(node_id, round, group_size)
         IN /\ receiver \in (0 .. group_size - 1) \ {node_id}
            /\ gossip_predecessor(receiver, round, group_size) = node_id
<1> DEFINE offset   == gossip_offset(round, group_size)
           receiver == gossip_target(node_id, round, group_size)
<1>1. receiver = (node_id + offset) % group_size
  BY DEF gossip_target
<1>2. gossip_predecessor(receiver, round, group_size) =
        IF receiver >= offset THEN (receiver - offset) % group_size
        ELSE group_size - ((offset - receiver) % group_size)
  BY DEF gossip_predecessor, mod_subtract
<1>3. offset \in 1 .. group_size - 1
  BY OffsetInRange
<1> HIDE DEF offset, receiver
<1>4. CASE node_id + offset < group_size
  <2>1. receiver = node_id + offset
    BY <1>1, <1>3, <1>4
  <2> QED
    BY <1>2, <1>3, <1>4, <2>1 DEF receiver
<1>5. CASE ~(node_id + offset < group_size)
  <2>1. receiver = node_id + offset - group_size
    BY <1>1, <1>3, <1>5
  <2>2. receiver < offset /\ receiver # node_id /\ receiver \in 0 .. group_size - 1
    BY <1>3, <1>5, <2>1
  <2>3. (offset - receiver) % group_size = group_size - node_id
    BY <1>3, <1>5, <2>1
  <2> QED
    BY <1>2, <1>3, <1>5, <2>1, <2>2, <2>3 DEF receiver
<1> QED
  BY <1>4, <1>5
=============================================================================
