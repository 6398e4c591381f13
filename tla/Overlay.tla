------------------------------ MODULE Overlay ------------------------------
(***************************************************************************)
(* The arithmetic of the overlay network (src/src/util/Overlay.cpp): which *)
(* node each node sends to in a round, the aggregation groups, the binary  *)
(* tree inside each group and the proxies a node may pick.  Every operator *)
(* keeps the name and the parameters of the C++ function it stands for.    *)
(*                                                                         *)
(* The static memo tables of gossip_target and gossip_predecessor cache a  *)
(* pure function and are left out.  Numbers are exact as long as the       *)
(* modulus is below 2^16, where num * num fits a uint32_t; the largest     *)
(* modulus in PrimeModuli.hpp is 24317.                                    *)
(***************************************************************************)
EXTENDS Integers

NoNode == -1    \* "no such node" in the results of the tree functions

-----------------------------------------------------------------------------
(* Mutated forms, used to test the properties *)

mod_pow_squares_first(num, pow, mod) ==
  LET loop[s \in [result : Nat, num : Nat, pow : Nat]] ==
        IF s.pow = 0
          THEN s.result
          ELSE LET squared == (s.num * s.num) % mod
               IN loop[[result |-> IF s.pow % 2 = 1 THEN (s.result * squared) % mod
                                                    ELSE s.result,
                        num    |-> squared,
                        pow    |-> s.pow \div 2]]
  IN loop[[result |-> 1, num |-> num, pow |-> pow]]

gossip_offset_is_round(round, group_size) == (round + 1) % group_size

mod_subtract_drops_sign(x, y, m) == (IF x >= y THEN x - y ELSE y - x) % m

group_first_id_by_size(group, num_groups, num_meters) ==
  group * (num_meters \div num_groups)

aggregation_tree_parent_off_by_one(node_id, num_groups, num_meters) ==
  LET size     == num_meters \div num_groups
      first_id == (node_id \div size) * size
  IN IF node_id = first_id THEN NoNode ELSE (node_id - first_id) \div 2 + first_id

random_int_include(range, exclude) == range
-----------------------------------------------------------------------------
(* The gossip graph *)

\* Square and multiply.  `loop' is the while loop, from the values its
\* variables have at the head of an iteration.
mod_pow(num, pow, mod) ==
  LET loop[s \in [result : Nat, num : Nat, pow : Nat]] ==
        IF s.pow = 0
          THEN s.result
          ELSE loop[[result |-> IF s.pow % 2 = 1 THEN (s.result * s.num) % mod
                                                 ELSE s.result,
                     num    |-> (s.num * s.num) % mod,
                     pow    |-> s.pow \div 2]]
  IN loop[[result |-> 1, num |-> num, pow |-> pow]]

\* 2^round as the code computes it.  Round -1 (no overlay round has started)
\* is converted to the uint32_t 2^32 - 1, which is 65535 * 65537.
gossip_offset(round, group_size) ==
  IF round = -1
    THEN mod_pow(mod_pow(2, 65535, group_size), 65537, group_size)
    ELSE mod_pow(2, round, group_size)

\* x - y modulo m; C++ truncates towards zero, so a negative difference is
\* the negated remainder plus m.
mod_subtract(x, y, m) ==
  IF x >= y THEN (x - y) % m ELSE m - ((y - x) % m)

gossip_target(source_id, round, group_size) ==
  (source_id + gossip_offset(round, group_size)) % group_size

gossip_predecessor(target_id, round, group_size) ==
  mod_subtract(target_id, gossip_offset(round, group_size), group_size)

-----------------------------------------------------------------------------
(* Aggregation groups: num_groups - 2 groups of the standard size, and two  *)
(* more that share what is left.                                            *)

standard_group_size(num_groups, num_meters) == num_meters \div num_groups

second_last_group_size(num_groups, num_meters) ==
  LET group_size    == standard_group_size(num_groups, num_meters)
      leftover_size == num_meters - (num_groups - 1) * group_size
  IN (group_size + leftover_size) \div 2

aggregation_group_for(node_id, num_groups, num_meters) ==
  LET group_size == standard_group_size(num_groups, num_meters)
      group_num  == node_id \div group_size
      second_last_begin == group_size * (num_groups - 2)
      second_last_end   == second_last_begin
                             + second_last_group_size(num_groups, num_meters)
  IN IF group_num < num_groups - 2 THEN group_num
     ELSE IF node_id >= second_last_begin /\ node_id < second_last_end
       THEN num_groups - 2
       ELSE num_groups - 1

\* The first member of a node's group: `firstID' of both tree functions.
group_first_id(group, num_groups, num_meters) ==
  LET group_size == standard_group_size(num_groups, num_meters)
  IN IF group = num_groups - 1
       THEN (num_groups - 2) * group_size
              + second_last_group_size(num_groups, num_meters)
       ELSE group * group_size

\* `group_size' after aggregation_tree_children has adjusted it.
group_size_of(group, num_groups, num_meters) ==
  CASE group = num_groups - 1 ->
         num_meters - group_first_id(group, num_groups, num_meters)
    [] group = num_groups - 2 -> second_last_group_size(num_groups, num_meters)
    [] OTHER -> standard_group_size(num_groups, num_meters)

aggregation_tree_parent(node_id, num_groups, num_meters) ==
  LET first_id == group_first_id(
                    aggregation_group_for(node_id, num_groups, num_meters),
                    num_groups, num_meters)
  IN IF node_id = first_id
       THEN NoNode
       ELSE (node_id - first_id - 1) \div 2 + first_id

\* The pair <<left child, right child>>, NoNode where there is none.
aggregation_tree_children(node_id, num_groups, num_meters) ==
  LET group    == aggregation_group_for(node_id, num_groups, num_meters)
      first_id == group_first_id(group, num_groups, num_meters)
      size     == group_size_of(group, num_groups, num_meters)
      right    == (node_id - first_id + 1) * 2
      left     == right - 1
      child(relative) == IF relative >= size THEN NoNode
                                             ELSE relative + first_id
  IN <<child(left), child(right)>>

-----------------------------------------------------------------------------
(* Proxies *)

\* The IDs pick_proxies draws a proxy from, for each group: group_begin to
\* group_end in each of its three blocks.
proxy_range(group_num, num_groups, num_meters) ==
  LET group_size  == standard_group_size(num_groups, num_meters)
      second_last == second_last_group_size(num_groups, num_meters)
      begin       == (num_groups - 2) * group_size
  IN CASE group_num < num_groups - 2 ->
            group_num * group_size .. group_num * group_size + (group_size - 1)
       [] group_num = num_groups - 2 -> begin .. begin + (second_last - 1)
       [] OTHER -> begin + second_last .. num_meters - 1

\* random_int_exclude: draws from all but the last number of the range and
\* replaces the excluded one by the last.
random_int_exclude(range, exclude) ==
  LET last == CHOOSE x \in range : \A y \in range : y <= x
  IN {IF choice = exclude THEN last ELSE choice : choice \in range \ {last}}

\* pick_proxies throws unless every group has at least two members.
can_pick_proxies(num_groups, num_meters) ==
  standard_group_size(num_groups, num_meters) >= 2

\* The nodes pick_proxies may choose as node_id's proxy in one group.
pick_proxies(node_id, group_num, num_groups, num_meters) ==
  LET range == proxy_range(group_num, num_groups, num_meters)
  IN IF node_id \in range THEN random_int_exclude(range, node_id) ELSE range
=============================================================================
