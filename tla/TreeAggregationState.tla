------------------------ MODULE TreeAggregationState ------------------------
(***************************************************************************)
(* The state one meter keeps for the aggregation tree and the functions    *)
(* that change it (TreeAggregationState.hpp and _impl.hpp).  `count' is    *)
(* the num_contributors the code computes.  The aggregate itself, which    *)
(* the application's aggregate function computes, is represented by        *)
(* `contents', the set of contributions that went into it.                 *)
(***************************************************************************)
EXTENDS Overlay, FiniteSets

CONSTANTS
  NumMeters,   \* num_meters
  NumGroups    \* num_groups

ASSUME MetersAssumption == NumMeters \in Nat \ {0}
ASSUME GroupsAssumption == NumGroups \in 1 .. NumMeters

\* current_query's number, children_needed, children_received_from and
\* aggregation_intermediate, as the constructor sets them.
NewAggregation(query) ==
  [query |-> query, needed |-> 2, received |-> 0, count |-> 0, contents |-> {}]

-----------------------------------------------------------------------------
(* Mutated forms, used to test the properties *)
initialize_for_two(agg, node_id, failed_meter_ids) ==
  [agg EXCEPT !.received = 0, !.needed = 2]
add_accepted_alone(agg, node_id, accepted_proxy_values) ==
  [agg EXCEPT
     !.count    = Cardinality(accepted_proxy_values),
     !.contents = {[query |-> agg.query, value |-> v, proxy |-> node_id] :
                     v \in accepted_proxy_values}]
-----------------------------------------------------------------------------

\* A child is waited for unless it does not exist or is known to have failed.
initialize(agg, node_id, failed_meter_ids) ==
  LET children == aggregation_tree_children(node_id, NumGroups, NumMeters)
      absent(i) == children[i] = NoNode \/ children[i] \in failed_meter_ids
  IN [agg EXCEPT !.received = 0,
                 !.needed = 2 - Cardinality({i \in {1, 2} : absent(i)})]

done_receiving_from_children(agg) == agg.received >= agg.needed

\* The first aggregate is stored, the following ones are combined with it.
handle_aggregate(agg, message) ==
  [agg EXCEPT
     !.received = @ + 1,
     !.count    = IF @ = 0 THEN message.count ELSE @ + message.count,
     !.contents = IF agg.count = 0 THEN message.contents
                                   ELSE @ \cup message.contents]

\* compute_and_send_aggregate: adds the node's own accepted values, and what
\* it has then is what it sends.
add_accepted(agg, node_id, accepted_proxy_values) ==
  [agg EXCEPT
     !.count    = @ + Cardinality(accepted_proxy_values),
     !.contents = @ \cup {[query |-> agg.query, value |-> v, proxy |-> node_id] :
                            v \in accepted_proxy_values}]

\* The message it sends; a parent of NoNode is the query server.  `children'
\* tells apart the messages of a node that sends more than once.
aggregate_message(agg, node_id) ==
  [from |-> node_id, query |-> agg.query, children |-> agg.received,
   to |-> aggregation_tree_parent(node_id, NumGroups, NumMeters),
   count |-> agg.count, contents |-> agg.contents]
=============================================================================
