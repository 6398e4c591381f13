----------------------------- MODULE PathFinder -----------------------------
(***************************************************************************)
(* Paths through the gossip graph (src/src/util/PathFinder.cpp).  A path   *)
(* is searched by letting an infection spread from its source, one overlay *)
(* round at a time.  A path is the sequence of the nodes on it, its source *)
(* first; the rounds of its hops are implied, since a node passes a        *)
(* message on in the first round in which the next hop is its target.      *)
(*                                                                         *)
(* The C++ code iterates over unordered sets, but what it finds does not   *)
(* depend on the order: in one round no two nodes have the same target, so *)
(* each node has at most one possible parent.                              *)
(***************************************************************************)
EXTENDS Overlay, Sequences, FiniteSets

MIN_PATH_LENGTH == 3

NoPath == <<>>    \* find_path throws: no path within the limit

\* ceil(log2(n)) of an int: how many powers of two are smaller than n.
ceil_log2(n) == Cardinality({k \in 0 .. 30 : 2^k < n})

Path == Seq(Nat) \ {<<>>}

\* The node a path leads to.
last(path) == path[Len(path)]

-----------------------------------------------------------------------------
(* Mutated forms, used to test the properties *)
rounds_limit_for_one(n, num_targets) == ceil_log2(n) + MIN_PATH_LENGTH
hop_backwards(path, time, n) == gossip_predecessor(last(path), time, n)
may_infect_used(node, infected, exclude_nodes) ==
  node \notin {last(p) : p \in infected}
-----------------------------------------------------------------------------

\* How many rounds find_paths lets a path take.
rounds_limit(n, num_targets) == ceil_log2(n) * num_targets + MIN_PATH_LENGTH

hop(path, time, n) == gossip_target(last(path), time, n)

\* Nodes in use are skipped, all targets among them; a node infected before keeps
\* its parent.
may_infect(node, infected, exclude_nodes) ==
  node \notin exclude_nodes \cup {last(p) : p \in infected}

\* The paths on which a round takes the infection to the target; `infected' holds
\* the path to each infected node.
paths_to(target, infected, time, n) ==
  {Append(p, target) : p \in {x \in infected : hop(x, time, n) = target}}

\* The infection after a round.
infect(infected, time, n, exclude_nodes) ==
  infected \cup
    {Append(p, hop(p, time, n)) :
       p \in {x \in infected : may_infect(hop(x, time, n), infected, exclude_nodes)}}

\* The first path on which the infection reaches the target after at least
\* MIN_PATH_LENGTH rounds.  `loop' is the loop over the rounds.
find_path(source, target, n, starting_round, max_round, exclude_nodes) ==
  LET arriving(s) == IF s.time - starting_round < MIN_PATH_LENGTH
                       THEN {} ELSE paths_to(target, s.infected, s.time, n)
      loop[s \in [time : Nat, infected : SUBSET Path]] ==
        IF s.time >= max_round THEN NoPath
        ELSE IF arriving(s) # {} THEN CHOOSE p \in arriving(s) : TRUE
        ELSE loop[[time     |-> s.time + 1,
                   infected |-> infect(s.infected, s.time, n, exclude_nodes)]]
  IN loop[[time |-> starting_round, infected |-> {<<source>>}]]

hops(path) == {path[i] : i \in DOMAIN path}

\* A path to each of a sequence of targets; no path uses a target or a node
\* that is on an earlier path.  The source is taken off the paths.  `loop' is
\* the loop over the targets.
find_paths(source_id, target_ids, num_nodes, start_round) ==
  LET max_round == start_round + rounds_limit(num_nodes, Len(target_ids))
      loop[s \in [paths : Seq(Seq(Nat)), used_nodes : SUBSET Nat]] ==
        IF Len(s.paths) >= Len(target_ids) THEN s.paths
        ELSE LET path == find_path(source_id, target_ids[Len(s.paths) + 1], num_nodes,
                                   start_round, max_round, s.used_nodes)
             IN loop[[paths      |-> Append(s.paths, IF path = NoPath THEN NoPath
                                                                      ELSE Tail(path)),
                      used_nodes |-> s.used_nodes \cup (hops(path) \ {source_id})]]
  IN loop[[paths |-> <<>>, used_nodes |-> hops(target_ids)]]
=============================================================================
