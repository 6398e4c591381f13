----------------------------- MODULE MCOverlay -----------------------------
(***************************************************************************)
(* Sweeps the pure functions of Overlay and find_paths over whole systems: *)
(* each behaviour fixes a system size and a number of tolerated failures   *)
(* and walks through the overlay rounds; the invariants quantify over the  *)
(* nodes.  Paths start in the round of the state, at any node, and lead to *)
(* its proxies, one in each aggregation group.                             *)
(***************************************************************************)
EXTENDS PathFinder

CONSTANTS
  Systems,      \* pairs <<number of meters, failures tolerated>>
  PathSystems,  \* those in which paths are searched
  Selections,   \* how the proxy of a group is chosen among its members
  MaxRound      \* the last overlay round of the sweep

\* The meters are a prime of PrimeModuli.hpp, as SimSmartMeterClient demands,
\* and every group is large enough for pick_proxies.
MCSystems == { <<11, 1>>, <<11, 2>>, <<13, 1>>, <<13, 2>>, <<19, 1>>, <<19, 2>>,
               <<19, 3>>, <<19, 4>>, <<29, 5>>, <<37, 6>>, <<53, 6>> }

\* A system as ProtocolState sets it up, with ceil(log2(n)) failures tolerated,
\* and smaller ones in which that number is chosen freely.
MCPathSystems == { <<11, 1>>, <<11, 2>>, <<13, 2>>, <<19, 2>>, <<29, 5>> }

\* Some failure is tolerated: with a single group pick_proxies would write in
\* front of its vector.
ASSUME SystemsAssumption ==
  \A s \in Systems : /\ s \in Nat \X Nat /\ s[1] % 2 = 1 /\ s[2] >= 1
                     /\ can_pick_proxies(2 * s[2] + 1, s[1])

\* The powers of two modulo n, by doubling.  Systems have a number of nodes of
\* which 2 is a primitive root: those powers are all the numbers below it.
doubled(n) == LET d[k \in Nat] == IF k = 0 THEN 1 ELSE (2 * d[k - 1]) % n IN d

two_is_root(n) == {doubled(n)[k] : k \in 0 .. n - 2} = 1 .. n - 1

ASSUME RootAssumption == \A s \in Systems : two_is_root(s[1])

VARIABLES num_meters, num_groups, round

vars == <<num_meters, num_groups, round>>

Node  == 0 .. num_meters - 1
Group == 0 .. num_groups - 1

Init ==
  /\ \E s \in Systems : num_meters = s[1] /\ num_groups = 2 * s[2] + 1
  /\ round = -1

NextRound ==
  /\ round < MaxRound
  /\ round' = round + 1
  /\ UNCHANGED <<num_meters, num_groups>>

Spec == Init /\ [][NextRound]_vars

-----------------------------------------------------------------------------
target(i) == gossip_target(i, round, num_meters)
predecessor(i) == gossip_predecessor(i, round, num_meters)
group_of(i) == aggregation_group_for(i, num_groups, num_meters)
members(g) == {i \in Node : group_of(i) = g}
parent(i) == aggregation_tree_parent(i, num_groups, num_meters)
children(i) ==
  LET c == aggregation_tree_children(i, num_groups, num_meters)
  IN {c[1], c[2]} \ {NoNode}

\* The square-and-multiply loop computes the powers of two: they start at 1,
\* double from one round to the next, and at round -1, whose exponent is
\* 2^32 - 1, agree with the exponent reduced modulo num_meters - 1 (Fermat).
PowersOfTwo ==
  LET offset(r) == gossip_offset(r, num_meters)
      order     == num_meters - 1
  IN CASE round = -1 ->
            /\ offset(0) = 1
            /\ offset(-1) = offset(((65535 % order) * (65537 % order)) % order)
       [] OTHER -> offset(round + 1) = (2 * offset(round)) % num_meters

\* In every round the sends form a permutation without fixed points:
\* the node a node waits for (gossip_predecessor) is exactly the node that
\* sends to it (gossip_target), so nobody waits for a silent node.
PredecessorSendsToMe ==
  \A i \in Node : /\ target(i) \in Node \ {i}
                  /\ predecessor(target(i)) = i
                  /\ target(predecessor(i)) = i

\* Any num_meters - 1 consecutive rounds connect a node to all the others: a
\* message in waiting_messages always meets the round in which its next hop is
\* the gossip target.  This is what a prime with primitive root 2 is for.
EveryNodeIsMet ==
  round >= 0 =>
    \A i \in {0, 1, num_meters - 1} :
      {gossip_target(i, t, num_meters) :
         t \in round .. round + num_meters - 2} = Node \ {i}

\* pick_proxies and aggregation_group_for cut the nodes into the same groups,
\* though one computes ranges and the other divides.
GroupsAgree ==
  \A g \in Group : members(g) = proxy_range(g, num_groups, num_meters)

\* A node may be given any other member of a group as its proxy, and never
\* itself: the proxy that signs a value is not the node that contributed it.
ProxyIsSomeoneElse ==
  \A i \in Node, g \in Group :
    /\ pick_proxies(i, g, num_groups, num_meters) = members(g) \ {i}
    /\ members(g) \ {i} # {}

\* parent and children are inverse relations and stay inside the group, so
\* a node receives exactly the aggregates its children send.
ChildrenAndParentAgree ==
  \A i \in Node :
    children(i) = {c \in Node : group_of(c) = group_of(i) /\ parent(c) = i}

\* Each group is one tree: its lowest member is the only one without a
\* parent, and every other parent is a lower-numbered member of the group.
OneTreePerGroup ==
  \A g \in Group :
    \E root \in members(g) :
      \A i \in members(g) :
        IF i = root THEN parent(i) = NoNode
                    ELSE parent(i) \in members(g) /\ parent(i) < i

-----------------------------------------------------------------------------
(* Paths.  The gossip graph repeats itself after num_meters - 1 rounds.     *)

failures_tolerated == (num_groups - 1) \div 2
log2n == ceil_log2(num_meters)

smallest(S) == CHOOSE x \in S : \A y \in S : x <= y
largest(S) == CHOOSE x \in S : \A y \in S : x >= y

\* One proxy for the source from each group.
proxies(source, selection) ==
  [g \in 1 .. num_groups |->
     LET range == pick_proxies(source, g - 1, num_groups, num_meters)
     IN CASE selection = "lowest"  -> smallest(range)
          [] selection = "highest" -> largest(range)
          [] OTHER -> IF g % 2 = 0 THEN smallest(range) ELSE largest(range)]

paths(source, selection) ==
  find_paths(source, proxies(source, selection), num_meters, round)

\* Whether paths are searched in a state.
searching ==
  <<num_meters, failures_tolerated>> \in PathSystems /\ round \in 0 .. num_meters - 2

\* The round in which a message sent along a path arrives, when each node on
\* the way passes it on in the first round after that in which it received it
\* whose gossip target is the next hop (send_overlay_message_batch).
arrival(source, path) ==
  LET meets(node, next, r) ==
        CHOOSE t \in r .. r + num_meters - 2 :
          /\ gossip_target(node, t, num_meters) = next
          /\ \A u \in r .. t - 1 : gossip_target(node, u, num_meters) # next
      received[i \in 0 .. Len(path)] ==
        IF i = 0 THEN round - 1
        ELSE meets(IF i = 1 THEN source ELSE path[i - 1], path[i], received[i - 1] + 1)
  IN received[Len(path)]

\* find_paths never throws for the proxies of a meter: the search finds each
\* of them before its limit, though earlier paths have used nodes up.
EveryPathIsFound ==
  searching =>
    \A source \in Node, selection \in Selections :
      LET p == paths(source, selection) IN \A i \in DOMAIN p : p[i] # NoPath

\* The paths to the proxies are independent: apart from the source they have
\* no node in common, so one failed node spoils at most one of them.
PathsAreIndependent ==
  searching =>
    \A source \in Node, selection \in Selections :
      LET p == paths(source, selection)
      IN \A i, j \in DOMAIN p : i # j => hops(p[i]) \cap hops(p[j]) = {}

\* A message on such a path arrives before the phase that sent it ends:
\* find_paths limits its search by the number of targets, ProtocolState ends a
\* phase of AGREEMENT after 2 F + log2n^2 + 1 rounds, and nothing in the code
\* relates the two.
PathsFitIntoAPhase ==
  searching =>
    \A source \in Node, selection \in Selections :
      LET p == paths(source, selection)
      IN \A i \in DOMAIN p :
           arrival(source, p[i]) - round < 2 * failures_tolerated + log2n * log2n + 1
=============================================================================
