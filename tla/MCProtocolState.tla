-------------------------- MODULE MCProtocolState --------------------------
(***************************************************************************)
(* Instances of ProtocolState.  The systems are smaller than any the code  *)
(* can set up, so log2n, the failures tolerated, the groups and the proxies *)
(* are scaled down by hand; the overlay, the tree and the paths of the     *)
(* contributions are what the code computes for that many meters.          *)
(***************************************************************************)
EXTENDS ProtocolState, TLC

MCNode == 0 .. NumMeters - 1

PF == INSTANCE PathFinder

\* Messages of AGREEMENT that go straight to their receivers.
Direct == [v \in MCNode |-> [n \in MCNode |-> [p \in MCNode |-> <<p>>]]]

-----------------------------------------------------------------------------
(* Five meters in the groups {0}, {1, 2} and {3, 4} *)

\* The proxies in the order of their groups; node 0 has none in its own.
Proxies5 == (0 :> <<2, 3>> @@ 1 :> <<0, 2, 3>> @@ 2 :> <<0, 1, 4>> @@
             3 :> <<0, 2, 4>> @@ 4 :> <<0, 1, 3>>)

MCProxiesOf5 == [n \in MCNode |-> {Proxies5[n][i] : i \in DOMAIN Proxies5[n]}]

\* Onions take the paths of find_paths, written out so that they are computed
\* once.
Contribution5 ==
  (0 :> (2 :> <<4, 2>> @@ 3 :> <<3>>) @@
   1 :> (0 :> <<4, 0>> @@ 2 :> <<2>> @@ 3 :> <<3>>) @@
   2 :> (0 :> <<0>> @@ 1 :> <<3, 1>> @@ 4 :> <<4>>) @@
   3 :> (0 :> <<0>> @@ 2 :> <<1, 2>> @@ 4 :> <<4>>) @@
   4 :> (0 :> <<0>> @@ 1 :> <<1>> @@ 3 :> <<2, 3>>))

ASSUME ContributionAssumption ==
  NumMeters = 5 =>
    \A n \in MCNode : \A i \in DOMAIN Proxies5[n] :
      PF!find_paths(n, Proxies5[n], 5, 0)[i] = Contribution5[n][Proxies5[n][i]]

MCRoute5 ==
  [kind \in Kind |->
     IF kind = "contribution"
       THEN [v \in MCNode |-> [n \in MCNode |-> [p \in MCNode |->
               IF n = v /\ p \in MCProxiesOf5[v] THEN Contribution5[v][p] ELSE <<p>>]]]
       ELSE Direct]

\* The same, but for the signature of node 3 on the value of node 0, which
\* takes the path of find_paths to node 2 as well.  It is sent in round 5, the
\* one after SHUFFLE.
ASSUME RelayAssumption ==
  NumMeters = 5 => PF!find_paths(3, <<2>>, 5, 5) = << <<1, 2>> >>

MCRelayRoute5 == [MCRoute5 EXCEPT !["sign"][0][3][2] = <<1, 2>>]

\* All of these routes meet the hypotheses of the theorems about behaviours without
\* failures.
ASSUME HypothesesAssumption ==
  NumMeters = 5 /\ Route \in {MCRoute5, MCRelayRoute5} => NoFailures /\ RoutesFit

-----------------------------------------------------------------------------
(* Three meters in one group *)

MCProxiesOf3 == [n \in MCNode |-> MCNode \ {n}]
\* Fewer proxies, so that there are rounds in which a node has nothing of its
\* own query to send.
MCProxiesFew == (0 :> {1, 2} @@ 1 :> {2} @@ 2 :> {0})
MCRoute3 == [kind \in Kind |-> Direct]

=============================================================================
