-------------------------- MODULE MCNetworkManager --------------------------
(***************************************************************************)
(* Instances of NetworkManager: two meters and the utility.                *)
(***************************************************************************)
EXTENDS NetworkManager

U == -1

A_send(overload, from, to, messages) ==
  [overload |-> overload, from |-> from, to |-> to, messages |-> messages]

\* Both meters send, so that their connections may cross; meter 0 sends twice
\* and pings the other.  No message is a number that stands for a size.
Crossing ==
  {A_send("OverlayTransportMessage", 0, 1, <<11, 12>>),
   A_send("AggregationMessage", 0, 1, <<13>>),
   A_send("PingMessage", 0, 1, <<14>>),
   A_send("OverlayTransportMessage", 1, 0, <<15>>)}

\* One meter sends to the other in two rounds.
TwoRounds ==
  {A_send("OverlayTransportMessage", 0, 1, <<11, 12>>),
   A_send("OverlayTransportMessage", 0, 1, <<13>>)}

\* Enough for connections that replace and cross one another although none
\* breaks: with each node's sends called in turn, HandledInOrder is violated.
Overtaking ==
  {A_send("OverlayTransportMessage", 0, 1, <<i>>) : i \in 1 .. 6}
    \cup {A_send("OverlayTransportMessage", 1, 0, <<7>>), A_send("PingMessage", 1, 0, <<8>>)}
InTurn ==
  \A s \in Traffic \ unsent, t \in unsent :
    s.from = t.from => s.messages[1] < t.messages[1]

Nodes == {0, 1, U}
=============================================================================
