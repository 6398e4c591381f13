---------------------------- MODULE QueryService ----------------------------
(***************************************************************************)
(* What QueryServer promises the application (the comments of              *)
(* QueryServer.hpp): one query is under way at a time; a batch is run in   *)
(* the order of the query numbers, the next one starting only when the     *)
(* application has been told of the one before; and what the application   *)
(* is told is that the query failed, or a result that enough of the groups *)
(* have reported.  Messages, timers and threads do not appear, and nothing *)
(* is said of how often the application is told of a query.                *)
(***************************************************************************)
EXTENDS Integers, Sequences, FiniteSets

CONSTANTS Query, Group, Value, Quorum, NoResult

Result == [query : Query, value : Value]

VARIABLES
  current,  \* the query under way or last under way, -1 before the first
  waiting,  \* the rest of the batch
  reports,  \* what the groups have reported
  told      \* what the application has been told, in order

vars == <<current, waiting, reports, told>>

Init == current = -1 /\ waiting = {} /\ reports = {} /\ told = <<>>

first_of(q, queries) == q \in queries /\ \A p \in queries : q <= p

StartQuery(q) ==
  /\ current' = q
  /\ UNCHANGED <<waiting, reports, told>>

StartQueries(queries) ==
  LET all == waiting \cup queries
  IN /\ \E q \in all : first_of(q, all) /\ current' = q /\ waiting' = all \ {q}
     /\ UNCHANGED <<reports, told>>

GroupReports(g, r) ==
  /\ reports' = reports \cup {[group |-> g, query |-> r.query, value |-> r.value]}
  /\ UNCHANGED <<current, waiting, told>>

agreed(r) ==
  Cardinality({m \in reports : m.query = r.query /\ m.value = r.value}) >= Quorum

\* The application is told about the current query, and the batch goes on.
Tell(r) ==
  /\ current # -1
  /\ r = NoResult \/ agreed(r)
  /\ told' = Append(told, [query |-> current, result |-> r])
  /\ \/ waiting = {} /\ UNCHANGED <<current, waiting>>
     \/ \E q \in waiting : /\ first_of(q, waiting)
                           /\ current' = q
                           /\ waiting' = waiting \ {q}
  /\ UNCHANGED reports

Next ==
  \/ \E q \in Query : StartQuery(q)
  \/ \E queries \in (SUBSET Query) \ {{}} : StartQueries(queries)
  \/ \E g \in Group, r \in Result : GroupReports(g, r)
  \/ \E r \in Result \cup {NoResult} : Tell(r)

Spec == Init /\ [][Next]_vars
=============================================================================
