------------------------ MODULE QueryServer_proofs ------------------------
(***************************************************************************)
(* Proofs about the query server: its types, and that F + 1 groups stand   *)
(* behind every result it announces.                                       *)
(***************************************************************************)
EXTENDS QueryServer, FiniteSetTheorems, TLAPS

USE MetersAssumption, FailuresAssumption, GroupAssumption, ValueAssumption,
    NoResultAssumption, AppAssumption, LastQueryAssumption

-----------------------------------------------------------------------------
(* The inductive invariant *)

\* Before the first query nothing is under way: nobody has been sent a query,
\* no timer is live and none has expired.  This is why end_query never runs
\* with the query_num the constructor leaves.
NothingBeforeFirstQuery ==
  query_num = -1 =>
    /\ requests = {} /\ in_flight = {} /\ pending_batch_queries = {}
    /\ query_timeout_timer = "none" /\ stray_timers = 0 /\ ~timeout_committed

\* What the server holds or is about to receive was sent by the groups.
ResultsWereReported ==
  /\ IsFiniteSet(reports)
  /\ in_flight \subseteq reports
  /\ curr_query_results \subseteq reports

IInv == TypeOK /\ NothingBeforeFirstQuery /\ ResultsWereReported /\ ResultHasQuorum

-----------------------------------------------------------------------------
(* Lemmas *)

\* A result that end_query takes is found F + 1 times among the results it has
\* (the loop of end_query), and these are reports of different groups.
LEMMA OutcomeHasQuorum ==
  ASSUME NEW results, results \subseteq reports, IsFiniteSet(reports),
         reports \subseteq Report,
         NEW r \in outcomes(results), r # NoResult
  PROVE  r \in Result /\ has_quorum(r)
<1>1. PICK m \in quorum_results(results) : r = [query |-> m.query, value |-> m.value]
  BY DEF outcomes
<1>2. m \in Report
  BY DEF quorum_results
<1>3. r \in Result
  BY <1>1, <1>2 DEF Report, Result
<1> DEFINE Same == {x \in results : same_result(x, m)}
<1>4. Same \subseteq supporters(r)
  BY <1>1, <1>2 DEF supporters, same_result, Report
<1>5. IsFiniteSet(supporters(r))
  BY FS_Subset DEF supporters
<1>6. /\ IsFiniteSet(Same)
      /\ Cardinality(Same) <= Cardinality(supporters(r))
      /\ Cardinality(Same) \in Nat /\ Cardinality(supporters(r)) \in Nat
  BY <1>4, <1>5, FS_Subset, FS_CardinalityType
<1>7. Cardinality(Same) >= FailuresTolerated + 1
  BY DEF quorum_results
<1>8. has_quorum(r)
  BY <1>6, <1>7 DEF has_quorum
<1> QED
  BY <1>3, <1>8

\* A quorum never goes away: the groups only send more reports (the
\* AggregationMessages of compute_and_send_aggregate).
LEMMA QuorumIsStable ==
  ASSUME reports \subseteq reports', IsFiniteSet(reports'), NEW r, has_quorum(r)
  PROVE  has_quorum(r)'
<1> DEFINE Later == {m \in reports' : m.query = r.query /\ m.value = r.value}
<1>1. supporters(r) \subseteq Later
  BY DEF supporters
<1>2. IsFiniteSet(Later)
  BY FS_Subset
<1>3. /\ Cardinality(supporters(r)) <= Cardinality(Later)
      /\ Cardinality(supporters(r)) \in Nat /\ Cardinality(Later) \in Nat
  BY <1>1, <1>2, FS_Subset, FS_CardinalityType
<1> QED
  BY <1>3 DEF has_quorum, supporters

\* register_timer keeps the timer variables in their types.
LEMMA RegisterType ==
  ASSUME NEW kind \in {"start", "result"}, NEW current \in {"none", "start", "result"},
         NEW strays \in Nat, Register(kind, current, strays)
  PROVE  /\ query_timeout_timer' \in {"none", "start", "result"}
         /\ stray_timers' \in Nat
BY DEF Register, registered, live

\* start_query puts a query of its own range in charge.
LEMMA BroadcastType ==
  ASSUME TypeOK, NEW q \in Query, Broadcast(q)
  PROVE  /\ query_num' \in Query /\ query_finished' = FALSE
         /\ curr_query_results' = {} /\ requests' \subseteq Query
BY DEF TypeOK, Broadcast

\* end_query, on results that were reported and once a query has been started:
\* its effect on the types and on what is announced.
LEMMA EndQueryPreserves ==
  ASSUME IInv, query_num # -1, NEW results, results \subseteq reports,
         EndQuery(results), reports' = reports
  PROVE  /\ query_num' \in Query
         /\ query_finished' \in BOOLEAN
         /\ curr_query_results' = {}
         /\ all_query_results' \in [Query -> Result \cup {NoResult}]
         /\ pending_batch_queries' \subseteq Query
         /\ requests' \subseteq Query
         /\ callbacks' \in Seq([query : Query, result : Result \cup {NoResult}])
         /\ ResultHasQuorum'
<1> USE DEF IInv, TypeOK
<1>1. PICK r \in outcomes(results) :
        /\ all_query_results' = [all_query_results EXCEPT ![query_num] = r]
        /\ callbacks' = Append(callbacks, [query |-> query_num, result |-> r])
  BY DEF EndQuery
<1>2. r # NoResult => r \in Result /\ has_quorum(r)
  BY OutcomeHasQuorum DEF ResultsWereReported
<1>3. query_num \in Query
  OBVIOUS
<1>4. /\ all_query_results' \in [Query -> Result \cup {NoResult}]
      /\ callbacks' \in Seq([query : Query, result : Result \cup {NoResult}])
  BY <1>1, <1>2, <1>3
<1>5. ResultHasQuorum'
  <2> DEFINE Quorum(s) ==
        Cardinality({m \in reports : m.query = s.query /\ m.value = s.value})
          >= FailuresTolerated + 1
  <2>1. ASSUME NEW q \in Query, all_query_results'[q] # NoResult
        PROVE  Quorum(all_query_results'[q])
    <3>1. CASE q = query_num
      BY <1>1, <1>2, <2>1, <3>1 DEF has_quorum, supporters
    <3>2. CASE q # query_num
      BY <1>1, <2>1, <3>2 DEF ResultHasQuorum, has_quorum, supporters
    <3> QED
      BY <3>1, <3>2
  <2>2. ASSUME NEW i \in DOMAIN callbacks', callbacks'[i].result # NoResult
        PROVE  Quorum(callbacks'[i].result)
    <3>1. CASE i = Len(callbacks) + 1
      <4>1. callbacks'[i].result = r
        BY <1>1, <3>1
      <4> QED
        BY <1>2, <2>2, <4>1 DEF has_quorum, supporters
    <3>2. CASE i # Len(callbacks) + 1
      <4>1. i \in DOMAIN callbacks /\ callbacks'[i] = callbacks[i]
        BY <1>1, <3>2
      <4> QED
        BY <2>2, <4>1 DEF ResultHasQuorum, has_quorum, supporters
    <3> QED
      BY <3>1, <3>2
  <2> QED
    BY <2>1, <2>2 DEF ResultHasQuorum, has_quorum, supporters
<1>6. CASE /\ pending_batch_queries = {}
           /\ query_finished' = TRUE
           /\ curr_query_results' = {}
           /\ UNCHANGED <<query_num, pending_batch_queries, requests>>
  BY <1>3, <1>4, <1>5, <1>6
<1>7. ASSUME NEW q \in pending_batch_queries,
             pending_batch_queries' = pending_batch_queries \ {q}, Broadcast(q)
      PROVE  /\ query_num' \in Query /\ query_finished' \in BOOLEAN
             /\ curr_query_results' = {} /\ requests' \subseteq Query
             /\ pending_batch_queries' \subseteq Query
  BY <1>7, BroadcastType
<1> QED
  BY <1>4, <1>5, <1>6, <1>7 DEF EndQuery

-----------------------------------------------------------------------------
(* The invariant is inductive *)

LEMMA InitIInv == Init => IInv
<1> SUFFICES ASSUME Init PROVE IInv
  OBVIOUS
<1> USE DEF Init
<1>1. TypeOK
  <2>1. /\ callbacks \in Seq([query : Query, result : Result \cup {NoResult}])
        /\ next_query \in 0 .. LastQuery + 1
    OBVIOUS
  <2>2. all_query_results \in [Query -> Result \cup {NoResult}]
    OBVIOUS
  <2> QED
    BY <2>1, <2>2 DEF TypeOK
<1>2. NothingBeforeFirstQuery /\ ResultsWereReported
  BY FS_EmptySet DEF NothingBeforeFirstQuery, ResultsWereReported
<1>3. ResultHasQuorum
  BY DEF ResultHasQuorum
<1> QED
  BY <1>1, <1>2, <1>3 DEF IInv

LEMMA QuorumUnchanged ==
  ASSUME ResultHasQuorum, UNCHANGED resultVars,
         reports \subseteq reports', IsFiniteSet(reports')
  PROVE  ResultHasQuorum'
BY QuorumIsStable DEF ResultHasQuorum, resultVars

\* The application's two calls.
LEMMA ApplicationIInv == ASSUME IInv, Application PROVE IInv'
<1> USE DEF IInv
<1>1. /\ UNCHANGED <<timeout_committed, resultVars, clientVars>>
      /\ Register("start", query_timeout_timer, stray_timers)
  BY DEF Application, AppStartsQuery, AppStartsQueries
<1>2. /\ query_num' \in Query /\ query_finished' = FALSE /\ curr_query_results' = {}
      /\ requests' \subseteq Query /\ pending_batch_queries' \subseteq Query
      /\ next_query' \in 0 .. LastQuery + 1
  <2>1. CASE AppStartsQuery
    <3>1. next_query \in Query
      BY <2>1 DEF AppStartsQuery, MayStart, TypeOK, Query
    <3> QED
      BY <2>1, <3>1, BroadcastType DEF AppStartsQuery, TypeOK, Query
  <2>2. CASE AppStartsQueries
    <3>1. PICK last \in next_query .. LastQuery :
            \E q \in pending_batch_queries \cup (next_query .. last) :
              /\ pending_batch_queries' =
                   (pending_batch_queries \cup (next_query .. last)) \ {q}
              /\ Broadcast(q)
              /\ next_query' = last + 1
      BY <2>2 DEF AppStartsQueries
    <3>2. /\ pending_batch_queries \cup (next_query .. last) \subseteq Query
          /\ last + 1 \in 0 .. LastQuery + 1
      BY <3>1 DEF TypeOK, Query
    <3>3. pending_batch_queries' \subseteq Query /\ next_query' \in 0 .. LastQuery + 1
      BY <3>1, <3>2
    <3>4. \E q \in Query : Broadcast(q)
      BY <3>1, <3>2
    <3> QED
      BY <3>3, <3>4, BroadcastType
  <2> QED
    BY <2>1, <2>2 DEF Application
<1>3. TypeOK'
  BY <1>1, <1>2, RegisterType DEF TypeOK, resultVars, clientVars
<1>4. NothingBeforeFirstQuery'
  BY <1>2 DEF NothingBeforeFirstQuery, Query
<1>5. ResultsWereReported'
  BY <1>1, <1>2 DEF ResultsWereReported, clientVars
<1>6. ResultHasQuorum'
  BY <1>1, <1>5, QuorumUnchanged DEF ResultsWereReported, clientVars
<1> QED
  BY <1>3, <1>4, <1>5, <1>6

\* A report adds to what the groups have sent.
LEMMA GroupReportsIInv ==
  ASSUME IInv, NEW g \in Group, GroupReports(g) PROVE IInv'
<1> USE DEF IInv
<1>1. PICK q \in requests, v \in Value :
        /\ reports' = reports \cup {[group |-> g, query |-> q, value |-> v]}
        /\ in_flight' = in_flight \cup {[group |-> g, query |-> q, value |-> v]}
  BY DEF GroupReports
<1>2. UNCHANGED <<queryVars, resultVars, timerVars, next_query>>
  BY DEF GroupReports
<1>3. [group |-> g, query |-> q, value |-> v] \in Report
  BY DEF TypeOK, Report
<1>4. TypeOK'
  BY <1>1, <1>2, <1>3 DEF TypeOK, queryVars, resultVars, timerVars
<1>5. NothingBeforeFirstQuery'
  BY <1>1, <1>2 DEF NothingBeforeFirstQuery, queryVars, timerVars
<1>6. ResultsWereReported'
  BY <1>1, <1>2, FS_AddElement DEF ResultsWereReported, queryVars
<1>7. ResultHasQuorum'
  BY <1>1, <1>2, <1>6, QuorumUnchanged DEF ResultsWereReported
<1> QED
  BY <1>4, <1>5, <1>6, <1>7

\* handle_message of an AggregationMessage, with the end_query it may call.
LEMMA ResultArrivesIInv == ASSUME IInv, ResultArrives PROVE IInv'
<1> USE DEF IInv
<1> DEFINE results(m) == curr_query_results \cup {m}
<1>1. PICK m \in in_flight :
        /\ in_flight' = in_flight \ {m}
        /\ \/ /\ EndQuery(results(m))
              /\ IF query_finished'
                   THEN query_timeout_timer' = "none" /\ UNCHANGED stray_timers
                   ELSE Register("result", registered("start"), stray_timers)
           \/ /\ curr_query_results' = results(m)
              /\ IF query_finished
                   THEN query_timeout_timer' = "none" /\ UNCHANGED stray_timers
                   ELSE Register("result", "none", stray_timers)
              /\ UNCHANGED <<query_num, query_finished, pending_batch_queries,
                             requests, resultVars>>
  BY DEF ResultArrives
<1>2. UNCHANGED <<timeout_committed, next_query, reports>>
  BY DEF ResultArrives
<1>3. query_num # -1 /\ query_num \in Query
  BY DEF NothingBeforeFirstQuery, TypeOK
<1>4. results(m) \subseteq reports
  BY DEF ResultsWereReported
<1>5. registered("start") \in {"none", "start", "result"}
  BY DEF registered
<1>6. query_timeout_timer' \in {"none", "start", "result"} /\ stray_timers' \in Nat
  BY <1>1, <1>5, RegisterType DEF TypeOK
<1>7. CASE EndQuery(results(m))
  <2>1. /\ query_num' \in Query /\ curr_query_results' = {} /\ TypeOK' /\ ResultHasQuorum'
    BY <1>1, <1>2, <1>3, <1>4, <1>6, <1>7, EndQueryPreserves DEF TypeOK
  <2>2. NothingBeforeFirstQuery' /\ ResultsWereReported'
    BY <1>1, <1>2, <2>1 DEF NothingBeforeFirstQuery, ResultsWereReported, Query
  <2> QED
    BY <2>1, <2>2
<1>8. CASE /\ curr_query_results' = results(m)
           /\ UNCHANGED <<query_num, query_finished, pending_batch_queries,
                          requests, resultVars>>
  <2>1. TypeOK' /\ NothingBeforeFirstQuery' /\ ResultsWereReported'
    BY <1>1, <1>2, <1>3, <1>4, <1>6, <1>8
    DEF TypeOK, NothingBeforeFirstQuery, ResultsWereReported, resultVars
  <2>2. ResultHasQuorum'
    BY <1>2, <1>8, QuorumUnchanged DEF ResultsWereReported
  <2> QED
    BY <2>1, <2>2
<1> QED
  BY <1>1, <1>7, <1>8

\* The timer thread: a timer expires, its callback ends the query.
LEMMA TimerThreadIInv == ASSUME IInv, TimerThread PROVE IInv'
<1> USE DEF IInv
<1>1. CASE TimerExpires
  <2>1. TypeOK' /\ NothingBeforeFirstQuery' /\ ResultsWereReported'
    BY <1>1 DEF TimerExpires, TypeOK, NothingBeforeFirstQuery, ResultsWereReported,
                queryVars, resultVars, clientVars
  <2>2. ResultHasQuorum'
    BY <1>1, QuorumUnchanged DEF TimerExpires, ResultsWereReported, clientVars
  <2> QED
    BY <2>1, <2>2
<1>2. CASE QueryTimeout
  <2>1. query_num # -1
    BY <1>2 DEF QueryTimeout, NothingBeforeFirstQuery
  <2>2. /\ EndQuery(curr_query_results) /\ timeout_committed' = FALSE
        /\ UNCHANGED <<clientVars, next_query>>
    BY <1>2 DEF QueryTimeout
  <2>3. query_timeout_timer' \in {"none", "start", "result"} /\ stray_timers' \in Nat
    BY <1>2, RegisterType DEF QueryTimeout, TypeOK
  <2>4. /\ query_num' \in Query /\ curr_query_results' = {} /\ TypeOK' /\ ResultHasQuorum'
    BY <2>1, <2>2, <2>3, EndQueryPreserves DEF TypeOK, ResultsWereReported, clientVars
  <2>5. NothingBeforeFirstQuery' /\ ResultsWereReported'
    BY <2>2, <2>4 DEF NothingBeforeFirstQuery, ResultsWereReported, Query, clientVars
  <2> QED
    BY <2>4, <2>5
<1> QED
  BY <1>1, <1>2 DEF TimerThread

LEMMA NextIInv == IInv /\ [Next]_vars => IInv'
<1> SUFFICES ASSUME IInv, [Next]_vars PROVE IInv'
  OBVIOUS
<1>1. CASE UNCHANGED vars
  BY <1>1 DEF IInv, TypeOK, NothingBeforeFirstQuery, ResultsWereReported,
              ResultHasQuorum, has_quorum, supporters, vars, queryVars, resultVars,
              timerVars, clientVars
<1> QED
  BY <1>1, ApplicationIInv, GroupReportsIInv, ResultArrivesIInv, TimerThreadIInv
  DEF Next

-----------------------------------------------------------------------------
(* Theorems *)

\* The inductive invariant of the server: every result it has counted, in
\* curr_query_results or on its way to it, was reported by its group (end_query).
THEOREM ServerInvariant == Spec => []IInv
BY InitIInv, NextIInv, PTL DEF Spec

\* The server's state stays within its types; in particular end_query never
\* indexes all_query_results with the query_num of a server that has started
\* no query.
THEOREM ServerTypeCorrect == Spec => []TypeOK
<1>1. IInv => TypeOK
  BY DEF IInv
<1> QED
  BY <1>1, ServerInvariant, PTL

\* F + 1 groups have reported each result that the server announces or keeps,
\* for any number of groups, failures tolerated and queries, whatever the
\* timers do and however late results are.
THEOREM ResultsHaveQuorum == Spec => []ResultHasQuorum
<1>1. IInv => ResultHasQuorum
  BY DEF IInv
<1> QED
  BY <1>1, ServerInvariant, PTL
-----------------------------------------------------------------------------
(* The refinement of QueryService *)

LEMMA InitMaps == Init => Service!Init
BY DEF Init, Service!Init

\* end_query tells the application, and goes on with the batch.
LEMMA EndQueryTells ==
  ASSUME IInv, query_num # -1, NEW results, results \subseteq reports,
         EndQuery(results), reports' = reports
  PROVE  Service!Next
<1>1. PICK r \in outcomes(results) :
        callbacks' = Append(callbacks, [query |-> query_num, result |-> r])
  BY DEF EndQuery
<1>2. r = NoResult \/ (r \in Result /\ has_quorum(r))
  BY OutcomeHasQuorum DEF IInv, TypeOK, ResultsWereReported
<1>3. r = NoResult \/ Service!agreed(r)
  BY <1>2 DEF has_quorum, supporters, Service!agreed, Service!Cardinality, Cardinality
<1>4. \/ pending_batch_queries = {} /\ UNCHANGED <<query_num, pending_batch_queries>>
      \/ \E q \in pending_batch_queries :
           /\ Service!first_of(q, pending_batch_queries)
           /\ query_num' = q
           /\ pending_batch_queries' = pending_batch_queries \ {q}
  BY DEF EndQuery, Broadcast, is_top, Service!first_of
<1>5. Service!Tell(r)
  BY <1>1, <1>3, <1>4 DEF Service!Tell
<1>6. r \in Service!Result \cup {NoResult}
  BY <1>2 DEF Service!Result, Result
<1> QED
  BY <1>5, <1>6 DEF Service!Next

\* A call of start_query or start_queries is one of the service's.
LEMMA ApplicationStarts ==
  ASSUME IInv, Application PROVE Service!Next
<1>1. CASE AppStartsQuery
  <2>1. next_query \in Query
    BY <1>1 DEF AppStartsQuery, MayStart, IInv, TypeOK, Query
  <2>2. Service!StartQuery(next_query)
    BY <1>1 DEF AppStartsQuery, Broadcast, resultVars, clientVars, Service!StartQuery
  <2> QED
    BY <2>1, <2>2 DEF Service!Next
<1>2. CASE AppStartsQueries
  <2>1. PICK last \in next_query .. LastQuery :
          \E q \in pending_batch_queries \cup (next_query .. last) :
            /\ is_top(q, pending_batch_queries \cup (next_query .. last))
            /\ pending_batch_queries' =
                 (pending_batch_queries \cup (next_query .. last)) \ {q}
            /\ Broadcast(q)
    BY <1>2 DEF AppStartsQueries
  <2> DEFINE batch == next_query .. last
  <2>2. batch \in (SUBSET Query) \ {{}}
    BY DEF IInv, TypeOK, Query
  <2>3. Service!StartQueries(batch)
    BY <1>2, <2>1 DEF AppStartsQueries, is_top, Broadcast, resultVars, clientVars,
                      Service!StartQueries, Service!first_of
  <2> QED
    BY <2>2, <2>3 DEF Service!Next
<1> QED
  BY <1>1, <1>2 DEF Application

\* Every step of the server is one of the service or leaves it alone.
LEMMA StepMaps == IInv /\ [Next]_vars => [Service!Next]_(Service!vars)
<1> SUFFICES ASSUME IInv, [Next]_vars PROVE [Service!Next]_(Service!vars)
  OBVIOUS
<1>1. CASE UNCHANGED vars
  BY <1>1 DEF vars, queryVars, resultVars, clientVars, Service!vars
<1>2. CASE Application
  BY <1>2, ApplicationStarts
<1>3. ASSUME NEW g \in Group, GroupReports(g) PROVE Service!Next
  <2>1. PICK q \in requests, v \in Value :
          reports' = reports \cup {[group |-> g, query |-> q, value |-> v]}
    BY <1>3 DEF GroupReports
  <2> DEFINE r == [query |-> q, value |-> v]
  <2>2. r \in Service!Result
    BY DEF IInv, TypeOK, Service!Result
  <2>3. Service!GroupReports(g, r)
    BY <1>3, <2>1 DEF GroupReports, queryVars, resultVars, Service!GroupReports
  <2> QED
    BY <2>2, <2>3 DEF Service!Next
<1>4. CASE ResultArrives
  <2>1. PICK m \in in_flight :
          \/ EndQuery(curr_query_results \cup {m})
          \/ UNCHANGED <<query_num, pending_batch_queries, resultVars>>
    BY <1>4 DEF ResultArrives
  <2>2. /\ reports' = reports /\ query_num # -1
        /\ curr_query_results \cup {m} \subseteq reports
    BY <1>4 DEF ResultArrives, IInv, NothingBeforeFirstQuery, ResultsWereReported
  <2>3. CASE EndQuery(curr_query_results \cup {m})
    BY <2>2, <2>3, EndQueryTells
  <2>4. CASE UNCHANGED <<query_num, pending_batch_queries, resultVars>>
    BY <2>2, <2>4 DEF resultVars, Service!vars
  <2> QED
    BY <2>1, <2>3, <2>4
<1>5. CASE TimerExpires
  BY <1>5 DEF TimerExpires, queryVars, resultVars, clientVars, Service!vars
<1>6. CASE QueryTimeout
  <2>1. /\ EndQuery(curr_query_results) /\ reports' = reports /\ query_num # -1
        /\ curr_query_results \subseteq reports
    BY <1>6 DEF QueryTimeout, clientVars, IInv, NothingBeforeFirstQuery,
                ResultsWereReported
  <2> QED
    BY <2>1, EndQueryTells
<1> QED
  BY <1>1, <1>2, <1>3, <1>4, <1>5, <1>6 DEF Next, TimerThread

\* The server implements the QueryService for any groups, failures tolerated
\* and queries: the application is told of one query at a time, of a batch in
\* order, and of no result with too few groups behind it (start_query,
\* start_queries, end_query, handle_message).
THEOREM ServerImplementsService == Spec => ImplementsQueryService
BY InitMaps, StepMaps, ServerInvariant, PTL DEF Spec, ImplementsQueryService, Service!Spec
-----------------------------------------------------------------------------
(* The order of the callbacks *)

\* What is told is of the current query or an earlier one, what waits in the
\* batch is later than the current query, and the application has numbered
\* them all: start_queries and end_query take the lowest number of the heap.
BatchIsAhead ==
  /\ \A i \in DOMAIN callbacks : callbacks[i].query <= query_num
  /\ query_num < next_query
  /\ \A q \in pending_batch_queries : query_num < q /\ q < next_query

OrderInv == QueriesEndInOrder /\ BatchIsAhead

\* An application that waits for its queries finds no batch under way when it
\* calls start_query, so its number is not overtaken by one of the batch.
LEMMA WaitingAppFindsNoBatch ==
  ASSUME AppWaits, IInv, OrderInv, MayStart
  PROVE  pending_batch_queries = {}
<1> SUFFICES ASSUME NEW q \in pending_batch_queries PROVE FALSE
  OBVIOUS
<1>1. q \in 0 .. next_query - 1
  BY DEF OrderInv, BatchIsAhead, IInv, TypeOK, Query
<1>2. PICK i \in DOMAIN callbacks : callbacks[i].query = q
  BY <1>1 DEF MayStart, ended
<1>3. q <= query_num /\ query_num < q
  BY <1>2 DEF OrderInv, BatchIsAhead
<1> QED
  BY <1>3 DEF IInv, TypeOK, Query

\* What the callbacks name are query numbers.
LEMMA CallbacksNameQueries ==
  ASSUME TypeOK
  PROVE  \A i \in DOMAIN callbacks : callbacks[i].query \in Query
<1> DEFINE Entry == [query : Query, result : Result \cup {NoResult}]
<1>1. callbacks \in Seq(Entry)
  BY DEF TypeOK
<1> HIDE DEF Entry
<1>2. \A i \in DOMAIN callbacks : callbacks[i] \in Entry
  BY <1>1
<1> QED
  BY <1>2 DEF Entry

\* A query that is broadcast is later than everything told so far.
LEMMA LaterQueryKeepsOrder ==
  ASSUME IInv, OrderInv, NEW q \in Query, query_num < q, query_num' = q,
         callbacks' = callbacks, q < next_query',
         \A p \in pending_batch_queries' : q < p /\ p < next_query'
  PROVE  OrderInv'
<1>1. \A i \in DOMAIN callbacks : callbacks[i].query \in Int
  BY CallbacksNameQueries DEF IInv, Query
<1>2. query_num \in Int /\ q \in Int
  BY DEF IInv, TypeOK, Query
<1> QED
  BY <1>1, <1>2 DEF OrderInv, BatchIsAhead, QueriesEndInOrder

LEMMA ApplicationKeepsOrder ==
  ASSUME AppWaits, IInv, OrderInv, Application PROVE OrderInv'
<1>1. CASE AppStartsQuery
  <2>1. next_query \in Query /\ next_query' = next_query + 1
    BY <1>1 DEF AppStartsQuery, MayStart, IInv, TypeOK, Query
  <2>2. query_num < next_query
    BY DEF OrderInv, BatchIsAhead
  <2>3. pending_batch_queries' = {}
    BY <1>1, WaitingAppFindsNoBatch DEF AppStartsQuery
  <2>4. query_num' = next_query /\ callbacks' = callbacks
    BY <1>1 DEF AppStartsQuery, Broadcast, resultVars
  <2>5. next_query < next_query'
    BY <2>1 DEF Query
  <2> QED
    BY <2>1, <2>2, <2>3, <2>4, <2>5, LaterQueryKeepsOrder
<1>2. CASE AppStartsQueries
  <2>0. PICK last \in next_query .. LastQuery :
          \E q \in pending_batch_queries \cup (next_query .. last) :
            /\ is_top(q, pending_batch_queries \cup (next_query .. last))
            /\ pending_batch_queries' =
                 (pending_batch_queries \cup (next_query .. last)) \ {q}
            /\ Broadcast(q) /\ next_query' = last + 1
    BY <1>2 DEF AppStartsQueries
  <2>1. PICK q \in pending_batch_queries \cup (next_query .. last) :
          /\ is_top(q, pending_batch_queries \cup (next_query .. last))
          /\ pending_batch_queries' =
               (pending_batch_queries \cup (next_query .. last)) \ {q}
          /\ query_num' = q /\ next_query' = last + 1
    BY <2>0 DEF Broadcast
  <2> DEFINE batch == pending_batch_queries \cup (next_query .. last)
  <2>2. next_query \in Nat /\ last \in Nat /\ next_query <= last /\ query_num \in Int
    BY DEF IInv, TypeOK, Query
  <2>3. \A p \in batch : p \in Query /\ query_num < p /\ p < last + 1
    <3> TAKE p \in batch
    <3>1. CASE p \in pending_batch_queries
      BY <3>1, <2>2 DEF OrderInv, BatchIsAhead, IInv, TypeOK, Query
    <3>2. CASE p \in next_query .. last
      BY <3>2, <2>2 DEF OrderInv, BatchIsAhead, Query
    <3> QED
      BY <3>1, <3>2
  <2>4. \A p \in batch \ {q} : q < p
    BY <2>1, <2>3 DEF is_top, Query
  <2>5. callbacks' = callbacks
    BY <1>2 DEF AppStartsQueries, resultVars
  <2> QED
    BY <2>1, <2>3, <2>4, <2>5, LaterQueryKeepsOrder
<1> QED
  BY <1>1, <1>2 DEF Application

\* end_query tells of the current query and goes on to a later one.
LEMMA EndQueryKeepsOrder ==
  ASSUME IInv, OrderInv, query_num # -1, NEW results, EndQuery(results),
         next_query' = next_query, results \subseteq reports
  PROVE  OrderInv'
<1>1. PICK r \in outcomes(results) :
        callbacks' = Append(callbacks, [query |-> query_num, result |-> r])
  BY DEF EndQuery
<1> DEFINE Entry == [query : Query, result : Result \cup {NoResult}]
           e == [query |-> query_num, result |-> r]
<1>2. r = NoResult \/ r \in Result
  BY OutcomeHasQuorum DEF IInv, TypeOK, ResultsWereReported
<1>3. callbacks \in Seq(Entry) /\ e \in Entry
  BY <1>2 DEF IInv, TypeOK
<1>4. /\ Len(callbacks') = Len(callbacks) + 1 /\ Len(callbacks) \in Nat
      /\ DOMAIN callbacks' = 1 .. Len(callbacks) + 1
      /\ DOMAIN callbacks = 1 .. Len(callbacks)
      /\ \A i \in DOMAIN callbacks : callbacks'[i] = callbacks[i]
      /\ callbacks'[Len(callbacks) + 1].query = query_num
  BY <1>1, <1>3
<1>5. \A i \in DOMAIN callbacks : callbacks[i].query \in Int
  BY CallbacksNameQueries DEF IInv, Query
<1>6. query_num \in Int
  BY DEF IInv, TypeOK, Query
<1>7. \A i \in DOMAIN callbacks' : callbacks'[i].query <= query_num
  BY <1>4, <1>6 DEF OrderInv, BatchIsAhead
<1>8. QueriesEndInOrder'
  <2> SUFFICES ASSUME NEW i \in DOMAIN callbacks', NEW j \in DOMAIN callbacks', i < j
               PROVE  callbacks'[i].query <= callbacks'[j].query
    BY DEF QueriesEndInOrder
  <2>1. i \in DOMAIN callbacks
    BY <1>4
  <2>2. CASE j \in DOMAIN callbacks
    BY <2>1, <2>2, <1>4 DEF OrderInv, QueriesEndInOrder
  <2>3. CASE j = Len(callbacks) + 1
    BY <2>3, <1>4, <1>7
  <2> QED
    BY <2>2, <2>3, <1>4
<1>9. CASE pending_batch_queries = {} /\ UNCHANGED <<query_num, pending_batch_queries>>
  BY <1>7, <1>8, <1>9 DEF OrderInv, BatchIsAhead
<1>10. CASE \E q \in pending_batch_queries :
              /\ is_top(q, pending_batch_queries)
              /\ pending_batch_queries' = pending_batch_queries \ {q}
              /\ Broadcast(q)
  <2>1. PICK q \in pending_batch_queries :
              /\ is_top(q, pending_batch_queries)
              /\ pending_batch_queries' = pending_batch_queries \ {q}
              /\ query_num' = q
    BY <1>10 DEF Broadcast
  <2>2. query_num < q /\ q < next_query /\ q \in Int
    BY DEF OrderInv, BatchIsAhead, IInv, TypeOK, Query
  <2>3. \A i \in DOMAIN callbacks' : callbacks'[i].query <= q
    BY <1>4, <1>5, <1>6, <1>7, <2>2
  <2>4. \A p \in pending_batch_queries' : q < p /\ p < next_query
    BY <2>1 DEF is_top, OrderInv, BatchIsAhead, IInv, TypeOK, Query
  <2> QED
    BY <1>8, <2>1, <2>2, <2>3, <2>4 DEF OrderInv, BatchIsAhead
<1> QED
  BY <1>9, <1>10 DEF EndQuery

LEMMA NextKeepsOrder ==
  ASSUME AppWaits, IInv, OrderInv, [Next]_vars PROVE OrderInv'
<1> USE DEF OrderInv, BatchIsAhead, QueriesEndInOrder
<1>1. CASE UNCHANGED vars
  BY <1>1 DEF vars, queryVars, resultVars
<1>2. CASE Application
  BY <1>2, ApplicationKeepsOrder
<1>3. ASSUME NEW g \in Group, GroupReports(g) PROVE OrderInv'
  BY <1>3 DEF GroupReports, queryVars, resultVars
<1>4. CASE ResultArrives
  <2>1. PICK m \in in_flight :
          \/ EndQuery(curr_query_results \cup {m})
          \/ UNCHANGED <<query_num, pending_batch_queries, resultVars>>
    BY <1>4 DEF ResultArrives
  <2>2. /\ next_query' = next_query /\ query_num # -1
        /\ curr_query_results \cup {m} \subseteq reports
    BY <1>4 DEF ResultArrives, IInv, NothingBeforeFirstQuery, ResultsWereReported
  <2>3. CASE EndQuery(curr_query_results \cup {m})
    BY <2>2, <2>3, EndQueryKeepsOrder
  <2>4. CASE UNCHANGED <<query_num, pending_batch_queries, resultVars>>
    BY <2>2, <2>4 DEF resultVars
  <2> QED
    BY <2>1, <2>3, <2>4
<1>5. CASE TimerExpires
  BY <1>5 DEF TimerExpires, queryVars, resultVars
<1>6. CASE QueryTimeout
  <2>1. /\ EndQuery(curr_query_results) /\ next_query' = next_query /\ query_num # -1
        /\ curr_query_results \subseteq reports
    BY <1>6 DEF QueryTimeout, IInv, NothingBeforeFirstQuery, ResultsWereReported
  <2> QED
    BY <2>1, EndQueryKeepsOrder
<1> QED
  BY <1>1, <1>2, <1>3, <1>4, <1>5, <1>6 DEF Next, TimerThread

\* The application that waits for its queries, as start_query asks it to, hears
\* of them in the order of their numbers, for any number of queries and groups:
\* no callback of a query comes after one of a later query, whichever of the
\* timers that start_query and handle_message leave behind calls end_query.
THEOREM QueriesInOrder == ASSUME AppWaits PROVE Spec => []QueriesEndInOrder
<1>1. Init => OrderInv
  BY DEF Init, OrderInv, BatchIsAhead, QueriesEndInOrder
<1>2. IInv /\ OrderInv /\ [Next]_vars => OrderInv'
  BY NextKeepsOrder
<1>3. OrderInv => QueriesEndInOrder
  BY DEF OrderInv
<1> QED
  BY <1>1, <1>2, <1>3, ServerInvariant, PTL DEF Spec
=============================================================================
