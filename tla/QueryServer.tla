---------------------------- MODULE QueryServer ----------------------------
(***************************************************************************)
(* The query server (QueryServer.hpp and _impl.hpp): it starts queries,    *)
(* collects the results of the aggregation groups, decides on the result   *)
(* of each query and goes on to the next query of a batch.  Its handlers   *)
(* run on three threads: the application's (start_query, start_queries),   *)
(* the network's (handle_message) and the timer's (end_query).  Each       *)
(* handler is one action.                                                  *)
(*                                                                         *)
(* The clients are external: the root of each group may report a result    *)
(* for a query the server has sent out, at most once.  Signing, the other  *)
(* service of the server, is in ProtocolState, beside the clients' half.   *)
(***************************************************************************)
EXTENDS Integers, Sequences, FiniteSets

CONSTANTS
  NumMeters,          \* num_meters
  FailuresTolerated,  \* FAILURES_TOLERATED
  Group,              \* the aggregation groups
  Silent,             \* the groups that may never report
  Value,              \* what a result can be: num_contributors and the body
  NoResult,           \* the null pointer that stands for a failed query
  AppWaits,           \* whether the application starts queries only when all
                      \* earlier ones have ended, as start_query asks it to
  LastQuery           \* bound: the last query number (they start at 0)

Query == 0 .. LastQuery
Result == [query : Query, value : Value]
Report == [group : Group, query : Query, value : Value]

ASSUME MetersAssumption == NumMeters \in Nat \ {0}
ASSUME FailuresAssumption == FailuresTolerated \in Nat
ASSUME GroupAssumption == IsFiniteSet(Group) /\ Silent \subseteq Group
ASSUME ValueAssumption == IsFiniteSet(Value)
ASSUME NoResultAssumption == NoResult \notin Result
ASSUME AppAssumption == AppWaits \in BOOLEAN
ASSUME LastQueryAssumption == LastQuery \in Nat

VARIABLES
  query_num, query_finished,
  curr_query_results,
  all_query_results,
  pending_batch_queries,
  query_timeout_timer,  \* the live timer it names: start_query's ("start"),
                        \* handle_message's ("result"), or "none"
  stray_timers,         \* live timers whose ID has been overwritten
  timeout_committed,    \* a callback is past the check for cancellation
  next_query,           \* the number the application gives its next query
  requests,             \* the queries sent to the meters
  reports,              \* the results sent to the server so far
  in_flight,            \* those the server has not received
  callbacks             \* the calls of a query callback, in order

timerVars == <<query_timeout_timer, stray_timers, timeout_committed>>
clientVars == <<reports, in_flight>>
resultVars == <<all_query_results, callbacks>>
queryVars == <<query_num, query_finished, curr_query_results,
               pending_batch_queries, requests>>
vars == <<queryVars, resultVars, timerVars, clientVars, next_query>>

-----------------------------------------------------------------------------
(* Mutated forms, used to test the properties *)
same_result_of_any_query(m1, m2) == m1.value = m2.value
is_top_of_max_heap(q, queries) == q \in queries /\ \A p \in queries : p <= q
-----------------------------------------------------------------------------
(* Timers *)

\* The integer std::ceil(std::log2(n / d)).
ceil_log2(n, d) ==
  CHOOSE k \in 0 .. 30 : /\ 2^k * d >= n
                         /\ k > 0 => 2^(k - 1) * d < n

\* The delays in milliseconds: start_query's, and compute_timeout_time.
NETWORK_ROUNDTRIP_TIMEOUT == 100

rounds_for_query ==
  LET log2n == ceil_log2(NumMeters, 1)
  IN 6 * FailuresTolerated + 3 * log2n * log2n + 3
       + ceil_log2(NumMeters, 2 * FailuresTolerated + 1)

delay(kind) ==
  NETWORK_ROUNDTRIP_TIMEOUT *
    (IF kind = "start" THEN rounds_for_query
                       ELSE ceil_log2(NumMeters, 2 * FailuresTolerated + 1))

\* register_timer computes tv_nsec = delay_ms * 1000000 in 32 bits, that is
\* 64 * (delay_ms * 15625) modulo 2^32.  timer_settime refuses it unless it is
\* between 0 and 999999999, and disarms the timer if it is 0.
timer_arms(delay_ms) == (delay_ms * 15625) % 2^26 \in 1 .. 15624999

live(timer) == IF timer = "none" THEN 0 ELSE 1

registered_at_start_only(kind) ==    \* a mutated form
  IF kind = "start" /\ timer_arms(delay(kind)) THEN kind ELSE "none"

\* register_timer: the ID of the new timer replaces the one of `current'.
registered(kind) == IF timer_arms(delay(kind)) THEN kind ELSE "none"

Register(kind, current, strays) ==
  /\ query_timeout_timer' = registered(kind)
  /\ stray_timers' = strays + live(current)

-----------------------------------------------------------------------------
Init ==
  /\ query_num = -1
  /\ query_finished \in BOOLEAN
  /\ curr_query_results = {}
  /\ all_query_results = [q \in Query |-> NoResult]
  /\ pending_batch_queries = {}
  /\ query_timeout_timer = "none"
  /\ stray_timers = 0
  /\ timeout_committed = FALSE
  /\ next_query = 0
  /\ requests = {}
  /\ reports = {}
  /\ in_flight = {}
  /\ callbacks = <<>>

-----------------------------------------------------------------------------
(* Starting and ending queries *)

\* start_query but for its timer.
Broadcast(q) ==
  /\ query_num' = q
  /\ curr_query_results' = {}
  /\ query_finished' = FALSE
  /\ requests' = requests \cup {q}

\* pending_batch_queries is a priority queue: the lowest number is on top.
is_top(q, queries) == q \in queries /\ \A p \in queries : q <= p

\* AggregationMessage's operator==.
same_result(m1, m2) == m1.query = m2.query /\ m1.value = m2.value

\* The results found F + 1 times; end_query takes the first one it meets.
quorum_results(results) ==
  {m \in results : Cardinality({x \in results : same_result(x, m)})
                     >= FailuresTolerated + 1}

outcomes(results) ==
  IF quorum_results(results) = {} THEN {NoResult}
  ELSE {[query |-> m.query, value |-> m.value] : m \in quorum_results(results)}

\* A mutated form: the next query starts before the callbacks are called.
EndQuery_starts_next_first(results) ==
  /\ \/ /\ pending_batch_queries = {}
        /\ query_finished' = TRUE
        /\ curr_query_results' = {}
        /\ UNCHANGED <<query_num, pending_batch_queries, requests>>
     \/ \E q \in pending_batch_queries :
          /\ is_top(q, pending_batch_queries)
          /\ pending_batch_queries' = pending_batch_queries \ {q}
          /\ Broadcast(q)
  /\ \E r \in outcomes(results) :
       /\ all_query_results' = [all_query_results EXCEPT ![query_num] = r]
       /\ callbacks' = Append(callbacks, [query |-> query_num', result |-> r])

\* end_query, but for the timer of the start_query it may call.
EndQuery(results) ==
  /\ \E r \in outcomes(results) :
       /\ all_query_results' = [all_query_results EXCEPT ![query_num] = r]
       /\ callbacks' = Append(callbacks, [query |-> query_num, result |-> r])
  /\ \/ /\ pending_batch_queries = {}
        /\ query_finished' = TRUE
        /\ curr_query_results' = {}
        /\ UNCHANGED <<query_num, pending_batch_queries, requests>>
     \/ \E q \in pending_batch_queries :
          /\ is_top(q, pending_batch_queries)
          /\ pending_batch_queries' = pending_batch_queries \ {q}
          /\ Broadcast(q)

-----------------------------------------------------------------------------
(* The application *)

\* The queries that have completed, as far as the callbacks tell.
ended == {callbacks[i].query : i \in DOMAIN callbacks}

MayStart ==
  /\ next_query <= LastQuery
  /\ AppWaits => \A q \in 0 .. next_query - 1 : q \in ended

\* start_query called by the application.
AppStartsQuery ==
  /\ MayStart
  /\ Broadcast(next_query)
  /\ Register("start", query_timeout_timer, stray_timers)
  /\ next_query' = next_query + 1
  /\ UNCHANGED <<pending_batch_queries, timeout_committed, resultVars, clientVars>>

\* start_queries called with a batch of queries up to `last'.
AppStartsQueries ==
  /\ MayStart
  /\ \E last \in next_query .. LastQuery :
       LET queries == pending_batch_queries \cup (next_query .. last)
       IN \E q \in queries :
            /\ is_top(q, queries)
            /\ pending_batch_queries' = queries \ {q}
            /\ Broadcast(q)
            /\ next_query' = last + 1
  /\ Register("start", query_timeout_timer, stray_timers)
  /\ UNCHANGED <<timeout_committed, resultVars, clientVars>>

-----------------------------------------------------------------------------
(* The groups: external *)

GroupReports(g) ==
  /\ \E q \in requests, v \in Value :
       /\ \A r \in reports : r.group = g => r.query < q
       /\ reports' = reports \cup {[group |-> g, query |-> q, value |-> v]}
       /\ in_flight' = in_flight \cup {[group |-> g, query |-> q, value |-> v]}
  /\ UNCHANGED <<queryVars, resultVars, timerVars, next_query>>

-----------------------------------------------------------------------------
(* The network thread *)

\* More than 2F results: there are no more to come.
is_last_result(finished, results) ==
  ~finished /\ Cardinality(results) > 2 * FailuresTolerated

\* handle_message of an AggregationMessage, of whatever query.  The call of
\* end_query may start the next query, which registers a timer and resets
\* query_finished: then another timer is registered on top of it.
ResultArrives ==
  /\ \E m \in in_flight :
       LET results == curr_query_results \cup {m}
       IN /\ \A x \in in_flight : x.group = m.group => m.query <= x.query
          /\ in_flight' = in_flight \ {m}
          /\ \/ /\ is_last_result(query_finished, results)
                /\ EndQuery(results)
                /\ IF query_finished'
                     THEN query_timeout_timer' = "none" /\ UNCHANGED stray_timers
                     ELSE Register("result", registered("start"), stray_timers)
             \/ /\ ~is_last_result(query_finished, results)
                /\ curr_query_results' = results
                /\ IF query_finished
                     THEN query_timeout_timer' = "none" /\ UNCHANGED stray_timers
                     ELSE Register("result", "none", stray_timers)
                /\ UNCHANGED <<query_num, query_finished, pending_batch_queries,
                               requests, resultVars>>
  /\ UNCHANGED <<timeout_committed, next_query, reports>>

-----------------------------------------------------------------------------
(* The timer thread *)

\* It takes a timer that has fired and finds it not cancelled; from here on
\* cancel_timer comes too late.
TimerExpires ==
  /\ ~timeout_committed
  /\ \/ /\ query_timeout_timer # "none"
        /\ query_timeout_timer' = "none"
        /\ UNCHANGED stray_timers
     \/ /\ stray_timers > 0
        /\ stray_timers' = stray_timers - 1
        /\ UNCHANGED query_timeout_timer
  /\ timeout_committed' = TRUE
  /\ UNCHANGED <<queryVars, resultVars, clientVars, next_query>>

\* The callback of either timer.
QueryTimeout ==
  /\ timeout_committed
  /\ timeout_committed' = FALSE
  /\ EndQuery(curr_query_results)
  /\ IF query_finished'
       THEN UNCHANGED <<query_timeout_timer, stray_timers>>
       ELSE Register("start", query_timeout_timer, stray_timers)
  /\ UNCHANGED <<clientVars, next_query>>

Application == AppStartsQuery \/ AppStartsQueries
TimerThread == TimerExpires \/ QueryTimeout

Next ==
  \/ Application
  \/ \E g \in Group : GroupReports(g)
  \/ ResultArrives
  \/ TimerThread

\* The application has queries to start, the groups that are not Silent
\* answer, and the two threads run.
Fairness ==
  /\ WF_vars(Application) /\ WF_vars(ResultArrives) /\ WF_vars(TimerThread)
  /\ \A g \in Group \ Silent : WF_vars(GroupReports(g))

Spec == Init /\ [][Next]_vars
FairSpec == Spec /\ Fairness

-----------------------------------------------------------------------------
(* Properties *)

TypeOK ==
  /\ query_num \in Query \cup {-1}
  /\ query_finished \in BOOLEAN
  /\ curr_query_results \subseteq Report
  /\ all_query_results \in [Query -> Result \cup {NoResult}]
  /\ pending_batch_queries \subseteq Query
  /\ query_timeout_timer \in {"none", "start", "result"}
  /\ stray_timers \in Nat
  /\ timeout_committed \in BOOLEAN
  /\ next_query \in 0 .. LastQuery + 1
  /\ requests \subseteq Query
  /\ reports \subseteq Report
  /\ in_flight \subseteq Report
  /\ callbacks \in Seq([query : Query, result : Result \cup {NoResult}])

\* The groups that reported this result.
supporters(r) ==
  {m \in reports : m.query = r.query /\ m.value = r.value}

\* Whatever timers and late results do, a result handed to the application or
\* kept for get_query_result was reported by F + 1 groups, so that F groups
\* cannot make one up.
has_quorum(r) == Cardinality(supporters(r)) >= FailuresTolerated + 1

ResultHasQuorum ==
  /\ \A q \in Query : all_query_results[q] # NoResult => has_quorum(all_query_results[q])
  /\ \A i \in DOMAIN callbacks :
       callbacks[i].result # NoResult => has_quorum(callbacks[i].result)

\* To the application the server is the QueryService: whatever order the three
\* threads take, one query at a time, batches in order, and no result that too
\* few groups have reported.
Service == INSTANCE QueryService WITH
  Quorum <- FailuresTolerated + 1,
  current <- query_num, waiting <- pending_batch_queries, told <- callbacks

ImplementsQueryService == Service!Spec

\* A batch runs in the order of the query numbers: the application never hears
\* of a query after it has heard of a later one, be it from a timer that should
\* have gone with the earlier query.
QueriesEndInOrder ==
  \A i, j \in DOMAIN callbacks : i < j => callbacks[i].query <= callbacks[j].query

\* Every query comes to an end, provided one group at least answers each.
EveryQueryEnds == <>(Query \subseteq ended)

\* What the application is told about a query is the result of that query.
ResultIsOfItsQuery ==
  \A i \in DOMAIN callbacks :
    callbacks[i].result # NoResult => callbacks[i].result.query = callbacks[i].query

\* The short timeout is for the next result message: as long as none has
\* arrived the query has the time start_query gives it.
PatientUntilFirstResult ==
  ~query_finished /\ curr_query_results = {} => query_timeout_timer # "result"
=============================================================================
