--------------------------- MODULE ProtocolState ---------------------------
(***************************************************************************)
(* The clients of the query system: ProtocolState (the state machine of a  *)
(* query), the message dispatch of QueryClient in front of it, and what    *)
(* they rely on: the network, the timer thread and the query server.       *)
(*                                                                         *)
(* A query goes through the phases SETUP (the server blindly signs the     *)
(* contribution), SHUFFLE (onions carry it to its proxies), AGREEMENT (the *)
(* proxies exchange signatures in two phases) and AGGREGATE (a tree in     *)
(* each group sums up).  SHUFFLE and AGREEMENT advance in overlay rounds:  *)
(* in each round a node sends one batch of messages to its gossip target,  *)
(* the last of them marked final, and ends its round when the final        *)
(* message of its gossip predecessor arrives, when a timeout finds that    *)
(* the predecessor answers no pings, or when a ping could not be sent.     *)
(*                                                                         *)
(* One action per handler.  The code recurses: end_overlay_round calls     *)
(* common_end_overlay_round, which handles buffered messages, which may    *)
(* call end_overlay_round again, always as the last thing it does.  Here   *)
(* pc[n] = "end_round" says that this call is due, and pc[n] = "drain"     *)
(* that the loop over future_aggregation_messages is running; until pc[n]  *)
(* is "ready" again no other handler starts (Quiet), so that a handler     *)
(* with all its recursive calls is atomic.                                 *)
(***************************************************************************)
EXTENDS CrusaderAgreementState, TreeAggregationState, Sequences

CONSTANTS
  FailuresTolerated,  \* FAILURES_TOLERATED
  ProxiesOf,          \* the proxies each meter picks
  Route,              \* the path find_paths returns, for each kind of message,
                      \* value, sender and receiver; the sender is not on it
  MaySkip,            \* meters whose filter function may reject a query
  Pinging,            \* the meters whose pings are followed; the others' are
                      \* taken to be never answered in time
  LastQuery,          \* bound: the last query number (they start at 0)
  MayCrash,           \* bound: the meters that may crash
  MaxTimeouts,        \* bound: rounds ended by a timeout although the
                      \* predecessor is alive
  MaxStrayTimers      \* bound: timers per node that nobody can cancel any more

Kind == {"contribution", "sign", "accept"}

ASSUME NodeAssumption == Node = 0 .. NumMeters - 1
\* SimSmartMeterClient and UtilityServer refuse other numbers of meters than the
\* primes of PrimeModuli.hpp, which are odd.
ASSUME OddAssumption == NumMeters > 1 /\ NumMeters % 2 = 1
ASSUME FailuresAssumption == FailuresTolerated \in Nat
ASSUME ProxiesAssumption == ProxiesOf \in [Node -> SUBSET Node]
ASSUME RouteAssumption ==
  Route \in [Kind -> [Node -> [Node -> [Node -> Seq(Node) \ {<<>>}]]]]
\* What find_paths returns leads to the proxy (FoundPathsAreDisjoint).
ASSUME RoutesAssumption ==
  \A kind \in Kind, v, n \in Node : \A p \in ProxiesOf[v] \ {n} :
    LET route == Route[kind][v][n][p] IN route[Len(route)] = p
ASSUME BoundsAssumption ==
  /\ MaySkip \subseteq Node /\ MayCrash \subseteq Node
  /\ Pinging \subseteq Node
  /\ {LastQuery, MaxTimeouts, MaxStrayTimers} \subseteq Nat

\* The number of rounds after which SHUFFLE and each phase of AGREEMENT end.
PhaseRounds == 2 * FailuresTolerated + Log2N * Log2N + 1

VARIABLES
  \* --- ProtocolState, each a function from nodes ---
  protocol_phase,
  query_num,          \* get_current_query_num: -1 before the first query
  overlay_round,
  is_last_round,
  ping_response,      \* ping_response_from_predecessor
  failed_meter_ids,
  waiting_messages,   \* bodies waiting for the round of their next hop
  outgoing_messages,  \* bodies the protocol has produced in this round
  future_overlay,     \* future_overlay_messages
  future_aggregation, \* future_aggregation_messages
  proxy_values,
  accepted,           \* accepted_proxy_values
  agreement,          \* agreement_phase_state
  agreement_start,    \* agreement_start_round
  aggregation,        \* aggregation_phase_state
  pc,                 \* where the handler that is running has got to
  \* --- the timer thread ---
  timer_armed,        \* the timer round_timeout_timer names has not fired
  stray_timers,       \* live timers whose ID has been overwritten
  timeout_committed,  \* a callback is past the check for cancellation
  \* --- the network ---
  overlay_net, aggregation_net, ping_net,
  signature_requests,
  from_server,        \* for each node the server's messages, in order
  alive,
  \* --- the query server ---
  server_query, meters_signed, server_results,
  \* --- counters behind the bounds ---
  timeouts

roundVars == <<query_num, overlay_round, is_last_round>>
messageVars == <<waiting_messages, outgoing_messages, future_overlay>>
valueVars == <<proxy_values, accepted, agreement, agreement_start>>
aggregateVars == <<aggregation, future_aggregation>>
timerVars == <<timer_armed, stray_timers, timeout_committed>>
serverVars == <<server_query, meters_signed>>
vars == <<protocol_phase, roundVars, ping_response, failed_meter_ids, messageVars,
          valueVars, aggregateVars, pc, timerVars, overlay_net, aggregation_net,
          ping_net, signature_requests, from_server, alive, serverVars,
          server_results, timeouts>>

-----------------------------------------------------------------------------
(* Messages *)

Phase == {"IDLE", "SETUP", "SHUFFLE", "AGREEMENT", "AGGREGATE"}
OverlayPhase == {"SHUFFLE", "AGREEMENT"}
Query == -1 .. LastQuery

-----------------------------------------------------------------------------
(* Mutated forms, used to test the properties *)

batch_of_old_round(n, r, bodies) ==
  {[from |-> n, round |-> overlay_round[n], query |-> query_num[n],
    final |-> TRUE, bodies |-> bodies]}

due_in_old_round(n, r) ==
  {m \in future_overlay[n] : m.round = overlay_round[n] /\ m.query = query_num[n]}

ends_round_unless_more(messages, phase) ==
  phase \in OverlayPhase /\ \A m \in messages : m.final

KeepWaiting_without_timer(n) ==
  /\ ping_response[n]
  /\ ping_response' = [ping_response EXCEPT ![n] = FALSE]
  /\ UNCHANGED <<timer_armed, stray_timers, failed_meter_ids, ping_net, pc, timeouts>>

GiveUp_notes_failure(n) ==
  /\ ~ping_response[n]
  /\ failed_meter_ids' = [failed_meter_ids EXCEPT
       ![n] = @ \cup {gossip_predecessor(n, overlay_round[n], NumMeters)}]
  /\ UNCHANGED <<pc, timeouts, ping_response, timer_armed, stray_timers, ping_net>>

may_sign_again(meter) == TRUE

StartQuery_keeps_values(n, q) ==
  /\ protocol_phase' = [protocol_phase EXCEPT ![n] = "SETUP"]
  /\ query_num' = [query_num EXCEPT ![n] = q]
  /\ overlay_round' = [overlay_round EXCEPT ![n] = -1]
  /\ is_last_round' = [is_last_round EXCEPT ![n] = FALSE]
  /\ ping_response' = [ping_response EXCEPT ![n] = FALSE]
  /\ timer_armed' = [timer_armed EXCEPT ![n] = FALSE]
  /\ accepted' = [accepted EXCEPT ![n] = {}]
  /\ failed_meter_ids' = [failed_meter_ids EXCEPT ![n] = {}]
  /\ agreement' = [agreement EXCEPT ![n] = NewAgreement]
  /\ aggregation' = [aggregation EXCEPT ![n] = NewAggregation(q)]
  /\ signature_requests' = signature_requests \cup {[from |-> n, query |-> q]}
  /\ UNCHANGED proxy_values

ShuffleEnds_early(n) ==
  /\ protocol_phase[n] = "SHUFFLE"
  /\ overlay_round[n] + 1 >= PhaseRounds
-----------------------------------------------------------------------------
\* The body of an overlay message: an onion around a contribution, or a
\* PathOverlayMessage with a SignedValue or an AgreementValue.  dest is the
\* next hop and rest the hops after it.
Body == [kind : Kind, query : Query, value : Node, signer : Node,
         signatures : SUBSET Node, dest : Node, rest : Seq(Node)]

\* The OverlayTransportMessages of one batch that are for the same query, in
\* one record: QueryClient treats them alike.  No bodies: a dummy message.
OverlayMessage == [from : Node, round : Nat, query : Query, final : BOOLEAN,
                   bodies : SUBSET Body]

PingMessage == [from : Node, to : Node, is_response : BOOLEAN]

\* The bodies a node sends to the proxies of a value, itself left out.
multicast(n, kind, value, signatures) ==
  {[kind |-> kind, query |-> query_num[n], value |-> value, signer |-> n,
    signatures |-> signatures,
    dest |-> Head(Route[kind][value][n][p]),
    rest |-> Tail(Route[kind][value][n][p])] :
      p \in ProxiesOf[value] \ {n}}

\* send_overlay_message_batch in round r: the messages for the target of the
\* round.  The lists are in order of age, so the final one is of the newest
\* query among them.
batch(n, r, bodies) ==
  IF bodies = {}
    THEN {[from |-> n, round |-> r, query |-> query_num[n], final |-> TRUE,
           bodies |-> {}]}
    ELSE {[from |-> n, round |-> r, query |-> q,
           final |-> \A b \in bodies : b.query <= q,
           bodies |-> {b \in bodies : b.query = q}] :
             q \in {b.query : b \in bodies}}

target(n, r) == gossip_target(n, r, NumMeters)
predecessor(n, r) == gossip_predecessor(n, r, NumMeters)

-----------------------------------------------------------------------------
Init ==
  /\ protocol_phase = [n \in Node |-> "IDLE"]
  /\ query_num = [n \in Node |-> -1]
  /\ overlay_round = [n \in Node |-> -1]
  /\ is_last_round = [n \in Node |-> FALSE]
  /\ ping_response = [n \in Node |-> FALSE]
  /\ failed_meter_ids = [n \in Node |-> {}]
  /\ waiting_messages = [n \in Node |-> {}]
  /\ outgoing_messages = [n \in Node |-> {}]
  /\ future_overlay = [n \in Node |-> {}]
  /\ future_aggregation = [n \in Node |-> <<>>]
  /\ proxy_values = [n \in Node |-> {}]
  /\ accepted = [n \in Node |-> {}]
  /\ agreement = [n \in Node |-> NewAgreement]
  /\ agreement_start = [n \in Node |-> 0]
  /\ aggregation = [n \in Node |-> NewAggregation(-1)]
  /\ pc = [n \in Node |-> "ready"]
  /\ timer_armed = [n \in Node |-> FALSE]
  /\ stray_timers = [n \in Node |-> 0]
  /\ timeout_committed = [n \in Node |-> FALSE]
  /\ overlay_net = {}
  /\ aggregation_net = {}
  /\ ping_net = {}
  /\ signature_requests = {}
  /\ from_server = [n \in Node |-> <<>>]
  /\ alive = [n \in Node |-> TRUE]
  /\ server_query = -1
  /\ meters_signed = {}
  /\ server_results = {}
  /\ timeouts = 0

\* No handler is running anywhere.
Quiet == \A n \in Node : pc[n] = "ready"

Starts(n) == Quiet /\ alive[n]

-----------------------------------------------------------------------------
(* handle_overlay_message, for the bodies of the messages handled.          *)

\* Bodies with further hops are passed on: an onion's next layer, or a
\* PathOverlayMessage with its path popped into the destination.
forwarded(bodies) ==
  {[b EXCEPT !.dest = Head(b.rest), !.rest = Tail(b.rest)] :
     b \in {x \in bodies : x.rest # <<>>}}

delivered(bodies) == {b \in bodies : b.rest = <<>>}

\* A PathOverlayMessage is encrypted for the last node of its path, but the
\* handler decrypts every encrypted message it sees: at a node on the way
\* EVP_OpenInit or EVP_OpenFinal fails, and the exception ends the process.
cannot_decrypt(bodies) == \E b \in bodies : b.kind # "contribution" /\ b.rest # <<>>

\* handle_shuffle_phase_message
contributions(bodies) ==
  {b.value : b \in {x \in delivered(bodies) : x.kind = "contribution"}}

\* Handles the bodies in a phase, starting from the given waiting messages
\* and agreement state.
HandleBodies(n, bodies, phase, waiting, agree) ==
  /\ waiting_messages' = [waiting_messages EXCEPT ![n] = waiting \cup forwarded(bodies)]
  /\ proxy_values' = [proxy_values EXCEPT
       ![n] = IF phase = "SHUFFLE" THEN @ \cup contributions(bodies) ELSE @]
  /\ agreement' = [agreement EXCEPT
       ![n] = IF phase = "AGREEMENT"
                THEN handle_agreement_messages(agree, delivered(bodies))
                ELSE agree]
  /\ alive' = [alive EXCEPT ![n] = ~cannot_decrypt(bodies)]

-----------------------------------------------------------------------------
(* Ending an overlay round.  Each of these four actions is one call of      *)
(* end_overlay_round.                                                       *)

\* network.send of a ping: it fails only if the receiver has crashed, and
\* even then the failure may not show yet.
SendPing(n, to) ==
  \E sent \in {TRUE, alive[to]} :
    /\ failed_meter_ids' = IF sent THEN failed_meter_ids
                           ELSE [failed_meter_ids EXCEPT ![n] = @ \cup {to}]
    /\ ping_net' = IF n \in Pinging /\ alive[to]
                     THEN ping_net \cup {[from |-> n, to |-> to, is_response |-> FALSE]}
                     ELSE ping_net

\* What common_end_overlay_round takes out of the buffer for round r.
due(n, r) == {m \in future_overlay[n] : m.round = r /\ m.query = query_num[n]}

\* Whether one of these messages, handled in this phase, ends the round.
ends_round(messages, phase) ==
  phase \in OverlayPhase /\ \E m \in messages : m.final

\* common_end_overlay_round, with the bodies to send, the phase and the
\* agreement state end_overlay_round has arrived at.
CommonEndOverlayRound(n, outgoing, phase, agree) ==
  LET r        == overlay_round[n] + 1
      pending  == waiting_messages[n] \cup outgoing
      ready    == {b \in pending : b.dest = target(n, r)}
      pred     == predecessor(n, r)
      received == due(n, r)
      bodies   == UNION {m.bodies : m \in received}
  IN /\ protocol_phase' = [protocol_phase EXCEPT ![n] = phase]
     /\ IF is_last_round[n]
          THEN /\ timer_armed' = [timer_armed EXCEPT ![n] = FALSE]
               /\ outgoing_messages' = [outgoing_messages EXCEPT ![n] = outgoing]
               /\ agreement' = [agreement EXCEPT ![n] = agree]
               /\ pc' = [pc EXCEPT ![n] = "ready"]
               /\ UNCHANGED <<overlay_round, ping_response, failed_meter_ids,
                              waiting_messages, future_overlay, proxy_values,
                              overlay_net, ping_net, alive>>
          ELSE /\ overlay_round' = [overlay_round EXCEPT ![n] = r]
               /\ ping_response' = [ping_response EXCEPT ![n] = FALSE]
               /\ overlay_net' = overlay_net \cup batch(n, r, ready)
               /\ outgoing_messages' = [outgoing_messages EXCEPT ![n] = {}]
               /\ timer_armed' = [timer_armed EXCEPT ![n] = TRUE]
               /\ IF pred \in failed_meter_ids[n]
                    THEN UNCHANGED <<failed_meter_ids, ping_net>>
                    ELSE SendPing(n, pred)
               /\ future_overlay' = [future_overlay EXCEPT ![n] = @ \ received]
               /\ HandleBodies(n, bodies, phase, pending \ ready, agree)
               /\ pc' = [pc EXCEPT ![n] =
                    IF /\ alive'[n]
                       /\ \/ ends_round(received, phase)
                          \/ pred \in failed_meter_ids'[n]
                      THEN "end_round" ELSE "ready"]
     /\ UNCHANGED <<query_num, is_last_round, stray_timers, timeout_committed,
                    aggregation_net, signature_requests, from_server,
                    serverVars, server_results, timeouts>>

\* The end of SHUFFLE: signs the values received and multicasts them.
ShuffleEnds(n) ==
  /\ protocol_phase[n] = "SHUFFLE"
  /\ overlay_round[n] >= PhaseRounds

FinishShuffle(n) ==
  /\ alive[n] /\ pc[n] = "end_round"
  /\ ShuffleEnds(n)
  /\ agreement_start' = [agreement_start EXCEPT ![n] = overlay_round[n]]
  /\ CommonEndOverlayRound(n,
       outgoing_messages[n] \cup
         UNION {multicast(n, "sign", v, {n}) : v \in proxy_values[n]},
       "AGREEMENT", agreement[n])
  /\ UNCHANGED <<accepted, aggregateVars>>

\* The end of phase 1 of AGREEMENT: finish_phase_1 accepts values and tells
\* the other proxies.
Phase1Ends(n) ==
  /\ protocol_phase[n] = "AGREEMENT"
  /\ overlay_round[n] >= agreement_start[n] + PhaseRounds
  /\ ~agreement[n].phase_1_finished

FinishPhase1(n) ==
  /\ alive[n] /\ pc[n] = "end_round"
  /\ Phase1Ends(n)
  /\ CommonEndOverlayRound(n,
       outgoing_messages[n] \cup
         UNION {multicast(n, "accept", v, agreement[n].signed_proxy_values[v]) :
                  v \in accepted_values(agreement[n])},
       "AGREEMENT", finish_phase_1(agreement[n]))
  /\ UNCHANGED <<accepted, agreement_start, aggregateVars>>

\* The end of phase 2 of AGREEMENT: finish_phase_2 and start_aggregate_phase,
\* after which common_end_overlay_round only cancels the timer.
AgreementEnds(n) ==
  /\ protocol_phase[n] = "AGREEMENT"
  /\ overlay_round[n] >= agreement_start[n] + 2 * PhaseRounds
  /\ agreement[n].phase_1_finished

\* send_aggregate_if_done, from an aggregation state, the values accepted and
\* the aggregation messages in flight.
SendAggregateIfDone(n, agg, values, in_flight) ==
  LET sum     == add_accepted(agg, n, values)
      message == aggregate_message(sum, n)
  IN IF done_receiving_from_children(agg)
       THEN /\ aggregation' = [aggregation EXCEPT ![n] = sum]
            /\ protocol_phase' = [protocol_phase EXCEPT ![n] = "IDLE"]
            /\ IF message.to = NoNode
                 THEN /\ server_results' = server_results \cup {message}
                      /\ aggregation_net' = in_flight
                 ELSE /\ aggregation_net' = in_flight \cup {message}
                      /\ UNCHANGED server_results
       ELSE /\ aggregation' = [aggregation EXCEPT ![n] = agg]
            /\ protocol_phase' = [protocol_phase EXCEPT ![n] = "AGGREGATE"]
            /\ aggregation_net' = in_flight
            /\ UNCHANGED server_results

FinishAgreement(n) ==
  LET agg == initialize(aggregation[n], n, failed_meter_ids[n])
  IN /\ alive[n] /\ pc[n] = "end_round"
     /\ AgreementEnds(n)
     /\ accepted' = [accepted EXCEPT ![n] = accepted_values(agreement[n])]
     /\ timer_armed' = [timer_armed EXCEPT ![n] = FALSE]
     /\ SendAggregateIfDone(n, agg, accepted_values(agreement[n]), aggregation_net)
     /\ pc' = [pc EXCEPT ![n] =
          IF ~done_receiving_from_children(agg) /\ future_aggregation[n] # <<>>
            THEN "drain" ELSE "ready"]
     /\ is_last_round' = [is_last_round EXCEPT ![n] = TRUE]
     /\ UNCHANGED <<query_num, overlay_round, ping_response, failed_meter_ids,
                    messageVars, proxy_values, agreement, agreement_start,
                    future_aggregation, stray_timers, timeout_committed,
                    overlay_net, ping_net, signature_requests, from_server, alive,
                    serverVars, timeouts>>

\* Any other round.
ContinueOverlay(n) ==
  /\ alive[n] /\ pc[n] = "end_round"
  /\ ~ShuffleEnds(n) /\ ~Phase1Ends(n) /\ ~AgreementEnds(n)
  /\ CommonEndOverlayRound(n, outgoing_messages[n], protocol_phase[n], agreement[n])
  /\ UNCHANGED <<accepted, agreement_start, aggregateVars>>

EndOverlayRound(n) ==
  FinishShuffle(n) \/ FinishPhase1(n) \/ FinishAgreement(n) \/ ContinueOverlay(n)

-----------------------------------------------------------------------------
(* Aggregation messages *)

\* handle_aggregation_message
HandleAggregation(n, message, in_flight) ==
  SendAggregateIfDone(n, handle_aggregate(aggregation[n], message), accepted[n],
                      in_flight)

\* One turn of the loop over future_aggregation_messages in
\* start_aggregate_phase; it goes on after the aggregate has been sent.
DrainAggregation(n) ==
  /\ alive[n] /\ pc[n] = "drain"
  /\ HandleAggregation(n, Head(future_aggregation[n]), aggregation_net)
  /\ future_aggregation' = [future_aggregation EXCEPT ![n] = Tail(@)]
  /\ pc' = [pc EXCEPT ![n] = IF Len(future_aggregation[n]) = 1 THEN "ready" ELSE "drain"]
  /\ UNCHANGED <<roundVars, ping_response, failed_meter_ids, messageVars,
                 valueVars, timerVars, overlay_net, ping_net, signature_requests,
                 from_server, alive, serverVars, timeouts>>

\* QueryClient receives an AggregationMessage.  Whether it is for the current
\* query is looked at only outside the AGGREGATE phase.
AggregationArrives(n) ==
  /\ Starts(n)
  /\ \E m \in {x \in aggregation_net : x.to = n} :
       \/ /\ protocol_phase[n] = "AGGREGATE"
          /\ HandleAggregation(n, m, aggregation_net \ {m})
          /\ UNCHANGED future_aggregation
       \/ /\ protocol_phase[n] # "AGGREGATE"
          /\ future_aggregation' = [future_aggregation EXCEPT
               ![n] = IF m.query = query_num[n] THEN Append(@, m) ELSE @]
          /\ aggregation_net' = aggregation_net \ {m}
          /\ UNCHANGED <<aggregation, protocol_phase, server_results>>
  /\ UNCHANGED <<roundVars, ping_response, failed_meter_ids, messageVars,
                 valueVars, pc, timerVars, overlay_net, ping_net,
                 signature_requests, from_server, alive, serverVars, timeouts>>

-----------------------------------------------------------------------------
(* Overlay messages *)

\* QueryClient receives overlay messages and handles them at once: they are
\* for the current query and the current round.
HandleOverlay(n, m) ==
  /\ HandleBodies(n, m.bodies, protocol_phase[n], waiting_messages[n], agreement[n])
  /\ timer_armed' = [timer_armed EXCEPT
       ![n] = @ \/ protocol_phase[n] \in OverlayPhase]
  /\ pc' = [pc EXCEPT
       ![n] = IF alive'[n] /\ ends_round({m}, protocol_phase[n])
                THEN "end_round" ELSE "ready"]
  /\ UNCHANGED future_overlay

\* It keeps those of a later query or a later round and drops the others.
is_ahead(n, m) ==
  \/ m.query > query_num[n]
  \/ m.query = query_num[n] /\ m.round > overlay_round[n]

KeepOverlay(n, m) ==
  /\ future_overlay' = [future_overlay EXCEPT
       ![n] = IF is_ahead(n, m) THEN @ \cup {m} ELSE @]
  /\ UNCHANGED <<waiting_messages, proxy_values, agreement, alive, timer_armed, pc>>

OverlayArrives(n) ==
  /\ Starts(n)
  /\ \E m \in {x \in overlay_net : target(x.from, x.round) = n} :
       /\ overlay_net' = overlay_net \ {m}
       /\ IF m.query = query_num[n] /\ m.round = overlay_round[n]
            THEN HandleOverlay(n, m)
            ELSE KeepOverlay(n, m)
  /\ UNCHANGED <<protocol_phase, roundVars, ping_response, failed_meter_ids,
                 outgoing_messages, accepted, agreement_start, aggregateVars,
                 stray_timers, timeout_committed, aggregation_net, ping_net,
                 signature_requests, from_server, serverVars, server_results,
                 timeouts>>

-----------------------------------------------------------------------------
(* Pings and timeouts *)

\* handle_ping_message: answers a request, and takes note of the response if
\* it is from the current predecessor.
PingArrives(n) ==
  /\ Starts(n)
  /\ \E m \in {x \in ping_net : x.to = n} :
       IF m.is_response
         THEN /\ ping_net' = ping_net \ {m}
              /\ ping_response' = [ping_response EXCEPT
                   ![n] = @ \/ m.from = predecessor(n, overlay_round[n])]
         ELSE /\ ping_net' = (ping_net \ {m}) \cup
                   (IF alive[m.from]
                      THEN {[from |-> n, to |-> m.from, is_response |-> TRUE]} ELSE {})
              /\ UNCHANGED ping_response
  /\ UNCHANGED <<protocol_phase, roundVars, failed_meter_ids, messageVars,
                 valueVars, aggregateVars, pc, timerVars, overlay_net,
                 aggregation_net, signature_requests, from_server, alive,
                 serverVars, server_results, timeouts>>

\* The timer thread takes a timer that has fired and finds it not cancelled.
\* From here on cancel_timer comes too late.  A timeout that would end a
\* round although the predecessor is alive is admitted MaxTimeouts times.
TimerExpires(n) ==
  /\ Starts(n)
  /\ ~timeout_committed[n]
  /\ \/ ping_response[n]
     \/ ~alive[predecessor(n, overlay_round[n])]
     \/ timeouts < MaxTimeouts
  /\ \/ /\ timer_armed[n]
        /\ timer_armed' = [timer_armed EXCEPT ![n] = FALSE]
        /\ UNCHANGED stray_timers
     \/ /\ stray_timers[n] > 0
        /\ stray_timers' = [stray_timers EXCEPT ![n] = @ - 1]
        /\ UNCHANGED timer_armed
  /\ timeout_committed' = [timeout_committed EXCEPT ![n] = TRUE]
  /\ UNCHANGED <<protocol_phase, roundVars, ping_response, failed_meter_ids,
                 messageVars, valueVars, aggregateVars, pc, overlay_net,
                 aggregation_net, ping_net, signature_requests, from_server,
                 alive, serverVars, server_results, timeouts>>

\* handle_round_timeout when the predecessor has answered: waits for another
\* round time.  Registering the new timer overwrites round_timeout_timer, and
\* a timer it named that is still armed becomes a stray one.
KeepWaiting(n) ==
  /\ ping_response[n]
  /\ ping_response' = [ping_response EXCEPT ![n] = FALSE]
  /\ timer_armed' = [timer_armed EXCEPT ![n] = TRUE]
  /\ stray_timers' = [stray_timers EXCEPT
       ![n] = IF timer_armed[n] /\ @ < MaxStrayTimers THEN @ + 1 ELSE @]
  /\ SendPing(n, predecessor(n, overlay_round[n]))
  /\ UNCHANGED <<pc, timeouts>>

\* handle_round_timeout otherwise: ends the round.
GiveUp(n) ==
  /\ ~ping_response[n]
  /\ pc' = [pc EXCEPT ![n] = "end_round"]
  /\ timeouts' = IF alive[predecessor(n, overlay_round[n])] /\ timeouts < MaxTimeouts
                   THEN timeouts + 1 ELSE timeouts
  /\ UNCHANGED <<ping_response, timer_armed, stray_timers, failed_meter_ids, ping_net>>

RoundTimeout(n) ==
  /\ Starts(n)
  /\ timeout_committed[n]
  /\ timeout_committed' = [timeout_committed EXCEPT ![n] = FALSE]
  /\ KeepWaiting(n) \/ GiveUp(n)
  /\ UNCHANGED <<protocol_phase, roundVars, messageVars, valueVars, aggregateVars,
                 overlay_net, aggregation_net, signature_requests, from_server,
                 alive, serverVars, server_results>>

-----------------------------------------------------------------------------
(* Setup: the server's messages *)

\* QueryClient receives a QueryRequest, its filter function lets it contribute,
\* and start_query resets the state.  What it does not reset stays: the
\* waiting and the future messages, and agreement_start_round.
StartQuery(n, q) ==
  /\ protocol_phase' = [protocol_phase EXCEPT ![n] = "SETUP"]
  /\ query_num' = [query_num EXCEPT ![n] = q]
  /\ overlay_round' = [overlay_round EXCEPT ![n] = -1]
  /\ is_last_round' = [is_last_round EXCEPT ![n] = FALSE]
  /\ ping_response' = [ping_response EXCEPT ![n] = FALSE]
  /\ timer_armed' = [timer_armed EXCEPT ![n] = FALSE]
  /\ proxy_values' = [proxy_values EXCEPT ![n] = {}]
  /\ accepted' = [accepted EXCEPT ![n] = {}]
  /\ failed_meter_ids' = [failed_meter_ids EXCEPT ![n] = {}]
  /\ agreement' = [agreement EXCEPT ![n] = NewAgreement]
  /\ aggregation' = [aggregation EXCEPT ![n] = NewAggregation(q)]
  /\ signature_requests' = signature_requests \cup {[from |-> n, query |-> q]}

QueryRequestArrives(n) ==
  /\ Starts(n)
  /\ from_server[n] # <<>> /\ Head(from_server[n]).type = "query"
  /\ from_server' = [from_server EXCEPT ![n] = Tail(@)]
  /\ \/ StartQuery(n, Head(from_server[n]).query)
     \/ /\ n \in MaySkip
        /\ UNCHANGED <<protocol_phase, roundVars, ping_response, timer_armed,
                       proxy_values, accepted, failed_meter_ids, agreement,
                       aggregation, signature_requests>>
  /\ UNCHANGED <<messageVars, agreement_start, future_aggregation, pc,
                 stray_timers, timeout_committed, overlay_net, aggregation_net,
                 ping_net, alive, serverVars, server_results, timeouts>>

\* Whether rsa_unblind_signature succeeds: it unblinds with the secret of the
\* last contribution blinded, verifies the result, and throws if the signature
\* was made for an older one.  Nothing catches that, and the process ends.
unblinds(n, response) == response.query = query_num[n]

\* handle_signature_response
SignatureResponseArrives(n) ==
  /\ Starts(n)
  /\ from_server[n] # <<>> /\ Head(from_server[n]).type = "signature"
  /\ from_server' = [from_server EXCEPT ![n] = Tail(@)]
  /\ IF unblinds(n, Head(from_server[n]))
       THEN /\ protocol_phase' = [protocol_phase EXCEPT ![n] = "SHUFFLE"]
            /\ outgoing_messages' = [outgoing_messages EXCEPT
                 ![n] = @ \cup multicast(n, "contribution", n, {})]
            /\ pc' = [pc EXCEPT ![n] = "end_round"]
            /\ UNCHANGED alive
       ELSE /\ alive' = [alive EXCEPT ![n] = FALSE]
            /\ UNCHANGED <<protocol_phase, outgoing_messages, pc>>
  /\ UNCHANGED <<roundVars, ping_response, failed_meter_ids, waiting_messages,
                 future_overlay, valueVars, aggregateVars, timerVars, overlay_net,
                 aggregation_net, ping_net, signature_requests, serverVars,
                 server_results, timeouts>>

-----------------------------------------------------------------------------
(* The query server and the environment *)

clientVars == <<protocol_phase, roundVars, ping_response, failed_meter_ids,
                messageVars, valueVars, aggregateVars, pc, timerVars>>

\* The server starts the next query, which it may do at any time: its
\* timeout ends a query whose clients are still at work.
ServerStartsQuery ==
  /\ Quiet
  /\ server_query < LastQuery
  /\ server_query' = server_query + 1
  /\ meters_signed' = {}
  /\ from_server' = [n \in Node |->
       Append(from_server[n], [type |-> "query", query |-> server_query + 1])]
  /\ UNCHANGED <<clientVars, overlay_net, aggregation_net, ping_net,
                 signature_requests, alive, server_results, timeouts>>

\* The server signs one contribution of each meter per query.
may_sign(meter) == meter \notin meters_signed

ServerSigns ==
  /\ Quiet
  /\ \E request \in signature_requests :
       /\ signature_requests' = signature_requests \ {request}
       /\ meters_signed' = meters_signed \cup {request.from}
       /\ from_server' = IF may_sign(request.from)
            THEN [from_server EXCEPT ![request.from] =
                    Append(@, [type |-> "signature", query |-> request.query])]
            ELSE from_server
  /\ UNCHANGED <<clientVars, overlay_net, aggregation_net, ping_net, alive,
                 server_query, server_results, timeouts>>

Crash(n) ==
  /\ Starts(n)
  /\ n \in MayCrash
  /\ alive' = [alive EXCEPT ![n] = FALSE]
  /\ UNCHANGED <<clientVars, overlay_net, aggregation_net, ping_net,
                 signature_requests, from_server, serverVars, server_results,
                 timeouts>>

\* What the network thread of a client does, pings apart.
Handler(n) ==
  \/ QueryRequestArrives(n) \/ SignatureResponseArrives(n)
  \/ OverlayArrives(n) \/ AggregationArrives(n)
  \/ EndOverlayRound(n) \/ DrainAggregation(n)

\* The timer thread of a client.
Timer(n) == TimerExpires(n) \/ RoundTimeout(n)

Server == ServerStartsQuery \/ ServerSigns

Next ==
  \/ \E n \in Node : Handler(n) \/ PingArrives(n) \/ Timer(n) \/ Crash(n)
  \/ Server

\* Threads run, the network delivers, and an armed timer fires.  A query that
\* is under way brings a bounded number of messages but pings; those have
\* their own condition, since a node may be pinged for ever.
Fairness ==
  /\ \A n \in Node :
       WF_vars(Handler(n)) /\ WF_vars(PingArrives(n)) /\ WF_vars(Timer(n))
  /\ WF_vars(Server)

Spec == Init /\ [][Next]_vars
FairSpec == Spec /\ Fairness

-----------------------------------------------------------------------------
(* Type invariant *)

ContributionId == [query : Query, value : Node, proxy : Node]

AggregationMessage ==
  [from : Node, query : Query, children : Nat, to : Node \cup {NoNode},
   count : Nat, contents : SUBSET ContributionId]

\* The phases and rounds of the clients, and their timers.
RoundsTypeOK ==
  /\ protocol_phase \in [Node -> Phase]
  /\ query_num \in [Node -> Query]
  /\ overlay_round \in [Node -> Nat \cup {-1}]
  /\ agreement_start \in [Node -> Nat \cup {-1}]
  /\ is_last_round \in [Node -> BOOLEAN]
  /\ ping_response \in [Node -> BOOLEAN]
  /\ pc \in [Node -> {"ready", "end_round", "drain"}]
  /\ timer_armed \in [Node -> BOOLEAN]
  /\ stray_timers \in [Node -> 0 .. MaxStrayTimers]
  /\ timeout_committed \in [Node -> BOOLEAN]
  /\ alive \in [Node -> BOOLEAN]
  /\ timeouts \in 0 .. MaxTimeouts

\* Overlay messages and what comes of them.
OverlayTypeOK ==
  /\ waiting_messages \in [Node -> SUBSET Body]
  /\ outgoing_messages \in [Node -> SUBSET Body]
  /\ future_overlay \in [Node -> SUBSET OverlayMessage]
  /\ overlay_net \subseteq OverlayMessage
  /\ proxy_values \in [Node -> SUBSET Node]
  /\ accepted \in [Node -> SUBSET Node]
  /\ agreement \in [Node -> AgreementState]

AggregationState == [query : Query, needed : 0 .. 2, received : Nat,
                     count : Nat, contents : SUBSET ContributionId]

AggregationTypeOK ==
  /\ future_aggregation \in [Node -> Seq(AggregationMessage)]
  /\ aggregation \in [Node -> AggregationState]
  /\ aggregation_net \subseteq AggregationMessage
  /\ server_results \subseteq AggregationMessage

\* Who is a predecessor: the pings and their failures.
PingTypeOK ==
  /\ failed_meter_ids \in [Node -> SUBSET Node]
  /\ ping_net \subseteq PingMessage

ServerMessage == [type : {"query", "signature"}, query : Query]

ServerTypeOK ==
  /\ signature_requests \subseteq [from : Node, query : Query]
  /\ from_server \in [Node -> Seq(ServerMessage)]
  /\ server_query \in Query
  /\ meters_signed \subseteq Node

TypeOK ==
  RoundsTypeOK /\ OverlayTypeOK /\ AggregationTypeOK /\ PingTypeOK /\ ServerTypeOK

-----------------------------------------------------------------------------
(* Properties of every behaviour, with or without failures *)

\* A message never sits in future_overlay_messages after its time has come:
\* what is buffered for the current query is for a round still ahead.  A
\* message handled too early or left behind here is a lost wake-up, since the
\* final message of a round is sent once.
BufferedIsAhead ==
  \A n \in Node : \A m \in future_overlay[n] :
    m.query = query_num[n] => m.round > overlay_round[n]

\* Nobody waits for a round without a timeout: between handlers, a node in
\* SHUFFLE or AGREEMENT has a round timer armed, or the timer thread is about
\* to run handle_round_timeout.  A node whose filter function rejects queries
\* is left out, for the reason given below.
RoundTimerCovers ==
  Quiet => \A n \in Node \ MaySkip :
    alive[n] /\ protocol_phase[n] \in OverlayPhase =>
      timer_armed[n] \/ timeout_committed[n]

\* handle_signature_response sets the phase to SHUFFLE whatever the phase is.
\* It is the order of the server's messages, and that the server signs once per
\* query, that keeps a signature from restarting the overlay of a node that has
\* left SETUP.  A node that rejects a query has no such protection: signatures
\* for two older requests of its may follow each other.
SignatureOnlyInSetup ==
  [][\A n \in Node \ MaySkip :
       SignatureResponseArrives(n) => protocol_phase[n] = "SETUP"]_vars

\* What a node's state still tells of a query; once the node takes part in a later
\* one, that is nothing.
has_contributed(v, q) ==
  query_num[v] > q \/ (query_num[v] = q /\ protocol_phase[v] # "SETUP")

endorses(p, v, q) ==
  /\ p \in ProxiesOf[v]
  /\ query_num[p] > q \/ (query_num[p] = q /\ v \in proxy_values[p])

\* Enough proxies of v have received its contribution to q from v itself.
endorsed(v, q) == Cardinality({p \in Node : endorses(p, v, q)}) >= Log2N + 1

genuine(v, p, q) == p \in ProxiesOf[v] /\ has_contributed(v, q)

\* Only what a meter has contributed to a query itself counts for that query, and
\* only at the proxies it chose, though nodes crash, are given up while they live,
\* reject queries, and get messages that were left over in buffers of other queries.
\* What a proxy accepts was received by log2n + 1 proxies, and so was all that is
\* in a sum on its way to the server.
OnlyGenuineContributions ==
  /\ \A n \in Node : \A v \in proxy_values[n] : genuine(v, n, query_num[n])
  /\ \A n \in Node : \A v \in accepted[n] :
       genuine(v, n, query_num[n]) /\ endorsed(v, query_num[n])
  /\ \A m \in aggregation_net \cup server_results : \A c \in m.contents :
       genuine(c.value, c.proxy, c.query) /\ endorsed(c.value, c.query)

\* The number of contributors in a message is the number of contributions in
\* its aggregate: nothing is added twice on its way up the tree.
NothingCountedTwice ==
  \A m \in aggregation_net \cup server_results :
    m.count = Cardinality(m.contents)

\* An aggregate holds contributions of its own query alone: QueryClient says it
\* rejects an AggregationMessage with the wrong query number.
OneQueryPerAggregate ==
  \A m \in aggregation_net \cup server_results :
    \A c \in m.contents : c.query = m.query

\* A PathOverlayMessage passes through the nodes on its path: a node survives
\* the messages it handles, those that are for another node included.
RelaysSurvive ==
  MayCrash = {} => \A n \in Node : alive[n]

\* Every round a node enters is announced to its target by a final message the
\* target can use, one of the node's query: send_overlay_message_batch sends an
\* empty message if it has nothing to send, "to ensure the target can advance
\* his round".  A final message of an older query is dropped by its receiver.
EveryRoundIsAnnounced ==
  [][\A n \in Node :
       overlay_round'[n] # overlay_round[n] /\ overlay_round'[n] # -1 =>
         \E m \in overlay_net' :
           m.from = n /\ m.round = overlay_round'[n] /\ m.query = query_num[n] /\ m.final
    ]_vars

\* The overlay never stops half-way, whoever crashes: again and again there is
\* a time when no node is left in SHUFFLE or AGREEMENT.
OverlayTerminates ==
  []<>(\A n \in Node : alive[n] => protocol_phase[n] \notin OverlayPhase)

-----------------------------------------------------------------------------
(* The behaviours without failures: what the theorems about them assume *)

\* One query, in which nobody crashes, rejects the query, or is given up by a
\* timeout while it is alive.
NoFailures ==
  LastQuery = 0 /\ MaySkip = {} /\ MayCrash = {} /\ Pinging = {} /\ MaxTimeouts = 0

\* No process has ended.  Without crashes they end of the messages they relay, see
\* RelaysSurvive, and stay so: a behaviour has this up to some state.
EverybodyAlive == \A n \in Node : alive[n]

\* The rounds in which a message that a node has for the next hop from round
\* `start' on is sent from hop to hop: at each, in the first round after that in
\* which it came whose target is the next hop.
hop(source, nodes, i) == IF i = 0 THEN source ELSE nodes[i]

Schedule(source, nodes, first, last) ==
  {s \in [0 .. Len(nodes) -> first .. last] :
     /\ s[0] = first
     /\ \A i \in 1 .. Len(nodes) :
          /\ s[i - 1] < s[i]
          /\ target(hop(source, nodes, i - 1), s[i]) = nodes[i]
          /\ \A r \in s[i - 1] + 1 .. s[i] - 1 :
               target(hop(source, nodes, i - 1), r) # nodes[i]}

\* What has to be delivered: the contribution of v to each of its proxies, in
\* SHUFFLE, and the signature of each proxy of v to the others, in phase 1 of
\* AGREEMENT.
Items ==
  {x \in [kind : {"contribution", "sign"}, value : Node, source : Node, proxy : Node] :
     /\ x.proxy \in ProxiesOf[x.value] \ {x.source}
     /\ IF x.kind = "contribution" THEN x.source = x.value
                                   ELSE x.source \in ProxiesOf[x.value]}

path(x) == Route[x.kind][x.value][x.source][x.proxy]
start(x) == IF x.kind = "contribution" THEN -1 ELSE PhaseRounds
deadline(x) == IF x.kind = "contribution" THEN PhaseRounds ELSE 2 * PhaseRounds
schedules(x) == Schedule(x.source, path(x), start(x), deadline(x))

\* The routes lead to the proxies and are short enough for the phases, and
\* nobody is its own proxy: what find_paths, PhaseRounds and pick_proxies are for.
RoutesFit ==
  /\ \A v \in Node : v \notin ProxiesOf[v]
  /\ \A x \in Items : /\ path(x)[Len(path(x))] = x.proxy
                      /\ schedules(x) # {}

-----------------------------------------------------------------------------
(* Properties of the behaviours without failures *)

\* No overlay message comes too late: its receiver has not gone past its
\* round, though nothing keeps the nodes in step but the messages themselves.
NoMessageIsLate ==
  \A m \in overlay_net :
    LET n == target(m.from, m.round)
    IN m.query = query_num[n] => m.round >= overlay_round[n]

\* The values a proxy is chosen for.
proxied_by(n) == {v \in Node : n \in ProxiesOf[v]}

\* SHUFFLE lasts long enough: a node that leaves it has received every value it
\* is a proxy of, also those that came through other nodes.
ShuffleDelivers ==
  \A n \in Node :
    protocol_phase[n] \in {"AGREEMENT", "AGGREGATE"} => proxy_values[n] = proxied_by(n)

\* A value is accepted by all its proxies or by none: by all if it has enough
\* proxies, counting without the proxy itself, for log2n + 1 signatures.
acceptable(v) == Cardinality(ProxiesOf[v]) - 1 >= Log2N + 1

ProxiesAgree ==
  \A n \in Node : is_last_round[n] =>
    accepted[n] = {v \in proxied_by(n) : acceptable(v)}

\* What the root of a group sends to the server is complete: the values that
\* each member of the group has accepted, counted once.
group(n) == aggregation_group_for(n, NumGroups, NumMeters)

group_contributions(g, q) ==
  {c \in [query : {q}, value : Node, proxy : Node] :
     /\ group(c.proxy) = g
     /\ c.value \in proxied_by(c.proxy) /\ acceptable(c.value)}

ResultsAreComplete ==
  \A m \in server_results :
    /\ m.contents = group_contributions(group(m.from), m.query)
    /\ m.count = Cardinality(m.contents)

\* The query completes: the server receives a result from every group.
EveryGroupReports ==
  <>(\A n \in Node : \E m \in server_results : group(m.from) = group(n))

=============================================================================
