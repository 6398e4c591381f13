----------------------- MODULE ProtocolState_proofs -----------------------
(***************************************************************************)
(* Proofs about the clients: the types of their state, that a signature    *)
(* never restarts the overlay, that no node waits without a timer, that no *)
(* message is left behind in the buffer, and that only genuine             *)
(* contributions count, whatever fails.                                    *)
(***************************************************************************)
EXTENDS ProtocolState, Overlay_proofs, FiniteSetTheorems, TLAPS

-----------------------------------------------------------------------------
(* Types of the control state *)

ControlTypeOK == RoundsTypeOK /\ ServerTypeOK

\* common_end_overlay_round keeps the types, for the phases end_overlay_round
\* calls it in.
LEMMA CommonEndType ==
  ASSUME RoundsTypeOK, NEW n \in Node, NEW outgoing, NEW phase \in Phase, NEW agree,
         CommonEndOverlayRound(n, outgoing, phase, agree)
  PROVE  /\ protocol_phase' \in [Node -> Phase]
         /\ overlay_round' \in [Node -> Nat \cup {-1}]
         /\ ping_response' \in [Node -> BOOLEAN]
         /\ pc' \in [Node -> {"ready", "end_round", "drain"}]
         /\ timer_armed' \in [Node -> BOOLEAN]
         /\ alive' \in [Node -> BOOLEAN]
         /\ UNCHANGED <<query_num, is_last_round, stray_timers, timeout_committed,
                        aggregation_net, signature_requests, from_server,
                        serverVars, server_results, timeouts>>
<1> USE DEF RoundsTypeOK
<1>1. CASE is_last_round[n]
  BY <1>1 DEF CommonEndOverlayRound
<1>2. CASE ~is_last_round[n]
  <2> DEFINE r        == overlay_round[n] + 1
             bodies   == UNION {m.bodies : m \in due(n, r)}
  <2>1. /\ overlay_round' = [overlay_round EXCEPT ![n] = r]
        /\ ping_response' = [ping_response EXCEPT ![n] = FALSE]
        /\ timer_armed' = [timer_armed EXCEPT ![n] = TRUE]
        /\ alive' = [alive EXCEPT ![n] = ~cannot_decrypt(bodies)]
        /\ protocol_phase' = [protocol_phase EXCEPT ![n] = phase]
    BY <1>2 DEF CommonEndOverlayRound, HandleBodies
  <2>2. \E now \in {"ready", "end_round"} : pc' = [pc EXCEPT ![n] = now]
    BY <1>2 DEF CommonEndOverlayRound
  <2>3. overlay_round' \in [Node -> Nat \cup {-1}]
    BY <2>1
  <2>4. alive' \in [Node -> BOOLEAN]
    BY <2>1
  <2>5. pc' \in [Node -> {"ready", "end_round", "drain"}]
    BY <2>2
  <2> QED
    BY <1>2, <2>1, <2>3, <2>4, <2>5 DEF CommonEndOverlayRound
<1> QED
  BY <1>1, <1>2

\* end_overlay_round in each of its four cases.
LEMMA EndOverlayRoundType ==
  ASSUME ControlTypeOK, NEW n \in Node, EndOverlayRound(n)
  PROVE  ControlTypeOK'
<1> USE DEF ControlTypeOK
<1>1. CASE FinishShuffle(n)
  <2>1. agreement_start' \in [Node -> Nat \cup {-1}]
    BY <1>1 DEF FinishShuffle, RoundsTypeOK
  <2>2. \E outgoing, agree : CommonEndOverlayRound(n, outgoing, "AGREEMENT", agree)
    BY <1>1 DEF FinishShuffle
  <2> QED
    BY <2>1, <2>2, CommonEndType DEF Phase, RoundsTypeOK, ServerTypeOK, serverVars
<1>2. CASE FinishPhase1(n)
  <2>1. agreement_start' = agreement_start
    BY <1>2 DEF FinishPhase1
  <2>2. \E outgoing, agree : CommonEndOverlayRound(n, outgoing, "AGREEMENT", agree)
    BY <1>2 DEF FinishPhase1
  <2> QED
    BY <2>1, <2>2, CommonEndType DEF Phase, RoundsTypeOK, ServerTypeOK, serverVars
<1>3. CASE FinishAgreement(n)
  <2>1. \E phase \in Phase : protocol_phase' = [protocol_phase EXCEPT ![n] = phase]
    BY <1>3 DEF FinishAgreement, SendAggregateIfDone, Phase
  <2>2. \E now \in {"drain", "ready"} : pc' = [pc EXCEPT ![n] = now]
    BY <1>3 DEF FinishAgreement
  <2>3. /\ timer_armed' = [timer_armed EXCEPT ![n] = FALSE]
        /\ is_last_round' = [is_last_round EXCEPT ![n] = TRUE]
        /\ UNCHANGED <<query_num, overlay_round, ping_response, agreement_start,
                       stray_timers, timeout_committed, signature_requests,
                       from_server, alive, server_query, meters_signed, timeouts>>
    BY <1>3 DEF FinishAgreement, serverVars
  <2>4. RoundsTypeOK'
    BY <2>1, <2>2, <2>3 DEF RoundsTypeOK
  <2> QED
    BY <2>3, <2>4 DEF ServerTypeOK
<1>4. CASE ContinueOverlay(n)
  <2>1. agreement_start' = agreement_start
    BY <1>4 DEF ContinueOverlay
  <2>2. \E phase \in Phase : \E outgoing, agree :
          CommonEndOverlayRound(n, outgoing, phase, agree)
    BY <1>4 DEF ContinueOverlay, RoundsTypeOK
  <2> QED
    BY <2>1, <2>2, CommonEndType DEF RoundsTypeOK, ServerTypeOK, serverVars
<1> QED
  BY <1>1, <1>2, <1>3, <1>4 DEF EndOverlayRound

\* The messages of other clients and the timer thread.
LEMMA ClientStepType ==
  ASSUME ControlTypeOK, NEW n \in Node,
         \/ DrainAggregation(n) \/ AggregationArrives(n) \/ OverlayArrives(n)
         \/ PingArrives(n) \/ Timer(n) \/ Crash(n)
  PROVE  ControlTypeOK'
<1> USE BoundsAssumption DEF ControlTypeOK, roundVars, valueVars, timerVars, serverVars
<1>1. CASE DrainAggregation(n)
  <2>1. \E phase \in Phase : protocol_phase' = [protocol_phase EXCEPT ![n] = phase]
    BY <1>1 DEF DrainAggregation, HandleAggregation, SendAggregateIfDone, Phase
  <2>2. \E now \in {"ready", "drain"} : pc' = [pc EXCEPT ![n] = now]
    BY <1>1 DEF DrainAggregation
  <2> QED
    BY <1>1, <2>1, <2>2 DEF DrainAggregation, RoundsTypeOK, ServerTypeOK
<1>2. CASE AggregationArrives(n)
  <2>1. \/ \E phase \in Phase : protocol_phase' = [protocol_phase EXCEPT ![n] = phase]
        \/ UNCHANGED protocol_phase
    BY <1>2 DEF AggregationArrives, HandleAggregation, SendAggregateIfDone, Phase
  <2> QED
    BY <1>2, <2>1 DEF AggregationArrives, RoundsTypeOK, ServerTypeOK
<1>3. CASE OverlayArrives(n)
  <2>1. \/ /\ \E b : alive' = [alive EXCEPT ![n] = ~cannot_decrypt(b)]
           /\ timer_armed' = [timer_armed EXCEPT
                ![n] = @ \/ protocol_phase[n] \in OverlayPhase]
           /\ \E now \in {"end_round", "ready"} : pc' = [pc EXCEPT ![n] = now]
        \/ UNCHANGED <<alive, timer_armed, pc>>
    BY <1>3 DEF OverlayArrives, HandleOverlay, KeepOverlay, HandleBodies
  <2>2. /\ alive' \in [Node -> BOOLEAN] /\ timer_armed' \in [Node -> BOOLEAN]
        /\ pc' \in [Node -> {"ready", "end_round", "drain"}]
    BY <2>1 DEF RoundsTypeOK
  <2> QED
    BY <1>3, <2>2 DEF OverlayArrives, RoundsTypeOK, ServerTypeOK
<1>4. CASE PingArrives(n)
  <2>1. \/ \E m : ping_response' = [ping_response EXCEPT
             ![n] = @ \/ m.from = predecessor(n, overlay_round[n])]
        \/ UNCHANGED ping_response
    BY <1>4 DEF PingArrives
  <2>2. ping_response' \in [Node -> BOOLEAN]
    BY <2>1 DEF RoundsTypeOK
  <2> QED
    BY <1>4, <2>2 DEF PingArrives, RoundsTypeOK, ServerTypeOK
<1>5. CASE TimerExpires(n)
  <2>1. \/ timer_armed' = [timer_armed EXCEPT ![n] = FALSE] /\ UNCHANGED stray_timers
        \/ /\ stray_timers[n] > 0
           /\ stray_timers' = [stray_timers EXCEPT ![n] = @ - 1]
           /\ UNCHANGED timer_armed
    BY <1>5 DEF TimerExpires
  <2>2. /\ timer_armed' \in [Node -> BOOLEAN]
        /\ stray_timers' \in [Node -> 0 .. MaxStrayTimers]
    <3>1. CASE timer_armed' = [timer_armed EXCEPT ![n] = FALSE] /\ UNCHANGED stray_timers
      BY <3>1 DEF RoundsTypeOK
    <3>2. CASE /\ stray_timers[n] > 0
               /\ stray_timers' = [stray_timers EXCEPT ![n] = @ - 1]
               /\ UNCHANGED timer_armed
      <4>1. stray_timers[n] \in 0 .. MaxStrayTimers /\ MaxStrayTimers \in Nat
        BY DEF RoundsTypeOK
      <4>2. stray_timers[n] - 1 \in 0 .. MaxStrayTimers
        BY <3>2, <4>1
      <4> QED
        BY <3>2, <4>2 DEF RoundsTypeOK
    <3> QED
      BY <2>1, <3>1, <3>2
  <2>3. timeout_committed' \in [Node -> BOOLEAN]
    BY <1>5 DEF TimerExpires, RoundsTypeOK
  <2>4. UNCHANGED <<protocol_phase, roundVars, ping_response, agreement_start, pc,
                    signature_requests, from_server, alive, serverVars, timeouts>>
    BY <1>5 DEF TimerExpires
  <2> QED
    BY <2>2, <2>3, <2>4 DEF RoundsTypeOK, ServerTypeOK
<1>6. CASE RoundTimeout(n)
  <2>1. CASE KeepWaiting(n)
    BY <1>6, <2>1 DEF RoundTimeout, KeepWaiting, RoundsTypeOK, ServerTypeOK
  <2>2. CASE GiveUp(n)
    BY <1>6, <2>2 DEF RoundTimeout, GiveUp, RoundsTypeOK, ServerTypeOK
  <2> QED
    BY <1>6, <2>1, <2>2 DEF RoundTimeout
<1>7. CASE Crash(n)
  BY <1>7 DEF Crash, clientVars, RoundsTypeOK, ServerTypeOK
<1> QED
  BY <1>1, <1>2, <1>3, <1>4, <1>5, <1>6, <1>7 DEF Timer

\* The server's messages to a client, and its own steps.
LEMMA ServerMessageType ==
  ASSUME ControlTypeOK, NEW n \in Node,
         QueryRequestArrives(n) \/ SignatureResponseArrives(n)
  PROVE  ControlTypeOK'
<1> USE DEF ControlTypeOK, roundVars, valueVars, timerVars, serverVars
<1>1. /\ from_server[n] \in Seq(ServerMessage) /\ from_server[n] # <<>>
      /\ from_server' = [from_server EXCEPT ![n] = Tail(@)]
  BY DEF QueryRequestArrives, SignatureResponseArrives, ServerTypeOK
<1>2. Head(from_server[n]).query \in Query
  <2>1. Head(from_server[n]) \in ServerMessage
    BY <1>1
  <2> QED
    BY <2>1 DEF ServerMessage
<1>3. from_server' \in [Node -> Seq(ServerMessage)]
  BY <1>1 DEF ServerTypeOK
<1>4. CASE QueryRequestArrives(n)
  <2>1. CASE StartQuery(n, Head(from_server[n]).query)
    <3>1. RoundsTypeOK'
      BY <1>2, <1>4, <2>1 DEF QueryRequestArrives, StartQuery, RoundsTypeOK, Phase
    <3>2. ServerTypeOK'
      BY <1>2, <1>3, <1>4, <2>1 DEF QueryRequestArrives, StartQuery, ServerTypeOK
    <3> QED
      BY <3>1, <3>2
  <2>2. CASE ~StartQuery(n, Head(from_server[n]).query)
    BY <1>3, <1>4, <2>2 DEF QueryRequestArrives, RoundsTypeOK, ServerTypeOK
  <2> QED
    BY <2>1, <2>2
<1>5. CASE SignatureResponseArrives(n)
  BY <1>3, <1>5 DEF SignatureResponseArrives, RoundsTypeOK, ServerTypeOK, Phase
<1> QED
  BY <1>4, <1>5

LEMMA ServerStepType == ASSUME ControlTypeOK, Server PROVE ControlTypeOK'
<1> USE BoundsAssumption DEF ControlTypeOK, clientVars, roundVars, valueVars, timerVars
<1>1. CASE ServerStartsQuery
  <2>1. RoundsTypeOK'
    BY <1>1 DEF ServerStartsQuery, RoundsTypeOK
  <2>2. server_query + 1 \in Query
    BY <1>1 DEF ServerStartsQuery, ServerTypeOK, Query
  <2>3. [type |-> "query", query |-> server_query + 1] \in ServerMessage
    BY <2>2 DEF ServerMessage
  <2>4. from_server' \in [Node -> Seq(ServerMessage)]
    BY <1>1, <2>3 DEF ServerStartsQuery, ServerTypeOK
  <2> QED
    BY <1>1, <2>1, <2>2, <2>4 DEF ServerStartsQuery, ServerTypeOK
<1>2. CASE ServerSigns
  <2>1. RoundsTypeOK'
    BY <1>2 DEF ServerSigns, RoundsTypeOK
  <2>2. PICK request \in signature_requests :
          /\ signature_requests' = signature_requests \ {request}
          /\ meters_signed' = meters_signed \cup {request.from}
          /\ from_server' = IF may_sign(request.from)
               THEN [from_server EXCEPT ![request.from] =
                       Append(@, [type |-> "signature", query |-> request.query])]
               ELSE from_server
    BY <1>2 DEF ServerSigns
  <2>3. request.from \in Node
        /\ [type |-> "signature", query |-> request.query] \in ServerMessage
    BY DEF ServerTypeOK, ServerMessage
  <2>4. from_server' \in [Node -> Seq(ServerMessage)]
    BY <2>2, <2>3 DEF ServerTypeOK
  <2>5. server_query' = server_query
    BY <1>2 DEF ServerSigns
  <2> QED
    BY <2>1, <2>2, <2>3, <2>4, <2>5 DEF ServerTypeOK
<1> QED
  BY <1>1, <1>2 DEF Server

\* The phases, rounds, flags and timers of the clients and the messages of the
\* server stay within their types.
THEOREM ControlTypeCorrect == Spec => []ControlTypeOK
<1>1. Init => ControlTypeOK
  BY BoundsAssumption
  DEF Init, ControlTypeOK, RoundsTypeOK, ServerTypeOK, Phase, Query, ServerMessage
<1>2. ControlTypeOK /\ [Next]_vars => ControlTypeOK'
  <2> SUFFICES ASSUME ControlTypeOK, [Next]_vars PROVE ControlTypeOK'
    OBVIOUS
  <2>1. CASE UNCHANGED vars
    BY <2>1 DEF vars, roundVars, valueVars, timerVars, serverVars, ControlTypeOK,
                RoundsTypeOK, ServerTypeOK
  <2>2. ASSUME NEW n \in Node, Handler(n) \/ PingArrives(n) \/ Timer(n) \/ Crash(n)
        PROVE  ControlTypeOK'
    BY <2>2, EndOverlayRoundType, ClientStepType, ServerMessageType DEF Handler
  <2> QED
    BY <2>1, <2>2, ServerStepType DEF Next
<1> QED
  BY <1>1, <1>2, PTL DEF Spec

-----------------------------------------------------------------------------
(* Signatures and timers.  The invariant speaks of one node at a time.      *)

Joining == Node \ MaySkip    \* the nodes that take part in every query

\* A signature in from_server[n] comes right after a query, or the node has
\* handled that query and is waiting for it.
SignatureFollowsQuery(n) ==
  LET Q == from_server[n]
  IN /\ \A i \in 2 .. Len(Q) : Q[i].type = "signature" => Q[i - 1].type = "query"
     /\ Len(Q) > 0 /\ Q[1].type = "signature" => protocol_phase[n] = "SETUP"

\* As long as the server may still sign for a node, that node's last message
\* from the server is the query: no signature has followed it.
MayStillSign(n) ==
  LET Q == from_server[n]
  IN n \notin meters_signed /\ server_query # -1 =>
       IF Len(Q) = 0 THEN protocol_phase[n] = "SETUP" ELSE Q[Len(Q)].type = "query"

SetupInv(n) == SignatureFollowsQuery(n) /\ MayStillSign(n)

\* A node whose overlay has ended is in neither SETUP nor the overlay, and a
\* node that waits in the overlay has a timer.
LocalInv(n) ==
  /\ pc[n] = "drain" => protocol_phase[n] \in {"IDLE", "AGGREGATE"}
  /\ is_last_round[n] => protocol_phase[n] \in {"IDLE", "AGGREGATE"}
  /\ alive[n] /\ pc[n] = "ready" /\ protocol_phase[n] \in OverlayPhase =>
       timer_armed[n] \/ timeout_committed[n]

NothingBeforeFirstQuery ==
  server_query = -1 =>
    /\ signature_requests = {}
    /\ \A n \in Node : from_server[n] = <<>>

ControlInv ==
  /\ ControlTypeOK
  /\ NothingBeforeFirstQuery
  /\ \A n \in Joining : SetupInv(n) /\ LocalInv(n)

\* What a step leaves alone at node m.
Same(m) ==
  /\ protocol_phase'[m] = protocol_phase[m] /\ pc'[m] = pc[m]
  /\ is_last_round'[m] = is_last_round[m] /\ alive'[m] = alive[m]
  /\ timer_armed'[m] = timer_armed[m]
  /\ timeout_committed'[m] = timeout_committed[m]

\* What the steps of node n have in common, those that take a message of the
\* server apart: they leave SETUP alone and keep the local invariant.
KeepsSetup(n) ==
  /\ \A m \in Node \ {n} : Same(m)
  /\ LocalInv(n) => /\ protocol_phase[n] = "SETUP" => protocol_phase'[n] = "SETUP"
                    /\ LocalInv(n)'
  /\ UNCHANGED <<from_server, server_query, meters_signed, signature_requests>>

LEMMA CommonEndKeepsSetup ==
  ASSUME RoundsTypeOK, NEW n \in Node, NEW outgoing, NEW phase, NEW agree,
         \/ phase = protocol_phase[n]
         \/ phase = "AGREEMENT" /\ protocol_phase[n] \in OverlayPhase,
         CommonEndOverlayRound(n, outgoing, phase, agree)
  PROVE  KeepsSetup(n)
<1> USE DEF RoundsTypeOK
<1>1. /\ protocol_phase' = [protocol_phase EXCEPT ![n] = phase]
      /\ UNCHANGED <<is_last_round, timeout_committed, from_server, server_query,
                     meters_signed, signature_requests>>
  BY DEF CommonEndOverlayRound, serverVars
<1>2. protocol_phase'[n] = phase
  BY <1>1
<1>3. protocol_phase[n] = "SETUP" => protocol_phase'[n] = "SETUP"
  BY <1>2 DEF OverlayPhase
<1>4. CASE is_last_round[n]
  <2>1. /\ timer_armed' = [timer_armed EXCEPT ![n] = FALSE]
        /\ pc' = [pc EXCEPT ![n] = "ready"] /\ UNCHANGED alive
    BY <1>4 DEF CommonEndOverlayRound
  <2>2. \A m \in Node \ {n} : Same(m)
    BY <1>1, <2>1 DEF Same
  <2>3. LocalInv(n) => LocalInv(n)'
    BY <1>1, <1>2, <1>4, <2>1 DEF LocalInv, OverlayPhase
  <2> QED
    BY <1>1, <1>3, <2>2, <2>3 DEF KeepsSetup
<1>5. CASE ~is_last_round[n]
  <2>1. /\ timer_armed' = [timer_armed EXCEPT ![n] = TRUE]
        /\ \E b : alive' = [alive EXCEPT ![n] = ~cannot_decrypt(b)]
        /\ \E now \in {"ready", "end_round"} : pc' = [pc EXCEPT ![n] = now]
    BY <1>5 DEF CommonEndOverlayRound, HandleBodies
  <2>2. \A m \in Node \ {n} : Same(m)
    BY <1>1, <2>1 DEF Same
  <2>3. timer_armed'[n] /\ pc'[n] # "drain" /\ ~is_last_round'[n]
    BY <1>1, <1>5, <2>1
  <2>4. LocalInv(n)'
    BY <2>3 DEF LocalInv
  <2> QED
    BY <1>1, <1>3, <2>2, <2>4 DEF KeepsSetup
<1> QED
  BY <1>4, <1>5

LEMMA EndOverlayRoundKeepsSetup ==
  ASSUME RoundsTypeOK, NEW n \in Node, EndOverlayRound(n)
  PROVE  KeepsSetup(n)
<1>1. CASE FinishShuffle(n)
  BY <1>1, CommonEndKeepsSetup DEF FinishShuffle, ShuffleEnds, OverlayPhase
<1>2. CASE FinishPhase1(n)
  BY <1>2, CommonEndKeepsSetup DEF FinishPhase1, Phase1Ends, OverlayPhase
<1>3. CASE ContinueOverlay(n)
  BY <1>3, CommonEndKeepsSetup DEF ContinueOverlay
<1>4. CASE FinishAgreement(n)
  <2> USE DEF RoundsTypeOK
  <2>1. \E phase \in {"IDLE", "AGGREGATE"} :
          protocol_phase' = [protocol_phase EXCEPT ![n] = phase]
    BY <1>4 DEF FinishAgreement, SendAggregateIfDone
  <2>2. \E now \in {"drain", "ready"} : pc' = [pc EXCEPT ![n] = now]
    BY <1>4 DEF FinishAgreement
  <2>3. /\ timer_armed' = [timer_armed EXCEPT ![n] = FALSE]
        /\ is_last_round' = [is_last_round EXCEPT ![n] = TRUE]
        /\ protocol_phase[n] = "AGREEMENT"
        /\ UNCHANGED <<timeout_committed, alive, from_server, server_query,
                       meters_signed, signature_requests>>
    BY <1>4 DEF FinishAgreement, AgreementEnds, serverVars
  <2>4. \A m \in Node \ {n} : Same(m)
    BY <2>1, <2>2, <2>3 DEF Same
  <2>5. protocol_phase'[n] \in {"IDLE", "AGGREGATE"}
    BY <2>1
  <2>6. LocalInv(n)'
    BY <2>5 DEF LocalInv, OverlayPhase
  <2> QED
    BY <2>3, <2>4, <2>6 DEF KeepsSetup
<1> QED
  BY <1>1, <1>2, <1>3, <1>4 DEF EndOverlayRound

LEMMA ClientStepKeepsSetup ==
  ASSUME RoundsTypeOK, NEW n \in Node,
         \/ DrainAggregation(n) \/ AggregationArrives(n) \/ OverlayArrives(n)
         \/ PingArrives(n) \/ Timer(n) \/ Crash(n)
  PROVE  KeepsSetup(n)
<1> USE DEF RoundsTypeOK, roundVars, valueVars, timerVars, serverVars
<1>1. CASE DrainAggregation(n)
  <2>1. \E phase \in {"IDLE", "AGGREGATE"} :
          protocol_phase' = [protocol_phase EXCEPT ![n] = phase]
    BY <1>1 DEF DrainAggregation, HandleAggregation, SendAggregateIfDone
  <2>2. pc[n] = "drain" /\ \E now \in {"ready", "drain"} : pc' = [pc EXCEPT ![n] = now]
    BY <1>1 DEF DrainAggregation
  <2>3. UNCHANGED <<is_last_round, alive, timer_armed, timeout_committed, from_server,
                    server_query, meters_signed, signature_requests>>
    BY <1>1 DEF DrainAggregation
  <2>4. \A m \in Node \ {n} : Same(m)
    BY <2>1, <2>2, <2>3 DEF Same
  <2>5. protocol_phase'[n] \in {"IDLE", "AGGREGATE"}
    BY <2>1
  <2>6. LocalInv(n)'
    BY <2>5 DEF LocalInv, OverlayPhase
  <2>7. LocalInv(n) => protocol_phase[n] # "SETUP"
    BY <2>2 DEF LocalInv
  <2> QED
    BY <2>3, <2>4, <2>6, <2>7 DEF KeepsSetup
<1>2. CASE AggregationArrives(n)
  <2>1. UNCHANGED <<pc, is_last_round, alive, timer_armed, timeout_committed,
                    from_server, server_query, meters_signed, signature_requests>>
    BY <1>2 DEF AggregationArrives
  <2>2. CASE UNCHANGED protocol_phase
    BY <2>1, <2>2 DEF KeepsSetup, Same, LocalInv
  <2>3. CASE /\ protocol_phase[n] = "AGGREGATE"
             /\ \E phase \in {"IDLE", "AGGREGATE"} :
                  protocol_phase' = [protocol_phase EXCEPT ![n] = phase]
    <3>1. protocol_phase'[n] \in {"IDLE", "AGGREGATE"}
      BY <2>3
    <3>2. \A m \in Node \ {n} : Same(m)
      BY <2>1, <2>3 DEF Same
    <3>3. LocalInv(n) => LocalInv(n)'
      BY <2>1, <3>1 DEF LocalInv, OverlayPhase
    <3> QED
      BY <2>1, <2>3, <3>2, <3>3 DEF KeepsSetup
  <2> QED
    BY <1>2, <2>2, <2>3 DEF AggregationArrives, HandleAggregation, SendAggregateIfDone
<1>3. CASE OverlayArrives(n)
  <2>1. UNCHANGED <<protocol_phase, is_last_round, timeout_committed, from_server,
                    server_query, meters_signed, signature_requests>>
    BY <1>3 DEF OverlayArrives
  <2>2. CASE UNCHANGED <<alive, timer_armed, pc>>
    BY <2>1, <2>2 DEF KeepsSetup, Same, LocalInv
  <2>3. CASE /\ \E b : alive' = [alive EXCEPT ![n] = ~cannot_decrypt(b)]
             /\ timer_armed' = [timer_armed EXCEPT
                  ![n] = @ \/ protocol_phase[n] \in OverlayPhase]
             /\ \E now \in {"end_round", "ready"} : pc' = [pc EXCEPT ![n] = now]
    <3>1. \A m \in Node \ {n} : Same(m)
      BY <2>1, <2>3 DEF Same
    <3>2. protocol_phase[n] \in OverlayPhase => timer_armed'[n]
      BY <2>3
    <3>3. pc'[n] # "drain"
      BY <2>3
    <3>4. LocalInv(n) => LocalInv(n)'
      BY <2>1, <3>2, <3>3 DEF LocalInv
    <3> QED
      BY <2>1, <3>1, <3>4 DEF KeepsSetup
  <2> QED
    BY <1>3, <2>2, <2>3 DEF OverlayArrives, HandleOverlay, KeepOverlay, HandleBodies
<1>4. CASE PingArrives(n)
  BY <1>4 DEF PingArrives, KeepsSetup, Same, LocalInv
<1>5. CASE TimerExpires(n)
  <2>1. UNCHANGED <<protocol_phase, pc, is_last_round, alive, from_server,
                    server_query, meters_signed, signature_requests>>
    BY <1>5 DEF TimerExpires
  <2>2. timeout_committed' = [timeout_committed EXCEPT ![n] = TRUE]
    BY <1>5 DEF TimerExpires
  <2>3. timer_armed' = [timer_armed EXCEPT ![n] = FALSE] \/ UNCHANGED timer_armed
    BY <1>5 DEF TimerExpires
  <2>4. \A m \in Node \ {n} : Same(m)
    BY <2>1, <2>2, <2>3 DEF Same
  <2> QED
    BY <2>1, <2>2, <2>4 DEF KeepsSetup, LocalInv
<1>6. CASE RoundTimeout(n)
  <2>1. /\ timeout_committed' = [timeout_committed EXCEPT ![n] = FALSE]
        /\ pc[n] = "ready"
        /\ UNCHANGED <<protocol_phase, is_last_round, alive, from_server,
                       server_query, meters_signed, signature_requests>>
    BY <1>6 DEF RoundTimeout, Starts, Quiet
  <2>2. CASE KeepWaiting(n)
    BY <2>1, <2>2 DEF KeepWaiting, KeepsSetup, Same, LocalInv
  <2>3. CASE GiveUp(n)
    BY <2>1, <2>3 DEF GiveUp, KeepsSetup, Same, LocalInv
  <2> QED
    BY <1>6, <2>2, <2>3 DEF RoundTimeout
<1>7. CASE Crash(n)
  BY <1>7 DEF Crash, clientVars, KeepsSetup, Same, LocalInv
<1> QED
  BY <1>1, <1>2, <1>3, <1>4, <1>5, <1>6, <1>7 DEF Timer

LEMMA ClientStepControlInv ==
  ASSUME ControlInv, NEW n \in Node, KeepsSetup(n), ControlTypeOK'
  PROVE  ControlInv'
<1>1. NothingBeforeFirstQuery'
  BY DEF ControlInv, NothingBeforeFirstQuery, KeepsSetup
<1>2. ASSUME NEW m \in Joining PROVE SetupInv(m)' /\ LocalInv(m)'
  <2>1. SetupInv(m) /\ LocalInv(m) /\ m \in Node
    BY DEF ControlInv, Joining
  <2>2. CASE m = n
    <3>1. LocalInv(m)' /\ (protocol_phase[m] = "SETUP" => protocol_phase'[m] = "SETUP")
      BY <2>1, <2>2 DEF KeepsSetup
    <3>2. SetupInv(m)'
      BY <2>1, <3>1 DEF SetupInv, SignatureFollowsQuery, MayStillSign, KeepsSetup
    <3> QED
      BY <3>1, <3>2
  <2>3. CASE m # n
    <3>1. Same(m)
      BY <2>1, <2>3 DEF KeepsSetup
    <3>2. SetupInv(m)'
      BY <2>1, <3>1
      DEF SetupInv, SignatureFollowsQuery, MayStillSign, KeepsSetup, Same
    <3>3. LocalInv(m)'
      BY <2>1, <3>1 DEF LocalInv, Same
    <3> QED
      BY <3>2, <3>3
  <2> QED
    BY <2>2, <2>3
<1> QED
  BY <1>1, <1>2 DEF ControlInv

\* What the two lemmas below need about the queue of a node that takes its first
\* message out: what was in place i + 1 is in place i.
LEMMA TailOfQueue ==
  ASSUME NEW Q \in Seq(ServerMessage), Q # <<>>
  PROVE  /\ Len(Q) \in Nat /\ Len(Q) > 0 /\ Head(Q) = Q[1]
         /\ Len(Tail(Q)) = Len(Q) - 1
         /\ \A i \in 1 .. Len(Q) - 1 : Tail(Q)[i] = Q[i + 1]
         /\ Len(Q) # 1 => Tail(Q)[Len(Tail(Q))] = Q[Len(Q)] /\ Len(Tail(Q)) # 0
<1>1. Len(Q) \in Nat /\ Len(Q) > 0
  OBVIOUS
<1>2. Len(Tail(Q)) = Len(Q) - 1 /\ \A i \in 1 .. Len(Q) - 1 : Tail(Q)[i] = Q[i + 1]
  OBVIOUS
<1>3. \A k \in Nat : k > 0 /\ k # 1 => k - 1 \in 1 .. k - 1 /\ (k - 1) + 1 = k /\ k - 1 # 0
  OBVIOUS
<1>4. Len(Q) # 1 => Tail(Q)[Len(Tail(Q))] = Q[Len(Q)] /\ Len(Tail(Q)) # 0
  BY <1>1, <1>2, <1>3
<1> QED
  BY <1>1, <1>2, <1>4

\* QueryRequestArrives: a joining node goes to SETUP.
LEMMA QueryRequestControlInv ==
  ASSUME ControlInv, NEW n \in Node, QueryRequestArrives(n), ControlTypeOK'
  PROVE  ControlInv'
<1> USE DEF ControlInv, ControlTypeOK, RoundsTypeOK, ServerTypeOK
<1> DEFINE Q == from_server[n]
<1>1. /\ Q \in Seq(ServerMessage) /\ Q # <<>> /\ Head(Q).type = "query"
      /\ from_server' = [from_server EXCEPT ![n] = Tail(@)]
      /\ UNCHANGED <<pc, timeout_committed, alive, server_query, meters_signed>>
  BY DEF QueryRequestArrives, serverVars
<1>2. \/ StartQuery(n, Head(Q).query)
      \/ /\ n \in MaySkip
         /\ UNCHANGED <<protocol_phase, is_last_round, timer_armed, signature_requests>>
  BY DEF QueryRequestArrives, roundVars
<1>3. NothingBeforeFirstQuery'
  BY <1>1, <1>2 DEF NothingBeforeFirstQuery, StartQuery
<1>4. ASSUME NEW m \in Joining, m # n PROVE SetupInv(m)' /\ LocalInv(m)'
  <2>1. SetupInv(m) /\ LocalInv(m) /\ m \in Node
    BY DEF Joining
  <2>2. Same(m) /\ from_server'[m] = from_server[m]
    BY <1>1, <1>2, <1>4, <2>1 DEF StartQuery, Same
  <2>3. SetupInv(m)'
    BY <1>1, <2>1, <2>2 DEF SetupInv, SignatureFollowsQuery, MayStillSign, Same
  <2>4. LocalInv(m)'
    BY <2>1, <2>2 DEF LocalInv, Same
  <2> QED
    BY <2>3, <2>4
<1>5. ASSUME n \in Joining PROVE SetupInv(n)' /\ LocalInv(n)'
  <2>1. SetupInv(n) /\ StartQuery(n, Head(Q).query) /\ pc[n] = "ready"
    BY <1>2, <1>5 DEF Joining, QueryRequestArrives, Starts, Quiet
  <2>2. protocol_phase'[n] = "SETUP" /\ is_last_round'[n] = FALSE
    BY <2>1 DEF StartQuery
  <2>3. SignatureFollowsQuery(n)'
    BY <1>1, <2>1, <2>2, TailOfQueue DEF SetupInv, SignatureFollowsQuery
  <2>4. MayStillSign(n)'
    <3>1. CASE Len(Q) = 1
      BY <1>1, <2>2, <3>1, TailOfQueue DEF MayStillSign
    <3>2. CASE Len(Q) # 1
      <4>1. Tail(Q)[Len(Tail(Q))] = Q[Len(Q)] /\ Len(Tail(Q)) # 0 /\ Len(Q) # 0
        <5>1. Q \in Seq(ServerMessage) /\ Q # <<>>
          BY <1>1
        <5>2. Len(Q) # 0
          BY <5>1, TailOfQueue
        <5>3. Tail(Q)[Len(Tail(Q))] = Q[Len(Q)]
          BY <3>2, <5>1, TailOfQueue
        <5>4. Len(Tail(Q)) # 0
          BY <3>2, <5>1, TailOfQueue
        <5> QED
          BY <5>2, <5>3, <5>4
      <4>2. n \notin meters_signed /\ server_query # -1 => Q[Len(Q)].type = "query"
        BY <2>1, <4>1 DEF SetupInv, MayStillSign
      <4>3. from_server'[n] = Tail(Q)
        BY <1>1
      <4> QED
        BY <1>1, <4>1, <4>2, <4>3 DEF MayStillSign
    <3> QED
      BY <3>1, <3>2
  <2>5. LocalInv(n)'
    BY <1>1, <2>1, <2>2 DEF LocalInv, OverlayPhase
  <2> QED
    BY <2>3, <2>4, <2>5 DEF SetupInv
<1> QED
  BY <1>3, <1>4, <1>5

\* SignatureResponseArrives: a joining node is in SETUP, and what follows the
\* signature in its queue is no signature.
LEMMA SignatureFindsSetup ==
  ASSUME ControlInv, NEW n \in Joining, SignatureResponseArrives(n)
  PROVE  protocol_phase[n] = "SETUP"
BY TailOfQueue
DEF ControlInv, ControlTypeOK, ServerTypeOK, SetupInv, SignatureFollowsQuery,
    SignatureResponseArrives, Joining

LEMMA SignatureResponseControlInv ==
  ASSUME ControlInv, NEW n \in Node, SignatureResponseArrives(n), ControlTypeOK'
  PROVE  ControlInv'
<1> USE DEF ControlInv, ControlTypeOK, RoundsTypeOK, ServerTypeOK
<1> DEFINE Q == from_server[n]
<1>1. /\ Q \in Seq(ServerMessage) /\ Q # <<>> /\ Head(Q).type = "signature"
      /\ from_server' = [from_server EXCEPT ![n] = Tail(@)]
      /\ \/ /\ protocol_phase' = [protocol_phase EXCEPT ![n] = "SHUFFLE"]
            /\ pc' = [pc EXCEPT ![n] = "end_round"]
            /\ UNCHANGED alive
         \/ /\ alive' = [alive EXCEPT ![n] = FALSE]
            /\ UNCHANGED <<protocol_phase, pc>>
      /\ UNCHANGED <<is_last_round, timer_armed, timeout_committed,
                     signature_requests, server_query, meters_signed>>
  BY DEF SignatureResponseArrives, serverVars, roundVars, timerVars
<1>2. NothingBeforeFirstQuery'
  BY <1>1 DEF NothingBeforeFirstQuery
<1>3. ASSUME NEW m \in Joining, m # n PROVE SetupInv(m)' /\ LocalInv(m)'
  <2>1. SetupInv(m) /\ LocalInv(m) /\ m \in Node
    BY DEF Joining
  <2>2. Same(m) /\ from_server'[m] = from_server[m]
    BY <1>1, <1>3, <2>1 DEF Same
  <2>3. SetupInv(m)'
    BY <1>1, <2>1, <2>2 DEF SetupInv, SignatureFollowsQuery, MayStillSign, Same
  <2>4. LocalInv(m)'
    BY <2>1, <2>2 DEF LocalInv, Same
  <2> QED
    BY <2>3, <2>4
<1>4. ASSUME n \in Joining PROVE SetupInv(n)' /\ LocalInv(n)'
  <2>1. SetupInv(n) /\ LocalInv(n) /\ protocol_phase[n] = "SETUP"
    BY <1>4, SignatureFindsSetup
  <2>2. SignatureFollowsQuery(n)'
    BY <1>1, <2>1, TailOfQueue DEF SetupInv, SignatureFollowsQuery
  <2>3. MayStillSign(n)'
    BY <1>1, <2>1, TailOfQueue DEF SetupInv, MayStillSign
  <2>4. LocalInv(n)'
    BY <1>1, <2>1 DEF LocalInv
  <2> QED
    BY <2>2, <2>3, <2>4 DEF SetupInv
<1> QED
  BY <1>2, <1>3, <1>4

\* The server's own steps append to the queues.
LEMMA AppendToQueue ==
  ASSUME NEW Q \in Seq(ServerMessage), NEW x \in ServerMessage
  PROVE  /\ Len(Q) \in Nat /\ Len(Append(Q, x)) = Len(Q) + 1
         /\ Append(Q, x)[Len(Q) + 1] = x
         /\ \A i \in 1 .. Len(Q) : Append(Q, x)[i] = Q[i]
OBVIOUS

LEMMA ServerStepControlInv ==
  ASSUME ControlInv, Server, ControlTypeOK'
  PROVE  ControlInv'
<1> USE DEF ControlInv, ControlTypeOK, RoundsTypeOK, ServerTypeOK
<1>1. \A m \in Node : Same(m)
  BY DEF Server, ServerStartsQuery, ServerSigns, clientVars, timerVars, roundVars, Same
<1>2. \A m \in Joining : LocalInv(m)'
  BY <1>1 DEF LocalInv, Same, Joining
<1>3. CASE ServerStartsQuery
  <2> DEFINE x == [type |-> "query", query |-> server_query + 1]
  <2>1. /\ server_query' = server_query + 1 /\ meters_signed' = {}
        /\ from_server' = [n \in Node |-> Append(from_server[n], x)]
    BY <1>3 DEF ServerStartsQuery
  <2>2. x \in ServerMessage /\ server_query' # -1
    BY <1>3, <2>1 DEF ServerStartsQuery, ServerMessage, Query
  <2>3. ASSUME NEW m \in Joining PROVE SetupInv(m)'
    <3>1. m \in Node /\ SetupInv(m) /\ from_server[m] \in Seq(ServerMessage)
      BY DEF Joining
    <3>2. SignatureFollowsQuery(m)'
      BY <1>1, <2>1, <2>2, <3>1, AppendToQueue DEF SetupInv, SignatureFollowsQuery, Same
    <3>3. MayStillSign(m)'
      BY <2>1, <2>2, <3>1, AppendToQueue DEF MayStillSign
    <3> QED
      BY <3>2, <3>3 DEF SetupInv
  <2>4. NothingBeforeFirstQuery'
    BY <2>2 DEF NothingBeforeFirstQuery
  <2> QED
    BY <1>2, <2>3, <2>4
<1>4. CASE ServerSigns
  <2>1. PICK request \in signature_requests :
          /\ signature_requests' = signature_requests \ {request}
          /\ meters_signed' = meters_signed \cup {request.from}
          /\ from_server' = IF may_sign(request.from)
               THEN [from_server EXCEPT ![request.from] =
                       Append(@, [type |-> "signature", query |-> request.query])]
               ELSE from_server
    BY <1>4 DEF ServerSigns
  <2> DEFINE x == [type |-> "signature", query |-> request.query]
  <2>2. server_query' = server_query /\ server_query # -1
    BY <1>4 DEF ServerSigns, NothingBeforeFirstQuery
  <2>3. request.from \in Node /\ x \in ServerMessage
    BY DEF ServerMessage
  <2>4. ASSUME NEW m \in Joining PROVE SetupInv(m)'
    <3>1. m \in Node /\ SetupInv(m) /\ from_server[m] \in Seq(ServerMessage) /\ Same(m)
      BY <1>1 DEF Joining
    <3>2. CASE m = request.from /\ m \notin meters_signed
      <4>1. from_server'[m] = Append(from_server[m], x) /\ m \in meters_signed'
        BY <2>1, <3>1, <3>2 DEF may_sign
      <4>2. SignatureFollowsQuery(m)'
        <5>1. CASE Len(from_server[m]) = 0
          <6>1. protocol_phase'[m] = "SETUP" /\ Len(from_server'[m]) = 1
            BY <2>2, <2>3, <3>1, <3>2, <4>1, <5>1, AppendToQueue
            DEF SetupInv, MayStillSign, Same
          <6> QED
            BY <6>1 DEF SignatureFollowsQuery
        <5>2. CASE Len(from_server[m]) # 0
          <6> DEFINE L == Len(from_server[m])
          <6>1. from_server[m][L].type = "query"
            BY <2>2, <3>1, <3>2, <5>2 DEF SetupInv, MayStillSign
          <6>2. L \in Nat /\ L > 0 /\ Len(from_server'[m]) = L + 1
                /\ \A i \in 1 .. L : from_server'[m][i] = from_server[m][i]
            BY <2>3, <3>1, <4>1, <5>2, AppendToQueue
          <6>3. ASSUME NEW i \in 2 .. L + 1, from_server'[m][i].type = "signature"
                PROVE  from_server'[m][i - 1].type = "query"
            <7>1. from_server'[m][i - 1] = from_server[m][i - 1]
              BY <6>2
            <7>2. CASE i = L + 1
              BY <6>1, <6>2, <7>1, <7>2
            <7>3. CASE i # L + 1
              <8>1. i \in 2 .. L /\ from_server'[m][i] = from_server[m][i]
                BY <6>2, <7>3
              <8> QED
                BY <3>1, <6>3, <7>1, <8>1 DEF SetupInv, SignatureFollowsQuery
            <7> QED
              BY <7>2, <7>3
          <6>4. from_server'[m][1].type = "signature" => protocol_phase'[m] = "SETUP"
            <7>1. from_server'[m][1] = from_server[m][1]
              BY <6>2
            <7>2. from_server[m][1].type = "signature" => protocol_phase[m] = "SETUP"
              BY <3>1, <6>2 DEF SetupInv, SignatureFollowsQuery
            <7> QED
              BY <3>1, <7>1, <7>2 DEF Same
          <6> QED
            BY <6>2, <6>3, <6>4 DEF SignatureFollowsQuery
        <5> QED
          BY <5>1, <5>2
      <4>3. MayStillSign(m)'
        BY <4>1 DEF MayStillSign
      <4> QED
        BY <4>2, <4>3 DEF SetupInv
    <3>3. CASE ~(m = request.from /\ m \notin meters_signed)
      <4>1. from_server'[m] = from_server[m]
        BY <2>1, <2>3, <3>1, <3>3 DEF may_sign
      <4> QED
        BY <2>1, <2>2, <3>1, <4>1
        DEF SetupInv, SignatureFollowsQuery, MayStillSign, Same
    <3> QED
      BY <3>2, <3>3
  <2>5. NothingBeforeFirstQuery'
    BY <2>2 DEF NothingBeforeFirstQuery
  <2> QED
    BY <1>2, <2>4, <2>5
<1> QED
  BY <1>3, <1>4 DEF Server

LEMMA InitControlInv == Init => ControlInv
<1> SUFFICES ASSUME Init PROVE ControlInv
  OBVIOUS
<1>1. ControlTypeOK
  BY BoundsAssumption
  DEF Init, ControlTypeOK, RoundsTypeOK, ServerTypeOK, Phase, Query, ServerMessage
<1>2. NothingBeforeFirstQuery
  BY DEF Init, NothingBeforeFirstQuery
<1>3. ASSUME NEW n \in Joining PROVE SetupInv(n) /\ LocalInv(n)
  BY DEF Init, Joining, SetupInv, SignatureFollowsQuery, MayStillSign, LocalInv,
         OverlayPhase
<1> QED
  BY <1>1, <1>2, <1>3 DEF ControlInv

LEMMA NextControlInv == ControlInv /\ ControlTypeOK' /\ [Next]_vars => ControlInv'
<1> SUFFICES ASSUME ControlInv, ControlTypeOK', [Next]_vars PROVE ControlInv'
  OBVIOUS
<1>1. CASE UNCHANGED vars
  BY <1>1 DEF vars, roundVars, timerVars, serverVars, ControlInv,
              NothingBeforeFirstQuery, SetupInv, SignatureFollowsQuery, MayStillSign,
              LocalInv
<1>2. ASSUME NEW n \in Node, EndOverlayRound(n) PROVE ControlInv'
  BY <1>2, EndOverlayRoundKeepsSetup, ClientStepControlInv DEF ControlInv, ControlTypeOK
<1>3. ASSUME NEW n \in Node,
             \/ DrainAggregation(n) \/ AggregationArrives(n) \/ OverlayArrives(n)
             \/ PingArrives(n) \/ Timer(n) \/ Crash(n)
      PROVE  ControlInv'
  BY <1>3, ClientStepKeepsSetup, ClientStepControlInv DEF ControlInv, ControlTypeOK
<1> QED
  BY <1>1, <1>2, <1>3, QueryRequestControlInv, SignatureResponseControlInv,
     ServerStepControlInv
  DEF Next, Handler

\* The inductive invariant behind the two theorems that follow: it relates the
\* server's messages under way to a client to the client's phase, and the phase
\* to the round and the timer (handle_signature_response, handle_round_timeout).
THEOREM ControlInvariant == Spec => []ControlInv
BY InitControlInv, NextControlInv, ControlTypeCorrect, PTL DEF Spec

\* A client that takes part in every query handles a SignatureResponse only in
\* SETUP, for any number of queries, meters and failures: the server signs once
\* per query and its messages keep their order.
THEOREM SignaturesStayInSetup == Spec => SignatureOnlyInSetup
<1>1. ControlInv /\ [Next]_vars =>
        [\A n \in Node \ MaySkip :
           SignatureResponseArrives(n) => protocol_phase[n] = "SETUP"]_vars
  BY SignatureFindsSetup DEF Joining
<1> QED
  BY <1>1, ControlInvariant, PTL DEF Spec, SignatureOnlyInSetup

\* Between two handlers, a client in SHUFFLE or AGREEMENT that takes part in
\* every query has a round timer or a timeout on its way, whatever crashes,
\* timeouts and cancellations came before.
THEOREM TimersCover == Spec => []RoundTimerCovers
<1>1. ControlInv => RoundTimerCovers
  BY DEF ControlInv, RoundTimerCovers, Joining, LocalInv, Quiet
<1> QED
  BY <1>1, ControlInvariant, PTL

-----------------------------------------------------------------------------
(* Types of the overlay messages *)

LEMMA MulticastType ==
  ASSUME NEW n \in Node, query_num[n] \in Query, NEW kind \in Kind, NEW value \in Node,
         NEW signatures \in SUBSET Node
  PROVE  multicast(n, kind, value, signatures) \in SUBSET Body
<1> SUFFICES ASSUME NEW p \in ProxiesOf[value] \ {n}
             PROVE  [kind |-> kind, query |-> query_num[n], value |-> value,
                     signer |-> n, signatures |-> signatures,
                     dest |-> Head(Route[kind][value][n][p]),
                     rest |-> Tail(Route[kind][value][n][p])] \in Body
  BY DEF multicast
<1>1. p \in Node
  BY ProxiesAssumption
<1>2. Route[kind][value][n][p] \in Seq(Node) \ {<<>>}
  BY <1>1, RouteAssumption
<1>3. /\ Head(Route[kind][value][n][p]) \in Node
      /\ Tail(Route[kind][value][n][p]) \in Seq(Node)
  BY <1>2
<1> QED
  BY <1>3 DEF Body

LEMMA BatchType ==
  ASSUME NEW n \in Node, query_num[n] \in Query, NEW r \in Nat,
         NEW bodies \in SUBSET Body
  PROVE  batch(n, r, bodies) \in SUBSET OverlayMessage
<1>1. CASE bodies = {}
  BY <1>1 DEF batch, OverlayMessage
<1>2. CASE bodies # {}
  <2> SUFFICES ASSUME NEW q \in {b.query : b \in bodies}
               PROVE  [from |-> n, round |-> r, query |-> q,
                       final |-> \A b \in bodies : b.query <= q,
                       bodies |-> {b \in bodies : b.query = q}] \in OverlayMessage
    BY <1>2 DEF batch
  <2>1. q \in Query
    BY DEF Body
  <2>2. (\A b \in bodies : b.query <= q) \in BOOLEAN
    OBVIOUS
  <2> QED
    BY <2>1, <2>2 DEF OverlayMessage
<1> QED
  BY <1>1, <1>2

LEMMA ForwardedType ==
  ASSUME NEW bodies \in SUBSET Body
  PROVE  forwarded(bodies) \in SUBSET Body
<1> SUFFICES ASSUME NEW b \in bodies, b.rest # <<>>
             PROVE  [b EXCEPT !.dest = Head(b.rest), !.rest = Tail(b.rest)] \in Body
  BY DEF forwarded
<1>1. b \in Body /\ b.rest \in Seq(Node)
  BY DEF Body
<1>2. Head(b.rest) \in Node /\ Tail(b.rest) \in Seq(Node)
  BY <1>1
<1> QED
  BY <1>1, <1>2 DEF Body

LEMMA AgreementMessagesType ==
  ASSUME NEW state \in AgreementState, NEW messages \in SUBSET Body
  PROVE  handle_agreement_messages(state, messages) \in AgreementState
<1>1. ASSUME NEW m \in messages PROVE signatures_added(m) \in SUBSET Node
  BY DEF signatures_added, Body
<1>2. ASSUME NEW v \in Node
      PROVE  state.signed_proxy_values[v] \cup
               UNION {signatures_added(m) : m \in {x \in messages : x.value = v}}
               \in SUBSET Node
  BY <1>1 DEF AgreementState
<1> QED
  BY <1>2 DEF handle_agreement_messages, AgreementState

LEMMA HandleBodiesType ==
  ASSUME OverlayTypeOK, NEW n \in Node, NEW bodies \in SUBSET Body, NEW phase,
         NEW waiting \in SUBSET Body, NEW agree \in AgreementState,
         HandleBodies(n, bodies, phase, waiting, agree)
  PROVE  /\ waiting_messages' \in [Node -> SUBSET Body]
         /\ proxy_values' \in [Node -> SUBSET Node]
         /\ agreement' \in [Node -> AgreementState]
<1> USE DEF OverlayTypeOK
<1>1. waiting \cup forwarded(bodies) \in SUBSET Body
  BY ForwardedType
<1>2. contributions(bodies) \in SUBSET Node
  BY DEF contributions, delivered, Body
<1>3. handle_agreement_messages(agree, delivered(bodies)) \in AgreementState
  BY AgreementMessagesType DEF delivered
<1>4. waiting_messages' \in [Node -> SUBSET Body]
  BY <1>1 DEF HandleBodies
<1>5. proxy_values' \in [Node -> SUBSET Node]
  BY <1>2 DEF HandleBodies
<1>6. agreement' \in [Node -> AgreementState]
  BY <1>3 DEF HandleBodies
<1> QED
  BY <1>4, <1>5, <1>6

LEMMA CommonEndOverlayType ==
  ASSUME ControlTypeOK, OverlayTypeOK, NEW n \in Node, NEW outgoing \in SUBSET Body,
         NEW phase, NEW agree \in AgreementState,
         CommonEndOverlayRound(n, outgoing, phase, agree), UNCHANGED accepted
  PROVE  OverlayTypeOK'
<1> USE DEF OverlayTypeOK
<1>1. CASE is_last_round[n]
  BY <1>1 DEF CommonEndOverlayRound
<1>2. CASE ~is_last_round[n]
  <2> DEFINE r       == overlay_round[n] + 1
             pending == waiting_messages[n] \cup outgoing
             ready   == {b \in pending : b.dest = target(n, r)}
             bodies  == UNION {m.bodies : m \in due(n, r)}
  <2>1. /\ overlay_net' = overlay_net \cup batch(n, r, ready)
        /\ outgoing_messages' = [outgoing_messages EXCEPT ![n] = {}]
        /\ future_overlay' = [future_overlay EXCEPT ![n] = @ \ due(n, r)]
        /\ HandleBodies(n, bodies, phase, pending \ ready, agree)
    BY <1>2 DEF CommonEndOverlayRound
  <2>2. r \in Nat /\ query_num[n] \in Query
    BY DEF ControlTypeOK, RoundsTypeOK
  <2>3. pending \in SUBSET Body /\ ready \in SUBSET Body
    OBVIOUS
  <2>4. bodies \in SUBSET Body
    BY DEF due, OverlayMessage
  <2>5. overlay_net' \subseteq OverlayMessage
    BY <2>1, <2>2, <2>3, BatchType
  <2>6. /\ outgoing_messages' \in [Node -> SUBSET Body]
        /\ future_overlay' \in [Node -> SUBSET OverlayMessage]
    BY <2>1
  <2>7. pending \ ready \in SUBSET Body
    BY <2>3
  <2> HIDE DEF r, pending, ready, bodies
  <2>8. /\ waiting_messages' \in [Node -> SUBSET Body]
        /\ proxy_values' \in [Node -> SUBSET Node]
        /\ agreement' \in [Node -> AgreementState]
    BY <2>1, <2>4, <2>7, HandleBodiesType
  <2> QED
    BY <2>5, <2>6, <2>8
<1> QED
  BY <1>1, <1>2

LEMMA EndOverlayRoundOverlayType ==
  ASSUME ControlTypeOK, OverlayTypeOK, NEW n \in Node, EndOverlayRound(n)
  PROVE  OverlayTypeOK'
<1>1. /\ query_num[n] \in Query /\ outgoing_messages[n] \in SUBSET Body
      /\ proxy_values[n] \in SUBSET Node /\ agreement[n] \in AgreementState
  BY DEF ControlTypeOK, RoundsTypeOK, OverlayTypeOK
<1>2. CASE FinishShuffle(n)
  <2> DEFINE signed == UNION {multicast(n, "sign", v, {n}) : v \in proxy_values[n]}
  <2>1. \A v \in proxy_values[n] : multicast(n, "sign", v, {n}) \in SUBSET Body
    BY <1>1, MulticastType DEF Kind
  <2>2. outgoing_messages[n] \cup signed \in SUBSET Body
    BY <1>1, <2>1
  <2>3. /\ CommonEndOverlayRound(n, outgoing_messages[n] \cup signed, "AGREEMENT",
                                 agreement[n])
        /\ UNCHANGED accepted
    BY <1>2 DEF FinishShuffle
  <2> HIDE DEF signed
  <2> QED
    BY <1>1, <2>2, <2>3, CommonEndOverlayType
<1>3. CASE FinishPhase1(n)
  <2> DEFINE accepts ==
        UNION {multicast(n, "accept", v, agreement[n].signed_proxy_values[v]) :
                 v \in accepted_values(agreement[n])}
  <2>1. ASSUME NEW v \in accepted_values(agreement[n])
        PROVE  multicast(n, "accept", v, agreement[n].signed_proxy_values[v])
                 \in SUBSET Body
    <3>1. v \in Node /\ agreement[n].signed_proxy_values[v] \in SUBSET Node
      BY <1>1 DEF accepted_values, AgreementState
    <3> QED
      BY <1>1, <3>1, MulticastType DEF Kind
  <2>2. outgoing_messages[n] \cup accepts \in SUBSET Body
    BY <1>1, <2>1
  <2>3. finish_phase_1(agreement[n]) \in AgreementState
    BY <1>1 DEF finish_phase_1, AgreementState
  <2>4. /\ CommonEndOverlayRound(n, outgoing_messages[n] \cup accepts, "AGREEMENT",
                                 finish_phase_1(agreement[n]))
        /\ UNCHANGED accepted
    BY <1>3 DEF FinishPhase1
  <2> HIDE DEF accepts
  <2> QED
    BY <2>2, <2>3, <2>4, CommonEndOverlayType
<1>4. CASE FinishAgreement(n)
  <2>1. accepted_values(agreement[n]) \in SUBSET Node
    BY DEF accepted_values
  <2> QED
    BY <1>4, <2>1 DEF FinishAgreement, OverlayTypeOK, messageVars
<1>5. CASE ContinueOverlay(n)
  <2>1. /\ CommonEndOverlayRound(n, outgoing_messages[n], protocol_phase[n], agreement[n])
        /\ UNCHANGED accepted
    BY <1>5 DEF ContinueOverlay
  <2> QED
    BY <1>1, <2>1, CommonEndOverlayType
<1> QED
  BY <1>2, <1>3, <1>4, <1>5 DEF EndOverlayRound

LEMMA OverlayArrivesType ==
  ASSUME OverlayTypeOK, NEW n \in Node, OverlayArrives(n)
  PROVE  OverlayTypeOK'
<1>1. PICK m \in overlay_net :
        /\ overlay_net' = overlay_net \ {m}
        /\ HandleOverlay(n, m) \/ KeepOverlay(n, m)
  BY DEF OverlayArrives
<1>2. UNCHANGED <<outgoing_messages, accepted>>
  BY DEF OverlayArrives
<1>3. m \in OverlayMessage /\ m.bodies \in SUBSET Body
  BY DEF OverlayTypeOK, OverlayMessage
<1>4. overlay_net' \subseteq OverlayMessage
  BY <1>1 DEF OverlayTypeOK
<1>5. CASE HandleOverlay(n, m)
  <2>1. /\ waiting_messages[n] \in SUBSET Body /\ agreement[n] \in AgreementState
        /\ UNCHANGED future_overlay
        /\ HandleBodies(n, m.bodies, protocol_phase[n], waiting_messages[n], agreement[n])
    BY <1>5 DEF HandleOverlay, OverlayTypeOK
  <2>2. /\ waiting_messages' \in [Node -> SUBSET Body]
        /\ proxy_values' \in [Node -> SUBSET Node]
        /\ agreement' \in [Node -> AgreementState]
    BY <1>3, <2>1, HandleBodiesType
  <2> QED
    BY <1>2, <1>4, <2>1, <2>2 DEF OverlayTypeOK
<1>6. CASE KeepOverlay(n, m)
  BY <1>2, <1>3, <1>4, <1>6 DEF KeepOverlay, OverlayTypeOK
<1> QED
  BY <1>1, <1>5, <1>6

LEMMA OtherStepOverlayType ==
  ASSUME ControlTypeOK, OverlayTypeOK, NEW n \in Node,
         \/ DrainAggregation(n) \/ AggregationArrives(n) \/ PingArrives(n)
         \/ Timer(n) \/ Crash(n) \/ Server
         \/ QueryRequestArrives(n) \/ SignatureResponseArrives(n)
  PROVE  OverlayTypeOK'
<1> USE DEF OverlayTypeOK, messageVars, valueVars
<1>1. CASE QueryRequestArrives(n)
  <2>1. NewAgreement \in AgreementState
    BY DEF NewAgreement, AgreementState
  <2>2. /\ UNCHANGED <<waiting_messages, outgoing_messages, future_overlay, overlay_net>>
        /\ \/ UNCHANGED <<proxy_values, accepted, agreement>>
           \/ /\ proxy_values' = [proxy_values EXCEPT ![n] = {}]
              /\ accepted' = [accepted EXCEPT ![n] = {}]
              /\ agreement' = [agreement EXCEPT ![n] = NewAgreement]
    BY <1>1 DEF QueryRequestArrives, StartQuery
  <2> QED
    BY <2>1, <2>2
<1>2. CASE SignatureResponseArrives(n)
  <2>1. multicast(n, "contribution", n, {}) \in SUBSET Body
    BY MulticastType DEF ControlTypeOK, RoundsTypeOK, Kind
  <2>2. \/ UNCHANGED outgoing_messages
        \/ outgoing_messages' =
             [outgoing_messages EXCEPT ![n] = @ \cup multicast(n, "contribution", n, {})]
    BY <1>2 DEF SignatureResponseArrives
  <2>3. outgoing_messages' \in [Node -> SUBSET Body]
    BY <2>1, <2>2
  <2> QED
    BY <1>2, <2>3 DEF SignatureResponseArrives
<1>3. CASE DrainAggregation(n)
  BY <1>3 DEF DrainAggregation
<1>4. CASE AggregationArrives(n)
  BY <1>4 DEF AggregationArrives
<1>5. CASE PingArrives(n)
  BY <1>5 DEF PingArrives
<1>6. CASE Timer(n)
  BY <1>6 DEF Timer, TimerExpires, RoundTimeout
<1>7. CASE Crash(n)
  BY <1>7 DEF Crash, clientVars
<1>8. CASE Server
  BY <1>8 DEF Server, ServerStartsQuery, ServerSigns, clientVars
<1> QED
  BY <1>1, <1>2, <1>3, <1>4, <1>5, <1>6, <1>7, <1>8

LEMMA InitOverlayType == Init => OverlayTypeOK
<1>1. NewAgreement \in AgreementState
  BY DEF NewAgreement, AgreementState
<1> QED
  BY <1>1 DEF Init, OverlayTypeOK

LEMMA NextOverlayType == ControlTypeOK /\ OverlayTypeOK /\ [Next]_vars => OverlayTypeOK'
<1> SUFFICES ASSUME ControlTypeOK, OverlayTypeOK, [Next]_vars PROVE OverlayTypeOK'
  OBVIOUS
<1>1. CASE UNCHANGED vars
  BY <1>1 DEF vars, messageVars, valueVars, OverlayTypeOK
<1>2. ASSUME NEW n \in Node, Handler(n) \/ PingArrives(n) \/ Timer(n) \/ Crash(n)
      PROVE  OverlayTypeOK'
  BY <1>2, EndOverlayRoundOverlayType, OverlayArrivesType, OtherStepOverlayType
  DEF Handler
<1>3. CASE Server
  <2>1. OverlayTypeOK'
    BY <1>3 DEF Server, ServerStartsQuery, ServerSigns, clientVars, messageVars,
                valueVars, OverlayTypeOK
  <2> QED
    BY <2>1
<1> QED
  BY <1>1, <1>2, <1>3 DEF Next

\* Overlay messages in the network, in the buffers and in the queues of a client
\* stay within their types, and so do the values and the agreement state.
THEOREM OverlayTypeCorrect == Spec => []OverlayTypeOK
BY InitOverlayType, NextOverlayType, ControlTypeCorrect, PTL DEF Spec

-----------------------------------------------------------------------------
(* The buffer of future overlay messages *)

\* common_end_overlay_round takes out what is due in the new round.
LEMMA CommonEndBuffer ==
  ASSUME ControlTypeOK, OverlayTypeOK, BufferedIsAhead, NEW n \in Node,
         NEW outgoing, NEW phase, NEW agree,
         CommonEndOverlayRound(n, outgoing, phase, agree)
  PROVE  BufferedIsAhead'
<1> USE DEF ControlTypeOK, RoundsTypeOK, OverlayTypeOK
<1>1. query_num' = query_num
  BY DEF CommonEndOverlayRound
<1>2. CASE is_last_round[n]
  BY <1>1, <1>2 DEF CommonEndOverlayRound, BufferedIsAhead
<1>3. CASE ~is_last_round[n]
  <2> DEFINE r == overlay_round[n] + 1
  <2>1. /\ overlay_round' = [overlay_round EXCEPT ![n] = r]
        /\ future_overlay' = [future_overlay EXCEPT ![n] = @ \ due(n, r)]
    BY <1>3 DEF CommonEndOverlayRound
  <2>2. ASSUME NEW k \in Node, NEW m \in future_overlay'[k], m.query = query_num'[k]
        PROVE  m.round > overlay_round'[k]
    <3>1. m \in future_overlay[k] /\ m.round \in Nat
      BY <2>1, <2>2 DEF OverlayMessage
    <3>2. m.round > overlay_round[k]
      BY <1>1, <2>2, <3>1 DEF BufferedIsAhead
    <3>3. CASE k = n
      <4>1. m.round # r
        BY <1>1, <2>1, <2>2, <3>1, <3>3 DEF due
      <4>2. overlay_round'[k] = r /\ overlay_round[k] \in Nat \cup {-1}
        BY <2>1, <3>3
      <4> QED
        BY <3>1, <3>2, <3>3, <4>1, <4>2
    <3>4. CASE k # n
      BY <2>1, <3>2, <3>4
    <3> QED
      BY <3>3, <3>4
  <2> QED
    BY <2>2 DEF BufferedIsAhead
<1> QED
  BY <1>2, <1>3

LEMMA NextBuffer ==
  ControlTypeOK /\ OverlayTypeOK /\ BufferedIsAhead /\ [Next]_vars => BufferedIsAhead'
<1> SUFFICES ASSUME ControlTypeOK, OverlayTypeOK, BufferedIsAhead, [Next]_vars
             PROVE  BufferedIsAhead'
  OBVIOUS
<1> USE DEF ControlTypeOK, RoundsTypeOK, OverlayTypeOK
<1>1. CASE UNCHANGED <<query_num, overlay_round, future_overlay>>
  BY <1>1 DEF BufferedIsAhead
<1>2. ASSUME NEW n \in Node, EndOverlayRound(n) PROVE BufferedIsAhead'
  <2>1. CASE FinishShuffle(n)
    BY <2>1, CommonEndBuffer DEF FinishShuffle
  <2>2. CASE FinishPhase1(n)
    BY <2>2, CommonEndBuffer DEF FinishPhase1
  <2>3. CASE FinishAgreement(n)
    BY <2>3, <1>1 DEF FinishAgreement, messageVars
  <2>4. CASE ContinueOverlay(n)
    BY <2>4, CommonEndBuffer DEF ContinueOverlay
  <2> QED
    BY <1>2, <2>1, <2>2, <2>3, <2>4 DEF EndOverlayRound
<1>3. ASSUME NEW n \in Node, OverlayArrives(n) PROVE BufferedIsAhead'
  <2>1. PICK m \in overlay_net : HandleOverlay(n, m) \/ KeepOverlay(n, m)
    BY <1>3 DEF OverlayArrives
  <2>2. UNCHANGED <<query_num, overlay_round>>
    BY <1>3 DEF OverlayArrives, roundVars
  <2>3. CASE HandleOverlay(n, m)
    BY <2>2, <2>3, <1>1 DEF HandleOverlay
  <2>4. CASE KeepOverlay(n, m)
    <3>1. m.query \in Int /\ query_num[n] \in Int
      BY BoundsAssumption DEF OverlayMessage, Query
    <3>2. is_ahead(n, m) /\ m.query = query_num[n] => m.round > overlay_round[n]
      BY <3>1 DEF is_ahead
    <3>3. \A k \in Node : \A x \in future_overlay'[k] :
            x \in future_overlay[k] \/ (k = n /\ x = m /\ is_ahead(n, m))
      BY <2>4 DEF KeepOverlay
    <3> QED
      BY <2>2, <3>2, <3>3 DEF BufferedIsAhead
  <2> QED
    BY <2>1, <2>3, <2>4
<1>4. ASSUME NEW n \in Node, QueryRequestArrives(n) PROVE BufferedIsAhead'
  <2>1. future_overlay' = future_overlay
    BY <1>4 DEF QueryRequestArrives, messageVars
  <2>2. \/ UNCHANGED <<query_num, overlay_round>>
        \/ /\ overlay_round' = [overlay_round EXCEPT ![n] = -1]
           /\ \A k \in Node \ {n} : query_num'[k] = query_num[k]
    BY <1>4 DEF QueryRequestArrives, StartQuery, roundVars
  <2>3. \A k \in Node : \A m \in future_overlay[k] : m.round \in Nat
    BY DEF OverlayMessage
  <2> QED
    BY <2>1, <2>2, <2>3 DEF BufferedIsAhead
<1>5. ASSUME NEW n \in Node,
             \/ DrainAggregation(n) \/ AggregationArrives(n) \/ PingArrives(n)
             \/ Timer(n) \/ Crash(n) \/ SignatureResponseArrives(n)
      PROVE  UNCHANGED <<query_num, overlay_round, future_overlay>>
  BY <1>5 DEF DrainAggregation, AggregationArrives, PingArrives, Timer, TimerExpires,
              RoundTimeout, Crash, SignatureResponseArrives, clientVars, roundVars,
              messageVars
<1>6. Server => UNCHANGED <<query_num, overlay_round, future_overlay>>
  BY DEF Server, ServerStartsQuery, ServerSigns, clientVars, roundVars, messageVars
<1>7. UNCHANGED vars => UNCHANGED <<query_num, overlay_round, future_overlay>>
  BY DEF vars, roundVars, messageVars
<1> QED
  BY <1>1, <1>2, <1>3, <1>4, <1>5, <1>6, <1>7 DEF Next, Handler

\* No overlay message stays in future_overlay_messages beyond its round, for any
\* overlay, number of queries, crashes and timeouts.
THEOREM BufferStaysAhead == Spec => []BufferedIsAhead
<1>1. Init => BufferedIsAhead
  BY DEF Init, BufferedIsAhead
<1> QED
  BY <1>1, NextBuffer, ControlTypeCorrect, OverlayTypeCorrect, PTL DEF Spec

-----------------------------------------------------------------------------
(* Aggregation *)

LEMMA NodesAreFinite == ASSUME NEW values \in SUBSET Node
                        PROVE  IsFiniteSet(values) /\ Cardinality(values) \in Nat
<1>1. IsFiniteSet(Node)
  BY NodeAssumption, MetersAssumption, FS_Interval
<1> QED
  BY <1>1, FS_Subset, FS_CardinalityType

\* initialize leaves none, one or two children to wait for.
LEMMA InitializeType ==
  ASSUME NEW agg \in AggregationState, NEW node_id, NEW failed
  PROVE  initialize(agg, node_id, failed) \in AggregationState
<1> DEFINE children  == aggregation_tree_children(node_id, NumGroups, NumMeters)
           absent(i) == children[i] = NoNode \/ children[i] \in failed
           Absent    == {i \in {1, 2} : absent(i)}
<1>1. IsFiniteSet({1, 2}) /\ Cardinality({1, 2}) = 2
  <2>1. IsFiniteSet({1}) /\ Cardinality({1}) = 1
    BY FS_Singleton
  <2>2. {1, 2} = {1} \cup {2}
    OBVIOUS
  <2> QED
    BY <2>1, <2>2, FS_AddElement
<1>2. Cardinality(Absent) \in 0 .. 2
  <2>1. Absent \subseteq {1, 2}
    OBVIOUS
  <2> HIDE DEF Absent
  <2>2. Cardinality(Absent) \in Nat /\ Cardinality(Absent) <= 2
    BY <1>1, <2>1, FS_Subset, FS_CardinalityType
  <2> QED
    BY <2>2
<1>3. initialize(agg, node_id, failed) =
        [agg EXCEPT !.received = 0, !.needed = 2 - Cardinality(Absent)]
  BY DEF initialize
<1> HIDE DEF Absent
<1> DEFINE needed == 2 - Cardinality(Absent)
<1>4. needed \in 0 .. 2
  BY <1>2
<1>5. initialize(agg, node_id, failed) = [agg EXCEPT !.received = 0, !.needed = needed]
  BY <1>3
<1> HIDE DEF needed
<1>6. 0 \in Nat
  OBVIOUS
<1>7. [agg EXCEPT !.received = 0, !.needed = needed] \in AggregationState
  BY <1>4, <1>6 DEF AggregationState
<1> QED
  BY <1>5, <1>7

LEMMA HandleAggregateType ==
  ASSUME NEW agg \in AggregationState, NEW message \in AggregationMessage
  PROVE  handle_aggregate(agg, message) \in AggregationState
<1>1. /\ agg.received + 1 \in Nat /\ agg.count + message.count \in Nat
      /\ message.count \in Nat /\ message.contents \in SUBSET ContributionId
      /\ agg.contents \cup message.contents \in SUBSET ContributionId
  BY DEF AggregationState, AggregationMessage
<1> QED
  BY <1>1 DEF handle_aggregate, AggregationState

LEMMA AddAcceptedType ==
  ASSUME NEW agg \in AggregationState, NEW n \in Node, NEW values \in SUBSET Node
  PROVE  add_accepted(agg, n, values) \in AggregationState
<1>1. agg.count + Cardinality(values) \in Nat
  BY NodesAreFinite DEF AggregationState
<1>2. {[query |-> agg.query, value |-> v, proxy |-> n] : v \in values}
        \subseteq ContributionId
  BY DEF AggregationState, ContributionId
<1> QED
  BY <1>1, <1>2 DEF add_accepted, AggregationState

LEMMA AggregateMessageType ==
  ASSUME NEW agg \in AggregationState, NEW n \in Node
  PROVE  aggregate_message(agg, n) \in AggregationMessage
<1>1. aggregation_tree_parent(n, NumGroups, NumMeters) \in Node \cup {NoNode}
  BY ParentIsNode, NodeAssumption, MetersAssumption, GroupsAssumption
<1> QED
  BY <1>1 DEF aggregate_message, AggregationState, AggregationMessage

LEMMA SendAggregateType ==
  ASSUME AggregationTypeOK, NEW n \in Node, NEW agg \in AggregationState,
         NEW values \in SUBSET Node, NEW in_flight \in SUBSET AggregationMessage,
         SendAggregateIfDone(n, agg, values, in_flight)
  PROVE  /\ aggregation' \in [Node -> AggregationState]
         /\ aggregation_net' \subseteq AggregationMessage
         /\ server_results' \subseteq AggregationMessage
<1> DEFINE sum == add_accepted(agg, n, values)
           message == aggregate_message(sum, n)
<1>1. sum \in AggregationState
  BY AddAcceptedType
<1> HIDE DEF sum
<1>2. message \in AggregationMessage
  BY <1>1, AggregateMessageType
<1> HIDE DEF message
<1>3. \E new \in {sum, agg} : aggregation' = [aggregation EXCEPT ![n] = new]
  BY DEF SendAggregateIfDone, sum
<1>4. /\ aggregation_net' \in {in_flight, in_flight \cup {message}}
      /\ server_results' \in {server_results, server_results \cup {message}}
  BY DEF SendAggregateIfDone, sum, message
<1> QED
  BY <1>1, <1>2, <1>3, <1>4 DEF AggregationTypeOK

\* The loop over future_aggregation_messages runs only while there are some.
DrainHasMessage == \A n \in Node : pc[n] = "drain" => future_aggregation[n] # <<>>

LEMMA AggregationStepType ==
  ASSUME OverlayTypeOK, AggregationTypeOK, DrainHasMessage, NEW n \in Node,
         EndOverlayRound(n) \/ DrainAggregation(n) \/ AggregationArrives(n)
  PROVE  AggregationTypeOK'
<1> USE DEF aggregateVars
<1>1. accepted[n] \in SUBSET Node /\ aggregation[n] \in AggregationState
      /\ future_aggregation[n] \in Seq(AggregationMessage)
      /\ aggregation_net \in SUBSET AggregationMessage
  BY DEF OverlayTypeOK, AggregationTypeOK
<1>2. CASE FinishShuffle(n) \/ FinishPhase1(n) \/ ContinueOverlay(n)
  BY <1>2 DEF FinishShuffle, FinishPhase1, ContinueOverlay, CommonEndOverlayRound,
              AggregationTypeOK
<1>3. CASE FinishAgreement(n)
  <2> DEFINE agg == initialize(aggregation[n], n, failed_meter_ids[n])
  <2>1. agg \in AggregationState
    BY <1>1, InitializeType
  <2>2. accepted_values(agreement[n]) \in SUBSET Node
    BY DEF accepted_values
  <2>3. SendAggregateIfDone(n, agg, accepted_values(agreement[n]), aggregation_net)
        /\ UNCHANGED future_aggregation
    BY <1>3 DEF FinishAgreement
  <2> HIDE DEF agg
  <2> QED
    BY <1>1, <2>1, <2>2, <2>3, SendAggregateType DEF AggregationTypeOK
<1>4. CASE DrainAggregation(n)
  <2> DEFINE m == Head(future_aggregation[n])
  <2>1. future_aggregation[n] # <<>>
    BY <1>4 DEF DrainAggregation, DrainHasMessage
  <2>2. m \in AggregationMessage /\ Tail(future_aggregation[n]) \in Seq(AggregationMessage)
    BY <1>1, <2>1
  <2>3. handle_aggregate(aggregation[n], m) \in AggregationState
    BY <1>1, <2>2, HandleAggregateType
  <2>4. SendAggregateIfDone(n, handle_aggregate(aggregation[n], m), accepted[n],
                            aggregation_net)
        /\ future_aggregation' = [future_aggregation EXCEPT ![n] = Tail(@)]
    BY <1>4 DEF DrainAggregation, HandleAggregation
  <2>5. future_aggregation' \in [Node -> Seq(AggregationMessage)]
    BY <2>2, <2>4 DEF AggregationTypeOK
  <2> HIDE DEF m
  <2> QED
    BY <1>1, <2>3, <2>4, <2>5, SendAggregateType DEF AggregationTypeOK
<1>5. CASE AggregationArrives(n)
  <2>1. PICK m \in aggregation_net :
          \/ /\ HandleAggregation(n, m, aggregation_net \ {m})
             /\ UNCHANGED future_aggregation
          \/ /\ future_aggregation' = [future_aggregation EXCEPT
                  ![n] = IF m.query = query_num[n] THEN Append(@, m) ELSE @]
             /\ aggregation_net' = aggregation_net \ {m}
             /\ UNCHANGED <<aggregation, server_results>>
    BY <1>5 DEF AggregationArrives
  <2>2. m \in AggregationMessage /\ aggregation_net \ {m} \in SUBSET AggregationMessage
    BY <1>1
  <2>3. CASE HandleAggregation(n, m, aggregation_net \ {m}) /\ UNCHANGED future_aggregation
    <3>1. handle_aggregate(aggregation[n], m) \in AggregationState
      BY <1>1, <2>2, HandleAggregateType
    <3> QED
      BY <1>1, <2>2, <2>3, <3>1, SendAggregateType
      DEF HandleAggregation, AggregationTypeOK
  <2>4. CASE /\ future_aggregation' = [future_aggregation EXCEPT
                  ![n] = IF m.query = query_num[n] THEN Append(@, m) ELSE @]
             /\ aggregation_net' = aggregation_net \ {m}
             /\ UNCHANGED <<aggregation, server_results>>
    <3>1. Append(future_aggregation[n], m) \in Seq(AggregationMessage)
      BY <1>1, <2>2
    <3> QED
      BY <2>4, <3>1 DEF AggregationTypeOK
  <2> QED
    BY <2>1, <2>3, <2>4
<1> QED
  BY <1>2, <1>3, <1>4, <1>5 DEF EndOverlayRound

LEMMA DrainStep ==
  ASSUME RoundsTypeOK, AggregationTypeOK, DrainHasMessage, NEW n \in Node,
         EndOverlayRound(n) \/ DrainAggregation(n) \/ AggregationArrives(n)
  PROVE  DrainHasMessage'
<1> USE DEF aggregateVars, RoundsTypeOK, AggregationTypeOK
<1>1. CASE FinishShuffle(n) \/ FinishPhase1(n) \/ ContinueOverlay(n)
  <2>1. /\ UNCHANGED future_aggregation
        /\ \E now \in {"ready", "end_round"} : pc' = [pc EXCEPT ![n] = now]
    BY <1>1 DEF FinishShuffle, FinishPhase1, ContinueOverlay, CommonEndOverlayRound
  <2> QED
    BY <2>1 DEF DrainHasMessage
<1>2. CASE FinishAgreement(n)
  <2>1. /\ UNCHANGED future_aggregation
        /\ \/ future_aggregation[n] # <<>> /\ pc' = [pc EXCEPT ![n] = "drain"]
           \/ pc' = [pc EXCEPT ![n] = "ready"]
    BY <1>2 DEF FinishAgreement
  <2> QED
    BY <2>1 DEF DrainHasMessage
<1>3. CASE DrainAggregation(n)
  <2>1. /\ future_aggregation' = [future_aggregation EXCEPT ![n] = Tail(@)]
        /\ pc' = [pc EXCEPT ![n] =
             IF Len(future_aggregation[n]) = 1 THEN "ready" ELSE "drain"]
        /\ future_aggregation[n] # <<>>
    BY <1>3 DEF DrainAggregation, DrainHasMessage
  <2>2. ASSUME Len(future_aggregation[n]) # 1 PROVE Tail(future_aggregation[n]) # <<>>
    <3>1. future_aggregation[n] \in Seq(AggregationMessage)
      OBVIOUS
    <3>2. /\ Len(future_aggregation[n]) \in Nat /\ Len(future_aggregation[n]) # 0
          /\ Len(Tail(future_aggregation[n])) = Len(future_aggregation[n]) - 1
      BY <2>1, <3>1
    <3>3. Len(Tail(future_aggregation[n])) # 0
      BY <2>2, <3>2
    <3>4. Len(<<>>) = 0
      OBVIOUS
    <3> QED
      BY <3>3, <3>4
  <2>3. ASSUME NEW k \in Node, pc'[k] = "drain" PROVE future_aggregation'[k] # <<>>
    <3>1. CASE k = n
      BY <2>1, <2>2, <2>3, <3>1
    <3>2. CASE k # n
      BY <2>1, <2>3, <3>2 DEF DrainHasMessage
    <3> QED
      BY <3>1, <3>2
  <2> QED
    BY <2>3 DEF DrainHasMessage
<1>4. CASE AggregationArrives(n)
  BY <1>4 DEF AggregationArrives, Starts, Quiet, DrainHasMessage
<1> QED
  BY <1>1, <1>2, <1>3, <1>4 DEF EndOverlayRound

\* All other steps leave the aggregation alone and start no drain.
LEMMA OtherStepAggregation ==
  ASSUME RoundsTypeOK, NEW n \in Node,
         \/ QueryRequestArrives(n) \/ SignatureResponseArrives(n) \/ OverlayArrives(n)
         \/ PingArrives(n) \/ Timer(n) \/ Crash(n) \/ Server
  PROVE  /\ UNCHANGED <<future_aggregation, aggregation_net>>
         /\ server_results' = server_results
         /\ \A k \in Node : pc'[k] = "drain" => pc[k] = "drain"
<1> USE DEF RoundsTypeOK, aggregateVars, clientVars
<1>1. CASE QueryRequestArrives(n) \/ SignatureResponseArrives(n)
  BY <1>1 DEF QueryRequestArrives, SignatureResponseArrives
<1>2. CASE OverlayArrives(n)
  BY <1>2 DEF OverlayArrives, HandleOverlay, KeepOverlay
<1>3. CASE PingArrives(n) \/ Crash(n)
  BY <1>3 DEF PingArrives, Crash
<1>4. CASE Timer(n)
  BY <1>4 DEF Timer, TimerExpires, RoundTimeout, KeepWaiting, GiveUp
<1>5. CASE Server
  BY <1>5 DEF Server, ServerStartsQuery, ServerSigns
<1> QED
  BY <1>1, <1>2, <1>3, <1>4, <1>5

LEMMA NewAggregationType ==
  ASSUME NEW q \in Query PROVE NewAggregation(q) \in AggregationState
BY DEF NewAggregation, AggregationState

LEMMA OtherStepAggregationState ==
  ASSUME ControlTypeOK, AggregationTypeOK, NEW n \in Node,
         \/ QueryRequestArrives(n) \/ SignatureResponseArrives(n) \/ OverlayArrives(n)
         \/ PingArrives(n) \/ Timer(n) \/ Crash(n) \/ Server
  PROVE  aggregation' \in [Node -> AggregationState]
<1> USE DEF AggregationTypeOK, aggregateVars, clientVars
<1>1. CASE QueryRequestArrives(n)
  <2>1. Head(from_server[n]).query \in Query
    <3>1. from_server[n] \in Seq(ServerMessage) /\ from_server[n] # <<>>
      BY <1>1 DEF QueryRequestArrives, ControlTypeOK, ServerTypeOK
    <3>2. Head(from_server[n]) \in ServerMessage
      BY <3>1
    <3> QED
      BY <3>2 DEF ServerMessage
  <2>2. \/ UNCHANGED aggregation
        \/ aggregation' = [aggregation EXCEPT
             ![n] = NewAggregation(Head(from_server[n]).query)]
    BY <1>1 DEF QueryRequestArrives, StartQuery
  <2> QED
    BY <2>1, <2>2, NewAggregationType
<1>2. CASE \/ SignatureResponseArrives(n) \/ OverlayArrives(n) \/ PingArrives(n)
           \/ Timer(n) \/ Crash(n) \/ Server
  BY <1>2 DEF SignatureResponseArrives, OverlayArrives, PingArrives, Timer,
              TimerExpires, RoundTimeout, Crash, Server, ServerStartsQuery, ServerSigns
<1> QED
  BY <1>1, <1>2

AggregationInv == AggregationTypeOK /\ DrainHasMessage

LEMMA NextAggregation ==
  ControlTypeOK /\ OverlayTypeOK /\ AggregationInv /\ [Next]_vars => AggregationInv'
<1> SUFFICES ASSUME ControlTypeOK, OverlayTypeOK, AggregationInv, [Next]_vars
             PROVE  AggregationInv'
  OBVIOUS
<1> USE DEF AggregationInv, ControlTypeOK
<1>1. CASE UNCHANGED vars
  BY <1>1 DEF vars, aggregateVars, AggregationTypeOK, DrainHasMessage
<1>2. ASSUME NEW n \in Node,
             EndOverlayRound(n) \/ DrainAggregation(n) \/ AggregationArrives(n)
      PROVE  AggregationInv'
  BY <1>2, AggregationStepType, DrainStep
<1>3. ASSUME NEW n \in Node,
             \/ QueryRequestArrives(n) \/ SignatureResponseArrives(n)
             \/ OverlayArrives(n) \/ PingArrives(n) \/ Timer(n) \/ Crash(n) \/ Server
      PROVE  AggregationInv'
  BY <1>3, OtherStepAggregation, OtherStepAggregationState
  DEF AggregationTypeOK, DrainHasMessage
<1>4. \E n : n \in Node
  BY NodeAssumption, MetersAssumption
<1> QED
  BY <1>1, <1>2, <1>3, <1>4 DEF Next, Handler

LEMMA AggregationInvariant == Spec => []AggregationInv
<1>1. Init => AggregationInv
  <2> SUFFICES ASSUME Init PROVE AggregationInv
    OBVIOUS
  <2>1. -1 \in Query
    BY BoundsAssumption DEF Query
  <2>2. aggregation \in [Node -> AggregationState]
    BY <2>1, NewAggregationType DEF Init
  <2> QED
    BY <2>2 DEF Init, AggregationInv, AggregationTypeOK, DrainHasMessage
<1> QED
  BY <1>1, NextAggregation, ControlTypeCorrect, OverlayTypeCorrect, PTL DEF Spec

\* The aggregation messages and the state of the tree stay within their types:
\* in particular a sum is sent to a node of the tree or to the server.
THEOREM AggregationTypeCorrect == Spec => []AggregationTypeOK
<1>1. AggregationInv => AggregationTypeOK
  BY DEF AggregationInv
<1> QED
  BY <1>1, AggregationInvariant, PTL

-----------------------------------------------------------------------------
(* Pings *)

LEMMA PredecessorIsNode ==
  ASSUME NEW n \in Node, NEW r \in Nat \cup {-1}
  PROVE  predecessor(n, r) \in Node
BY PredecessorSends, NodeAssumption, MetersAssumption, OddAssumption DEF predecessor

LEMMA SendPingType ==
  ASSUME PingTypeOK, NEW n \in Node, NEW to \in Node, SendPing(n, to)
  PROVE  PingTypeOK'
<1>1. failed_meter_ids' \in [Node -> SUBSET Node]
  <2>1. \/ failed_meter_ids' = failed_meter_ids
        \/ failed_meter_ids' = [failed_meter_ids EXCEPT ![n] = @ \cup {to}]
    BY DEF SendPing
  <2> QED
    BY <2>1 DEF PingTypeOK
<1>2. ping_net' \subseteq PingMessage
  <2>1. [from |-> n, to |-> to, is_response |-> FALSE] \in PingMessage
    BY DEF PingMessage
  <2>2. ping_net' \subseteq ping_net \cup {[from |-> n, to |-> to, is_response |-> FALSE]}
    BY DEF SendPing
  <2> QED
    BY <2>1, <2>2 DEF PingTypeOK
<1> QED
  BY <1>1, <1>2 DEF PingTypeOK

LEMMA EndRoundPing ==
  ASSUME RoundsTypeOK, PingTypeOK, NEW n \in Node, EndOverlayRound(n)
  PROVE  PingTypeOK'
<1> DEFINE pred == predecessor(n, overlay_round[n] + 1)
<1>1. pred \in Node
  <2>1. overlay_round[n] + 1 \in Nat \cup {-1}
    BY DEF RoundsTypeOK
  <2> QED
    BY <2>1, PredecessorIsNode
<1>2. UNCHANGED <<failed_meter_ids, ping_net>> \/ SendPing(n, pred)
  <2>1. CASE FinishAgreement(n)
    BY <2>1 DEF FinishAgreement
  <2>2. CASE FinishShuffle(n) \/ FinishPhase1(n) \/ ContinueOverlay(n)
    <3>1. PICK outgoing, phase, agree : CommonEndOverlayRound(n, outgoing, phase, agree)
      BY <2>2 DEF FinishShuffle, FinishPhase1, ContinueOverlay
    <3> QED
      BY <3>1 DEF CommonEndOverlayRound
  <2> QED
    BY <2>1, <2>2 DEF EndOverlayRound
<1> HIDE DEF pred
<1> QED
  BY <1>1, <1>2, SendPingType DEF PingTypeOK

LEMMA PingArrivesPing ==
  ASSUME PingTypeOK, NEW n \in Node, PingArrives(n)
  PROVE  PingTypeOK'
<1>1. PICK m \in ping_net :
        \/ ping_net' = ping_net \ {m}
        \/ ping_net' = (ping_net \ {m}) \cup
             (IF alive[m.from]
                THEN {[from |-> n, to |-> m.from, is_response |-> TRUE]} ELSE {})
  BY DEF PingArrives
<1>2. [from |-> n, to |-> m.from, is_response |-> TRUE] \in PingMessage
  BY DEF PingTypeOK, PingMessage
<1>3. ping_net' \subseteq PingMessage
  BY <1>1, <1>2 DEF PingTypeOK
<1> QED
  BY <1>3 DEF PingArrives, PingTypeOK

LEMMA TimerPing ==
  ASSUME RoundsTypeOK, PingTypeOK, NEW n \in Node, Timer(n)
  PROVE  PingTypeOK'
<1>1. predecessor(n, overlay_round[n]) \in Node
  BY PredecessorIsNode DEF RoundsTypeOK
<1>2. \/ UNCHANGED <<failed_meter_ids, ping_net>>
      \/ SendPing(n, predecessor(n, overlay_round[n]))
  BY DEF Timer, TimerExpires, RoundTimeout, KeepWaiting, GiveUp
<1> QED
  BY <1>1, <1>2, SendPingType DEF PingTypeOK

LEMMA NextPing == ControlTypeOK /\ PingTypeOK /\ [Next]_vars => PingTypeOK'
<1> SUFFICES ASSUME ControlTypeOK, PingTypeOK, [Next]_vars PROVE PingTypeOK'
  OBVIOUS
<1> USE DEF ControlTypeOK, clientVars
<1>1. CASE UNCHANGED vars
  BY <1>1 DEF vars, PingTypeOK
<1>2. ASSUME NEW n \in Node, EndOverlayRound(n) PROVE PingTypeOK'
  BY <1>2, EndRoundPing
<1>3. ASSUME NEW n \in Node, PingArrives(n) PROVE PingTypeOK'
  BY <1>3, PingArrivesPing
<1>4. ASSUME NEW n \in Node, Timer(n) PROVE PingTypeOK'
  BY <1>4, TimerPing
<1>5. ASSUME NEW n \in Node, QueryRequestArrives(n) PROVE PingTypeOK'
  <2>1. /\ UNCHANGED ping_net
        /\ \/ UNCHANGED failed_meter_ids
           \/ failed_meter_ids' = [failed_meter_ids EXCEPT ![n] = {}]
    BY <1>5 DEF QueryRequestArrives, StartQuery
  <2> QED
    BY <2>1 DEF PingTypeOK
<1>6. ASSUME NEW n \in Node,
             \/ SignatureResponseArrives(n) \/ OverlayArrives(n)
             \/ AggregationArrives(n) \/ DrainAggregation(n) \/ Crash(n)
      PROVE  PingTypeOK'
  <2>1. UNCHANGED <<failed_meter_ids, ping_net>>
    BY <1>6 DEF SignatureResponseArrives, OverlayArrives, AggregationArrives,
                DrainAggregation, Crash
  <2> QED
    BY <2>1 DEF PingTypeOK
<1>7. CASE Server
  BY <1>7 DEF Server, ServerStartsQuery, ServerSigns, PingTypeOK
<1> QED
  BY <1>1, <1>2, <1>3, <1>4, <1>5, <1>6, <1>7 DEF Next, Handler

\* The clients' whole state stays within its types; in particular a node pings,
\* and gives up, only nodes that exist.
THEOREM TypeCorrect == Spec => []TypeOK
<1>1. Init => PingTypeOK
  BY DEF Init, PingTypeOK
<1>2. ControlTypeOK /\ PingTypeOK /\ [Next]_vars => PingTypeOK'
  BY NextPing
<1>3. ControlTypeOK /\ OverlayTypeOK /\ AggregationTypeOK /\ PingTypeOK => TypeOK
  BY DEF TypeOK, ControlTypeOK
<1> QED
  BY <1>1, <1>2, <1>3, ControlTypeCorrect, OverlayTypeCorrect,
     AggregationTypeCorrect, PTL DEF Spec

-----------------------------------------------------------------------------
(* Genuine contributions *)

\* The server's queries reach a node in order, and are later than its own.
QueueRises(n) ==
  /\ query_num[n] <= server_query
  /\ \A i \in DOMAIN from_server[n] : from_server[n][i].type = "query" =>
       /\ query_num[n] < from_server[n][i].query
       /\ from_server[n][i].query <= server_query
       /\ \A j \in 1 .. i - 1 : from_server[n][j].type = "query" =>
            from_server[n][j].query < from_server[n][i].query

\* The node at the end of a body's way.
leads_to(b) == IF b.rest = <<>> THEN b.dest ELSE b.rest[Len(b.rest)]

GenuineBody(b) ==
  /\ genuine(b.value, leads_to(b), b.query)
  /\ \A p \in b.signatures : endorses(p, b.value, b.query)

GenuineMessage(m) ==
  \A b \in m.bodies :
    GenuineBody(b) /\ b.query = m.query /\ b.dest = target(m.from, m.round)

GenuineSum(sum) ==
  \A c \in sum.contents : genuine(c.value, c.proxy, c.query) /\ endorsed(c.value, c.query)

\* The same of all the bodies there are, of what a proxy has of them, and of all sums.
GenuineBodies(waiting, outgoing, future, net) ==
  /\ \A n \in Node : \A b \in waiting[n] \cup outgoing[n] : GenuineBody(b)
  /\ \A n \in Node : \A m \in future[n] : GenuineMessage(m) /\ target(m.from, m.round) = n
  /\ \A m \in net : GenuineMessage(m)

GenuineAgreement(n, q, agree) ==
  \A v \in Node : \A p \in agree.signed_proxy_values[v] :
    genuine(v, n, q) /\ endorses(p, v, q)

GenuineValues(n, q, values, agree, acc) ==
  /\ \A v \in values : genuine(v, n, q)
  /\ GenuineAgreement(n, q, agree)
  /\ acc \subseteq accepted_values(agree)

GenuineSums(agg, future, net, results) ==
  /\ \A n \in Node : GenuineSum(agg[n])
  /\ \A n \in Node : \A i \in DOMAIN future[n] : GenuineSum(future[n][i])
  /\ \A m \in net \cup results : GenuineSum(m)

BodiesInv == GenuineBodies(waiting_messages, outgoing_messages, future_overlay, overlay_net)

ValuesInv ==
  \A n \in Node :
    GenuineValues(n, query_num[n], proxy_values[n], agreement[n], accepted[n])

SumInv ==
  /\ GenuineSums(aggregation, future_aggregation, aggregation_net, server_results)
  /\ \A n \in Node : aggregation[n].query = query_num[n]

QueuesInv == \A n \in Node : QueueRises(n)

GenuineInv == QueuesInv /\ BodiesInv /\ ValuesInv /\ SumInv

-----------------------------------------------------------------------------
\* What a node tells of a query it goes on telling until it takes part in a later one.
Onward(n) ==
  \/ query_num'[n] > query_num[n]
  \/ /\ query_num'[n] = query_num[n]
     /\ protocol_phase'[n] = "SETUP" => protocol_phase[n] = "SETUP"
     /\ proxy_values[n] \subseteq proxy_values'[n]

Grows ==
  \A v \in Node, q \in Query :
    /\ has_contributed(v, q) => has_contributed(v, q)'
    /\ \A p \in Node : endorses(p, v, q) => endorses(p, v, q)'

LEMMA OnwardGrows ==
  ASSUME RoundsTypeOK, RoundsTypeOK', \A n \in Node : Onward(n)
  PROVE  Grows
<1> SUFFICES ASSUME NEW v \in Node, NEW q \in Query
             PROVE  /\ has_contributed(v, q) => has_contributed(v, q)'
                    /\ \A p \in Node : endorses(p, v, q) => endorses(p, v, q)'
  BY DEF Grows
<1>1. \A n \in Node : query_num[n] \in Int /\ query_num'[n] \in Int /\ q \in Int
  BY BoundsAssumption DEF RoundsTypeOK, Query
<1>2. has_contributed(v, q) => has_contributed(v, q)'
  BY <1>1 DEF has_contributed, Onward
<1>3. ASSUME NEW p \in Node, endorses(p, v, q) PROVE endorses(p, v, q)'
  <2>1. query_num[p] > q \/ (query_num[p] = q /\ v \in proxy_values[p])
    BY <1>3 DEF endorses
  <2>2. query_num'[p] > q \/ (query_num'[p] = q /\ v \in proxy_values'[p])
    BY <1>1, <2>1 DEF Onward
  <2> QED
    BY <1>3, <2>2 DEF endorses
<1> QED
  BY <1>2, <1>3

LEMMA EndorsedGrows ==
  ASSUME Grows, NEW v \in Node, NEW q \in Query, endorsed(v, q)
  PROVE  endorsed(v, q)'
<1> DEFINE S == {p \in Node : endorses(p, v, q)}
           T == {p \in Node : endorses(p, v, q)'}
<1>1. S \subseteq T
  BY DEF Grows
<1>2. T \in SUBSET Node
  OBVIOUS
<1>3. Cardinality(S) >= Log2N + 1 /\ S \in SUBSET Node
  BY DEF endorsed
<1> SUFFICES Cardinality(T) >= Log2N + 1
  BY DEF endorsed
<1> HIDE DEF S, T
<1>4. IsFiniteSet(T) /\ Cardinality(T) \in Nat /\ Cardinality(S) \in Nat
  BY <1>2, <1>3, NodesAreFinite
<1>5. Cardinality(S) <= Cardinality(T)
  BY <1>1, <1>4, FS_Subset
<1> QED
  BY <1>3, <1>4, <1>5, Log2NAssumption

LEMMA BodyStaysGenuine ==
  ASSUME Grows, NEW b \in Body, GenuineBody(b)
  PROVE  GenuineBody(b)'
<1>1. b.value \in Node /\ b.query \in Query /\ b.signatures \in SUBSET Node
  BY DEF Body
<1>2. genuine(b.value, leads_to(b), b.query)'
  BY <1>1 DEF GenuineBody, genuine, Grows
<1>3. \A p \in b.signatures : endorses(p, b.value, b.query)'
  BY <1>1 DEF GenuineBody, Grows
<1> QED
  BY <1>2, <1>3 DEF GenuineBody, leads_to

LEMMA MessageStaysGenuine ==
  ASSUME Grows, NEW m \in OverlayMessage, GenuineMessage(m)
  PROVE  GenuineMessage(m)'
<1>1. \A b \in m.bodies : b \in Body
  BY DEF OverlayMessage
<1> QED
  BY <1>1, BodyStaysGenuine DEF GenuineMessage, target

LEMMA SumStaysGenuine ==
  ASSUME Grows, NEW sum, sum.contents \in SUBSET ContributionId, GenuineSum(sum)
  PROVE  GenuineSum(sum)'
<1> SUFFICES ASSUME NEW c \in sum.contents
             PROVE  (genuine(c.value, c.proxy, c.query) /\ endorsed(c.value, c.query))'
  BY DEF GenuineSum
<1>1. c.value \in Node /\ c.query \in Query
  BY DEF ContributionId
<1>2. genuine(c.value, c.proxy, c.query) /\ endorsed(c.value, c.query)
  BY DEF GenuineSum
<1>3. endorsed(c.value, c.query)'
  BY <1>1, <1>2, EndorsedGrows
<1> QED
  BY <1>1, <1>2, <1>3 DEF genuine, Grows

-----------------------------------------------------------------------------
LEMMA EndOfWay ==
  ASSUME NEW way \in Seq(Node) \ {<<>>}
  PROVE  /\ Head(way) \in Node /\ Tail(way) \in Seq(Node)
         /\ (IF Tail(way) = <<>> THEN Head(way) ELSE Tail(way)[Len(Tail(way))])
              = way[Len(way)]
<1> DEFINE rest == Tail(way)
           len  == Len(way)
<1>1. len \in Nat /\ len # 0 /\ Head(way) = way[1] /\ Head(way) \in Node
  OBVIOUS
<1>2. /\ rest \in Seq(Node) /\ Len(rest) = len - 1
      /\ \A i \in 1 .. len - 1 : rest[i] = way[i + 1]
  OBVIOUS
<1>3. rest = <<>> <=> Len(rest) = 0
  <2>1. ASSUME NEW s \in Seq(Node) PROVE s = <<>> <=> Len(s) = 0
    OBVIOUS
  <2> QED
    BY <1>2, <2>1
<1>4. (IF rest = <<>> THEN Head(way) ELSE rest[Len(rest)]) = way[len]
  <2> HIDE DEF rest, len
  <2>1. CASE len = 1
    BY <1>1, <1>2, <1>3, <2>1
  <2>2. CASE len # 1
    <3>1. len - 1 \in 1 .. len - 1 /\ (len - 1) + 1 = len /\ Len(rest) # 0
      BY <1>1, <1>2, <2>2
    <3>2. rest[len - 1] = way[len]
      BY <1>2, <3>1
    <3> QED
      BY <1>2, <1>3, <3>1, <3>2
  <2> QED
    BY <2>1, <2>2
<1> QED
  BY <1>1, <1>2, <1>4

\* What a node sends to the proxies of a value leads to them.
LEMMA MulticastLeads ==
  ASSUME NEW n \in Node, NEW kind \in Kind, NEW v \in Node, NEW signatures
  PROVE  \A b \in multicast(n, kind, v, signatures) :
           /\ b.value = v /\ b.query = query_num[n] /\ b.signatures = signatures
           /\ leads_to(b) \in ProxiesOf[v]
<1> SUFFICES ASSUME NEW p \in ProxiesOf[v] \ {n}, NEW b,
                    b = [kind |-> kind, query |-> query_num[n], value |-> v,
                         signer |-> n, signatures |-> signatures,
                         dest |-> Head(Route[kind][v][n][p]),
                         rest |-> Tail(Route[kind][v][n][p])]
             PROVE  /\ b.value = v /\ b.query = query_num[n]
                    /\ b.signatures = signatures /\ leads_to(b) \in ProxiesOf[v]
  BY DEF multicast
<1> DEFINE way == Route[kind][v][n][p]
<1>1. p \in Node
  BY ProxiesAssumption
<1>2. way \in Seq(Node) \ {<<>>}
  BY <1>1, RouteAssumption
<1>3. way[Len(way)] = p
  BY RoutesAssumption
<1>4. /\ b.query = query_num[n] /\ b.value = v /\ b.signatures = signatures
      /\ b.dest = Head(way) /\ b.rest = Tail(way)
  OBVIOUS
<1> HIDE DEF way
<1>5. leads_to(b) = p
  BY <1>2, <1>3, <1>4, EndOfWay DEF leads_to
<1> QED
  BY <1>4, <1>5

LEMMA MulticastGenuine ==
  ASSUME NEW n \in Node, NEW kind \in Kind, NEW v \in Node, NEW signatures \in SUBSET Node,
         has_contributed(v, query_num[n]),
         \A p \in signatures : endorses(p, v, query_num[n])
  PROVE  \A b \in multicast(n, kind, v, signatures) : GenuineBody(b)
<1> SUFFICES ASSUME NEW b \in multicast(n, kind, v, signatures) PROVE GenuineBody(b)
  OBVIOUS
<1>1. /\ b.value = v /\ b.query = query_num[n] /\ b.signatures = signatures
      /\ leads_to(b) \in ProxiesOf[v]
  BY MulticastLeads
<1> QED
  BY <1>1 DEF GenuineBody, genuine

LEMMA ForwardedGenuine ==
  ASSUME NEW bodies \in SUBSET Body, \A b \in bodies : GenuineBody(b)
  PROVE  \A b \in forwarded(bodies) : GenuineBody(b)
<1> SUFFICES ASSUME NEW b \in bodies, b.rest # <<>>
             PROVE  GenuineBody([b EXCEPT !.dest = Head(b.rest), !.rest = Tail(b.rest)])
  BY DEF forwarded
<1> DEFINE c == [b EXCEPT !.dest = Head(b.rest), !.rest = Tail(b.rest)]
<1>1. b \in Body /\ b.rest \in Seq(Node) \ {<<>>}
  BY DEF Body
<1>2. /\ c.query = b.query /\ c.value = b.value /\ c.signatures = b.signatures
      /\ c.dest = Head(b.rest) /\ c.rest = Tail(b.rest)
  BY <1>1 DEF Body
<1> HIDE DEF c
<1>3. leads_to(c) = b.rest[Len(b.rest)]
  BY <1>1, <1>2, EndOfWay DEF leads_to
<1>4. leads_to(b) = leads_to(c)
  BY <1>3 DEF leads_to
<1>5. GenuineBody(c)
  BY <1>2, <1>4 DEF GenuineBody
<1> QED
  BY <1>5 DEF c

LEMMA BatchGenuine ==
  ASSUME NEW n \in Node, NEW r \in Nat, NEW bodies,
         \A b \in bodies : GenuineBody(b) /\ b.dest = target(n, r)
  PROVE  \A m \in batch(n, r, bodies) : GenuineMessage(m)
<1>1. CASE bodies = {}
  BY <1>1 DEF batch, GenuineMessage
<1>2. CASE bodies # {}
  <2> SUFFICES ASSUME NEW q \in {b.query : b \in bodies}
               PROVE  GenuineMessage([from |-> n, round |-> r, query |-> q,
                                      final |-> \A b \in bodies : b.query <= q,
                                      bodies |-> {b \in bodies : b.query = q}])
    BY <1>2 DEF batch
  <2> QED
    BY DEF GenuineMessage
<1> QED
  BY <1>1, <1>2

\* Bodies that are handled lead here, if they lead nowhere else.
LEMMA ContributionsGenuine ==
  ASSUME NEW n \in Node, NEW q, NEW bodies \in SUBSET Body,
         \A b \in bodies : GenuineBody(b) /\ b.query = q /\ b.dest = n
  PROVE  \A v \in contributions(bodies) : genuine(v, n, q)
BY DEF contributions, delivered, GenuineBody, leads_to

LEMMA AgreementGrowsGenuine ==
  ASSUME NEW n \in Node, NEW q, NEW agree \in AgreementState, GenuineAgreement(n, q, agree),
         NEW bodies \in SUBSET Body,
         \A b \in bodies : GenuineBody(b) /\ b.query = q /\ b.dest = n
  PROVE  LET new == handle_agreement_messages(agree, delivered(bodies))
         IN /\ GenuineAgreement(n, q, new)
            /\ accepted_values(agree) \subseteq accepted_values(new)
<1> DEFINE ms(v)  == {m \in delivered(bodies) : m.value = v}
           add(v) == UNION {signatures_added(m) : m \in ms(v)}
           new    == handle_agreement_messages(agree, delivered(bodies))
<1>1. \A v \in Node : new.signed_proxy_values[v] = agree.signed_proxy_values[v] \cup add(v)
  BY DEF handle_agreement_messages, AgreementState
<1>2. \A m : signatures_added(m) \subseteq m.signatures
  BY DEF signatures_added
<1>3. ASSUME NEW v \in Node, NEW p \in add(v) PROVE genuine(v, n, q) /\ endorses(p, v, q)
  <2>1. PICK m \in ms(v) : p \in signatures_added(m)
    OBVIOUS
  <2>2. m \in bodies /\ m.rest = <<>> /\ m.value = v /\ p \in m.signatures
    BY <1>2, <2>1 DEF delivered
  <2> QED
    BY <2>2 DEF GenuineBody, leads_to
<1>4. new \in AgreementState
  BY AgreementMessagesType DEF delivered
<1> HIDE DEF new, add
<1>5. GenuineAgreement(n, q, new)
  BY <1>1, <1>3 DEF GenuineAgreement
<1>6. ASSUME NEW v \in Node, Cardinality(agree.signed_proxy_values[v]) >= Log2N + 1
      PROVE  Cardinality(new.signed_proxy_values[v]) >= Log2N + 1
  <2> DEFINE S == agree.signed_proxy_values[v]
             T == new.signed_proxy_values[v]
  <2>1. S \in SUBSET Node /\ T \in SUBSET Node /\ S \subseteq T
    BY <1>1, <1>4 DEF AgreementState
  <2>2. Cardinality(S) >= Log2N + 1
    BY <1>6
  <2> HIDE DEF S, T
  <2>3. /\ IsFiniteSet(T) /\ Cardinality(T) \in Nat /\ Cardinality(S) \in Nat
    BY <2>1, NodesAreFinite
  <2>4. Cardinality(S) <= Cardinality(T)
    BY <2>1, <2>3, FS_Subset
  <2>5. Cardinality(T) >= Log2N + 1
    BY <2>2, <2>3, <2>4, Log2NAssumption
  <2> QED
    BY <2>5 DEF T
<1>7. accepted_values(agree) \subseteq accepted_values(new)
  BY <1>6 DEF accepted_values
<1> QED
  BY <1>5, <1>7 DEF new

\* What a proxy accepts is genuine, and enough proxies endorse it.
LEMMA AcceptedIsGenuine ==
  ASSUME NEW n \in Node, NEW q, NEW agree \in AgreementState, GenuineAgreement(n, q, agree),
         NEW v \in accepted_values(agree)
  PROVE  v \in Node /\ genuine(v, n, q) /\ endorsed(v, q)
<1> DEFINE S == agree.signed_proxy_values[v]
           T == {p \in Node : endorses(p, v, q)}
<1>1. v \in Node /\ Cardinality(S) >= Log2N + 1
  BY DEF accepted_values
<1>2. S \in SUBSET Node
  BY <1>1 DEF AgreementState
<1>3. \A p \in S : genuine(v, n, q) /\ endorses(p, v, q)
  BY <1>1 DEF GenuineAgreement
<1>4. T \in SUBSET Node /\ S \subseteq T
  BY <1>2, <1>3
<1> SUFFICES genuine(v, n, q) /\ Cardinality(T) >= Log2N + 1
  BY <1>1 DEF endorsed
<1> HIDE DEF S, T
<1>5. /\ IsFiniteSet(T) /\ Cardinality(T) \in Nat /\ Cardinality(S) \in Nat
  BY <1>2, <1>4, NodesAreFinite
<1>6. Cardinality(S) <= Cardinality(T)
  BY <1>4, <1>5, FS_Subset
<1>7. S # {}
  BY <1>1, FS_EmptySet, Log2NAssumption
<1> QED
  BY <1>1, <1>3, <1>5, <1>6, <1>7, Log2NAssumption

-----------------------------------------------------------------------------
\* What a node handles is of its query and has come to its next hop.
Handled(n, bodies) ==
  \A b \in bodies : GenuineBody(b) /\ b.query = query_num[n] /\ b.dest = n

AllGenuine(bodies) == \A b \in bodies : GenuineBody(b)

\* handle_overlay_message keeps what a proxy has genuine, and what it passes on.
LEMMA HandleBodiesGenuine ==
  ASSUME OverlayTypeOK, NEW n \in Node, NEW bodies \in SUBSET Body, NEW phase,
         NEW waiting \in SUBSET Body, NEW agree \in AgreementState,
         AllGenuine(waiting), Handled(n, bodies), ValuesInv,
         GenuineValues(n, query_num[n], proxy_values[n], agree, accepted[n]),
         HandleBodies(n, bodies, phase, waiting, agree)
  PROVE  /\ AllGenuine(waiting_messages'[n])
         /\ \A k \in Node \ {n} : waiting_messages'[k] = waiting_messages[k]
         /\ \A k \in Node :
              /\ GenuineValues(k, query_num[k], proxy_values'[k], agreement'[k], accepted[k])
              /\ proxy_values[k] \subseteq proxy_values'[k]
<1> DEFINE new == handle_agreement_messages(agree, delivered(bodies))
<1>1. /\ waiting_messages'[n] = waiting \cup forwarded(bodies)
      /\ proxy_values'[n] \in {proxy_values[n], proxy_values[n] \cup contributions(bodies)}
      /\ agreement'[n] \in {agree, new}
      /\ \A k \in Node \ {n} : /\ waiting_messages'[k] = waiting_messages[k]
                               /\ proxy_values'[k] = proxy_values[k]
                               /\ agreement'[k] = agreement[k]
  BY DEF HandleBodies, OverlayTypeOK
<1>2. AllGenuine(waiting_messages'[n])
  <2>1. \A b \in forwarded(bodies) : GenuineBody(b)
    BY ForwardedGenuine DEF Handled
  <2> QED
    BY <1>1, <2>1 DEF AllGenuine
<1>3. \A v \in contributions(bodies) : genuine(v, n, query_num[n])
  BY ContributionsGenuine DEF Handled
<1>4. /\ GenuineAgreement(n, query_num[n], new)
      /\ accepted_values(agree) \subseteq accepted_values(new)
  BY AgreementGrowsGenuine DEF Handled, GenuineValues
<1> HIDE DEF new
<1>5. GenuineValues(n, query_num[n], proxy_values'[n], agreement'[n], accepted[n])
  BY <1>1, <1>3, <1>4 DEF GenuineValues
<1>6. ASSUME NEW k \in Node
      PROVE  /\ GenuineValues(k, query_num[k], proxy_values'[k], agreement'[k], accepted[k])
             /\ proxy_values[k] \subseteq proxy_values'[k]
  <2>1. CASE k = n
    BY <1>1, <1>5, <2>1
  <2>2. CASE k # n
    BY <1>1, <2>2 DEF ValuesInv
  <2> QED
    BY <2>1, <2>2
<1> QED
  BY <1>1, <1>2, <1>6

-----------------------------------------------------------------------------
\* What a step leaves genuine, going by the state before it.
BodiesStep ==
  GenuineBodies(waiting_messages', outgoing_messages', future_overlay', overlay_net')

ValuesStep ==
  \A n \in Node :
    GenuineValues(n, query_num'[n], proxy_values'[n], agreement'[n], accepted'[n])

SumStep ==
  /\ GenuineSums(aggregation', future_aggregation', aggregation_net', server_results')
  /\ \A n \in Node : aggregation'[n].query = query_num'[n]

LEMMA CommonEndGenuine ==
  ASSUME ControlTypeOK, OverlayTypeOK, BodiesInv, ValuesInv, NEW n \in Node,
         NEW outgoing \in SUBSET Body, NEW phase, NEW agree \in AgreementState,
         AllGenuine(outgoing),
         GenuineValues(n, query_num[n], proxy_values[n], agree, accepted[n]),
         CommonEndOverlayRound(n, outgoing, phase, agree), UNCHANGED accepted
  PROVE  /\ BodiesStep /\ ValuesStep
         /\ \A k \in Node : proxy_values[k] \subseteq proxy_values'[k]
<1>1. query_num' = query_num /\ accepted' = accepted
  BY DEF CommonEndOverlayRound
<1>2. CASE is_last_round[n]
  <2>1. /\ outgoing_messages' = [outgoing_messages EXCEPT ![n] = outgoing]
        /\ agreement' = [agreement EXCEPT ![n] = agree]
        /\ UNCHANGED <<waiting_messages, future_overlay, proxy_values, overlay_net>>
    BY <1>2 DEF CommonEndOverlayRound
  <2>2. BodiesStep
    BY <2>1 DEF BodiesStep, BodiesInv, GenuineBodies, AllGenuine, OverlayTypeOK
  <2>3. ValuesStep
    BY <1>1, <2>1 DEF ValuesStep, ValuesInv, OverlayTypeOK
  <2> QED
    BY <2>1, <2>2, <2>3
<1>3. CASE ~is_last_round[n]
  <2> DEFINE r       == overlay_round[n] + 1
             pending == waiting_messages[n] \cup outgoing
             ready   == {b \in pending : b.dest = target(n, r)}
             bodies  == UNION {m.bodies : m \in due(n, r)}
             kept    == pending \ ready
  <2>1. /\ overlay_net' = overlay_net \cup batch(n, r, ready)
        /\ outgoing_messages' = [outgoing_messages EXCEPT ![n] = {}]
        /\ future_overlay' = [future_overlay EXCEPT ![n] = @ \ due(n, r)]
        /\ HandleBodies(n, bodies, phase, kept, agree)
    BY <1>3 DEF CommonEndOverlayRound
  <2>2. r \in Nat
    BY DEF ControlTypeOK, RoundsTypeOK
  <2>3. kept \in SUBSET Body /\ AllGenuine(kept)
    BY DEF AllGenuine, BodiesInv, GenuineBodies, OverlayTypeOK
  <2>4. bodies \in SUBSET Body
    BY DEF due, OverlayMessage, OverlayTypeOK
  <2>5. Handled(n, bodies)
    <3> SUFFICES ASSUME NEW m \in due(n, r), NEW b \in m.bodies
                 PROVE  GenuineBody(b) /\ b.query = query_num[n] /\ b.dest = n
      BY DEF Handled
    <3>1. m \in future_overlay[n] /\ m.query = query_num[n]
      BY DEF due
    <3>2. GenuineMessage(m) /\ target(m.from, m.round) = n
      BY <3>1 DEF BodiesInv, GenuineBodies
    <3> QED
      BY <3>1, <3>2 DEF GenuineMessage
  <2>6. \A m \in batch(n, r, ready) : GenuineMessage(m)
    <3>1. \A b \in ready : GenuineBody(b) /\ b.dest = target(n, r)
      BY DEF AllGenuine, BodiesInv, GenuineBodies
    <3> HIDE DEF r, ready
    <3> QED
      BY <2>2, <3>1, BatchGenuine
  <2> HIDE DEF r, ready, bodies, kept
  <2>7. /\ AllGenuine(waiting_messages'[n])
        /\ \A k \in Node \ {n} : waiting_messages'[k] = waiting_messages[k]
        /\ \A k \in Node :
             /\ GenuineValues(k, query_num[k], proxy_values'[k], agreement'[k], accepted[k])
             /\ proxy_values[k] \subseteq proxy_values'[k]
    BY <2>1, <2>3, <2>4, <2>5, HandleBodiesGenuine
  <2>8. BodiesStep
    <3>1. \A k \in Node : \A b \in waiting_messages'[k] : GenuineBody(b)
      BY <2>7 DEF AllGenuine, BodiesInv, GenuineBodies
    <3>2. \A k \in Node : \A b \in outgoing_messages'[k] : GenuineBody(b)
      BY <2>1 DEF BodiesInv, GenuineBodies, OverlayTypeOK
    <3>3. \A k \in Node : future_overlay'[k] \subseteq future_overlay[k]
      BY <2>1 DEF OverlayTypeOK
    <3>4. \A k \in Node : \A m \in future_overlay'[k] :
            GenuineMessage(m) /\ target(m.from, m.round) = k
      BY <3>3 DEF BodiesInv, GenuineBodies
    <3>5. \A m \in overlay_net' : GenuineMessage(m)
      BY <2>1, <2>6 DEF BodiesInv, GenuineBodies
    <3> QED
      BY <3>1, <3>2, <3>4, <3>5 DEF BodiesStep, GenuineBodies
  <2> QED
    BY <1>1, <2>7, <2>8 DEF ValuesStep
<1> QED
  BY <1>2, <1>3

\* Lifting: what holds of the state before a step holds of the state after it.
LEMMA BodiesLift ==
  ASSUME Grows, OverlayTypeOK', BodiesStep PROVE BodiesInv'
<1>1. ASSUME NEW n \in Node, NEW b \in waiting_messages'[n] \cup outgoing_messages'[n]
      PROVE  GenuineBody(b)'
  <2>1. b \in Body
    BY DEF OverlayTypeOK
  <2>2. GenuineBody(b)
    BY DEF BodiesStep, GenuineBodies
  <2> QED
    BY <2>1, <2>2, BodyStaysGenuine
<1>2. ASSUME NEW n \in Node, NEW m \in future_overlay'[n]
      PROVE  GenuineMessage(m)' /\ target(m.from, m.round) = n
  <2>1. m \in OverlayMessage
    BY DEF OverlayTypeOK
  <2>2. GenuineMessage(m) /\ target(m.from, m.round) = n
    BY DEF BodiesStep, GenuineBodies
  <2> QED
    BY <2>1, <2>2, MessageStaysGenuine
<1>3. ASSUME NEW m \in overlay_net' PROVE GenuineMessage(m)'
  <2>1. m \in OverlayMessage
    BY DEF OverlayTypeOK
  <2>2. GenuineMessage(m)
    BY DEF BodiesStep, GenuineBodies
  <2> QED
    BY <2>1, <2>2, MessageStaysGenuine
<1> QED
  BY <1>1, <1>2, <1>3 DEF BodiesInv, GenuineBodies, target

LEMMA ValuesLift ==
  ASSUME Grows, RoundsTypeOK', OverlayTypeOK', ValuesStep PROVE ValuesInv'
<1> SUFFICES ASSUME NEW n \in Node
             PROVE  GenuineValues(n, query_num[n], proxy_values[n], agreement[n],
                                  accepted[n])'
  BY DEF ValuesInv
<1>1. PICK q \in Query : q = query_num'[n]
  BY DEF RoundsTypeOK
<1>2. GenuineValues(n, q, proxy_values'[n], agreement'[n], accepted'[n])
  BY <1>1 DEF ValuesStep
<1>3. proxy_values'[n] \in SUBSET Node /\ agreement'[n] \in AgreementState
  BY DEF OverlayTypeOK
<1>4. \A v \in proxy_values'[n] : genuine(v, n, q)'
  BY <1>2, <1>3 DEF GenuineValues, genuine, Grows
<1>5. ASSUME NEW v \in Node, NEW p \in agreement'[n].signed_proxy_values[v]
      PROVE  genuine(v, n, q)' /\ endorses(p, v, q)'
  <2>1. genuine(v, n, q) /\ endorses(p, v, q)
    BY <1>2 DEF GenuineValues, GenuineAgreement
  <2>2. p \in Node
    BY <1>3 DEF AgreementState
  <2> QED
    BY <2>1, <2>2 DEF genuine, Grows
<1>6. /\ \A v \in proxy_values'[n] : genuine(v, n, query_num[n])'
      /\ GenuineAgreement(n, query_num[n], agreement[n])'
  BY <1>1, <1>4, <1>5 DEF GenuineAgreement, genuine, has_contributed, endorses
<1>7. accepted'[n] \subseteq accepted_values(agreement'[n])
  BY <1>2 DEF GenuineValues
<1> QED
  BY <1>6, <1>7 DEF GenuineValues, accepted_values

LEMMA SumsLift ==
  ASSUME Grows, AggregationTypeOK', SumStep PROVE SumInv'
<1>1. ASSUME NEW sum, sum.contents \in SUBSET ContributionId, GenuineSum(sum)
      PROVE  \A c \in sum.contents : (genuine(c.value, c.proxy, c.query)
                                       /\ endorsed(c.value, c.query))'
  BY <1>1, SumStaysGenuine DEF GenuineSum
<1>2. ASSUME NEW n \in Node PROVE GenuineSum(aggregation[n])'
  <2>1. PICK sum : sum = aggregation'[n]
    OBVIOUS
  <2>2. sum.contents \in SUBSET ContributionId
    BY <2>1 DEF AggregationTypeOK, AggregationState
  <2>3. GenuineSum(sum)
    BY <2>1 DEF SumStep, GenuineSums
  <2> QED
    BY <1>1, <2>1, <2>2, <2>3 DEF GenuineSum
<1>3. ASSUME NEW n \in Node, NEW i \in DOMAIN future_aggregation'[n]
      PROVE  GenuineSum(future_aggregation[n][i])'
  <2>1. PICK sum : sum = future_aggregation'[n][i]
    OBVIOUS
  <2>2. future_aggregation'[n] \in Seq(AggregationMessage)
    BY DEF AggregationTypeOK
  <2>3. sum \in AggregationMessage
    BY <2>1, <2>2
  <2>4. sum.contents \in SUBSET ContributionId
    BY <2>3 DEF AggregationMessage
  <2>5. GenuineSum(sum)
    BY <2>1 DEF SumStep, GenuineSums
  <2> QED
    BY <1>1, <2>1, <2>4, <2>5 DEF GenuineSum
<1>4. ASSUME NEW m \in aggregation_net' \cup server_results' PROVE GenuineSum(m)'
  <2>1. m.contents \in SUBSET ContributionId
    BY DEF AggregationTypeOK, AggregationMessage
  <2>2. GenuineSum(m)
    BY DEF SumStep, GenuineSums
  <2> QED
    BY <2>1, <2>2, SumStaysGenuine
<1> QED
  BY <1>2, <1>3, <1>4 DEF SumStep, SumInv, GenuineSums

-----------------------------------------------------------------------------
\* What a step that leaves these variables alone leaves genuine.
LEMMA UnchangedGenuine ==
  /\ BodiesInv /\ UNCHANGED <<waiting_messages, outgoing_messages, future_overlay,
                              overlay_net>> => BodiesStep
  /\ ValuesInv /\ UNCHANGED <<query_num, proxy_values, agreement, accepted>> => ValuesStep
  /\ SumInv /\ UNCHANGED <<aggregation, future_aggregation, aggregation_net,
                           server_results, query_num>> => SumStep
  /\ QueuesInv /\ UNCHANGED <<query_num, server_query, from_server>> => QueuesInv'
BY DEF BodiesInv, BodiesStep, ValuesInv, ValuesStep, SumInv, SumStep, QueuesInv, QueueRises

\* compute_and_send_aggregate adds what the node has accepted.
LEMMA AddAcceptedGenuine ==
  ASSUME NEW n \in Node, NEW agg \in AggregationState, GenuineSum(agg),
         NEW values \in SUBSET Node,
         \A v \in values : genuine(v, n, agg.query) /\ endorsed(v, agg.query)
  PROVE  LET sum == add_accepted(agg, n, values)
         IN /\ GenuineSum(sum) /\ sum.query = agg.query
            /\ GenuineSum(aggregate_message(sum, n))
<1> DEFINE sum == add_accepted(agg, n, values)
           own == {[query |-> agg.query, value |-> v, proxy |-> n] : v \in values}
<1>1. sum.contents = agg.contents \cup own /\ sum.query = agg.query
  BY DEF add_accepted, AggregationState
<1>2. \A c \in own : genuine(c.value, c.proxy, c.query) /\ endorsed(c.value, c.query)
  OBVIOUS
<1> HIDE DEF own, sum
<1>3. GenuineSum(sum)
  BY <1>1, <1>2 DEF GenuineSum
<1>4. aggregate_message(sum, n).contents = sum.contents
  BY DEF aggregate_message
<1> QED
  BY <1>1, <1>3, <1>4 DEF GenuineSum, sum

LEMMA SendAggregateGenuine ==
  ASSUME RoundsTypeOK, AggregationTypeOK, SumInv, NEW n \in Node,
         NEW agg \in AggregationState, GenuineSum(agg), agg.query = query_num[n],
         NEW values \in SUBSET Node,
         \A v \in values : genuine(v, n, query_num[n]) /\ endorsed(v, query_num[n]),
         NEW in_flight, \A m \in in_flight : GenuineSum(m),
         SendAggregateIfDone(n, agg, values, in_flight)
  PROVE  /\ \A k \in Node : /\ GenuineSum(aggregation'[k])
                            /\ aggregation'[k].query = query_num[k]
         /\ \A m \in aggregation_net' \cup server_results' : GenuineSum(m)
         /\ \A k \in Node : protocol_phase'[k] = "SETUP" => protocol_phase[k] = "SETUP"
<1> DEFINE sum     == add_accepted(agg, n, values)
           message == aggregate_message(sum, n)
<1>1. GenuineSum(sum) /\ sum.query = agg.query /\ GenuineSum(message)
  BY AddAcceptedGenuine
<1>2. /\ \E new \in {sum, agg} : aggregation' = [aggregation EXCEPT ![n] = new]
      /\ aggregation_net' \in {in_flight, in_flight \cup {message}}
      /\ server_results' \in {server_results, server_results \cup {message}}
      /\ \E phase \in {"IDLE", "AGGREGATE"} :
           protocol_phase' = [protocol_phase EXCEPT ![n] = phase]
  BY DEF SendAggregateIfDone
<1> HIDE DEF sum, message
<1>3. \A k \in Node : GenuineSum(aggregation'[k]) /\ aggregation'[k].query = query_num[k]
  BY <1>1, <1>2 DEF SumInv, GenuineSums, AggregationTypeOK
<1>4. \A m \in aggregation_net' \cup server_results' : GenuineSum(m)
  BY <1>1, <1>2 DEF SumInv, GenuineSums
<1>5. \A k \in Node : protocol_phase'[k] = "SETUP" => protocol_phase[k] = "SETUP"
  BY <1>2 DEF RoundsTypeOK
<1> QED
  BY <1>3, <1>4, <1>5

\* What a node has accepted.
LEMMA AcceptedValuesGenuine ==
  ASSUME OverlayTypeOK, ValuesInv, NEW n \in Node
  PROVE  /\ \A v \in accepted_values(agreement[n]) :
              v \in Node /\ genuine(v, n, query_num[n]) /\ endorsed(v, query_num[n])
         /\ accepted[n] \subseteq accepted_values(agreement[n])
<1>1. /\ agreement[n] \in AgreementState
      /\ GenuineAgreement(n, query_num[n], agreement[n])
      /\ accepted[n] \subseteq accepted_values(agreement[n])
  BY DEF OverlayTypeOK, ValuesInv, GenuineValues
<1> QED
  BY <1>1, AcceptedIsGenuine

-----------------------------------------------------------------------------
(* The steps *)

GenuineStep == BodiesStep /\ ValuesStep /\ SumStep /\ \A k \in Node : Onward(k)

\* end_overlay_round in each of its four cases.
LEMMA EndOverlayRoundGenuine ==
  ASSUME ControlTypeOK, OverlayTypeOK, AggregationTypeOK, GenuineInv,
         NEW n \in Node, EndOverlayRound(n)
  PROVE  GenuineStep /\ UNCHANGED <<query_num, server_query, from_server>>
<1> USE DEF GenuineInv
<1>1. /\ outgoing_messages[n] \in SUBSET Body /\ AllGenuine(outgoing_messages[n])
      /\ agreement[n] \in AgreementState /\ proxy_values[n] \in SUBSET Node
      /\ GenuineValues(n, query_num[n], proxy_values[n], agreement[n], accepted[n])
      /\ query_num[n] \in Query /\ RoundsTypeOK
  BY DEF OverlayTypeOK, BodiesInv, GenuineBodies, AllGenuine, ValuesInv, ControlTypeOK,
         RoundsTypeOK
<1>2. ASSUME NEW outgoing \in SUBSET Body, NEW phase, NEW agree \in AgreementState,
             AllGenuine(outgoing), phase = protocol_phase[n] \/ phase = "AGREEMENT",
             GenuineValues(n, query_num[n], proxy_values[n], agree, accepted[n]),
             CommonEndOverlayRound(n, outgoing, phase, agree),
             UNCHANGED <<accepted, aggregateVars>>
      PROVE  GenuineStep /\ UNCHANGED <<query_num, server_query, from_server>>
  <2>1. /\ BodiesStep /\ ValuesStep
        /\ \A k \in Node : proxy_values[k] \subseteq proxy_values'[k]
    BY <1>2, CommonEndGenuine
  <2>2. /\ UNCHANGED <<query_num, server_query, from_server, aggregation,
                       future_aggregation, aggregation_net, server_results>>
        /\ protocol_phase' = [protocol_phase EXCEPT ![n] = phase]
    BY <1>2 DEF CommonEndOverlayRound, serverVars, aggregateVars
  <2>3. SumStep
    BY <2>2, UnchangedGenuine
  <2>4. \A k \in Node : Onward(k)
    BY <1>1, <1>2, <2>1, <2>2 DEF Onward, RoundsTypeOK
  <2> QED
    BY <2>1, <2>2, <2>3, <2>4 DEF GenuineStep
<1>3. CASE FinishShuffle(n)
  <2> DEFINE signed == UNION {multicast(n, "sign", v, {n}) : v \in proxy_values[n]}
  <2>1. ASSUME NEW v \in proxy_values[n]
        PROVE  /\ multicast(n, "sign", v, {n}) \in SUBSET Body
               /\ \A b \in multicast(n, "sign", v, {n}) : GenuineBody(b)
    <3>1. v \in Node /\ {n} \in SUBSET Node /\ "sign" \in Kind
      BY <1>1 DEF Kind
    <3>2. has_contributed(v, query_num[n]) /\ endorses(n, v, query_num[n])
      BY <1>1 DEF GenuineValues, genuine, endorses
    <3>3. \A p \in {n} : endorses(p, v, query_num[n])
      BY <3>2
    <3> QED
      BY <1>1, <3>1, <3>2, <3>3, MulticastType, MulticastGenuine
  <2>2. /\ outgoing_messages[n] \cup signed \in SUBSET Body
        /\ AllGenuine(outgoing_messages[n] \cup signed)
    BY <1>1, <2>1 DEF AllGenuine
  <2>3. /\ CommonEndOverlayRound(n, outgoing_messages[n] \cup signed, "AGREEMENT",
                                 agreement[n])
        /\ UNCHANGED <<accepted, aggregateVars>>
    BY <1>3 DEF FinishShuffle
  <2> HIDE DEF signed
  <2> QED
    BY <1>1, <1>2, <2>2, <2>3
<1>4. CASE FinishPhase1(n)
  <2> DEFINE told(v) == multicast(n, "accept", v, agreement[n].signed_proxy_values[v])
             accepts == UNION {told(v) : v \in accepted_values(agreement[n])}
  <2>1. ASSUME NEW v \in accepted_values(agreement[n])
        PROVE  told(v) \in SUBSET Body /\ \A b \in told(v) : GenuineBody(b)
    <3>1. v \in Node /\ has_contributed(v, query_num[n])
      BY AcceptedValuesGenuine DEF genuine
    <3>2. agreement[n].signed_proxy_values[v] \in SUBSET Node /\ "accept" \in Kind
      BY <1>1, <3>1 DEF AgreementState, Kind
    <3>3. \A p \in agreement[n].signed_proxy_values[v] : endorses(p, v, query_num[n])
      BY <1>1, <3>1 DEF GenuineValues, GenuineAgreement
    <3> QED
      BY <1>1, <3>1, <3>2, <3>3, MulticastType, MulticastGenuine
  <2>2. /\ outgoing_messages[n] \cup accepts \in SUBSET Body
        /\ AllGenuine(outgoing_messages[n] \cup accepts)
    BY <1>1, <2>1 DEF AllGenuine
  <2>3. /\ finish_phase_1(agreement[n]) \in AgreementState
        /\ finish_phase_1(agreement[n]).signed_proxy_values
             = agreement[n].signed_proxy_values
    BY <1>1 DEF finish_phase_1, AgreementState
  <2>4. /\ CommonEndOverlayRound(n, outgoing_messages[n] \cup accepts, "AGREEMENT",
                                 finish_phase_1(agreement[n]))
        /\ UNCHANGED <<accepted, aggregateVars>>
    BY <1>4 DEF FinishPhase1
  <2>5. GenuineValues(n, query_num[n], proxy_values[n], finish_phase_1(agreement[n]),
                      accepted[n])
    BY <1>1, <2>3 DEF GenuineValues, GenuineAgreement, accepted_values
  <2> HIDE DEF accepts
  <2> QED
    BY <1>2, <2>2, <2>3, <2>4, <2>5
<1>5. CASE FinishAgreement(n)
  <2> DEFINE agg    == initialize(aggregation[n], n, failed_meter_ids[n])
             values == accepted_values(agreement[n])
  <2>1. /\ accepted' = [accepted EXCEPT ![n] = values]
        /\ SendAggregateIfDone(n, agg, values, aggregation_net)
        /\ UNCHANGED <<query_num, server_query, from_server, waiting_messages,
                       outgoing_messages, future_overlay, overlay_net, proxy_values,
                       agreement, future_aggregation>>
    BY <1>5 DEF FinishAgreement, serverVars, messageVars
  <2>2. agg \in AggregationState /\ agg.contents = aggregation[n].contents
        /\ agg.query = aggregation[n].query
    <3>1. aggregation[n] \in AggregationState
      BY DEF AggregationTypeOK
    <3>2. agg \in AggregationState
      BY <3>1, InitializeType
    <3>3. \E k : agg = [aggregation[n] EXCEPT !.received = 0, !.needed = k]
      BY DEF initialize
    <3> QED
      BY <3>1, <3>2, <3>3 DEF AggregationState
  <2>3. GenuineSum(agg) /\ agg.query = query_num[n]
    BY <2>2 DEF SumInv, GenuineSums, GenuineSum
  <2>4. /\ values \in SUBSET Node
        /\ \A v \in values : genuine(v, n, query_num[n]) /\ endorsed(v, query_num[n])
    BY AcceptedValuesGenuine DEF accepted_values
  <2>5. \A m \in aggregation_net : GenuineSum(m)
    BY DEF SumInv, GenuineSums
  <2> HIDE DEF agg
  <2>6. /\ \A k \in Node : /\ GenuineSum(aggregation'[k])
                           /\ aggregation'[k].query = query_num[k]
        /\ \A m \in aggregation_net' \cup server_results' : GenuineSum(m)
        /\ \A k \in Node : protocol_phase'[k] = "SETUP" => protocol_phase[k] = "SETUP"
    BY <1>1, <2>1, <2>2, <2>3, <2>4, <2>5, SendAggregateGenuine
  <2>7. SumStep
    BY <2>1, <2>6 DEF SumStep, SumInv, GenuineSums
  <2>8. ValuesStep
    BY <2>1 DEF ValuesStep, ValuesInv, GenuineValues, OverlayTypeOK
  <2>9. BodiesStep
    BY <2>1, UnchangedGenuine
  <2>10. \A k \in Node : Onward(k)
    BY <2>1, <2>6 DEF Onward
  <2> QED
    BY <2>1, <2>7, <2>8, <2>9, <2>10 DEF GenuineStep
<1>6. CASE ContinueOverlay(n)
  <2>1. /\ CommonEndOverlayRound(n, outgoing_messages[n], protocol_phase[n], agreement[n])
        /\ UNCHANGED <<accepted, aggregateVars>>
    BY <1>6 DEF ContinueOverlay
  <2> QED
    BY <1>1, <1>2, <2>1
<1> QED
  BY <1>3, <1>4, <1>5, <1>6 DEF EndOverlayRound

\* An aggregate that arrives, or was waiting for its time, is of genuine values.
LEMMA HandleAggregationGenuine ==
  ASSUME ControlTypeOK, OverlayTypeOK, AggregationTypeOK, GenuineInv, NEW n \in Node,
         NEW m \in AggregationMessage, GenuineSum(m),
         NEW in_flight \in SUBSET aggregation_net,
         HandleAggregation(n, m, in_flight)
  PROVE  /\ \A k \in Node : /\ GenuineSum(aggregation'[k])
                            /\ aggregation'[k].query = query_num[k]
         /\ \A x \in aggregation_net' \cup server_results' : GenuineSum(x)
         /\ \A k \in Node : protocol_phase'[k] = "SETUP" => protocol_phase[k] = "SETUP"
<1> USE DEF GenuineInv
<1> DEFINE agg == handle_aggregate(aggregation[n], m)
<1>1. aggregation[n] \in AggregationState
  BY DEF AggregationTypeOK
<1>2. agg \in AggregationState
  BY <1>1, HandleAggregateType
<1>3. /\ agg.contents \subseteq aggregation[n].contents \cup m.contents
      /\ agg.query = aggregation[n].query
  BY <1>1 DEF handle_aggregate, AggregationState
<1>4. GenuineSum(agg) /\ agg.query = query_num[n]
  BY <1>3 DEF SumInv, GenuineSums, GenuineSum
<1>5. /\ accepted[n] \in SUBSET Node
      /\ \A v \in accepted[n] : genuine(v, n, query_num[n]) /\ endorsed(v, query_num[n])
  BY AcceptedValuesGenuine DEF OverlayTypeOK
<1>6. \A x \in in_flight : GenuineSum(x)
  BY DEF SumInv, GenuineSums
<1>7. SendAggregateIfDone(n, agg, accepted[n], in_flight)
  BY DEF HandleAggregation
<1>8. RoundsTypeOK /\ SumInv
  BY DEF ControlTypeOK
<1> HIDE DEF agg, GenuineInv
<1> QED
  BY <1>2, <1>4, <1>5, <1>6, <1>7, <1>8, SendAggregateGenuine

LEMMA AggregationStepGenuine ==
  ASSUME ControlTypeOK, OverlayTypeOK, AggregationInv, GenuineInv, NEW n \in Node,
         DrainAggregation(n) \/ AggregationArrives(n)
  PROVE  GenuineStep /\ UNCHANGED <<query_num, server_query, from_server>>
<1> USE DEF GenuineInv, AggregationInv
<1>1. UNCHANGED <<query_num, server_query, from_server, waiting_messages,
                  outgoing_messages, future_overlay, overlay_net, proxy_values,
                  agreement, accepted>>
  BY DEF DrainAggregation, AggregationArrives, serverVars, messageVars, valueVars,
         roundVars
<1>2. BodiesStep /\ ValuesStep
  BY <1>1, UnchangedGenuine
<1>3. /\ future_aggregation[n] \in Seq(AggregationMessage)
      /\ \A k \in Node : \A i \in DOMAIN future_aggregation[k] :
           GenuineSum(future_aggregation[k][i])
      /\ \A m \in aggregation_net : GenuineSum(m) /\ m \in AggregationMessage
  BY DEF SumInv, GenuineSums, AggregationTypeOK
<1> SUFFICES /\ SumStep
             /\ \A k \in Node : protocol_phase'[k] = "SETUP" => protocol_phase[k] = "SETUP"
  BY <1>1, <1>2 DEF GenuineStep, Onward
<1>4. CASE DrainAggregation(n)
  <2> DEFINE Q == future_aggregation[n]
             m == Head(Q)
  <2>1. Q # <<>>
    BY <1>4 DEF DrainAggregation, DrainHasMessage
  <2>2. m = Q[1] /\ 1 \in DOMAIN Q /\ m \in AggregationMessage
    BY <1>3, <2>1
  <2>3. GenuineSum(m)
    BY <1>3, <2>2
  <2>4. /\ HandleAggregation(n, m, aggregation_net)
        /\ future_aggregation' = [future_aggregation EXCEPT ![n] = Tail(@)]
    BY <1>4 DEF DrainAggregation
  <2>5. /\ \A k \in Node : /\ GenuineSum(aggregation'[k])
                           /\ aggregation'[k].query = query_num[k]
        /\ \A x \in aggregation_net' \cup server_results' : GenuineSum(x)
        /\ \A k \in Node : protocol_phase'[k] = "SETUP" => protocol_phase[k] = "SETUP"
    <3> HIDE DEF m, GenuineInv
    <3>1. GenuineInv /\ AggregationTypeOK
      BY DEF GenuineInv
    <3> QED
      BY <2>2, <2>3, <2>4, <3>1, HandleAggregationGenuine
  <2>6. ASSUME NEW k \in Node, NEW i \in DOMAIN future_aggregation'[k]
        PROVE  GenuineSum(future_aggregation'[k][i])
    <3>1. CASE k = n
      <4>1. future_aggregation'[n] = Tail(Q)
        BY <2>4 DEF AggregationTypeOK
      <4>2. i + 1 \in DOMAIN Q /\ Tail(Q)[i] = Q[i + 1]
        BY <1>3, <2>1, <2>6, <3>1, <4>1
      <4> QED
        BY <1>3, <3>1, <4>1, <4>2
    <3>2. CASE k # n
      BY <1>3, <2>4, <2>6, <3>2 DEF AggregationTypeOK
    <3> QED
      BY <3>1, <3>2
  <2> QED
    BY <1>1, <2>5, <2>6 DEF SumStep, GenuineSums
<1>5. CASE AggregationArrives(n)
  <2>1. PICK m \in aggregation_net :
          \/ /\ HandleAggregation(n, m, aggregation_net \ {m})
             /\ UNCHANGED future_aggregation
          \/ /\ future_aggregation' = [future_aggregation EXCEPT
                  ![n] = IF m.query = query_num[n] THEN Append(@, m) ELSE @]
             /\ aggregation_net' = aggregation_net \ {m}
             /\ UNCHANGED <<aggregation, server_results, protocol_phase>>
    BY <1>5 DEF AggregationArrives
  <2>2. m \in AggregationMessage /\ GenuineSum(m)
    BY <1>3
  <2>3. CASE HandleAggregation(n, m, aggregation_net \ {m}) /\ UNCHANGED future_aggregation
    <3>1. /\ \A k \in Node : /\ GenuineSum(aggregation'[k])
                             /\ aggregation'[k].query = query_num[k]
          /\ \A x \in aggregation_net' \cup server_results' : GenuineSum(x)
          /\ \A k \in Node : protocol_phase'[k] = "SETUP" => protocol_phase[k] = "SETUP"
      <4> HIDE DEF GenuineInv
      <4>1. GenuineInv /\ AggregationTypeOK /\ aggregation_net \ {m} \in SUBSET aggregation_net
        BY DEF GenuineInv
      <4> QED
        BY <2>2, <2>3, <4>1, HandleAggregationGenuine
    <3> QED
      BY <1>1, <1>3, <2>3, <3>1 DEF SumStep, GenuineSums
  <2>4. CASE /\ future_aggregation' = [future_aggregation EXCEPT
                  ![n] = IF m.query = query_num[n] THEN Append(@, m) ELSE @]
             /\ aggregation_net' = aggregation_net \ {m}
             /\ UNCHANGED <<aggregation, server_results, protocol_phase>>
    <3>1. ASSUME NEW k \in Node, NEW i \in DOMAIN future_aggregation'[k]
          PROVE  GenuineSum(future_aggregation'[k][i])
      <4>1. \/ future_aggregation'[k] = future_aggregation[k]
            \/ k = n /\ future_aggregation'[n] = Append(future_aggregation[n], m)
        BY <2>4 DEF AggregationTypeOK
      <4>2. CASE k = n /\ future_aggregation'[n] = Append(future_aggregation[n], m)
        <5>1. future_aggregation'[k][i] = m \/
              (i \in DOMAIN future_aggregation[n]
                 /\ future_aggregation'[k][i] = future_aggregation[n][i])
          BY <1>3, <2>2, <3>1, <4>2
        <5> QED
          BY <1>3, <2>2, <5>1
      <4>3. CASE future_aggregation'[k] = future_aggregation[k]
        BY <1>3, <3>1, <4>3
      <4> QED
        BY <4>1, <4>2, <4>3
    <3> QED
      BY <1>1, <2>4, <3>1 DEF SumStep, SumInv, GenuineSums
  <2> QED
    BY <2>1, <2>3, <2>4
<1> QED
  BY <1>4, <1>5

LEMMA OverlayArrivesGenuine ==
  ASSUME ControlTypeOK, OverlayTypeOK, GenuineInv, NEW n \in Node, OverlayArrives(n)
  PROVE  GenuineStep /\ UNCHANGED <<query_num, server_query, from_server>>
<1> USE DEF GenuineInv
<1>1. PICK m \in overlay_net :
        /\ target(m.from, m.round) = n
        /\ overlay_net' = overlay_net \ {m}
        /\ \/ m.query = query_num[n] /\ HandleOverlay(n, m)
           \/ KeepOverlay(n, m)
  BY DEF OverlayArrives
<1>2. UNCHANGED <<query_num, server_query, from_server, protocol_phase,
                  outgoing_messages, accepted, aggregation, future_aggregation,
                  aggregation_net, server_results>>
  BY DEF OverlayArrives, roundVars, serverVars, aggregateVars
<1>3. SumStep
  BY <1>2, UnchangedGenuine
<1>4. m.bodies \in SUBSET Body /\ GenuineMessage(m)
  BY DEF OverlayTypeOK, OverlayMessage, BodiesInv, GenuineBodies
<1>5. \A x \in overlay_net' : GenuineMessage(x)
  BY <1>1 DEF BodiesInv, GenuineBodies
<1>6. CASE m.query = query_num[n] /\ HandleOverlay(n, m)
  <2>1. /\ HandleBodies(n, m.bodies, protocol_phase[n], waiting_messages[n], agreement[n])
        /\ UNCHANGED future_overlay
    BY <1>6 DEF HandleOverlay
  <2>2. Handled(n, m.bodies)
    BY <1>1, <1>4, <1>6 DEF Handled, GenuineMessage
  <2>3. /\ waiting_messages[n] \in SUBSET Body /\ AllGenuine(waiting_messages[n])
        /\ agreement[n] \in AgreementState
        /\ GenuineValues(n, query_num[n], proxy_values[n], agreement[n], accepted[n])
    BY DEF OverlayTypeOK, BodiesInv, GenuineBodies, AllGenuine, ValuesInv
  <2>4. /\ AllGenuine(waiting_messages'[n])
        /\ \A k \in Node \ {n} : waiting_messages'[k] = waiting_messages[k]
        /\ \A k \in Node :
             /\ GenuineValues(k, query_num[k], proxy_values'[k], agreement'[k], accepted[k])
             /\ proxy_values[k] \subseteq proxy_values'[k]
    BY <1>4, <2>1, <2>2, <2>3, HandleBodiesGenuine
  <2>5. BodiesStep
    BY <1>2, <1>5, <2>1, <2>4 DEF BodiesStep, BodiesInv, GenuineBodies, AllGenuine
  <2>6. ValuesStep
    BY <1>2, <2>4 DEF ValuesStep
  <2> QED
    BY <1>2, <1>3, <2>4, <2>5, <2>6 DEF GenuineStep, Onward
<1>7. CASE KeepOverlay(n, m)
  <2>1. /\ UNCHANGED <<waiting_messages, proxy_values, agreement>>
        /\ \A k \in Node : \A x \in future_overlay'[k] :
             x \in future_overlay[k] \/ (k = n /\ x = m)
    BY <1>7 DEF KeepOverlay, OverlayTypeOK
  <2>2. BodiesStep
    BY <1>1, <1>2, <1>4, <1>5, <2>1 DEF BodiesStep, BodiesInv, GenuineBodies
  <2>3. ValuesStep
    BY <1>2, <2>1, UnchangedGenuine
  <2> QED
    BY <1>2, <1>3, <2>1, <2>2, <2>3 DEF GenuineStep, Onward
<1> QED
  BY <1>1, <1>6, <1>7

\* The next query resets what a node has of the last one.
LEMMA QueryRequestGenuine ==
  ASSUME ControlTypeOK, OverlayTypeOK, AggregationTypeOK, GenuineInv,
         NEW n \in Node, QueryRequestArrives(n)
  PROVE  GenuineStep /\ QueuesInv'
<1> USE DEF GenuineInv
<1> DEFINE Q == from_server[n]
           q == Head(Q).query
<1>1. /\ Q \in Seq(ServerMessage) /\ Q # <<>> /\ Head(Q).type = "query"
      /\ from_server' = [from_server EXCEPT ![n] = Tail(@)]
      /\ UNCHANGED <<server_query, waiting_messages, outgoing_messages, future_overlay,
                     overlay_net, future_aggregation, aggregation_net, server_results>>
  BY DEF QueryRequestArrives, ControlTypeOK, ServerTypeOK, serverVars, messageVars
<1>2. /\ Head(Q) = Q[1] /\ 1 \in DOMAIN Q
      /\ \A i \in DOMAIN Tail(Q) : i + 1 \in DOMAIN Q /\ Tail(Q)[i] = Q[i + 1]
                                  /\ i \in Nat \ {0}
  BY <1>1
<1>3. from_server'[n] = Tail(Q) /\ \A k \in Node \ {n} : from_server'[k] = from_server[k]
  BY <1>1 DEF ControlTypeOK, ServerTypeOK
<1>4. /\ query_num[n] < q /\ q <= server_query
      /\ \A i \in DOMAIN Tail(Q) : Tail(Q)[i].type = "query" =>
           /\ query_num[n] < Tail(Q)[i].query /\ q < Tail(Q)[i].query
           /\ Tail(Q)[i].query <= server_query
           /\ \A j \in 1 .. i - 1 : Tail(Q)[j].type = "query" =>
                Tail(Q)[j].query < Tail(Q)[i].query
  <2>1. QueueRises(n)
    BY DEF QueuesInv
  <2>2. query_num[n] < q /\ q <= server_query
    BY <1>1, <1>2, <2>1 DEF QueueRises
  <2>3. ASSUME NEW i \in DOMAIN Tail(Q), Tail(Q)[i].type = "query"
        PROVE  /\ query_num[n] < Tail(Q)[i].query /\ q < Tail(Q)[i].query
               /\ Tail(Q)[i].query <= server_query
    <3>1. i + 1 \in DOMAIN Q /\ Tail(Q)[i] = Q[i + 1] /\ 1 \in 1 .. (i + 1) - 1
      BY <1>2
    <3> QED
      BY <1>1, <1>2, <2>1, <2>3, <3>1 DEF QueueRises
  <2>4. ASSUME NEW i \in DOMAIN Tail(Q), Tail(Q)[i].type = "query",
               NEW j \in 1 .. i - 1, Tail(Q)[j].type = "query"
        PROVE  Tail(Q)[j].query < Tail(Q)[i].query
    <3>1. /\ i + 1 \in DOMAIN Q /\ Tail(Q)[i] = Q[i + 1] /\ i \in Nat
          /\ j \in DOMAIN Tail(Q)
      BY <1>1, <1>2
    <3>2. Tail(Q)[j] = Q[j + 1] /\ j + 1 \in 1 .. (i + 1) - 1
      BY <1>2, <3>1
    <3> QED
      BY <2>1, <2>4, <3>1, <3>2 DEF QueueRises
  <2> QED
    BY <2>2, <2>3, <2>4
<1>5. query_num \in [Node -> Query] /\ query_num[n] \in Int /\ q \in Int /\ server_query \in Int
  <2>1. Head(Q) \in ServerMessage
    BY <1>1
  <2> QED
    BY <2>1, BoundsAssumption
    DEF ControlTypeOK, RoundsTypeOK, ServerTypeOK, ServerMessage, Query
<1> HIDE DEF Q, q
<1>6. BodiesStep
  BY <1>1, UnchangedGenuine
<1>7. CASE StartQuery(n, Head(from_server[n]).query)
  <2>1. /\ query_num' = [query_num EXCEPT ![n] = q]
        /\ protocol_phase' = [protocol_phase EXCEPT ![n] = "SETUP"]
        /\ proxy_values' = [proxy_values EXCEPT ![n] = {}]
        /\ accepted' = [accepted EXCEPT ![n] = {}]
        /\ agreement' = [agreement EXCEPT ![n] = NewAgreement]
        /\ aggregation' = [aggregation EXCEPT ![n] = NewAggregation(q)]
    BY <1>7 DEF StartQuery, q, Q
  <2>2. query_num'[n] = q /\ \A k \in Node \ {n} : query_num'[k] = query_num[k]
    BY <1>5, <2>1
  <2>3. ValuesStep
    <3>1. GenuineValues(n, q, {}, NewAgreement, {})
      BY DEF GenuineValues, GenuineAgreement, NewAgreement
    <3>2. ASSUME NEW k \in Node
          PROVE  GenuineValues(k, query_num'[k], proxy_values'[k], agreement'[k],
                               accepted'[k])
      <4>1. CASE k = n
        BY <2>1, <2>2, <3>1, <4>1 DEF OverlayTypeOK
      <4>2. CASE k # n
        BY <2>1, <2>2, <4>2 DEF OverlayTypeOK, ValuesInv
      <4> QED
        BY <4>1, <4>2
    <3> QED
      BY <3>2 DEF ValuesStep
  <2>4. SumStep
    <3>1. GenuineSum(NewAggregation(q)) /\ NewAggregation(q).query = q
      BY DEF GenuineSum, NewAggregation
    <3>2. \A k \in Node : GenuineSum(aggregation'[k]) /\ aggregation'[k].query = query_num'[k]
      BY <2>1, <2>2, <3>1 DEF AggregationTypeOK, SumInv, GenuineSums
    <3> QED
      BY <1>1, <3>2 DEF SumStep, SumInv, GenuineSums
  <2>5. ASSUME NEW k \in Node PROVE Onward(k)
    <3>1. CASE k = n
      BY <1>4, <2>2, <3>1 DEF Onward
    <3>2. CASE k # n
      BY <2>1, <2>2, <3>2 DEF Onward, ControlTypeOK, RoundsTypeOK, OverlayTypeOK
    <3> QED
      BY <3>1, <3>2
  <2>6. QueuesInv'
    BY <1>1, <1>3, <1>4, <2>2 DEF QueuesInv, QueueRises
  <2> QED
    BY <1>6, <2>3, <2>4, <2>5, <2>6 DEF GenuineStep
<1>8. CASE UNCHANGED <<query_num, protocol_phase, proxy_values, accepted, agreement,
                       aggregation>>
  <2>1. ValuesStep /\ SumStep
    BY <1>1, <1>8, UnchangedGenuine
  <2>2. QueuesInv'
    BY <1>1, <1>3, <1>4, <1>8 DEF QueuesInv, QueueRises
  <2> QED
    BY <1>6, <1>8, <2>1, <2>2 DEF GenuineStep, Onward
<1> QED
  BY <1>7, <1>8 DEF QueryRequestArrives, roundVars

\* A meter that has its signature contributes, from then on.
LEMMA SignatureResponseGenuine ==
  ASSUME ControlTypeOK, OverlayTypeOK, GenuineInv, RoundsTypeOK', OverlayTypeOK',
         NEW n \in Node, SignatureResponseArrives(n)
  PROVE  /\ BodiesInv' /\ ValuesStep /\ SumStep /\ QueuesInv'
         /\ Grows
<1> USE DEF GenuineInv
<1> DEFINE Q == from_server[n]
<1>1. /\ Q \in Seq(ServerMessage) /\ Q # <<>>
      /\ from_server' = [from_server EXCEPT ![n] = Tail(@)]
      /\ UNCHANGED <<query_num, server_query, waiting_messages, future_overlay,
                     overlay_net, proxy_values, agreement, accepted, aggregation,
                     future_aggregation, aggregation_net, server_results>>
      /\ \/ /\ protocol_phase' = [protocol_phase EXCEPT ![n] = "SHUFFLE"]
            /\ outgoing_messages' = [outgoing_messages EXCEPT
                 ![n] = @ \cup multicast(n, "contribution", n, {})]
         \/ UNCHANGED <<protocol_phase, outgoing_messages>>
  BY DEF SignatureResponseArrives, ControlTypeOK, ServerTypeOK, serverVars, valueVars,
         roundVars, aggregateVars
<1>2. ValuesStep /\ SumStep
  BY <1>1, UnchangedGenuine
<1>3. QueuesInv'
  <2>1. /\ from_server'[n] = Tail(Q)
        /\ \A k \in Node \ {n} : from_server'[k] = from_server[k]
    BY <1>1 DEF ControlTypeOK, ServerTypeOK
  <2>2. \A i \in DOMAIN Tail(Q) :
          i + 1 \in DOMAIN Q /\ Tail(Q)[i] = Q[i + 1] /\ i \in Nat \ {0}
    BY <1>1
  <2>3. QueueRises(n)
    BY DEF QueuesInv
  <2>4. ASSUME NEW i \in DOMAIN Tail(Q), Tail(Q)[i].type = "query"
        PROVE  /\ query_num[n] < Tail(Q)[i].query /\ Tail(Q)[i].query <= server_query
               /\ \A j \in 1 .. i - 1 : Tail(Q)[j].type = "query" =>
                    Tail(Q)[j].query < Tail(Q)[i].query
    <3>1. i + 1 \in DOMAIN Q /\ Tail(Q)[i] = Q[i + 1] /\ i \in Nat
      BY <2>2
    <3>2. ASSUME NEW j \in 1 .. i - 1
          PROVE  Tail(Q)[j] = Q[j + 1] /\ j + 1 \in 1 .. (i + 1) - 1
      <4>1. j \in DOMAIN Tail(Q)
        BY <1>1, <3>1
      <4> QED
        BY <2>2, <3>1, <4>1
    <3> HIDE DEF Q
    <3> QED
      BY <2>3, <2>4, <3>1, <3>2 DEF QueueRises, Q
  <2> HIDE DEF Q
  <2>5. QueueRises(n)'
    BY <1>1, <2>1, <2>3, <2>4 DEF QueueRises
  <2>6. \A k \in Node \ {n} : QueueRises(k)'
    BY <1>1, <2>1 DEF QueuesInv, QueueRises
  <2> QED
    BY <2>5, <2>6 DEF QueuesInv
<1>4. \A k \in Node : Onward(k)
  BY <1>1 DEF Onward, ControlTypeOK, RoundsTypeOK
<1>5. Grows
  BY <1>4, OnwardGrows DEF ControlTypeOK
<1>6. ASSUME NEW k \in Node, NEW b \in outgoing_messages'[k] PROVE GenuineBody(b)'
  <2>1. CASE b \in outgoing_messages[k]
    <3>1. b \in Body /\ GenuineBody(b)
      BY <2>1 DEF OverlayTypeOK, BodiesInv, GenuineBodies
    <3> QED
      BY <1>5, <3>1, BodyStaysGenuine
  <2>2. CASE b \notin outgoing_messages[k]
    <3>1. /\ b \in multicast(n, "contribution", n, {})
          /\ protocol_phase' = [protocol_phase EXCEPT ![n] = "SHUFFLE"]
      BY <1>1, <1>6, <2>2 DEF OverlayTypeOK
    <3>2. /\ b.value = n /\ b.query = query_num[n] /\ b.signatures = {}
          /\ leads_to(b) \in ProxiesOf[n]
      BY <3>1, MulticastLeads DEF Kind
    <3>3. has_contributed(n, query_num[n])'
      BY <1>1, <3>1 DEF has_contributed, ControlTypeOK, RoundsTypeOK
    <3> QED
      BY <1>1, <3>2, <3>3 DEF GenuineBody, genuine, has_contributed, leads_to
  <2> QED
    BY <2>1, <2>2
<1>7. ASSUME NEW k \in Node, NEW b \in waiting_messages'[k] PROVE GenuineBody(b)'
  <2>1. b \in Body /\ GenuineBody(b)
    BY <1>1, <1>7 DEF OverlayTypeOK, BodiesInv, GenuineBodies
  <2> QED
    BY <1>5, <2>1, BodyStaysGenuine
<1>8. ASSUME NEW k \in Node, NEW m \in future_overlay'[k]
      PROVE  GenuineMessage(m)' /\ target(m.from, m.round) = k
  <2>1. m \in OverlayMessage /\ GenuineMessage(m) /\ target(m.from, m.round) = k
    BY <1>1, <1>8 DEF OverlayTypeOK, BodiesInv, GenuineBodies
  <2> QED
    BY <1>5, <2>1, MessageStaysGenuine
<1>9. ASSUME NEW m \in overlay_net' PROVE GenuineMessage(m)'
  <2>1. m \in OverlayMessage /\ GenuineMessage(m)
    BY <1>1, <1>9 DEF OverlayTypeOK, BodiesInv, GenuineBodies
  <2> QED
    BY <1>5, <2>1, MessageStaysGenuine
<1>10. BodiesInv'
  BY <1>6, <1>7, <1>8, <1>9 DEF BodiesInv, GenuineBodies, target
<1> QED
  BY <1>2, <1>3, <1>5, <1>10

\* The other steps change nothing of all this but the queues of the server.
LEMMA OtherStepGenuine ==
  ASSUME GenuineInv, NEW n \in Node, PingArrives(n) \/ Timer(n) \/ Crash(n) \/ Server
  PROVE  GenuineStep
<1>1. UNCHANGED <<waiting_messages, outgoing_messages, future_overlay, overlay_net,
                  query_num, protocol_phase, proxy_values, agreement, accepted,
                  aggregation, future_aggregation, aggregation_net, server_results>>
  BY DEF PingArrives, Timer, TimerExpires, RoundTimeout, Crash, Server, ServerStartsQuery,
         ServerSigns, clientVars, roundVars, messageVars, valueVars, aggregateVars
<1> QED
  BY <1>1, UnchangedGenuine DEF GenuineInv, GenuineStep, Onward

LEMMA QueuesRise ==
  ASSUME ControlTypeOK, QueuesInv, Server PROVE QueuesInv'
<1> USE BoundsAssumption DEF ControlTypeOK, ServerTypeOK, RoundsTypeOK
<1>1. ASSUME NEW n \in Node, NEW m, query_num'[n] = query_num[n],
             from_server'[n] = Append(from_server[n], m),
             server_query <= server_query', server_query' \in Int,
             m.type = "query" => m.query = server_query' /\ server_query < server_query'
      PROVE  QueueRises(n)'
  <2> DEFINE Q == from_server[n]
  <2>1. /\ Q \in Seq(ServerMessage) /\ QueueRises(n)
        /\ query_num[n] \in Int /\ server_query \in Int
        /\ \A i \in DOMAIN Q : Q[i].query \in Int
    <3>1. Q \in Seq(ServerMessage)
      OBVIOUS
    <3>2. \A i \in DOMAIN Q : Q[i] \in ServerMessage
      BY <3>1
    <3>3. \A x \in Query : x \in Int
      BY DEF Query
    <3>4. \A i \in DOMAIN Q : Q[i].query \in Int
      BY <3>2, <3>3 DEF ServerMessage
    <3>5. query_num[n] \in Int /\ server_query \in Int
      BY <3>3
    <3> QED
      BY <3>1, <3>4, <3>5 DEF QueuesInv
  <2>2. /\ Len(Q) \in Nat /\ DOMAIN Append(Q, m) = 1 .. Len(Q) + 1
        /\ DOMAIN Q = 1 .. Len(Q) /\ Append(Q, m)[Len(Q) + 1] = m
        /\ \A i \in 1 .. Len(Q) : Append(Q, m)[i] = Q[i]
    BY <2>1
  <2>3. from_server'[n] = Append(Q, m)
    BY <1>1
  <2> HIDE DEF Q
  <2>4. ASSUME NEW i \in 1 .. Len(Q) + 1, Append(Q, m)[i].type = "query"
        PROVE  /\ query_num[n] < Append(Q, m)[i].query
               /\ Append(Q, m)[i].query <= server_query'
               /\ \A j \in 1 .. i - 1 : Append(Q, m)[j].type = "query" =>
                    Append(Q, m)[j].query < Append(Q, m)[i].query
    <3>1. CASE i \in 1 .. Len(Q)
      <4>1. /\ Append(Q, m)[i] = Q[i]
            /\ \A j \in 1 .. i - 1 : Append(Q, m)[j] = Q[j]
        BY <2>2, <3>1
      <4> QED
        BY <1>1, <2>1, <2>2, <2>4, <3>1, <4>1 DEF QueueRises, Q
    <3>2. CASE i = Len(Q) + 1
      <4>1. Append(Q, m)[i] = m /\ m.query = server_query' /\ server_query < server_query'
        BY <1>1, <2>2, <2>4, <3>2
      <4>2. ASSUME NEW j \in 1 .. i - 1, Append(Q, m)[j].type = "query"
            PROVE  Append(Q, m)[j].query < server_query'
        <5>1. j \in DOMAIN Q /\ Append(Q, m)[j] = Q[j]
          BY <2>2, <3>2
        <5> QED
          BY <1>1, <2>1, <4>1, <4>2, <5>1 DEF QueueRises, Q
      <4> QED
        BY <1>1, <2>1, <4>1, <4>2 DEF QueueRises
    <3> QED
      BY <2>2, <2>4, <3>1, <3>2
  <2>5. query_num[n] <= server_query'
    BY <1>1, <2>1 DEF QueueRises
  <2> QED
    BY <1>1, <2>2, <2>3, <2>4, <2>5 DEF QueueRises
<1>2. CASE ServerStartsQuery
  <2>1. /\ server_query' = server_query + 1 /\ query_num' = query_num
        /\ from_server' = [n \in Node |->
             Append(from_server[n], [type |-> "query", query |-> server_query + 1])]
    BY <1>2 DEF ServerStartsQuery, clientVars, roundVars
  <2>2. server_query \in Int
    BY DEF Query
  <2>3. PICK m : m = [type |-> "query", query |-> server_query + 1]
    OBVIOUS
  <2>4. ASSUME NEW n \in Node PROVE QueueRises(n)'
    <3>1. from_server'[n] = Append(from_server[n], m) /\ m.query = server_query'
      BY <2>1, <2>3
    <3>2. /\ server_query <= server_query' /\ server_query' \in Int
          /\ server_query < server_query'
      BY <2>1, <2>2
    <3> QED
      BY <1>1, <2>1, <3>1, <3>2
  <2> QED
    BY <2>4 DEF QueuesInv
<1>3. CASE ServerSigns
  <2>1. server_query' = server_query /\ query_num' = query_num
    BY <1>3 DEF ServerSigns, clientVars, roundVars
  <2>2. PICK request \in signature_requests :
          from_server' = IF may_sign(request.from)
            THEN [from_server EXCEPT ![request.from] =
                    Append(@, [type |-> "signature", query |-> request.query])]
            ELSE from_server
    BY <1>3 DEF ServerSigns
  <2>3. PICK m : m = [type |-> "signature", query |-> request.query]
    OBVIOUS
  <2>4. m.type # "query" /\ server_query \in Int
    BY <2>3 DEF Query
  <2>5. ASSUME NEW n \in Node PROVE QueueRises(n)'
    <3>1. from_server'[n] = Append(from_server[n], m) \/ from_server'[n] = from_server[n]
      BY <2>2, <2>3
    <3>2. CASE from_server'[n] = Append(from_server[n], m)
      BY <1>1, <2>1, <2>4, <3>2
    <3>3. CASE from_server'[n] = from_server[n]
      BY <2>1, <3>3 DEF QueuesInv, QueueRises
    <3> QED
      BY <3>1, <3>2, <3>3
  <2> QED
    BY <2>5 DEF QueuesInv
<1> QED
  BY <1>2, <1>3 DEF Server

LEMMA GenuineLift ==
  ASSUME RoundsTypeOK, RoundsTypeOK', OverlayTypeOK', AggregationTypeOK', GenuineStep,
         QueuesInv'
  PROVE  GenuineInv'
<1>1. Grows
  BY OnwardGrows DEF GenuineStep
<1> QED
  BY <1>1, BodiesLift, ValuesLift, SumsLift DEF GenuineStep, GenuineInv

LEMMA InitGenuine == Init => GenuineInv
<1> SUFFICES ASSUME Init PROVE GenuineInv
  OBVIOUS
<1>1. QueuesInv
  BY DEF Init, QueuesInv, QueueRises
<1>2. BodiesInv
  BY DEF Init, BodiesInv, GenuineBodies
<1>3. ValuesInv
  BY DEF Init, ValuesInv, GenuineValues, GenuineAgreement, NewAgreement
<1>4. SumInv
  BY DEF Init, SumInv, GenuineSums, GenuineSum, NewAggregation
<1> QED
  BY <1>1, <1>2, <1>3, <1>4 DEF GenuineInv

LEMMA NextGenuine ==
  /\ ControlTypeOK /\ OverlayTypeOK /\ AggregationInv /\ GenuineInv
  /\ ControlTypeOK' /\ OverlayTypeOK' /\ AggregationInv' /\ [Next]_vars
  => GenuineInv'
<1> SUFFICES ASSUME ControlTypeOK, OverlayTypeOK, AggregationInv, GenuineInv,
                    ControlTypeOK', OverlayTypeOK', AggregationInv', [Next]_vars
             PROVE  GenuineInv'
  OBVIOUS
<1>1. /\ RoundsTypeOK /\ AggregationTypeOK /\ QueuesInv
      /\ RoundsTypeOK' /\ AggregationTypeOK'
  BY DEF ControlTypeOK, AggregationInv, GenuineInv
<1>2. ASSUME NEW n \in Node,
             \/ EndOverlayRound(n) \/ DrainAggregation(n) \/ AggregationArrives(n)
             \/ OverlayArrives(n)
      PROVE  GenuineInv'
  <2>1. GenuineStep /\ UNCHANGED <<query_num, server_query, from_server>>
    BY <1>1, <1>2, EndOverlayRoundGenuine, AggregationStepGenuine, OverlayArrivesGenuine
  <2>2. QueuesInv'
    BY <1>1, <2>1, UnchangedGenuine
  <2> QED
    BY <1>1, <2>1, <2>2, GenuineLift
<1>3. ASSUME NEW n \in Node, QueryRequestArrives(n) PROVE GenuineInv'
  BY <1>1, <1>3, QueryRequestGenuine, GenuineLift
<1>4. ASSUME NEW n \in Node, SignatureResponseArrives(n) PROVE GenuineInv'
  BY <1>1, <1>4, SignatureResponseGenuine, ValuesLift, SumsLift DEF GenuineInv
<1>5. ASSUME NEW n \in Node, PingArrives(n) \/ Timer(n) \/ Crash(n) PROVE GenuineInv'
  <2>1. UNCHANGED <<query_num, server_query, from_server>>
    BY <1>5 DEF PingArrives, Timer, TimerExpires, RoundTimeout, Crash, clientVars,
                roundVars, serverVars
  <2> QED
    BY <1>1, <1>5, <2>1, OtherStepGenuine, UnchangedGenuine, GenuineLift
<1>6. CASE Server
  <2>1. \E n : n \in Node
    BY NodeAssumption, MetersAssumption
  <2>2. GenuineStep
    BY <1>6, <2>1, OtherStepGenuine
  <2> QED
    BY <1>1, <1>6, <2>2, QueuesRise, GenuineLift
<1>7. CASE UNCHANGED vars
  <2>1. UNCHANGED <<waiting_messages, outgoing_messages, future_overlay, overlay_net,
                    query_num, protocol_phase, proxy_values, agreement, accepted,
                    aggregation, future_aggregation, aggregation_net, server_results,
                    server_query, from_server>>
    BY <1>7 DEF vars, roundVars, messageVars, valueVars, aggregateVars, serverVars
  <2>2. GenuineStep /\ QueuesInv'
    BY <1>1, <2>1, UnchangedGenuine DEF GenuineInv, GenuineStep, Onward
  <2> QED
    BY <1>1, <2>2, GenuineLift
<1> QED
  BY <1>2, <1>3, <1>4, <1>5, <1>6, <1>7 DEF Next, Handler

\* In every behaviour, with crashes, wrong timeouts, rejected queries and any number
\* of queries: what a proxy has of a query comes from a meter that has chosen it and,
\* as far as its state still tells, has contributed to that query; and all that is
\* accepted, summed up or reported to the server has reached log2n + 1 of its proxies.
THEOREM ContributionsAreGenuine == Spec => []OnlyGenuineContributions
<1>1. OverlayTypeOK /\ GenuineInv => OnlyGenuineContributions
  <2> SUFFICES ASSUME OverlayTypeOK, GenuineInv PROVE OnlyGenuineContributions
    OBVIOUS
  <2>1. \A n \in Node : \A v \in proxy_values[n] : genuine(v, n, query_num[n])
    BY DEF GenuineInv, ValuesInv, GenuineValues
  <2>2. \A n \in Node : \A v \in accepted[n] :
          genuine(v, n, query_num[n]) /\ endorsed(v, query_num[n])
    BY AcceptedValuesGenuine DEF GenuineInv
  <2>3. \A m \in aggregation_net \cup server_results : \A c \in m.contents :
          genuine(c.value, c.proxy, c.query) /\ endorsed(c.value, c.query)
    BY DEF GenuineInv, SumInv, GenuineSums, GenuineSum
  <2> QED
    BY <2>1, <2>2, <2>3 DEF OnlyGenuineContributions
<1> QED
  BY <1>1, InitGenuine, NextGenuine, ControlTypeCorrect, OverlayTypeCorrect,
     AggregationInvariant, PTL DEF Spec
=============================================================================
