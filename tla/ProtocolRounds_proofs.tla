----------------------- MODULE ProtocolRounds_proofs -----------------------
(***************************************************************************)
(* Proofs about queries without failures: the nodes move through the       *)
(* rounds together and no message comes too late, every value reaches its  *)
(* proxies in SHUFFLE, and the proxies of a value agree on it.             *)
(***************************************************************************)
EXTENDS ProtocolState_proofs, SequenceTheorems

-----------------------------------------------------------------------------
(* The invariant: nobody fails *)

Calm(n) ==
  /\ alive[n] /\ ~ping_response[n] /\ ~timeout_committed[n]
  /\ failed_meter_ids[n] = {}

CalmInv == ping_net = {} /\ \A n \in Node : Calm(n)

\* All bodies, waiting or on their way, are in the set.
BodiesIn(L) ==
  /\ \A n \in Node : /\ waiting_messages[n] \subseteq L /\ outgoing_messages[n] \subseteq L
                     /\ \A m \in future_overlay[n] : m.bodies \subseteq L
  /\ \A m \in overlay_net : m.bodies \subseteq L

\* Bodies of the query.
Plain == {b \in Body : b.query = 0}

-----------------------------------------------------------------------------
(* The invariant: one query *)

QueueInv(n) ==
  /\ query_num[n] = -1 =>
       from_server[n] \in {<<>>, <<[type |-> "query", query |-> 0]>>}
  /\ query_num[n] # -1 =>
       \A i \in 1 .. Len(from_server[n]) :
         from_server[n][i] = [type |-> "signature", query |-> 0]

QueryInv ==
  /\ server_query = -1 => \A n \in Node : query_num[n] = -1 /\ from_server[n] = <<>>
  /\ \A r \in signature_requests : r.query = 0 /\ query_num[r.from] = 0
  /\ \A n \in Node : QueueInv(n)

\* Which rounds the phases take up.
RoundInv(n) ==
  /\ query_num[n] = -1 => protocol_phase[n] = "IDLE"
  /\ query_num[n] = -1 \/ protocol_phase[n] = "SETUP" =>
       overlay_round[n] = -1 /\ pc[n] = "ready" /\ ~is_last_round[n]
  /\ query_num[n] # -1 /\ protocol_phase[n] \in {"IDLE", "AGGREGATE"} => is_last_round[n]
  /\ protocol_phase[n] \in OverlayPhase => ~is_last_round[n]
  /\ protocol_phase[n] \in OverlayPhase /\ overlay_round[n] = -1 => pc[n] = "end_round"
  /\ pc[n] = "end_round" => protocol_phase[n] \in OverlayPhase
  /\ pc[n] = "drain" => is_last_round[n]
  /\ protocol_phase[n] \in {"SETUP", "SHUFFLE"} => ~agreement[n].phase_1_finished
  /\ protocol_phase[n] = "SHUFFLE" => overlay_round[n] <= PhaseRounds
  /\ protocol_phase[n] = "AGREEMENT" =>
       /\ agreement_start[n] = PhaseRounds
       /\ overlay_round[n] > PhaseRounds
       /\ IF agreement[n].phase_1_finished THEN overlay_round[n] > 2 * PhaseRounds
                                           ELSE overlay_round[n] <= 2 * PhaseRounds
  /\ is_last_round[n] => overlay_round[n] > 2 * PhaseRounds

-----------------------------------------------------------------------------
(* The invariant: one message from each node in each round *)

\* The node is done with the round: it has the final message of the round.
passed(n, r) ==
  \/ overlay_round[n] > r
  \/ overlay_round[n] = r /\ (pc[n] = "end_round" \/ is_last_round[n])

messages == overlay_net \cup UNION {future_overlay[n] : n \in Node}

SentInv(m) == m.query = 0 /\ m.final /\ m.round <= overlay_round[m.from]

SameSend(a, b) == a.from = b.from /\ a.round = b.round

\* What is on its way to a node or kept by it is for a round it is not done with.
ComingInv(n) ==
  /\ \A m \in overlay_net : target(m.from, m.round) = n => ~passed(n, m.round)
  /\ \A m \in future_overlay[n] :
       /\ target(m.from, m.round) = n /\ m.round > overlay_round[n]
       /\ m \notin overlay_net

\* A node is done with a round only after its predecessor has entered it.
AheadInv(n) ==
  \A r \in 0 .. overlay_round[n] : passed(n, r) => overlay_round[predecessor(n, r)] >= r

MessagesInv ==
  /\ \A m \in messages : SentInv(m)
  /\ \A a, b \in messages : SameSend(a, b) => a = b
  /\ \A n \in Node : ComingInv(n) /\ AheadInv(n)

RoundsInv ==
  /\ CalmInv /\ BodiesIn(Plain)
  /\ QueryInv /\ \A n \in Node : RoundInv(n)
  /\ MessagesInv

-----------------------------------------------------------------------------
(* The overlay and the phases *)

LEMMA PhaseIsLong == PhaseRounds \in Nat /\ PhaseRounds >= 1
<1>1. Log2N * Log2N \in Nat
  BY Log2NAssumption
<1>2. 2 * FailuresTolerated \in Nat
  BY FailuresAssumption
<1> QED
  BY <1>1, <1>2 DEF PhaseRounds

\* In a round each node sends to one other node and waits for one other node,
\* the one that sends to it.
LEMMA Neighbours ==
  ASSUME NEW n \in Node, NEW r \in Nat
  PROVE  /\ target(n, r) \in Node \ {n} /\ predecessor(n, r) \in Node \ {n}
         /\ predecessor(target(n, r), r) = n
<1>1. /\ NumMeters \in Nat /\ NumMeters > 1 /\ NumMeters % 2 = 1
      /\ r \in Nat \cup {-1} /\ n \in 0 .. NumMeters - 1
  BY NodeAssumption, MetersAssumption, OddAssumption
<1>2. target(n, r) \in Node \ {n} /\ predecessor(target(n, r), r) = n
  BY <1>1, TargetWaits, NodeAssumption DEF target, predecessor
<1>3. predecessor(n, r) \in Node \ {n}
  BY <1>1, PredecessorSends, NodeAssumption DEF predecessor
<1> QED
  BY <1>2, <1>3

-----------------------------------------------------------------------------
(* What happens if nobody fails *)

Typed == ControlTypeOK /\ OverlayTypeOK /\ PingTypeOK /\ ControlInv

LEMMA OneQuery ==
  ASSUME NoFailures
  PROVE  Query = {-1, 0} /\ Joining = Node /\ MaxTimeouts = 0
BY DEF NoFailures, Query, Joining

\* No ping is on its way, no timer expires and nobody crashes.
LEMMA NobodyFails ==
  ASSUME NoFailures, Typed, CalmInv, NEW n \in Node
  PROVE  ~PingArrives(n) /\ ~Timer(n) /\ ~Crash(n)
<1>1. ~PingArrives(n)
  BY DEF CalmInv, PingArrives
<1>2. ~TimerExpires(n)
  <2>1. predecessor(n, overlay_round[n]) \in Node
    BY PredecessorIsNode DEF Typed, ControlTypeOK, RoundsTypeOK
  <2>2. alive[predecessor(n, overlay_round[n])] /\ ~ping_response[n]
    BY <2>1 DEF CalmInv, Calm
  <2>3. ~(timeouts < MaxTimeouts)
    BY OneQuery DEF Typed, ControlTypeOK, RoundsTypeOK
  <2> QED
    BY <2>2, <2>3 DEF TimerExpires
<1>3. ~RoundTimeout(n)
  BY DEF CalmInv, Calm, RoundTimeout
<1>4. ~Crash(n)
  BY DEF NoFailures, Crash
<1> QED
  BY <1>1, <1>2, <1>3, <1>4 DEF Timer

-----------------------------------------------------------------------------
(* A round is entered *)

entered(n) == overlay_round[n] + 1
kept_for(n, r) == {m \in future_overlay[n] : m.round = r}
pending(n, outgoing) == waiting_messages[n] \cup outgoing
ready(n, outgoing) ==
  {b \in pending(n, outgoing) : b.dest = target(n, entered(n))}
sent(n, outgoing) ==
  [from |-> n, round |-> entered(n), query |-> 0, final |-> TRUE,
   bodies |-> ready(n, outgoing)]

\* common_end_overlay_round if nobody fails: one final message is sent, and
\* the kept messages of the round are handled and end it.
EntersRound(n, outgoing, phase, agree) ==
  LET received == kept_for(n, entered(n))
  IN /\ protocol_phase' = [protocol_phase EXCEPT ![n] = phase]
     /\ overlay_round' = [overlay_round EXCEPT ![n] = entered(n)]
     /\ overlay_net' = overlay_net \cup {sent(n, outgoing)}
     /\ outgoing_messages' = [outgoing_messages EXCEPT ![n] = {}]
     /\ future_overlay' = [future_overlay EXCEPT ![n] = @ \ received]
     /\ HandleBodies(n, UNION {m.bodies : m \in received}, phase,
                     pending(n, outgoing) \ ready(n, outgoing), agree)
     /\ pc' = [pc EXCEPT ![n] = IF received # {} THEN "end_round" ELSE "ready"]
     /\ ping_response' = [ping_response EXCEPT ![n] = FALSE]
     /\ UNCHANGED <<query_num, is_last_round, failed_meter_ids, timeout_committed,
                    ping_net, alive, signature_requests, from_server, server_query>>

LEMMA RoundIsEntered ==
  ASSUME NoFailures, Typed, RoundsInv, NEW n \in Node, query_num[n] = 0,
         ~is_last_round[n], NEW outgoing \in SUBSET Plain, NEW phase \in OverlayPhase,
         NEW agree, CommonEndOverlayRound(n, outgoing, phase, agree), EverybodyAlive'
  PROVE  EntersRound(n, outgoing, phase, agree)
<1> DEFINE r        == overlay_round[n] + 1
           pend     == waiting_messages[n] \cup outgoing
           out      == {b \in pend : b.dest = target(n, r)}
           pred     == predecessor(n, r)
           received == due(n, r)
           bodies   == UNION {m.bodies : m \in received}
<1>1. /\ protocol_phase' = [protocol_phase EXCEPT ![n] = phase]
      /\ overlay_round' = [overlay_round EXCEPT ![n] = r]
      /\ ping_response' = [ping_response EXCEPT ![n] = FALSE]
      /\ overlay_net' = overlay_net \cup batch(n, r, out)
      /\ outgoing_messages' = [outgoing_messages EXCEPT ![n] = {}]
      /\ (pred \in failed_meter_ids[n] /\ UNCHANGED <<failed_meter_ids, ping_net>>)
         \/ SendPing(n, pred)
      /\ future_overlay' = [future_overlay EXCEPT ![n] = @ \ received]
      /\ HandleBodies(n, bodies, phase, pend \ out, agree)
      /\ pc' = [pc EXCEPT ![n] =
           IF alive'[n] /\ (ends_round(received, phase) \/ pred \in failed_meter_ids'[n])
             THEN "end_round" ELSE "ready"]
      /\ UNCHANGED <<query_num, is_last_round, timeout_committed, signature_requests,
                     from_server, server_query>>
  BY DEF CommonEndOverlayRound, serverVars
<1>2. r = entered(n) /\ pend = pending(n, outgoing) /\ out = ready(n, outgoing)
  BY DEF entered, pending, ready
<1>3. received = kept_for(n, r)
  <2>1. \A m \in future_overlay[n] : m.query = 0
    BY DEF RoundsInv, MessagesInv, messages, SentInv
  <2> QED
    BY <2>1 DEF due, kept_for
<1>4. out \subseteq Plain /\ \A b \in out : b.query = 0
  <2>1. pend \subseteq Plain
    BY DEF RoundsInv, BodiesIn
  <2> QED
    BY <2>1 DEF Plain
<1>5. batch(n, r, out) = {sent(n, outgoing)}
  <2>1. CASE out = {}
    BY <1>2, <2>1 DEF batch, sent
  <2>2. CASE out # {}
    <3>1. {b.query : b \in out} = {0}
      BY <1>4, <2>2
    <3>2. {b \in out : b.query = 0} = out /\ \A b \in out : b.query <= 0
      BY <1>4
    <3> HIDE DEF out
    <3>3. batch(n, r, out) =
            {[from |-> n, round |-> r, query |-> q,
              final |-> \A b \in out : b.query <= q,
              bodies |-> {b \in out : b.query = q}] : q \in {0}}
      BY <2>2, <3>1 DEF batch
    <3>4. sent(n, outgoing) = [from |-> n, round |-> r, query |-> 0, final |-> TRUE,
                               bodies |-> out]
      BY <1>2 DEF sent
    <3>5. batch(n, r, out) =
            {[from |-> n, round |-> r, query |-> 0, final |-> TRUE, bodies |-> out]}
      <4> DEFINE final(q) == \A b \in out : b.query <= q
                 bodies_of(q) == {b \in out : b.query = q}
      <4>1. final(0) = TRUE /\ bodies_of(0) = out
        BY <3>2
      <4>2. batch(n, r, out) =
              {[from |-> n, round |-> r, query |-> q, final |-> final(q),
                bodies |-> bodies_of(q)] : q \in {0}}
        BY <3>3
      <4> HIDE DEF final, bodies_of
      <4> QED
        BY <4>1, <4>2
    <3> QED
      BY <3>4, <3>5
  <2> QED
    BY <2>1, <2>2
<1>6. pred \in Node /\ failed_meter_ids[n] = {} /\ alive[pred] /\ alive[n]
  <2>1. r \in Nat
    BY DEF Typed, ControlTypeOK, RoundsTypeOK
  <2> QED
    BY <2>1, Neighbours DEF RoundsInv, CalmInv, Calm
<1>7. UNCHANGED <<failed_meter_ids, ping_net>>
  <2>1. SendPing(n, pred)
    BY <1>1, <1>6
  <2>2. n \notin Pinging
    BY DEF NoFailures
  <2> QED
    BY <1>6, <2>1, <2>2 DEF SendPing
<1>8. UNCHANGED alive
  <2>1. PICK b : alive' = [alive EXCEPT ![n] = b]
    BY <1>1 DEF HandleBodies
  <2>2. alive'[n] = TRUE /\ alive[n] = TRUE
    BY <1>6 DEF EverybodyAlive
  <2> QED
    BY <2>1, <2>2 DEF Typed, ControlTypeOK, RoundsTypeOK
<1>9. pc' = [pc EXCEPT ![n] = IF received # {} THEN "end_round" ELSE "ready"]
  <2>1. \A m \in received : m.final
    BY DEF due, RoundsInv, MessagesInv, messages, SentInv
  <2>2. ends_round(received, phase) <=> received # {}
    BY <2>1 DEF ends_round
  <2>3. alive'[n] /\ pred \notin failed_meter_ids'[n]
    BY <1>6, <1>7, <1>8
  <2> HIDE DEF received, pred
  <2> QED
    BY <1>1, <2>2, <2>3
<1> HIDE DEF r, pend, out, received, bodies
<1> QED
  BY <1>1, <1>2, <1>3, <1>5, <1>7, <1>8, <1>9 DEF EntersRound, bodies

-----------------------------------------------------------------------------
(* Messages come in the rounds they are for *)

LEMMA MessageType ==
  ASSUME OverlayTypeOK, NEW m \in messages
  PROVE  m \in OverlayMessage /\ m.from \in Node /\ m.round \in Nat
<1>1. m \in OverlayMessage
  BY DEF OverlayTypeOK, messages
<1> QED
  BY <1>1 DEF OverlayMessage

\* Two messages for one node and one round are from the same node.
LEMMA OneSender ==
  ASSUME OverlayTypeOK, MessagesInv,
         NEW a \in messages, NEW b \in messages, NEW n \in Node,
         target(a.from, a.round) = n, target(b.from, b.round) = n, a.round = b.round
  PROVE  a = b /\ a.from = predecessor(n, a.round)
<1>1. a.from \in Node /\ b.from \in Node /\ a.round \in Nat
  BY MessageType
<1>2. a.from = predecessor(n, a.round) /\ b.from = predecessor(n, a.round)
  BY <1>1, Neighbours
<1> QED
  BY <1>2 DEF MessagesInv, SameSend

\* A step that leaves the messages and what the nodes have passed as they were.
LEMMA MessagesKept ==
  ASSUME MessagesInv, OverlayTypeOK, RoundsTypeOK,
         UNCHANGED <<overlay_net, future_overlay, overlay_round>>,
         \A n \in Node : \A r \in Nat : passed(n, r)' <=> passed(n, r)
  PROVE  MessagesInv'
<1>1. messages' = messages
  BY DEF messages
<1>2. \A m \in messages : SentInv(m)'
  BY DEF MessagesInv, SentInv
<1>3. ASSUME NEW n \in Node PROVE ComingInv(n)'
  <2>1. \A m \in overlay_net : m.round \in Nat
    BY MessageType DEF messages
  <2> QED
    BY <2>1 DEF MessagesInv, ComingInv
<1>4. ASSUME NEW n \in Node PROVE AheadInv(n)'
  <2>1. \A r \in 0 .. overlay_round[n] : r \in Nat
    BY DEF RoundsTypeOK
  <2> QED
    BY <2>1 DEF MessagesInv, AheadInv
<1> QED
  BY <1>1, <1>2, <1>3, <1>4 DEF MessagesInv, SameSend

LEMMA EntersRoundMessages ==
  ASSUME RoundsTypeOK, OverlayTypeOK, MessagesInv, NEW n \in Node,
         pc[n] = "end_round", ~is_last_round[n],
         NEW outgoing, NEW phase, NEW agree, EntersRound(n, outgoing, phase, agree)
  PROVE  MessagesInv'
<1>0. PICK r, s, received : /\ r = entered(n) /\ s = sent(n, outgoing)
                            /\ received = kept_for(n, r)
  OBVIOUS
<1>1. /\ overlay_round' = [overlay_round EXCEPT ![n] = r]
      /\ overlay_net' = overlay_net \cup {s}
      /\ future_overlay' = [future_overlay EXCEPT ![n] = @ \ received]
      /\ pc' = [pc EXCEPT ![n] = IF received # {} THEN "end_round" ELSE "ready"]
      /\ UNCHANGED is_last_round
  BY <1>0 DEF EntersRound
<1>2. /\ r \in Nat /\ r = overlay_round[n] + 1
      /\ s.from = n /\ s.round = r /\ s.query = 0 /\ s.final
      /\ received = {m \in future_overlay[n] : m.round = r}
  BY <1>0 DEF RoundsTypeOK, entered, sent, kept_for
<1>3. \A k \in Node : /\ overlay_round[k] \in Int /\ overlay_round'[k] \in Int
                     /\ overlay_round[k] <= overlay_round'[k]
  BY <1>1, <1>2 DEF RoundsTypeOK
<1>4. messages' \subseteq messages \cup {s}
  <2>1. \A k \in Node : future_overlay'[k] \subseteq future_overlay[k]
    BY <1>1 DEF OverlayTypeOK
  <2> QED
    BY <1>1, <2>1 DEF messages
<1>5. \A m \in messages : SentInv(m) /\ m.from \in Node /\ m.round \in Nat
  BY MessageType DEF MessagesInv
<1>6. \A m \in messages' : SentInv(m)'
  <2>1. \A m \in messages : SentInv(m)'
    BY <1>3, <1>5 DEF SentInv
  <2>2. SentInv(s)'
    BY <1>1, <1>2 DEF SentInv, RoundsTypeOK
  <2> QED
    BY <1>4, <2>1, <2>2
<1>7. \A m \in messages : m # s /\ ~SameSend(m, s) /\ ~SameSend(s, m)
  BY <1>2, <1>3, <1>5 DEF SentInv, SameSend
<1>8. \A a, b \in messages' : SameSend(a, b) => a = b
  BY <1>4, <1>7 DEF MessagesInv
<1>9. \A k \in Node \ {n} : \A q \in Nat : passed(k, q)' <=> passed(k, q)
  BY <1>1 DEF passed, RoundsTypeOK
<1>10. \A q \in Nat : /\ passed(n, q) <=> q < r
                      /\ passed(n, q)' <=> q < r \/ (q = r /\ received # {})
  <2>1. overlay_round'[n] = r /\ pc'[n] = IF received # {} THEN "end_round" ELSE "ready"
    BY <1>1 DEF RoundsTypeOK
  <2> QED
    BY <1>1, <1>2, <2>1 DEF passed, RoundsTypeOK
<1>11. ASSUME NEW k \in Node PROVE ComingInv(k)'
  <2>1. ASSUME NEW m \in overlay_net, target(m.from, m.round) = k
        PROVE  ~passed(k, m.round)'
    <3>1. m \in messages /\ m.round \in Nat /\ ~passed(k, m.round)
      BY <1>5, <2>1 DEF messages, MessagesInv, ComingInv
    <3>2. CASE k # n
      BY <1>9, <3>1, <3>2
    <3>3. CASE k = n
      <4>1. m.round = r => received = {}
        <5> SUFFICES ASSUME m.round = r, NEW x \in received PROVE FALSE
          OBVIOUS
        <5>1. x \in future_overlay[n] /\ x.round = r
          BY <1>2
        <5>2. x \in messages /\ target(x.from, x.round) = n /\ x \notin overlay_net
          BY <5>1 DEF messages, MessagesInv, ComingInv
        <5> QED
          BY <2>1, <3>1, <3>3, <5>1, <5>2, OneSender
      <4> QED
        BY <1>10, <3>1, <3>3, <4>1
    <3> QED
      BY <3>2, <3>3
  <2>2. ASSUME target(n, r) = k PROVE ~passed(k, r)'
    <3>1. k # n /\ predecessor(k, r) = n
      BY <1>2, <2>2, Neighbours
    <3>2. ~passed(k, r)
      <4> SUFFICES ASSUME passed(k, r) PROVE FALSE
        OBVIOUS
      <4>1. r \in 0 .. overlay_round[k]
        BY <1>2 DEF passed, RoundsTypeOK
      <4>2. overlay_round[n] >= r
        BY <3>1, <4>1 DEF MessagesInv, AheadInv
      <4> QED
        BY <1>2, <1>3, <4>2
    <3> QED
      BY <1>2, <1>9, <3>1, <3>2
  <2>3. ASSUME NEW m \in future_overlay'[k]
        PROVE  /\ target(m.from, m.round) = k /\ m.round > overlay_round'[k]
               /\ m \notin overlay_net'
    <3>1. m \in future_overlay[k] /\ (k = n => m \notin received)
      BY <1>1, <2>3 DEF OverlayTypeOK
    <3>2. /\ target(m.from, m.round) = k /\ m.round > overlay_round[k]
          /\ m \notin overlay_net
      BY <3>1 DEF MessagesInv, ComingInv
    <3>3. m \in messages /\ m # s /\ m.round \in Nat
      BY <1>5, <1>7, <3>1 DEF messages
    <3>4. k = n => m.round # r
      BY <1>2, <3>1
    <3> QED
      BY <1>1, <1>2, <1>3, <3>2, <3>3, <3>4 DEF RoundsTypeOK
  <2>4. s.from = n /\ s.round = r
    BY <1>2
  <2> QED
    BY <1>1, <2>1, <2>2, <2>3, <2>4 DEF ComingInv
<1>12. ASSUME NEW k \in Node PROVE AheadInv(k)'
  <2>1. ASSUME NEW q \in 0 .. overlay_round'[k], passed(k, q)'
        PROVE  overlay_round'[predecessor(k, q)] >= q
    <3>1. q \in Nat
      BY <1>1, <1>2 DEF RoundsTypeOK
    <3>2. predecessor(k, q) \in Node
      BY <3>1, Neighbours
    <3>3. CASE k # n \/ q < r
      <4>1. q \in 0 .. overlay_round[k] /\ passed(k, q)
        BY <1>1, <1>2, <1>9, <1>10, <2>1, <3>1, <3>3 DEF RoundsTypeOK
      <4>2. overlay_round[predecessor(k, q)] >= q
        BY <4>1 DEF MessagesInv, AheadInv
      <4> QED
        BY <1>3, <3>1, <3>2, <4>2
        DEF RoundsTypeOK
    <3>4. CASE k = n /\ ~(q < r)
      <4>1. q = r /\ received # {}
        BY <1>10, <2>1, <3>1, <3>4
      <4>2. PICK x \in received : TRUE
        BY <4>1
      <4>3. x \in future_overlay[n] /\ x.round = r
        BY <1>2, <4>2
      <4>4. x \in messages /\ target(x.from, x.round) = n
        BY <4>3 DEF messages, MessagesInv, ComingInv
      <4>5. x.from = predecessor(n, r) /\ r <= overlay_round[x.from]
        BY <1>5, <4>3, <4>4, OneSender DEF SentInv
      <4> QED
        BY <1>2, <1>3, <3>2, <3>4, <4>1, <4>5
    <3> QED
      BY <3>3, <3>4
  <2> QED
    BY <2>1 DEF AheadInv
<1> QED
  BY <1>6, <1>8, <1>11, <1>12 DEF MessagesInv

-----------------------------------------------------------------------------
(* An overlay message arrives *)

\* It is handled and ends the round, or kept for a later round: never dropped.
Handles(n, m) ==
  /\ m.round = overlay_round[n]
  /\ HandleBodies(n, m.bodies, protocol_phase[n], waiting_messages[n], agreement[n])
  /\ pc' = [pc EXCEPT ![n] = "end_round"]
  /\ UNCHANGED future_overlay

Keeps(n, m) ==
  /\ m.round > overlay_round[n]
  /\ future_overlay' = [future_overlay EXCEPT ![n] = @ \cup {m}]
  /\ UNCHANGED <<waiting_messages, proxy_values, agreement, pc>>

LEMMA OverlayIsUsed ==
  ASSUME NoFailures, Typed, RoundsInv, NEW n \in Node, OverlayArrives(n), EverybodyAlive'
  PROVE  \E m \in overlay_net :
           /\ target(m.from, m.round) = n /\ overlay_net' = overlay_net \ {m}
           /\ \/ /\ Handles(n, m)
                 /\ protocol_phase[n] \in OverlayPhase /\ ~is_last_round[n]
              \/ Keeps(n, m)
           /\ UNCHANGED alive
<1>1. PICK m \in overlay_net :
        /\ target(m.from, m.round) = n
        /\ overlay_net' = overlay_net \ {m}
        /\ IF m.query = query_num[n] /\ m.round = overlay_round[n]
             THEN HandleOverlay(n, m) ELSE KeepOverlay(n, m)
  BY DEF OverlayArrives
<1>2. m \in messages /\ m.round \in Nat /\ m.query = 0 /\ m.final /\ m.bodies \subseteq Plain
  BY MessageType DEF Typed, RoundsInv, BodiesIn, MessagesInv, messages, SentInv
<1>3. ~passed(n, m.round)
  BY <1>1 DEF RoundsInv, MessagesInv, ComingInv
<1>4. query_num[n] \in {-1, 0} /\ overlay_round[n] \in Nat \cup {-1}
      /\ protocol_phase[n] \in Phase
  BY OneQuery DEF Typed, ControlTypeOK, RoundsTypeOK
<1>5. RoundInv(n) /\ Calm(n) /\ alive \in [Node -> BOOLEAN]
  BY DEF RoundsInv, CalmInv, Typed, ControlTypeOK, RoundsTypeOK
<1>6. CASE m.query = query_num[n] /\ m.round = overlay_round[n]
  <2>1. HandleOverlay(n, m)
    BY <1>1, <1>6
  <2>2. ~is_last_round[n]
    BY <1>3, <1>6 DEF passed
  <2>3. protocol_phase[n] \in OverlayPhase
    BY <1>2, <1>4, <1>5, <1>6, <2>2 DEF RoundInv, Phase, OverlayPhase
  <2>4. PICK b : alive' = [alive EXCEPT ![n] = b]
    BY <2>1 DEF HandleOverlay, HandleBodies
  <2>5. UNCHANGED alive
    <3>1. alive'[n] = TRUE /\ alive[n] = TRUE
      BY <1>5 DEF EverybodyAlive, Calm
    <3> QED
      BY <1>5, <2>4, <3>1
  <2>6. pc' = [pc EXCEPT ![n] = "end_round"]
    <3>1. ends_round({m}, protocol_phase[n]) /\ alive'[n]
      BY <1>2, <1>5, <2>3, <2>5 DEF ends_round, Calm
    <3> QED
      BY <2>1, <3>1 DEF HandleOverlay
  <2>7. Handles(n, m)
    BY <1>6, <2>1, <2>6 DEF HandleOverlay, Handles
  <2> QED
    BY <1>1, <2>2, <2>3, <2>5, <2>7
<1>7. CASE ~(m.query = query_num[n] /\ m.round = overlay_round[n])
  <2>1. m.round > overlay_round[n]
    <3>1. CASE query_num[n] = -1
      BY <1>2, <1>5, <3>1 DEF RoundInv
    <3>2. CASE query_num[n] = 0
      BY <1>2, <1>3, <1>4, <1>7, <3>2 DEF passed
    <3> QED
      BY <1>4, <3>1, <3>2
  <2>2. is_ahead(n, m)
    BY <1>2, <1>4, <2>1 DEF is_ahead
  <2>3. Keeps(n, m) /\ UNCHANGED alive
    BY <1>1, <1>7, <2>1, <2>2 DEF KeepOverlay, Keeps
  <2> QED
    BY <1>1, <2>3
<1> QED
  BY <1>6, <1>7

LEMMA HandlesMessages ==
  ASSUME RoundsTypeOK, OverlayTypeOK, MessagesInv, NEW n \in Node,
         NEW m \in overlay_net, target(m.from, m.round) = n,
         overlay_net' = overlay_net \ {m}, Handles(n, m),
         UNCHANGED <<overlay_round, is_last_round>>
  PROVE  MessagesInv'
<1>1. m \in messages /\ m.round \in Nat /\ m.round = overlay_round[n]
      /\ pc' = [pc EXCEPT ![n] = "end_round"] /\ UNCHANGED future_overlay
  BY MessageType DEF messages, Handles
<1>2. messages' \subseteq messages
  BY <1>1 DEF messages
<1>3. \A k \in Node, q \in Nat :
        passed(k, q)' <=> passed(k, q) \/ (k = n /\ q = m.round)
  BY <1>1 DEF passed, RoundsTypeOK
<1>4. ASSUME NEW k \in Node PROVE ComingInv(k)'
  <2>1. ASSUME NEW x \in overlay_net', target(x.from, x.round) = k
        PROVE  ~passed(k, x.round)'
    <3>1. x \in messages /\ x # m /\ x.round \in Nat /\ ~passed(k, x.round)
      BY <2>1, MessageType DEF messages, MessagesInv, ComingInv
    <3>2. k = n => x.round # m.round
      BY <1>1, <2>1, <3>1, OneSender
    <3> QED
      BY <1>3, <3>1, <3>2
  <2> QED
    BY <1>1, <2>1 DEF MessagesInv, ComingInv
<1>5. ASSUME NEW k \in Node PROVE AheadInv(k)'
  <2>1. ASSUME NEW q \in 0 .. overlay_round[k], passed(k, q)'
        PROVE  overlay_round[predecessor(k, q)] >= q
    <3>1. q \in Nat
      BY DEF RoundsTypeOK
    <3>2. CASE passed(k, q)
      BY <3>2 DEF MessagesInv, AheadInv
    <3>3. CASE k = n /\ q = m.round
      <4>1. m.from = predecessor(k, q)
        BY <1>1, <3>3, OneSender
      <4> QED
        BY <1>1, <3>3, <4>1 DEF MessagesInv, SentInv
    <3> QED
      BY <1>3, <2>1, <3>1, <3>2, <3>3
  <2> QED
    BY <2>1 DEF AheadInv
<1>6. \A x \in messages' : SentInv(x)'
  BY <1>2 DEF MessagesInv, SentInv
<1> QED
  BY <1>2, <1>4, <1>5, <1>6 DEF MessagesInv, SameSend

LEMMA KeepsMessages ==
  ASSUME RoundsTypeOK, OverlayTypeOK, MessagesInv, NEW n \in Node,
         NEW m \in overlay_net, target(m.from, m.round) = n,
         overlay_net' = overlay_net \ {m}, Keeps(n, m),
         UNCHANGED <<overlay_round, is_last_round>>
  PROVE  MessagesInv'
<1>1. /\ m.round > overlay_round[n] /\ UNCHANGED pc
      /\ future_overlay' = [future_overlay EXCEPT ![n] = @ \cup {m}]
  BY DEF Keeps
<1>2. messages' = messages
  <2>1. \A k \in Node : future_overlay'[k] =
          IF k = n THEN future_overlay[n] \cup {m} ELSE future_overlay[k]
    BY <1>1 DEF OverlayTypeOK
  <2>2. UNION {future_overlay'[k] : k \in Node} =
          {m} \cup UNION {future_overlay[k] : k \in Node}
    BY <2>1
  <2> QED
    BY <2>2 DEF messages
<1>3. \A k \in Node, q \in Nat : passed(k, q)' <=> passed(k, q)
  BY <1>1 DEF passed
<1>4. ASSUME NEW k \in Node PROVE ComingInv(k)'
  <2>1. ASSUME NEW x \in overlay_net', target(x.from, x.round) = k
        PROVE  ~passed(k, x.round)'
    BY <1>3, <2>1, MessageType DEF messages, MessagesInv, ComingInv
  <2>2. ASSUME NEW x \in future_overlay'[k]
        PROVE  /\ target(x.from, x.round) = k /\ x.round > overlay_round'[k]
               /\ x \notin overlay_net'
    <3>1. x \in future_overlay[k] \/ (k = n /\ x = m)
      BY <1>1, <2>2 DEF OverlayTypeOK
    <3> QED
      BY <1>1, <3>1 DEF MessagesInv, ComingInv
  <2> QED
    BY <2>1, <2>2 DEF ComingInv
<1>5. ASSUME NEW k \in Node PROVE AheadInv(k)'
  <2>1. \A q \in 0 .. overlay_round[k] : q \in Nat
    BY DEF RoundsTypeOK
  <2> QED
    BY <1>3, <2>1 DEF MessagesInv, AheadInv
<1>6. \A x \in messages' : SentInv(x)'
  BY <1>2 DEF MessagesInv, SentInv
<1> QED
  BY <1>2, <1>4, <1>5, <1>6 DEF MessagesInv, SameSend

-----------------------------------------------------------------------------
(* A round ends *)

InOverlay(n) ==
  /\ query_num[n] = 0 /\ pc[n] = "end_round"
  /\ protocol_phase[n] \in OverlayPhase /\ ~is_last_round[n]

signs(n) == UNION {multicast(n, "sign", v, {n}) : v \in proxy_values[n]}

accepts(n) ==
  UNION {multicast(n, "accept", v, agreement[n].signed_proxy_values[v]) :
           v \in accepted_values(agreement[n])}

EndsShuffle(n) ==
  FinishShuffle(n) /\ EntersRound(n, outgoing_messages[n] \cup signs(n), "AGREEMENT",
                                  agreement[n])
EndsPhase1(n) ==
  FinishPhase1(n) /\ EntersRound(n, outgoing_messages[n] \cup accepts(n), "AGREEMENT",
                                 finish_phase_1(agreement[n]))
Continues(n) ==
  ContinueOverlay(n) /\ EntersRound(n, outgoing_messages[n], protocol_phase[n],
                                    agreement[n])

LEMMA MulticastPlain ==
  ASSUME NoFailures, NEW n \in Node, query_num[n] = 0, NEW kind \in Kind,
         NEW value \in Node, NEW signatures \in SUBSET Node
  PROVE  multicast(n, kind, value, signatures) \in SUBSET Plain
<1>1. query_num[n] \in Query
  BY OneQuery
<1>2. multicast(n, kind, value, signatures) \in SUBSET Body
  BY <1>1, MulticastType
<1>3. \A b \in multicast(n, kind, value, signatures) : b.query = 0
  BY DEF multicast
<1> QED
  BY <1>2, <1>3 DEF Plain

LEMMA ProducedPlain ==
  ASSUME NoFailures, Typed, BodiesIn(Plain), NEW n \in Node, query_num[n] = 0
  PROVE  /\ outgoing_messages[n] \cup signs(n) \in SUBSET Plain
         /\ outgoing_messages[n] \cup accepts(n) \in SUBSET Plain
         /\ outgoing_messages[n] \in SUBSET Plain
<1>1. outgoing_messages[n] \in SUBSET Plain
  BY DEF BodiesIn
<1>2. proxy_values[n] \in SUBSET Node /\ agreement[n] \in AgreementState
  BY DEF Typed, OverlayTypeOK
<1>3. \A v \in proxy_values[n] : multicast(n, "sign", v, {n}) \in SUBSET Plain
  BY <1>2, MulticastPlain DEF Kind
<1>4. ASSUME NEW v \in accepted_values(agreement[n])
      PROVE  multicast(n, "accept", v, agreement[n].signed_proxy_values[v]) \in SUBSET Plain
  <2>1. v \in Node /\ agreement[n].signed_proxy_values[v] \in SUBSET Node
    BY <1>2 DEF accepted_values, AgreementState
  <2> QED
    BY <2>1, MulticastPlain DEF Kind
<1>5. signs(n) \in SUBSET Plain
  BY <1>3 DEF signs
<1>6. accepts(n) \in SUBSET Plain
  BY <1>4 DEF accepts
<1> QED
  BY <1>1, <1>5, <1>6

LEMMA RoundEnds ==
  ASSUME NoFailures, Typed, RoundsInv, NEW n \in Node, EndOverlayRound(n), EverybodyAlive'
  PROVE  /\ InOverlay(n)
         /\ EndsShuffle(n) \/ EndsPhase1(n) \/ Continues(n) \/ FinishAgreement(n)
<1>1. pc[n] = "end_round"
  BY DEF EndOverlayRound, FinishShuffle, FinishPhase1, FinishAgreement, ContinueOverlay
<1>2. InOverlay(n)
  <2>1. query_num[n] \in {-1, 0} /\ RoundInv(n)
    BY OneQuery DEF Typed, ControlTypeOK, RoundsTypeOK, RoundsInv
  <2> QED
    BY <1>1, <2>1 DEF InOverlay, RoundInv, OverlayPhase
<1>3. /\ outgoing_messages[n] \cup signs(n) \in SUBSET Plain
      /\ outgoing_messages[n] \cup accepts(n) \in SUBSET Plain
      /\ outgoing_messages[n] \in SUBSET Plain
  BY <1>2, ProducedPlain DEF RoundsInv, InOverlay
<1>4. query_num[n] = 0 /\ ~is_last_round[n] /\ protocol_phase[n] \in OverlayPhase
      /\ "AGREEMENT" \in OverlayPhase
  BY <1>2 DEF InOverlay, OverlayPhase
<1>5. FinishShuffle(n) => EndsShuffle(n)
  BY <1>3, <1>4, RoundIsEntered DEF FinishShuffle, EndsShuffle, signs
<1>6. FinishPhase1(n) => EndsPhase1(n)
  BY <1>3, <1>4, RoundIsEntered DEF FinishPhase1, EndsPhase1, accepts
<1>7. ContinueOverlay(n) => Continues(n)
  BY <1>3, <1>4, RoundIsEntered DEF ContinueOverlay, Continues
<1> QED
  BY <1>2, <1>5, <1>6, <1>7 DEF EndOverlayRound

-----------------------------------------------------------------------------
(* The bodies on their way stay in a set that forwarding does not leave *)

Closed(L) == \A B \in SUBSET L : forwarded(B) \subseteq L

LEMMA HandleBodiesIn ==
  ASSUME OverlayTypeOK, NEW L, Closed(L), BodiesIn(L), NEW n \in Node,
         NEW bodies \in SUBSET L, NEW waiting \in SUBSET L, NEW phase, NEW agree,
         HandleBodies(n, bodies, phase, waiting, agree)
  PROVE  \A k \in Node : waiting_messages'[k] \subseteq L
<1>1. waiting_messages' = [waiting_messages EXCEPT ![n] = waiting \cup forwarded(bodies)]
  BY DEF HandleBodies
<1>2. waiting \cup forwarded(bodies) \subseteq L
  BY DEF Closed
<1> QED
  BY <1>1, <1>2 DEF BodiesIn, OverlayTypeOK

LEMMA EntersRoundBodies ==
  ASSUME OverlayTypeOK, NEW L, Closed(L), BodiesIn(L), NEW n \in Node,
         NEW outgoing \in SUBSET L, NEW phase, NEW agree,
         EntersRound(n, outgoing, phase, agree)
  PROVE  BodiesIn(L)'
<1> DEFINE bodies == UNION {m.bodies : m \in kept_for(n, entered(n))}
           rest   == pending(n, outgoing) \ ready(n, outgoing)
<1>1. ready(n, outgoing) \subseteq L /\ rest \in SUBSET L
  BY DEF BodiesIn, pending, ready
<1>2. bodies \in SUBSET L
  BY DEF BodiesIn, kept_for
<1>3. HandleBodies(n, bodies, phase, rest, agree)
  BY DEF EntersRound
<1> HIDE DEF bodies, rest
<1>4. \A k \in Node : waiting_messages'[k] \subseteq L
  BY <1>1, <1>2, <1>3, HandleBodiesIn
<1>5. \A m \in overlay_net' : m.bodies \subseteq L
  BY <1>1 DEF EntersRound, BodiesIn, sent
<1>6. \A k \in Node : /\ outgoing_messages'[k] \subseteq outgoing_messages[k]
                      /\ future_overlay'[k] \subseteq future_overlay[k]
  BY DEF EntersRound, OverlayTypeOK
<1> QED
  BY <1>4, <1>5, <1>6 DEF BodiesIn

LEMMA OverlayArrivesBodies ==
  ASSUME OverlayTypeOK, NEW L, Closed(L), BodiesIn(L), NEW n \in Node,
         NEW m \in overlay_net, overlay_net' = overlay_net \ {m},
         Handles(n, m) \/ Keeps(n, m), UNCHANGED outgoing_messages
  PROVE  BodiesIn(L)'
<1>1. m.bodies \in SUBSET L /\ waiting_messages[n] \in SUBSET L
  BY DEF BodiesIn
<1>2. CASE Handles(n, m)
  <2>1. \A k \in Node : waiting_messages'[k] \subseteq L
    BY <1>1, <1>2, HandleBodiesIn DEF Handles
  <2> QED
    BY <1>2, <2>1 DEF Handles, BodiesIn
<1>3. CASE Keeps(n, m)
  <2>1. \A k \in Node : \A x \in future_overlay'[k] : x.bodies \subseteq L
    BY <1>1, <1>3 DEF Keeps, BodiesIn, OverlayTypeOK
  <2> QED
    BY <1>3, <2>1 DEF Keeps, BodiesIn
<1> QED
  BY <1>2, <1>3

LEMMA PlainClosed == Closed(Plain)
<1>1. ASSUME NEW B \in SUBSET Plain, NEW b \in B, b.rest # <<>>
      PROVE  [b EXCEPT !.dest = Head(b.rest), !.rest = Tail(b.rest)] \in Plain
  <2>1. b \in Body /\ b.query = 0 /\ b.rest \in Seq(Node)
    BY <1>1 DEF Plain, Body
  <2>2. Head(b.rest) \in Node /\ Tail(b.rest) \in Seq(Node)
    BY <1>1, <2>1
  <2> DEFINE c == [b EXCEPT !.dest = Head(b.rest), !.rest = Tail(b.rest)]
  <2>3. c \in Body /\ c.query = 0
    BY <2>1, <2>2 DEF Body
  <2> QED
    BY <2>3 DEF Plain
<1> QED
  BY <1>1 DEF Closed, forwarded

-----------------------------------------------------------------------------
(* The phases take up their rounds *)

\* What RoundInv is about has not changed at a node.
SameRound(k) ==
  /\ query_num'[k] = query_num[k] /\ protocol_phase'[k] = protocol_phase[k]
  /\ overlay_round'[k] = overlay_round[k] /\ pc'[k] = pc[k]
  /\ is_last_round'[k] = is_last_round[k]
  /\ agreement_start'[k] = agreement_start[k]
  /\ agreement'[k].phase_1_finished = agreement[k].phase_1_finished

LEMMA SameRoundInv ==
  ASSUME NEW k \in Node, RoundInv(k), SameRound(k)
  PROVE  RoundInv(k)'
BY DEF RoundInv, SameRound

LEMMA HandleBodiesFlag ==
  ASSUME OverlayTypeOK, NEW n \in Node, NEW agree \in AgreementState, NEW bodies,
         NEW phase, NEW waiting, HandleBodies(n, bodies, phase, waiting, agree)
  PROVE  /\ agreement'[n].phase_1_finished = agree.phase_1_finished
         /\ \A k \in Node \ {n} : agreement'[k] = agreement[k]
<1>1. \E new \in {agree, handle_agreement_messages(agree, delivered(bodies))} :
        agreement' = [agreement EXCEPT ![n] = new]
  BY DEF HandleBodies
<1>2. handle_agreement_messages(agree, delivered(bodies)).phase_1_finished =
        agree.phase_1_finished
  BY DEF handle_agreement_messages, AgreementState
<1> QED
  BY <1>1, <1>2 DEF OverlayTypeOK

LEMMA RoundEndsRounds ==
  ASSUME NoFailures, Typed, RoundsInv, NEW n \in Node, EndOverlayRound(n), EverybodyAlive'
  PROVE  \A k \in Node : RoundInv(k)'
<1> USE DEF Typed, ControlTypeOK, RoundsTypeOK
<1>1. InOverlay(n) /\ RoundInv(n) /\ overlay_round[n] \in Nat \cup {-1}
      /\ agreement[n] \in AgreementState
  BY RoundEnds DEF RoundsInv, OverlayTypeOK
<1>2. PhaseRounds \in Nat /\ PhaseRounds >= 1
  BY PhaseIsLong
<1>3. ASSUME NEW outgoing, NEW phase \in OverlayPhase, NEW agree \in AgreementState,
             EntersRound(n, outgoing, phase, agree),
             \A k \in Node \ {n} : agreement_start'[k] = agreement_start[k]
      PROVE  /\ \A k \in Node \ {n} : SameRound(k)
             /\ query_num'[n] = 0 /\ protocol_phase'[n] = phase /\ ~is_last_round'[n]
             /\ overlay_round'[n] = overlay_round[n] + 1
             /\ pc'[n] \in {"end_round", "ready"}
             /\ agreement'[n].phase_1_finished = agree.phase_1_finished
  <2>1. /\ agreement'[n].phase_1_finished = agree.phase_1_finished
        /\ \A k \in Node \ {n} : agreement'[k] = agreement[k]
    BY <1>3, HandleBodiesFlag DEF EntersRound
  <2>2. /\ protocol_phase' = [protocol_phase EXCEPT ![n] = phase]
        /\ overlay_round' = [overlay_round EXCEPT ![n] = entered(n)]
        /\ \E now \in {"end_round", "ready"} : pc' = [pc EXCEPT ![n] = now]
        /\ UNCHANGED <<query_num, is_last_round>>
    BY <1>3 DEF EntersRound
  <2> QED
    BY <1>1, <1>3, <2>1, <2>2 DEF SameRound, InOverlay, entered
<1>4. ASSUME \A k \in Node \ {n} : SameRound(k), RoundInv(n)'
      PROVE  \A k \in Node : RoundInv(k)'
  BY <1>4, SameRoundInv DEF RoundsInv
<1>5. CASE EndsShuffle(n)
  <2>1. agreement_start' = [agreement_start EXCEPT ![n] = overlay_round[n]]
        /\ protocol_phase[n] = "SHUFFLE" /\ overlay_round[n] >= PhaseRounds
    BY <1>5 DEF EndsShuffle, FinishShuffle, ShuffleEnds
  <2>2. overlay_round[n] = PhaseRounds /\ ~agreement[n].phase_1_finished
    BY <1>1, <1>2, <2>1 DEF RoundInv
  <2>3. /\ \A k \in Node \ {n} : SameRound(k)
        /\ query_num'[n] = 0 /\ protocol_phase'[n] = "AGREEMENT" /\ ~is_last_round'[n]
        /\ overlay_round'[n] = overlay_round[n] + 1
        /\ pc'[n] \in {"end_round", "ready"}
        /\ agreement'[n].phase_1_finished = agreement[n].phase_1_finished
    BY <1>1, <1>3, <1>5, <2>1 DEF EndsShuffle, OverlayPhase
  <2>4. RoundInv(n)'
    BY <1>2, <2>1, <2>2, <2>3 DEF RoundInv, OverlayPhase
  <2> QED
    BY <1>4, <2>3, <2>4
<1>6. CASE EndsPhase1(n)
  <2>1. /\ UNCHANGED agreement_start /\ protocol_phase[n] = "AGREEMENT"
        /\ overlay_round[n] >= agreement_start[n] + PhaseRounds
        /\ ~agreement[n].phase_1_finished
    BY <1>6 DEF EndsPhase1, FinishPhase1, Phase1Ends
  <2>2. agreement_start[n] = PhaseRounds /\ overlay_round[n] = 2 * PhaseRounds
    BY <1>1, <1>2, <2>1 DEF RoundInv
  <2>3. finish_phase_1(agreement[n]) \in AgreementState
        /\ finish_phase_1(agreement[n]).phase_1_finished
    BY <1>1 DEF finish_phase_1, AgreementState
  <2>4. /\ \A k \in Node \ {n} : SameRound(k)
        /\ query_num'[n] = 0 /\ protocol_phase'[n] = "AGREEMENT" /\ ~is_last_round'[n]
        /\ overlay_round'[n] = overlay_round[n] + 1
        /\ pc'[n] \in {"end_round", "ready"}
        /\ agreement'[n].phase_1_finished
    BY <1>3, <1>6, <2>1, <2>3 DEF EndsPhase1, OverlayPhase
  <2>5. RoundInv(n)'
    BY <1>2, <2>1, <2>2, <2>4 DEF RoundInv, OverlayPhase
  <2> QED
    BY <1>4, <2>4, <2>5
<1>7. CASE Continues(n)
  <2>1. UNCHANGED agreement_start /\ ~ShuffleEnds(n) /\ ~Phase1Ends(n)
    BY <1>7 DEF Continues, ContinueOverlay
  <2>2. protocol_phase[n] \in OverlayPhase
    BY <1>1 DEF InOverlay
  <2>3. /\ \A k \in Node \ {n} : SameRound(k)
        /\ query_num'[n] = 0 /\ protocol_phase'[n] = protocol_phase[n]
        /\ ~is_last_round'[n] /\ overlay_round'[n] = overlay_round[n] + 1
        /\ pc'[n] \in {"end_round", "ready"}
        /\ agreement'[n].phase_1_finished = agreement[n].phase_1_finished
    BY <1>1, <1>3, <1>7, <2>1, <2>2 DEF Continues
  <2>4. protocol_phase[n] = "SHUFFLE" => overlay_round[n] < PhaseRounds
    BY <1>1, <1>2, <2>1 DEF ShuffleEnds
  <2>5. protocol_phase[n] = "AGREEMENT" /\ ~agreement[n].phase_1_finished =>
          overlay_round[n] < 2 * PhaseRounds
    BY <1>1, <1>2, <2>1 DEF Phase1Ends, RoundInv
  <2>6. protocol_phase[n] \in {"SHUFFLE", "AGREEMENT"}
    BY <2>2 DEF OverlayPhase
  <2>7. RoundInv(n)'
    BY <1>1, <1>2, <2>1, <2>3, <2>4, <2>5, <2>6 DEF RoundInv, OverlayPhase
  <2> QED
    BY <1>4, <2>3, <2>7
<1>8. CASE FinishAgreement(n)
  <2>1. /\ \E phase \in {"IDLE", "AGGREGATE"} :
             protocol_phase' = [protocol_phase EXCEPT ![n] = phase]
        /\ \E now \in {"drain", "ready"} : pc' = [pc EXCEPT ![n] = now]
        /\ is_last_round' = [is_last_round EXCEPT ![n] = TRUE]
        /\ UNCHANGED <<query_num, overlay_round, agreement, agreement_start>>
    BY <1>8 DEF FinishAgreement, SendAggregateIfDone
  <2>2. protocol_phase[n] = "AGREEMENT" /\ agreement[n].phase_1_finished
    BY <1>8 DEF FinishAgreement, AgreementEnds
  <2>3. overlay_round[n] > 2 * PhaseRounds
    BY <1>1, <2>2 DEF RoundInv
  <2>4. RoundInv(n)'
    BY <1>1, <1>2, <2>1, <2>3 DEF RoundInv, InOverlay, OverlayPhase
  <2>5. \A k \in Node \ {n} : SameRound(k)
    BY <2>1 DEF SameRound
  <2> QED
    BY <1>4, <2>4, <2>5
<1> QED
  BY <1>5, <1>6, <1>7, <1>8, RoundEnds

-----------------------------------------------------------------------------
(* The invariant, step by step *)

LEMMA RoundEndsInv ==
  ASSUME NoFailures, Typed, RoundsInv, NEW n \in Node, EndOverlayRound(n), EverybodyAlive'
  PROVE  RoundsInv'
<1> USE DEF Typed, ControlTypeOK, RoundsTypeOK
<1>1. InOverlay(n)
      /\ (EndsShuffle(n) \/ EndsPhase1(n) \/ Continues(n) \/ FinishAgreement(n))
  BY RoundEnds
<1>2. \A k \in Node : RoundInv(k)'
  BY RoundEndsRounds
<1>3. CASE EndsShuffle(n) \/ EndsPhase1(n) \/ Continues(n)
  <2>1. \E outgoing \in SUBSET Plain : \E phase, agree :
          EntersRound(n, outgoing, phase, agree)
    BY <1>1, <1>3, ProducedPlain
    DEF EndsShuffle, EndsPhase1, Continues, InOverlay, RoundsInv
  <2>2. PICK outgoing \in SUBSET Plain :
          \E phase, agree : EntersRound(n, outgoing, phase, agree)
    BY <2>1
  <2>3. MessagesInv'
    BY <1>1, <2>2, EntersRoundMessages DEF RoundsInv, InOverlay
  <2>4. BodiesIn(Plain)'
    BY <2>2, PlainClosed, EntersRoundBodies DEF RoundsInv
  <2>5. CalmInv'
    BY <2>2 DEF EntersRound, RoundsInv, CalmInv, Calm
  <2>6. QueryInv'
    BY <2>2 DEF EntersRound, RoundsInv, QueryInv, QueueInv
  <2> QED
    BY <1>2, <2>3, <2>4, <2>5, <2>6 DEF RoundsInv
<1>4. CASE FinishAgreement(n)
  <2>1. /\ \E now \in {"drain", "ready"} : pc' = [pc EXCEPT ![n] = now]
        /\ is_last_round' = [is_last_round EXCEPT ![n] = TRUE]
        /\ UNCHANGED <<query_num, overlay_round, ping_response, failed_meter_ids,
                       timeout_committed, waiting_messages, outgoing_messages,
                       future_overlay, overlay_net, ping_net, signature_requests,
                       from_server, alive, server_query>>
    BY <1>4 DEF FinishAgreement, messageVars, serverVars
  <2>2. \A k \in Node : \A r \in Nat : passed(k, r)' <=> passed(k, r)
    BY <1>1, <2>1 DEF passed, InOverlay
  <2>3. MessagesInv'
    BY <2>1, <2>2, MessagesKept DEF RoundsInv
  <2>4. BodiesIn(Plain)' /\ CalmInv' /\ QueryInv'
    BY <2>1 DEF RoundsInv, BodiesIn, CalmInv, Calm, QueryInv, QueueInv
  <2> QED
    BY <1>2, <2>3, <2>4 DEF RoundsInv
<1> QED
  BY <1>1, <1>3, <1>4

LEMMA OverlayArrivesInv ==
  ASSUME NoFailures, Typed, RoundsInv, NEW n \in Node, OverlayArrives(n), EverybodyAlive'
  PROVE  RoundsInv'
<1> USE DEF Typed, ControlTypeOK, RoundsTypeOK
<1>1. PICK m \in overlay_net :
        /\ target(m.from, m.round) = n /\ overlay_net' = overlay_net \ {m}
        /\ \/ /\ Handles(n, m)
              /\ protocol_phase[n] \in OverlayPhase /\ ~is_last_round[n]
           \/ Keeps(n, m)
        /\ UNCHANGED alive
  BY OverlayIsUsed
<1>2. UNCHANGED <<protocol_phase, query_num, overlay_round, is_last_round,
                  ping_response, failed_meter_ids, outgoing_messages,
                  agreement_start, timeout_committed, ping_net,
                  signature_requests, from_server, server_query>>
  BY DEF OverlayArrives, roundVars, serverVars
<1>3. MessagesInv'
  BY <1>1, <1>2, HandlesMessages, KeepsMessages DEF RoundsInv
<1>4. BodiesIn(Plain)'
  BY <1>1, <1>2, PlainClosed, OverlayArrivesBodies DEF RoundsInv
<1>5. CalmInv' /\ QueryInv'
  BY <1>1, <1>2 DEF RoundsInv, CalmInv, Calm, QueryInv, QueueInv
<1>6. ASSUME NEW k \in Node PROVE RoundInv(k)'
  <2>1. CASE Keeps(n, m) \/ (Handles(n, m) /\ k # n)
    <3>1. agreement'[k] = agreement[k] /\ pc'[k] = pc[k]
      BY <2>1, HandleBodiesFlag DEF Keeps, Handles, OverlayTypeOK
    <3> QED
      BY <1>2, <3>1, SameRoundInv DEF SameRound, RoundsInv
  <2>2. CASE Handles(n, m) /\ k = n
    <3>1. agreement'[n].phase_1_finished = agreement[n].phase_1_finished
          /\ pc'[n] = "end_round"
      BY <2>2, HandleBodiesFlag DEF Handles, OverlayTypeOK
    <3>2. overlay_round[n] \in Nat
      BY <1>1, <2>2, MessageType DEF Handles, messages
    <3>3. CASE protocol_phase[n] \in OverlayPhase /\ ~is_last_round[n]
      BY <1>2, <2>2, <3>1, <3>2, <3>3 DEF RoundsInv, RoundInv, OverlayPhase
    <3>4. CASE Keeps(n, m)
      BY <2>2, <3>2, <3>4 DEF Keeps, Handles
    <3> QED
      BY <1>1, <3>3, <3>4
  <2> QED
    BY <1>1, <2>1, <2>2
<1> QED
  BY <1>3, <1>4, <1>5, <1>6 DEF RoundsInv

\* The tree sums up when the overlay is done.
LEMMA AggregationInvStep ==
  ASSUME NoFailures, Typed, RoundsInv, NEW n \in Node,
         AggregationArrives(n) \/ DrainAggregation(n)
  PROVE  RoundsInv'
<1> USE DEF Typed, ControlTypeOK, RoundsTypeOK
<1>1. UNCHANGED <<query_num, overlay_round, is_last_round, ping_response,
                  failed_meter_ids, waiting_messages, outgoing_messages,
                  future_overlay, agreement, agreement_start, timeout_committed,
                  overlay_net, ping_net, signature_requests, from_server, alive,
                  server_query>>
  BY DEF AggregationArrives, DrainAggregation, roundVars, messageVars, valueVars,
         timerVars, serverVars
<1>2. \/ UNCHANGED protocol_phase
      \/ /\ is_last_round[n] /\ query_num[n] # -1
         /\ \E phase \in {"IDLE", "AGGREGATE"} :
              protocol_phase' = [protocol_phase EXCEPT ![n] = phase]
  <2>1. RoundInv(n)
    BY DEF RoundsInv
  <2>2. CASE pc[n] = "drain" \/ protocol_phase[n] = "AGGREGATE"
    <3>1. is_last_round[n] /\ query_num[n] # -1
      BY <2>1, <2>2 DEF RoundInv
    <3>2. \/ UNCHANGED protocol_phase
          \/ \E phase \in {"IDLE", "AGGREGATE"} :
              protocol_phase' = [protocol_phase EXCEPT ![n] = phase]
      BY DEF AggregationArrives, DrainAggregation, HandleAggregation,
             SendAggregateIfDone
    <3> QED
      BY <3>1, <3>2
  <2>3. CASE pc[n] # "drain" /\ protocol_phase[n] # "AGGREGATE"
    BY <2>3 DEF AggregationArrives, DrainAggregation
  <2> QED
    BY <2>2, <2>3
<1>3. \/ UNCHANGED pc
      \/ pc[n] = "drain" /\ \E now \in {"drain", "ready"} : pc' = [pc EXCEPT ![n] = now]
  BY DEF AggregationArrives, DrainAggregation
<1>4. \A k \in Node : \A r \in Nat : passed(k, r)' <=> passed(k, r)
  BY <1>1, <1>3 DEF passed
<1>5. MessagesInv'
  BY <1>1, <1>4, MessagesKept DEF RoundsInv
<1>6. BodiesIn(Plain)' /\ CalmInv' /\ QueryInv'
  BY <1>1 DEF RoundsInv, BodiesIn, CalmInv, Calm, QueryInv, QueueInv
<1>7. \A k \in Node : RoundInv(k)'
  BY <1>1, <1>2, <1>3 DEF RoundsInv, RoundInv, OverlayPhase
<1> QED
  BY <1>5, <1>6, <1>7 DEF RoundsInv

\* A query request finds a node that has not begun, and starts the query.
\* A node starts the query once, and finds the server's queue empty after it.
LEMMA QueryIsFirst ==
  ASSUME NoFailures, Typed, RoundsInv, NEW n \in Node, QueryRequestArrives(n)
  PROVE  /\ query_num[n] = -1 /\ from_server[n] # <<>>
         /\ StartQuery(n, 0) /\ from_server' = [from_server EXCEPT ![n] = <<>>]
<1> DEFINE Q == from_server[n]
<1>1. /\ Q # <<>> /\ Head(Q).type = "query" /\ StartQuery(n, Head(Q).query)
      /\ from_server' = [from_server EXCEPT ![n] = Tail(@)]
  BY DEF QueryRequestArrives, NoFailures
<1>2. Q \in Seq(ServerMessage) /\ QueueInv(n)
  BY DEF Typed, ControlTypeOK, ServerTypeOK, RoundsInv, QueryInv
<1>3. query_num[n] = -1
  <2>1. query_num[n] # -1 => Head(Q).type = "signature"
    <3>1. Head(Q) = Q[1] /\ 1 \in 1 .. Len(Q)
      BY <1>1, <1>2, TailOfQueue
    <3>2. query_num[n] # -1 => Q[1] = [type |-> "signature", query |-> 0]
      BY <1>2, <3>1 DEF QueueInv
    <3> HIDE DEF Q
    <3> QED
      BY <3>1, <3>2
  <2> QED
    BY <1>1, <2>1
<1>4. Q = <<[type |-> "query", query |-> 0]>>
  BY <1>1, <1>2, <1>3 DEF QueueInv
<1>5. Head(Q).query = 0 /\ Tail(Q) = <<>>
  BY <1>4
<1> QED
  BY <1>1, <1>3, <1>5

LEMMA QueryRequestInv ==
  ASSUME NoFailures, Typed, RoundsInv, NEW n \in Node, QueryRequestArrives(n)
  PROVE  RoundsInv'
<1> USE DEF Typed, ControlTypeOK, RoundsTypeOK
<1>1. UNCHANGED <<messageVars, pc, timeout_committed, overlay_net, ping_net, alive,
                  server_query>>
  BY DEF QueryRequestArrives, serverVars
<1>2. RoundInv(n)
  BY DEF RoundsInv
<1>3. query_num[n] = -1 /\ from_server[n] # <<>>
  BY QueryIsFirst
<1>4. /\ protocol_phase' = [protocol_phase EXCEPT ![n] = "SETUP"]
      /\ query_num' = [query_num EXCEPT ![n] = 0]
      /\ overlay_round' = [overlay_round EXCEPT ![n] = -1]
      /\ is_last_round' = [is_last_round EXCEPT ![n] = FALSE]
      /\ ping_response' = [ping_response EXCEPT ![n] = FALSE]
      /\ failed_meter_ids' = [failed_meter_ids EXCEPT ![n] = {}]
      /\ agreement' = [agreement EXCEPT ![n] = NewAgreement]
      /\ from_server' = [from_server EXCEPT ![n] = <<>>]
      /\ signature_requests' = signature_requests \cup {[from |-> n, query |-> 0]}
  BY QueryIsFirst DEF StartQuery
<1>5. overlay_round[n] = -1 /\ ~is_last_round[n] /\ pc[n] = "ready"
  BY <1>2, <1>3 DEF RoundInv
<1>6. UNCHANGED <<overlay_round, is_last_round>>
  BY <1>4, <1>5
<1>7. UNCHANGED <<waiting_messages, outgoing_messages, future_overlay, pc,
                  timeout_committed, overlay_net, ping_net, alive, server_query>>
  BY <1>1 DEF messageVars
<1>8. MessagesInv'
  BY <1>6, <1>7, MessagesKept DEF RoundsInv, passed
<1>9. BodiesIn(Plain)' /\ CalmInv'
  BY <1>4, <1>7 DEF RoundsInv, BodiesIn, CalmInv, Calm, PingTypeOK
<1>10. QueryInv'
  <2>1. server_query # -1
    BY <1>3 DEF RoundsInv, QueryInv
  <2>2. \A k \in Node : QueueInv(k)'
    <3>1. QueueInv(n)'
      <4>1. query_num'[n] = 0 /\ from_server'[n] = <<>> /\ Len(<<>>) = 0
        BY <1>4 DEF ServerTypeOK
      <4> QED
        BY <4>1 DEF QueueInv
    <3>2. \A k \in Node \ {n} : QueueInv(k)'
      BY <1>4 DEF QueueInv, RoundsInv, QueryInv, ServerTypeOK
    <3> QED
      BY <3>1, <3>2
  <2>3. \A r \in signature_requests' : r.query = 0 /\ query_num'[r.from] = 0
    BY <1>4 DEF RoundsInv, QueryInv, ServerTypeOK
  <2> QED
    BY <1>7, <2>1, <2>2, <2>3 DEF QueryInv
<1>11. ASSUME NEW k \in Node PROVE RoundInv(k)'
  <2>1. UNCHANGED agreement_start /\ \A j \in Node \ {n} : agreement'[j] = agreement[j]
    BY <1>1 DEF QueryRequestArrives, StartQuery, OverlayTypeOK
  <2>2. CASE k # n
    BY <1>4, <1>7, <2>1, <2>2, SameRoundInv DEF SameRound, RoundsInv
  <2>3. CASE k = n
    <3>1. ~agreement'[n].phase_1_finished
      BY <1>4 DEF OverlayTypeOK, NewAgreement
    <3> QED
      BY <1>4, <1>5, <1>7, <2>3, <3>1 DEF RoundInv, OverlayPhase
  <2> QED
    BY <2>2, <2>3
<1> QED
  BY <1>8, <1>9, <1>10, <1>11 DEF RoundsInv

\* A signature finds its node in SETUP and starts the overlay.
LEMMA SignatureIsForQuery ==
  ASSUME NoFailures, Typed, RoundsInv, NEW n \in Node, SignatureResponseArrives(n)
  PROVE  /\ protocol_phase[n] = "SETUP" /\ query_num[n] = 0
         /\ overlay_round[n] = -1 /\ pc[n] = "ready" /\ ~is_last_round[n]
         /\ protocol_phase' = [protocol_phase EXCEPT ![n] = "SHUFFLE"]
         /\ outgoing_messages' = [outgoing_messages EXCEPT
              ![n] = @ \cup multicast(n, "contribution", n, {})]
         /\ pc' = [pc EXCEPT ![n] = "end_round"]
         /\ UNCHANGED alive
<1> USE DEF Typed, ControlTypeOK, RoundsTypeOK
<1> DEFINE Q == from_server[n]
<1>1. Q \in Seq(ServerMessage) /\ Q # <<>> /\ QueueInv(n) /\ RoundInv(n)
      /\ Head(Q).type = "signature"
  BY DEF ServerTypeOK, RoundsInv, QueryInv, SignatureResponseArrives
<1>2. protocol_phase[n] = "SETUP"
  BY SignatureFindsSetup, OneQuery
<1>3. query_num[n] = 0
  BY <1>1, <1>2, OneQuery DEF RoundInv, NoFailures
<1>4. Head(Q).query = 0
  <2>1. Head(Q) = Q[1] /\ 1 \in 1 .. Len(Q)
    BY <1>1, TailOfQueue
  <2>2. Q[1] = [type |-> "signature", query |-> 0]
    BY <1>1, <1>3, <2>1 DEF QueueInv
  <2> HIDE DEF Q
  <2> QED
    BY <2>1, <2>2
<1>5. unblinds(n, Head(from_server[n]))
  BY <1>3, <1>4 DEF unblinds
<1> QED
  BY <1>1, <1>2, <1>3, <1>5 DEF RoundInv, SignatureResponseArrives

LEMMA SignatureResponseInv ==
  ASSUME NoFailures, Typed, RoundsInv, NEW n \in Node, SignatureResponseArrives(n)
  PROVE  RoundsInv'
<1> USE DEF Typed, ControlTypeOK, RoundsTypeOK
<1>1. /\ query_num[n] = 0 /\ overlay_round[n] = -1 /\ ~is_last_round[n]
      /\ protocol_phase' = [protocol_phase EXCEPT ![n] = "SHUFFLE"]
      /\ outgoing_messages' = [outgoing_messages EXCEPT
           ![n] = @ \cup multicast(n, "contribution", n, {})]
      /\ pc' = [pc EXCEPT ![n] = "end_round"]
      /\ UNCHANGED alive
  BY SignatureIsForQuery
<1>2. /\ from_server' = [from_server EXCEPT ![n] = Tail(@)]
      /\ from_server[n] # <<>> /\ Head(from_server[n]).type = "signature"
      /\ UNCHANGED <<query_num, overlay_round, is_last_round, ping_response,
                     failed_meter_ids, waiting_messages, future_overlay, agreement,
                     agreement_start, timeout_committed, overlay_net, ping_net,
                     signature_requests, server_query>>
  BY DEF SignatureResponseArrives, roundVars, valueVars, timerVars, serverVars
<1>3. \A k \in Node : \A r \in Nat : passed(k, r)' <=> passed(k, r)
  BY <1>1, <1>2 DEF passed
<1>4. MessagesInv'
  BY <1>2, <1>3, MessagesKept DEF RoundsInv
<1>5. BodiesIn(Plain)'
  <2>1. multicast(n, "contribution", n, {}) \in SUBSET Plain
    BY <1>1, MulticastPlain DEF Kind
  <2> QED
    BY <1>1, <1>2, <2>1 DEF RoundsInv, BodiesIn, OverlayTypeOK
<1>6. CalmInv'
  BY <1>1, <1>2 DEF RoundsInv, CalmInv, Calm
<1>7. QueryInv'
  <2>1. QueueInv(n)'
    <3>1. from_server[n] \in Seq(ServerMessage) /\ QueueInv(n)
      BY DEF ServerTypeOK, RoundsInv, QueryInv
    <3>2. /\ Len(Tail(from_server[n])) = Len(from_server[n]) - 1
          /\ Len(from_server[n]) \in Nat
          /\ \A i \in 1 .. Len(from_server[n]) - 1 :
               Tail(from_server[n])[i] = from_server[n][i + 1]
      BY <1>2, <3>1, TailOfQueue
    <3>3. \A i \in 1 .. Len(from_server[n]) - 1 : i + 1 \in 1 .. Len(from_server[n])
      BY <3>2
    <3>4. from_server'[n] = Tail(from_server[n]) /\ query_num'[n] = 0
      BY <1>1, <1>2 DEF ServerTypeOK
    <3> QED
      BY <1>1, <3>1, <3>2, <3>3, <3>4 DEF QueueInv
  <2>2. \A k \in Node \ {n} : QueueInv(k)'
    BY <1>2 DEF QueueInv, RoundsInv, QueryInv, ServerTypeOK
  <2>3. server_query # -1
    BY <1>1 DEF RoundsInv, QueryInv
  <2> QED
    BY <1>2, <2>1, <2>2, <2>3 DEF RoundsInv, QueryInv
<1>8. ASSUME NEW k \in Node PROVE RoundInv(k)'
  <2>1. CASE k # n
    BY <1>1, <1>2, <2>1, SameRoundInv DEF SameRound, RoundsInv
  <2>2. CASE k = n
    <3>1. SignatureResponseArrives(n) /\ protocol_phase[n] = "SETUP"
      BY SignatureIsForQuery
    <3>2. ~agreement[n].phase_1_finished
      BY <3>1 DEF RoundsInv, RoundInv
    <3>3. PhaseRounds \in Nat
      BY PhaseIsLong
    <3> QED
      BY <1>1, <1>2, <2>2, <3>2, <3>3 DEF RoundInv, OverlayPhase
  <2> QED
    BY <2>1, <2>2
<1> QED
  BY <1>4, <1>5, <1>6, <1>7, <1>8 DEF RoundsInv

LEMMA ServerInv ==
  ASSUME NoFailures, Typed, RoundsInv, Server
  PROVE  RoundsInv'
<1> USE DEF Typed, ControlTypeOK, RoundsTypeOK
<1>1. UNCHANGED <<protocol_phase, query_num, overlay_round, is_last_round,
                  ping_response, failed_meter_ids, waiting_messages,
                  outgoing_messages, future_overlay, agreement, agreement_start, pc,
                  timeout_committed, overlay_net, ping_net, alive>>
  BY DEF Server, ServerStartsQuery, ServerSigns, clientVars, roundVars, messageVars,
         valueVars, timerVars
<1>2. MessagesInv'
  BY <1>1, MessagesKept DEF RoundsInv, passed
<1>3. BodiesIn(Plain)' /\ CalmInv' /\ \A k \in Node : RoundInv(k)'
  BY <1>1 DEF RoundsInv, BodiesIn, CalmInv, Calm, RoundInv
<1>4. QueryInv'
  <2>1. CASE ServerStartsQuery
    <3>1. server_query = -1 /\ server_query' = 0
      BY <2>1, OneQuery DEF ServerStartsQuery, NoFailures, ServerTypeOK
    <3>2. \A k \in Node : query_num[k] = -1 /\ from_server[k] = <<>>
      BY <3>1 DEF RoundsInv, QueryInv
    <3>3. /\ from_server' = [k \in Node |->
               Append(from_server[k], [type |-> "query", query |-> 0])]
          /\ UNCHANGED signature_requests
      BY <2>1, <3>1 DEF ServerStartsQuery
    <3>4. \A k \in Node : from_server'[k] = <<[type |-> "query", query |-> 0]>>
      <4>1. ASSUME NEW x PROVE Append(<<>>, x) = <<x>>
        OBVIOUS
      <4>2. \A k \in Node : from_server'[k] = Append(<<>>, [type |-> "query", query |-> 0])
        BY <3>2, <3>3
      <4> QED
        BY <4>1, <4>2
    <3> QED
      BY <1>1, <3>1, <3>2, <3>3, <3>4 DEF RoundsInv, QueryInv, QueueInv
  <2>2. CASE ServerSigns
    <3>1. PICK request \in signature_requests :
            /\ signature_requests' = signature_requests \ {request}
            /\ \/ UNCHANGED from_server
               \/ from_server' = [from_server EXCEPT ![request.from] =
                    Append(@, [type |-> "signature", query |-> request.query])]
            /\ UNCHANGED server_query
      BY <2>2 DEF ServerSigns
    <3>2. /\ request.from \in Node /\ request.query = 0
          /\ query_num[request.from] = 0
      BY DEF ServerTypeOK, RoundsInv, QueryInv
    <3>3. CASE UNCHANGED from_server
      BY <1>1, <3>1, <3>3 DEF RoundsInv, QueryInv, QueueInv
    <3>4. CASE from_server' = [from_server EXCEPT ![request.from] =
                 Append(@, [type |-> "signature", query |-> request.query])]
      <4> DEFINE n == request.from
                 x == [type |-> "signature", query |-> 0]
      <4>1. from_server[n] \in Seq(ServerMessage) /\ x \in ServerMessage
        BY <3>2, OneQuery DEF ServerTypeOK, ServerMessage, NoFailures
      <4>2. from_server'[n] = Append(from_server[n], x)
        BY <3>2, <3>4 DEF ServerTypeOK
      <4> HIDE DEF x
      <4>3. /\ Len(from_server[n]) \in Nat
            /\ Len(from_server'[n]) = Len(from_server[n]) + 1
            /\ from_server'[n][Len(from_server[n]) + 1] = x
            /\ \A i \in 1 .. Len(from_server[n]) : from_server'[n][i] = from_server[n][i]
        BY <4>1, <4>2, AppendToQueue
      <4>4. \A i \in 1 .. Len(from_server[n]) : from_server[n][i] = x
        <5>1. QueueInv(n) /\ query_num[n] # -1
          BY <3>2 DEF RoundsInv, QueryInv
        <5> QED
          BY <5>1 DEF QueueInv, x
      <4>5. ASSUME NEW i \in 1 .. Len(from_server'[n]) PROVE from_server'[n][i] = x
        <5>1. i \in 1 .. Len(from_server[n]) \/ i = Len(from_server[n]) + 1
          BY <4>3
        <5>2. CASE i \in 1 .. Len(from_server[n])
          <6>1. from_server'[n][i] = from_server[n][i]
            BY <4>3, <5>2
          <6>2. from_server[n][i] = x
            BY <4>4, <5>2
          <6> QED
            BY <6>1, <6>2
        <5>3. CASE i = Len(from_server[n]) + 1
          BY <4>3, <5>3, Zenon
        <5> QED
          BY <5>1, <5>2, <5>3
      <4>6. QueueInv(n)'
        BY <1>1, <3>2, <4>5 DEF QueueInv, x
      <4>7. \A k \in Node \ {n} : QueueInv(k)'
        BY <1>1, <3>2, <3>4 DEF QueueInv, RoundsInv, QueryInv, ServerTypeOK
      <4>8. server_query # -1
        BY <3>2 DEF RoundsInv, QueryInv
      <4> QED
        BY <1>1, <3>1, <4>6, <4>7, <4>8 DEF RoundsInv, QueryInv
    <3> QED
      BY <3>1, <3>3, <3>4
  <2> QED
    BY <2>1, <2>2 DEF Server
<1> QED
  BY <1>2, <1>3, <1>4 DEF RoundsInv

\* A process that has ended does not come back.
LEMMA AliveBefore ==
  ASSUME Typed, [Next]_vars, EverybodyAlive' PROVE EverybodyAlive
<1> SUFFICES ASSUME NEW k \in Node, alive'[k] PROVE alive[k]
  BY DEF EverybodyAlive
<1> USE DEF Typed, ControlTypeOK, RoundsTypeOK
<1>1. CASE UNCHANGED alive
  BY <1>1
<1>2. ASSUME NEW n \in Node, alive[n], NEW b, alive' = [alive EXCEPT ![n] = b]
      PROVE  alive[k]
  BY <1>2
<1>3. ASSUME NEW n \in Node, OverlayArrives(n) PROVE alive[k]
  BY <1>1, <1>2, <1>3 DEF OverlayArrives, HandleOverlay, HandleBodies, KeepOverlay, Starts
<1>4. ASSUME NEW n \in Node, EndOverlayRound(n) PROVE alive[k]
  BY <1>1, <1>2, <1>4
  DEF EndOverlayRound, FinishShuffle, FinishPhase1, FinishAgreement, ContinueOverlay,
      CommonEndOverlayRound, HandleBodies
<1>5. ASSUME NEW n \in Node, SignatureResponseArrives(n) PROVE alive[k]
  BY <1>1, <1>2, <1>5 DEF SignatureResponseArrives, Starts
<1>6. ASSUME NEW n \in Node,
             \/ QueryRequestArrives(n) \/ AggregationArrives(n) \/ DrainAggregation(n)
             \/ PingArrives(n) \/ Timer(n)
      PROVE  alive[k]
  BY <1>1, <1>6
  DEF QueryRequestArrives, AggregationArrives, DrainAggregation, PingArrives, Timer,
      TimerExpires, RoundTimeout
<1>7. ASSUME NEW n \in Node, Crash(n) PROVE alive[k]
  BY <1>2, <1>7 DEF Crash, Starts
<1>8. CASE Server \/ UNCHANGED vars
  BY <1>1, <1>8 DEF Server, ServerStartsQuery, ServerSigns, vars
<1> QED
  BY <1>3, <1>4, <1>5, <1>6, <1>7, <1>8 DEF Next, Handler

LEMMA InitRounds == Init => RoundsInv
<1> SUFFICES ASSUME Init PROVE RoundsInv
  OBVIOUS
<1>1. CalmInv /\ BodiesIn(Plain) /\ QueryInv
  BY DEF Init, CalmInv, Calm, BodiesIn, QueryInv, QueueInv
<1>2. \A n \in Node : RoundInv(n)
  BY DEF Init, RoundInv, OverlayPhase, NewAgreement
<1>3. messages = {}
  BY DEF Init, messages
<1>4. \A n \in Node : ComingInv(n) /\ AheadInv(n)
  BY DEF Init, ComingInv, AheadInv
<1> QED
  BY <1>1, <1>2, <1>3, <1>4 DEF RoundsInv, MessagesInv

LEMMA NextRounds ==
  ASSUME NoFailures, Typed, RoundsInv, [Next]_vars, EverybodyAlive' PROVE RoundsInv'
<1>1. CASE UNCHANGED vars
  BY <1>1 DEF vars, roundVars, messageVars, valueVars, timerVars, serverVars,
     RoundsInv, CalmInv, Calm, BodiesIn, QueryInv, QueueInv, RoundInv, MessagesInv,
     messages, SentInv, ComingInv, AheadInv, passed
<1>2. ASSUME NEW n \in Node, Handler(n) PROVE RoundsInv'
  BY <1>2, QueryRequestInv, SignatureResponseInv, OverlayArrivesInv,
     AggregationInvStep, RoundEndsInv DEF Handler
<1>3. \A n \in Node : ~PingArrives(n) /\ ~Timer(n) /\ ~Crash(n)
  BY NobodyFails DEF RoundsInv
<1> QED
  BY <1>1, <1>2, <1>3, ServerInv DEF Next

\* In a query in which nobody fails, the nodes move through the rounds
\* together, one final message from each in each round, until one of them ends of
\* a message it relays.
THEOREM RoundsInvariant ==
  ASSUME NoFailures PROVE Spec => [](Typed /\ (EverybodyAlive => RoundsInv))
<1>1. Typed /\ (EverybodyAlive => RoundsInv) /\ [Next]_vars => (EverybodyAlive => RoundsInv)'
  BY AliveBefore, NextRounds
<1>2. ControlTypeOK /\ OverlayTypeOK /\ PingTypeOK /\ ControlInv => Typed
  BY DEF Typed
<1>3. TypeOK => PingTypeOK
  BY DEF TypeOK
<1>4. Spec => []TypeOK
  BY TypeCorrect
<1>5. Init => (EverybodyAlive => RoundsInv)
  BY InitRounds
<1> QED
  BY <1>1, <1>2, <1>3, <1>4, <1>5, ControlTypeCorrect, OverlayTypeCorrect,
     ControlInvariant, PTL DEF Spec

\* No message of the overlay comes too late: if nobody fails, a node does not
\* go past a round before the message of that round has come, as long as the
\* processes survive what they relay.
THEOREM MessagesInTime ==
  ASSUME NoFailures PROVE Spec => [](EverybodyAlive => NoMessageIsLate)
<1>1. Typed /\ RoundsInv => NoMessageIsLate
  <2> SUFFICES ASSUME Typed, RoundsInv, NEW m \in overlay_net
               PROVE  m.round >= overlay_round[target(m.from, m.round)]
    BY DEF NoMessageIsLate
  <2>1. m.from \in Node /\ m.round \in Nat
    BY MessageType DEF Typed, messages
  <2>2. target(m.from, m.round) \in Node
    BY <2>1, Neighbours
  <2>3. ~passed(target(m.from, m.round), m.round)
    BY <2>2 DEF RoundsInv, MessagesInv, ComingInv
  <2> QED
    BY <2>1, <2>2, <2>3 DEF passed, Typed, ControlTypeOK, RoundsTypeOK
<1> QED
  BY <1>1, RoundsInvariant, PTL

-----------------------------------------------------------------------------
(* Delivery *)

\* The round of each hop of an item.
at(x) == CHOOSE s \in schedules(x) : TRUE

\* The body of x on its way to the i-th node of its path.
body(x, i) ==
  [kind |-> x.kind, query |-> 0, value |-> x.value, signer |-> x.source,
   signatures |-> IF x.kind = "sign" THEN {x.source} ELSE {},
   dest |-> path(x)[i], rest |-> SubSeq(path(x), i + 1, Len(path(x)))]

accept_bodies ==
  {b \in Body : /\ b.kind = "accept" /\ b.query = 0
                /\ b.signatures \subseteq ProxiesOf[b.value]
                /\ leads_to(b) \in ProxiesOf[b.value] /\ acceptable(b.value)}

item_bodies(x) == {body(x, i) : i \in 1 .. Len(path(x))}

Legal == (UNION {item_bodies(x) : x \in Items}) \cup accept_bodies

\* The source has it, and sends it in its round.
is_there(x) ==
  IF x.kind = "contribution" THEN protocol_phase[x.source] \in OverlayPhase
  ELSE overlay_round[x.source] > PhaseRounds

Leaves(x) ==
  is_there(x) =>
    \/ overlay_round[x.source] >= at(x)[1]
    \/ body(x, 1) \in waiting_messages[x.source] \cup outgoing_messages[x.source]

on_its_way(x, i) ==
  \E m \in overlay_net \cup future_overlay[path(x)[i]] :
    /\ m.from = hop(x.source, path(x), i - 1) /\ m.round = at(x)[i]
    /\ body(x, i) \in m.bodies

has_arrived(x) ==
  IF x.kind = "contribution" THEN x.value \in proxy_values[x.proxy]
  ELSE x.source \in agreement[x.proxy].signed_proxy_values[x.value]

\* It has come to the i-th node of its path, in its round.
has_come(x, i) ==
  IF i = Len(path(x)) THEN has_arrived(x)
  ELSE \/ overlay_round[path(x)[i]] >= at(x)[i + 1]
       \/ /\ overlay_round[path(x)[i]] >= at(x)[i]
          /\ body(x, i + 1) \in waiting_messages[path(x)[i]]

Travels(x) ==
  \A i \in 1 .. Len(path(x)) :
    overlay_round[hop(x.source, path(x), i - 1)] >= at(x)[i] =>
      on_its_way(x, i) \/ has_come(x, i)

\* What a proxy knows is what the other proxies have signed, and later its own
\* signature comes back to it if the value is accepted.
SignedInv(n, state) ==
  \A v \in Node :
    LET S == state.signed_proxy_values[v]
    IN S # {} => /\ S \subseteq ProxiesOf[v] /\ n \in ProxiesOf[v]
                 /\ n \in S => acceptable(v)

ProxyInv(n) ==
  /\ proxy_values[n] \subseteq proxied_by(n)
  /\ SignedInv(n, agreement[n])
  /\ query_num[n] = -1 => proxy_values[n] = {} /\ agreement[n] = NewAgreement

\* A node sends its target what is for it.
Addressed(m) == \A b \in m.bodies : b.dest = target(m.from, m.round)

DeliveryInv ==
  /\ BodiesIn(Legal)
  /\ \A m \in messages : Addressed(m)
  /\ \A x \in Items : Leaves(x) /\ Travels(x)
  /\ \A n \in Node : ProxyInv(n)

-----------------------------------------------------------------------------
(* Paths and their schedules *)

LEMMA ItemType ==
  ASSUME NEW x \in Items
  PROVE  /\ x.kind \in {"contribution", "sign"}
         /\ x.value \in Node /\ x.source \in Node /\ x.proxy \in Node
         /\ x.proxy \in ProxiesOf[x.value] /\ x.proxy # x.source
         /\ x.kind = "contribution" => x.source = x.value
         /\ x.kind = "sign" => x.source \in ProxiesOf[x.value]
BY DEF Items

LEMMA ItemPath ==
  ASSUME NoFailures, RoutesFit, NEW x \in Items
  PROVE  /\ path(x) \in Seq(Node) /\ Len(path(x)) \in Nat /\ Len(path(x)) >= 1
         /\ \A i \in 1 .. Len(path(x)) : path(x)[i] \in Node
         /\ path(x)[Len(path(x))] = x.proxy
         /\ \A i \in 0 .. Len(path(x)) : hop(x.source, path(x), i) \in Node
<1>1. path(x) \in Seq(Node) \ {<<>>}
  <2>1. x.kind \in Kind /\ x.value \in Node /\ x.source \in Node /\ x.proxy \in Node
    BY ItemType DEF Kind
  <2>2. \A kind \in Kind : \A v, n, k \in Node :
          Route[kind][v][n][k] \in Seq(Node) \ {<<>>}
    BY RouteAssumption
  <2> QED
    BY <2>1, <2>2, Zenon DEF path
<1>3. path(x)[Len(path(x))] = x.proxy
  BY DEF RoutesFit
<1> DEFINE nodes == path(x)
<1>4. nodes \in Seq(Node) /\ nodes # <<>>
  BY <1>1
<1>5. x.source \in Node
  BY ItemType
<1> HIDE DEF nodes
<1>7. Len(nodes) \in Nat /\ Len(nodes) >= 1
  BY <1>4
<1>8. \A i \in 1 .. Len(nodes) : nodes[i] \in Node
  BY <1>4
<1>9. \A i \in 0 .. Len(nodes) : hop(x.source, nodes, i) \in Node
  BY <1>5, <1>7, <1>8 DEF hop
<1> QED
  BY <1>3, <1>4, <1>7, <1>8, <1>9 DEF nodes

LEMMA ItemSchedule ==
  ASSUME NoFailures, RoutesFit, NEW x \in Items, NEW i \in 1 .. Len(path(x))
  PROVE  /\ at(x)[0] = start(x) /\ at(x)[i] \in Nat /\ at(x)[i - 1] \in Nat \cup {-1}
         /\ start(x) \in Nat \cup {-1} /\ deadline(x) \in Nat
         /\ start(x) <= at(x)[i - 1] /\ at(x)[i - 1] < at(x)[i] /\ at(x)[i] <= deadline(x)
         /\ target(hop(x.source, path(x), i - 1), at(x)[i]) = path(x)[i]
         /\ predecessor(path(x)[i], at(x)[i]) = hop(x.source, path(x), i - 1)
         /\ \A r \in Nat : at(x)[i - 1] < r /\ r < at(x)[i] =>
              target(hop(x.source, path(x), i - 1), r) # path(x)[i]
<1> DEFINE s == at(x)
           N == Len(path(x))
           h(j) == hop(x.source, path(x), j)
<1>1. s \in schedules(x)
  BY DEF RoutesFit, at
<1>2. /\ s \in [0 .. N -> start(x) .. deadline(x)] /\ s[0] = start(x)
      /\ \A j \in 1 .. N :
           /\ s[j - 1] < s[j] /\ target(h(j - 1), s[j]) = path(x)[j]
           /\ \A r \in s[j - 1] + 1 .. s[j] - 1 : target(h(j - 1), r) # path(x)[j]
  BY <1>1 DEF schedules, Schedule
<1>3. N \in Nat /\ i - 1 \in 0 .. N /\ i \in 0 .. N
  BY ItemPath
<1>4. start(x) \in Nat \cup {-1} /\ deadline(x) \in Nat
  BY PhaseIsLong DEF start, deadline
<1>5. h(i - 1) \in Node
  BY <1>3, ItemPath
<1> HIDE DEF s, N, h
<1>6. s[i] \in start(x) .. deadline(x) /\ s[i - 1] \in start(x) .. deadline(x)
  BY <1>2, <1>3
<1>7. s[i - 1] < s[i]
  BY <1>2 DEF N
<1>8. s[i] \in Nat /\ s[i - 1] \in Nat \cup {-1}
  BY <1>4, <1>6, <1>7
<1>9. target(h(i - 1), s[i]) = path(x)[i]
  BY <1>2 DEF N
<1>10. predecessor(path(x)[i], s[i]) = h(i - 1)
  BY <1>5, <1>8, <1>9, Neighbours
<1>11. ASSUME NEW r \in Nat, s[i - 1] < r, r < s[i]
       PROVE  target(h(i - 1), r) # path(x)[i]
  <2>1. r \in s[i - 1] + 1 .. s[i] - 1
    BY <1>8, <1>11
  <2> QED
    BY <1>2, <2>1 DEF N
<1> QED
  BY <1>2, <1>4, <1>6, <1>7, <1>8, <1>9, <1>10, <1>11 DEF s, h

\* In AGREEMENT the direct messages are sent after SHUFFLE, in SHUFFLE in it.
LEMMA ItemRounds ==
  ASSUME NoFailures, RoutesFit, NEW x \in Items, NEW i \in 1 .. Len(path(x))
  PROVE  /\ x.kind = "contribution" => at(x)[i] <= PhaseRounds
         /\ x.kind = "sign" => at(x)[i] > PhaseRounds /\ at(x)[i] <= 2 * PhaseRounds
BY ItemSchedule, PhaseIsLong DEF start, deadline

-----------------------------------------------------------------------------
(* The bodies on their way *)

\* A body passed on differs in its next hop and the hops after it.
LEMMA PassedOn ==
  ASSUME NEW b \in Body, NEW c \in Body,
         c.kind = b.kind, c.query = b.query, c.value = b.value, c.signer = b.signer,
         c.signatures = b.signatures
  PROVE  [b EXCEPT !.dest = c.dest, !.rest = c.rest] = c
<1> DEFINE d == [b EXCEPT !.dest = c.dest, !.rest = c.rest]
<1>1. d \in Body
  BY DEF Body
<1>2. /\ d.kind = b.kind /\ d.query = b.query /\ d.value = b.value
      /\ d.signer = b.signer /\ d.signatures = b.signatures
      /\ d.dest = c.dest /\ d.rest = c.rest
  BY DEF Body
<1> HIDE DEF d
<1>3. d = c
  BY <1>1, <1>2 DEF Body
<1> QED
  BY <1>3 DEF d

LEMMA BodyFields ==
  ASSUME NoFailures, RoutesFit, NEW x \in Items, NEW i \in 1 .. Len(path(x))
  PROVE  /\ body(x, i) \in Body /\ body(x, i).kind = x.kind /\ body(x, i).query = 0
         /\ body(x, i).value = x.value /\ body(x, i).signer = x.source
         /\ body(x, i).signatures = (IF x.kind = "sign" THEN {x.source} ELSE {})
         /\ body(x, i).dest = path(x)[i]
         /\ body(x, i).rest = SubSeq(path(x), i + 1, Len(path(x)))
<1> DEFINE nodes == path(x)
           N == Len(nodes)
           rest == SubSeq(nodes, i + 1, N)
           signatures == IF x.kind = "sign" THEN {x.source} ELSE {}
<1>1. N \in Nat /\ i \in 1 .. N /\ \A j \in 1 .. N : nodes[j] \in Node
  BY ItemPath
<1>2. body(x, i) =
        [kind |-> x.kind, query |-> 0, value |-> x.value, signer |-> x.source,
         signatures |-> signatures, dest |-> nodes[i], rest |-> rest]
  BY DEF body
<1>3. /\ x.kind \in Kind /\ x.value \in Node /\ x.source \in Node
      /\ signatures \in SUBSET Node /\ 0 \in Query
  BY ItemType, OneQuery DEF Kind, NoFailures
<1> HIDE DEF nodes, signatures, N
<1>4. rest \in Seq(Node)
  <2>1. i + 1 \in Int /\ N \in Int /\ \A j \in i + 1 .. N : nodes[j] \in Node
    BY <1>1
  <2> QED
    BY <2>1, SubSeqProperties
<1> HIDE DEF rest
<1>5. body(x, i) \in Body
  BY <1>1, <1>2, <1>3, <1>4 DEF Body
<1> QED
  BY <1>2, <1>5 DEF nodes, signatures, N, rest

LEMMA ItemBody ==
  ASSUME NoFailures, RoutesFit, NEW x \in Items, NEW i \in 1 .. Len(path(x))
  PROVE  /\ body(x, i).rest = <<>> <=> i = Len(path(x))
         /\ i # Len(path(x)) =>
              /\ i + 1 \in 1 .. Len(path(x))
              /\ [body(x, i) EXCEPT !.dest = Head(body(x, i).rest),
                                    !.rest = Tail(body(x, i).rest)] = body(x, i + 1)
<1> DEFINE nodes == path(x)
           N == Len(nodes)
           rest(j) == SubSeq(nodes, j + 1, N)
<1>1. nodes \in Seq(Node) /\ N \in Nat /\ i \in 1 .. N
      /\ \A j \in 1 .. N : nodes[j] \in Node
  BY ItemPath
<1>2. body(x, i).rest = rest(i)
  BY BodyFields
<1> HIDE DEF nodes
<1>3. i = N => rest(i) = <<>>
  BY <1>1, SubSeqEmpty
<1>4. ASSUME i # N
      PROVE  /\ i + 1 \in 1 .. N /\ rest(i) # <<>>
             /\ Head(rest(i)) = nodes[i + 1] /\ Tail(rest(i)) = rest(i + 1)
  <2>1. i + 1 \in 1 .. N /\ N \in i + 1 .. N
    BY <1>1, <1>4
  <2> HIDE DEF N
  <2>2. /\ Head(SubSeq(nodes, i + 1, N)) = nodes[i + 1]
        /\ Tail(SubSeq(nodes, i + 1, N)) = SubSeq(nodes, i + 1 + 1, N)
    BY <1>1, <2>1, HeadTailOfSubSeq DEF N
  <2>3. Len(rest(i)) = N - (i + 1) + 1
    <3>1. /\ i + 1 \in Int /\ N \in Int /\ i + 1 <= N
          /\ \A j \in i + 1 .. N : nodes[j] \in Node
      BY <1>1, <2>1
    <3> QED
      BY <3>1, SubSeqProperties
  <2>4. Len(rest(i)) # 0 /\ Len(<<>>) = 0
    BY <1>1, <2>1, <2>3
  <2> QED
    BY <2>1, <2>2, <2>4
<1>5. ASSUME i # N
      PROVE  [body(x, i) EXCEPT !.dest = Head(body(x, i).rest),
                                !.rest = Tail(body(x, i).rest)] = body(x, i + 1)
  <2>1. i + 1 \in 1 .. Len(path(x))
    BY <1>4, <1>5 DEF nodes
  <2>2. body(x, i + 1).dest = nodes[i + 1] /\ body(x, i + 1).rest = rest(i + 1)
    BY <2>1, BodyFields DEF nodes
  <2>3. [body(x, i) EXCEPT !.dest = body(x, i + 1).dest, !.rest = body(x, i + 1).rest]
          = body(x, i + 1)
    <3> DEFINE b == body(x, i)
               c == body(x, i + 1)
    <3>1. b \in Body /\ c \in Body
      BY <2>1, BodyFields
    <3>2. /\ c.kind = b.kind /\ c.query = b.query /\ c.value = b.value
          /\ c.signer = b.signer /\ c.signatures = b.signatures
      <4>1. /\ b.kind = x.kind /\ b.query = 0 /\ b.value = x.value
            /\ b.signer = x.source
            /\ b.signatures = (IF x.kind = "sign" THEN {x.source} ELSE {})
        BY BodyFields
      <4>2. /\ c.kind = x.kind /\ c.query = 0 /\ c.value = x.value
            /\ c.signer = x.source
            /\ c.signatures = (IF x.kind = "sign" THEN {x.source} ELSE {})
        BY <2>1, BodyFields
      <4> HIDE DEF b, c
      <4> QED
        BY <4>1, <4>2
    <3> HIDE DEF b, c
    <3>3. [b EXCEPT !.dest = c.dest, !.rest = c.rest] = c
      BY <3>1, <3>2, PassedOn
    <3> QED
      BY <3>3 DEF b, c
  <2> QED
    BY <1>2, <1>4, <1>5, <2>2, <2>3
<1> QED
  BY <1>2, <1>3, <1>4, <1>5 DEF nodes

signatures_of(x) == IF x.kind = "sign" THEN {x.source} ELSE {}

LEMMA FirstBody ==
  ASSUME NoFailures, RoutesFit, NEW x \in Items
  PROVE  /\ body(x, 1) = [kind |-> x.kind, query |-> 0, value |-> x.value,
                          signer |-> x.source, signatures |-> signatures_of(x),
                          dest |-> Head(path(x)), rest |-> Tail(path(x))]
         /\ 1 \in 1 .. Len(path(x))
<1> DEFINE nodes == path(x)
<1>1. nodes \in Seq(Node) /\ Len(nodes) \in Nat /\ Len(nodes) >= 1
  BY ItemPath
<1>2. body(x, 1) = [kind |-> x.kind, query |-> 0, value |-> x.value,
                    signer |-> x.source, signatures |-> signatures_of(x),
                    dest |-> nodes[1], rest |-> SubSeq(nodes, 1 + 1, Len(nodes))]
  BY DEF body, signatures_of
<1> HIDE DEF nodes
<1>3. nodes # <<>>
  <2>1. Len(<<>>) = 0
    OBVIOUS
  <2> QED
    BY <1>1, <2>1
<1>4. nodes[1] = Head(nodes)
  BY <1>1, <1>3
<1>5. SubSeq(nodes, 1 + 1, Len(nodes)) = Tail(nodes)
  <2>1. Tail(nodes) = SubSeq(nodes, 2, Len(nodes))
    BY <1>1, <1>3, TailIsSubSeq
  <2>2. 1 + 1 = 2
    OBVIOUS
  <2> QED
    BY <2>1, <2>2
<1>6. 1 \in 1 .. Len(nodes)
  BY <1>1
<1> QED
  BY <1>2, <1>4, <1>5, <1>6 DEF nodes

items_from(n, kind, value) ==
  {x \in Items : x.kind = kind /\ x.value = value /\ x.source = n}

\* A node multicasts first bodies, and every first body of its items.
LEMMA MulticastBodies ==
  ASSUME NoFailures, RoutesFit, NEW n \in Node, query_num[n] = 0, NEW kind, NEW value \in Node,
         \/ kind = "contribution" /\ value = n
         \/ kind = "sign" /\ n \in ProxiesOf[value],
         NEW signatures, signatures = IF kind = "sign" THEN {n} ELSE {}
  PROVE  multicast(n, kind, value, signatures) =
           {body(x, 1) : x \in items_from(n, kind, value)}
<1> DEFINE items == items_from(n, kind, value)
           sent_to(p) == [kind |-> kind, query |-> 0, value |-> value, signer |-> n,
                          signatures |-> signatures,
                          dest |-> Head(Route[kind][value][n][p]),
                          rest |-> Tail(Route[kind][value][n][p])]
<1>1. multicast(n, kind, value, signatures) = {sent_to(p) : p \in ProxiesOf[value] \ {n}}
  BY DEF multicast
<1>2. ASSUME NEW x \in items
      PROVE  x.proxy \in ProxiesOf[value] \ {n} /\ body(x, 1) = sent_to(x.proxy)
  <2>1. x \in Items /\ x.kind = kind /\ x.value = value /\ x.source = n
    BY DEF items_from
  <2>2. path(x) = Route[kind][value][n][x.proxy] /\ signatures_of(x) = signatures
    BY <2>1 DEF path, signatures_of
  <2>3. x.proxy \in ProxiesOf[value] \ {n}
    BY <2>1, ItemType
  <2>4. body(x, 1) = [kind |-> x.kind, query |-> 0, value |-> x.value,
                      signer |-> x.source, signatures |-> signatures_of(x),
                      dest |-> Head(path(x)), rest |-> Tail(path(x))]
    BY <2>1, FirstBody
  <2> QED
    BY <2>1, <2>2, <2>3, <2>4
<1>3. ASSUME NEW p \in ProxiesOf[value] \ {n}
      PROVE  \E x \in items : x.proxy = p
  <2> DEFINE x == [kind |-> kind, value |-> value, source |-> n, proxy |-> p]
  <2>1. p \in Node
    BY ProxiesAssumption
  <2>2. x \in Items
    BY <2>1 DEF Items
  <2> QED
    BY <2>2 DEF items_from
<1> HIDE DEF items, sent_to
<1>4. {sent_to(p) : p \in ProxiesOf[value] \ {n}} = {body(x, 1) : x \in items}
  <2>1. \A p \in ProxiesOf[value] \ {n} : \E x \in items : sent_to(p) = body(x, 1)
    BY <1>2, <1>3
  <2>2. \A x \in items : \E p \in ProxiesOf[value] \ {n} : sent_to(p) = body(x, 1)
    BY <1>2
  <2> QED
    BY <2>1, <2>2
<1> QED
  BY <1>1, <1>4 DEF items

LEMMA LegalCases ==
  ASSUME NEW b \in Legal
  PROVE  \/ b \in accept_bodies
         \/ \E x \in Items : \E i \in 1 .. Len(path(x)) : b = body(x, i)
<1>1. b \in accept_bodies \/ \E x \in Items : b \in item_bodies(x)
  BY DEF Legal
<1> QED
  BY <1>1 DEF item_bodies

LEMMA ItemIsLegal ==
  ASSUME NEW x \in Items, NEW i \in 1 .. Len(path(x))
  PROVE  body(x, i) \in Legal
<1>1. body(x, i) \in item_bodies(x)
  BY DEF item_bodies
<1> QED
  BY <1>1 DEF Legal

LEMMA LegalClosed ==
  ASSUME NoFailures, RoutesFit PROVE Closed(Legal)
<1> SUFFICES ASSUME NEW b \in Legal, b.rest # <<>>
             PROVE  [b EXCEPT !.dest = Head(b.rest), !.rest = Tail(b.rest)] \in Legal
  BY DEF Closed, forwarded
<1>1. CASE b \in accept_bodies
  <2> DEFINE c == [b EXCEPT !.dest = Head(b.rest), !.rest = Tail(b.rest)]
  <2>1. b \in Body /\ b.rest \in Seq(Node) \ {<<>>}
    BY <1>1 DEF accept_bodies, Body
  <2>2. Head(b.rest) \in Node /\ Tail(b.rest) \in Seq(Node)
    BY <2>1, EndOfWay
  <2>3. /\ c \in Body /\ c.kind = b.kind /\ c.query = b.query /\ c.value = b.value
        /\ c.signatures = b.signatures /\ c.dest = Head(b.rest) /\ c.rest = Tail(b.rest)
    BY <2>1, <2>2 DEF Body
  <2> HIDE DEF c
  <2>4. leads_to(c) = leads_to(b)
    BY <2>1, <2>3, EndOfWay DEF leads_to
  <2>5. c \in accept_bodies
    BY <1>1, <2>3, <2>4 DEF accept_bodies
  <2> QED
    BY <2>5 DEF Legal, c
<1>2. CASE b \notin accept_bodies
  <2>1. PICK x \in Items : \E i \in 1 .. Len(path(x)) : b = body(x, i)
    BY <1>2, LegalCases
  <2>2. PICK i \in 1 .. Len(path(x)) : b = body(x, i)
    BY <2>1
  <2>3. /\ i + 1 \in 1 .. Len(path(x))
        /\ [b EXCEPT !.dest = Head(b.rest), !.rest = Tail(b.rest)] = body(x, i + 1)
    BY <2>2, ItemBody
  <2> QED
    BY <2>3, ItemIsLegal
<1> QED
  BY <1>1, <1>2

\* What a body for the node n at the end of its path says.
LEMMA LegalAtEnd ==
  ASSUME NoFailures, RoutesFit, NEW b \in Legal, b.rest = <<>>
  PROVE  /\ b.value \in Node /\ b.dest \in ProxiesOf[b.value]
         /\ b.kind = "contribution" => b.signatures = {}
         /\ b.kind = "sign" => b.signatures \subseteq ProxiesOf[b.value] \ {b.dest}
         /\ b.kind = "accept" =>
              b.signatures \subseteq ProxiesOf[b.value] /\ acceptable(b.value)
         /\ b.kind \in Kind
<1>1. CASE b \in accept_bodies
  BY <1>1 DEF accept_bodies, Body, leads_to
<1>2. ASSUME NEW x \in Items, NEW i \in 1 .. Len(path(x)), b = body(x, i)
      PROVE  /\ b.value \in Node /\ b.dest \in ProxiesOf[b.value]
             /\ b.kind = "contribution" => b.signatures = {}
             /\ b.kind = "sign" => b.signatures \subseteq ProxiesOf[b.value] \ {b.dest}
             /\ b.kind \in {"contribution", "sign"}
  <2>1. i = Len(path(x))
    BY <1>2, ItemBody
  <2>2. b.dest = x.proxy
    BY <1>2, <2>1, BodyFields, ItemPath
  <2>3. /\ b.value = x.value /\ b.kind = x.kind
        /\ b.signatures = (IF x.kind = "sign" THEN {x.source} ELSE {})
    BY <1>2, BodyFields
  <2> QED
    BY <2>2, <2>3, ItemType
<1> QED
  BY <1>1, <1>2, LegalCases DEF Kind

-----------------------------------------------------------------------------
(* What comes to a node *)

\* What was sent to a node for a round it is done with has come to it.
LEMMA PassedHasCome ==
  ASSUME NoFailures, RoutesFit, Typed, RoundsInv, NEW x \in Items, Travels(x),
         NEW i \in 1 .. Len(path(x)), passed(path(x)[i], at(x)[i])
  PROVE  has_come(x, i)
<1> DEFINE n == path(x)[i]
           r == at(x)[i]
           from == hop(x.source, path(x), i - 1)
<1>1. n \in Node /\ from \in Node
  <2>1. i - 1 \in 0 .. Len(path(x))
    BY ItemPath
  <2> QED
    BY <2>1, ItemPath
<1>2. r \in Nat /\ target(from, r) = n /\ predecessor(n, r) = from
  BY ItemSchedule
<1>3. overlay_round[n] \in Nat \cup {-1} /\ passed(n, r)
  BY <1>1 DEF Typed, ControlTypeOK, RoundsTypeOK
<1> HIDE DEF n, r, from
<1>4. r \in 0 .. overlay_round[n]
  BY <1>2, <1>3 DEF passed
<1>5. overlay_round[from] >= r
  BY <1>1, <1>2, <1>3, <1>4 DEF RoundsInv, MessagesInv, AheadInv
<1>6. ASSUME NEW m \in overlay_net \cup future_overlay[n], m.from = from, m.round = r
      PROVE  FALSE
  <2>1. CASE m \in overlay_net
    BY <1>1, <1>2, <1>3, <1>6, <2>1 DEF RoundsInv, MessagesInv, ComingInv
  <2>2. CASE m \in future_overlay[n]
    <3>1. ComingInv(n)
      BY <1>1 DEF RoundsInv, MessagesInv
    <3>2. m.round > overlay_round[n]
      BY <2>2, <3>1 DEF ComingInv
    <3> QED
      BY <1>3, <1>4, <1>6, <3>2
  <2> QED
    BY <2>1, <2>2
<1>7. ~on_its_way(x, i)
  BY <1>6 DEF on_its_way, n, r, from
<1>8. on_its_way(x, i) \/ has_come(x, i)
  BY <1>5 DEF Travels, r, from
<1> QED
  BY <1>7, <1>8

\* A proxy that is done with the last round of SHUFFLE has every contribution,
\* and every signature if it is done with the last round of phase 1.
LEMMA ItemHasArrived ==
  ASSUME NoFailures, RoutesFit, Typed, RoundsInv, NEW x \in Items, Travels(x),
         passed(x.proxy, deadline(x))
  PROVE  has_arrived(x)
<1> DEFINE last == Len(path(x))
<1>1. last \in 1 .. Len(path(x)) /\ path(x)[last] = x.proxy
  BY ItemPath
<1>2. at(x)[last] \in Nat /\ at(x)[last] <= deadline(x) /\ deadline(x) \in Nat
  BY <1>1, ItemSchedule
<1>3. overlay_round[x.proxy] \in Nat \cup {-1}
  BY ItemType DEF Typed, ControlTypeOK, RoundsTypeOK
<1>4. passed(x.proxy, at(x)[last])
  BY <1>2, <1>3 DEF passed
<1>5. has_come(x, last)
  BY <1>1, <1>4, PassedHasCome
<1> QED
  BY <1>5 DEF has_come

contribution_of(v, n) == [kind |-> "contribution", value |-> v, source |-> v, proxy |-> n]
signature_of(k, v, n) == [kind |-> "sign", value |-> v, source |-> k, proxy |-> n]

LEMMA ContributionHasArrived ==
  ASSUME NoFailures, RoutesFit, Typed, RoundsInv, DeliveryInv, NEW n \in Node,
         passed(n, PhaseRounds), NEW v \in proxied_by(n)
  PROVE  v \in proxy_values[n]
<1>1. v \in Node /\ n \in ProxiesOf[v] /\ n # v
  BY DEF proxied_by, RoutesFit
<1>2. PICK x : x = contribution_of(v, n)
  OBVIOUS
<1>3. x.kind = "contribution" /\ x.value = v /\ x.proxy = n
  BY <1>2 DEF contribution_of
<1>4. x \in Items
  BY <1>1, <1>2 DEF Items, contribution_of
<1>5. passed(x.proxy, deadline(x))
  BY <1>3 DEF deadline
<1> QED
  BY <1>3, <1>4, <1>5, ItemHasArrived DEF DeliveryInv, has_arrived

LEMMA SignatureHasArrived ==
  ASSUME NoFailures, RoutesFit, Typed, RoundsInv, DeliveryInv, NEW n \in Node,
         passed(n, 2 * PhaseRounds), NEW v \in proxied_by(n), NEW k \in ProxiesOf[v] \ {n}
  PROVE  k \in agreement[n].signed_proxy_values[v]
<1>1. v \in Node /\ n \in ProxiesOf[v] /\ k \in Node
  BY ProxiesAssumption DEF proxied_by
<1>2. PICK x : x = signature_of(k, v, n)
  OBVIOUS
<1>3. x.kind = "sign" /\ x.value = v /\ x.source = k /\ x.proxy = n
  BY <1>2 DEF signature_of
<1>4. x \in Items
  BY <1>1, <1>2 DEF Items, signature_of
<1>5. passed(x.proxy, deadline(x))
  BY <1>3 DEF deadline
<1> QED
  BY <1>3, <1>4, <1>5, ItemHasArrived DEF DeliveryInv, has_arrived

\* Before the round of its first hop an item is at its source.
LEMMA FirstIsPending ==
  ASSUME NoFailures, RoutesFit, Typed, RoundsInv, DeliveryInv,
         NEW x \in Items, NEW n \in Node, x.source = n, InOverlay(n),
         at(x)[1] >= entered(n), x.kind = "sign" => entered(n) > PhaseRounds,
         NEW outgoing, outgoing_messages[n] \subseteq outgoing,
         overlay_round[n] = PhaseRounds => signs(n) \subseteq outgoing
  PROVE  body(x, 1) \in pending(n, outgoing)
<1>1. overlay_round[n] \in Nat \cup {-1} /\ PhaseRounds \in Nat
      /\ entered(n) = overlay_round[n] + 1
  BY PhaseIsLong DEF Typed, ControlTypeOK, RoundsTypeOK, entered
<1>2. 1 \in 1 .. Len(path(x)) /\ at(x)[1] \in Nat
  BY FirstBody, ItemSchedule
<1>3. CASE is_there(x)
  <2>1. body(x, 1) \in waiting_messages[n] \cup outgoing_messages[n]
    BY <1>1, <1>2, <1>3 DEF DeliveryInv, Leaves
  <2> QED
    BY <2>1 DEF pending
<1>4. CASE ~is_there(x)
  <2>1. x.kind = "sign" /\ overlay_round[n] = PhaseRounds
    BY <1>1, <1>4, ItemType DEF is_there, InOverlay
  <2>2. x.value \in Node /\ n \in ProxiesOf[x.value] /\ n # x.value
    BY <2>1, ItemType DEF RoutesFit
  <2>3. passed(n, PhaseRounds)
    BY <1>1, <2>1 DEF passed, InOverlay
  <2>4. x.value \in proxy_values[n]
    BY <2>2, <2>3, ContributionHasArrived DEF proxied_by
  <2>5. body(x, 1) \in multicast(n, "sign", x.value, {n})
    <3>1. multicast(n, "sign", x.value, {n}) =
            {body(z, 1) : z \in items_from(n, "sign", x.value)}
      BY <2>2, MulticastBodies DEF InOverlay
    <3> QED
      BY <2>1, <3>1 DEF items_from
  <2>6. multicast(n, "sign", x.value, {n}) \subseteq signs(n)
    BY <2>4 DEF signs
  <2> QED
    BY <2>1, <2>5, <2>6 DEF pending
<1> QED
  BY <1>3, <1>4

\* After the round of its i-th hop it waits there for the next.
LEMMA NextIsPending ==
  ASSUME NoFailures, RoutesFit, Typed, RoundsInv, DeliveryInv,
         NEW x \in Items, NEW n \in Node, InOverlay(n), NEW i \in 1 .. Len(path(x)) - 1,
         path(x)[i] = n, at(x)[i + 1] = entered(n)
  PROVE  body(x, i + 1) \in waiting_messages[n]
<1>1. overlay_round[n] \in Nat \cup {-1} /\ entered(n) = overlay_round[n] + 1
  BY DEF Typed, ControlTypeOK, RoundsTypeOK, entered
<1>2. Len(path(x)) \in Nat
  BY ItemPath
<1>3. i \in 1 .. Len(path(x)) /\ i # Len(path(x)) /\ i + 1 \in 1 .. Len(path(x))
      /\ (i + 1) - 1 = i
  BY <1>2
<1>4. at(x)[i] \in Nat /\ at(x)[i] < at(x)[i + 1]
  <2>1. at(x)[(i + 1) - 1] < at(x)[i + 1]
    BY <1>3, ItemSchedule
  <2>2. at(x)[i] \in Nat
    BY <1>3, ItemSchedule
  <2> QED
    BY <1>3, <2>1, <2>2
<1>5. passed(n, at(x)[i])
  BY <1>1, <1>4 DEF passed, InOverlay
<1>6. has_come(x, i)
  BY <1>3, <1>5, PassedHasCome DEF DeliveryInv
<1>7. ~(overlay_round[n] >= at(x)[i + 1])
  BY <1>1
<1> QED
  BY <1>3, <1>6, <1>7 DEF has_come

-----------------------------------------------------------------------------
(* What handling bodies does *)

\* The signatures the bodies add to those on the value v.
added(bodies, v) == UNION {signatures_added(b) : b \in {x \in delivered(bodies) : x.value = v}}

BodiesHandled(n, bodies, phase, waiting, agree) ==
  /\ waiting_messages'[n] = waiting \cup forwarded(bodies)
  /\ proxy_values'[n] = IF phase = "SHUFFLE"
                          THEN proxy_values[n] \cup contributions(bodies)
                          ELSE proxy_values[n]
  /\ \A v \in Node :
       agreement'[n].signed_proxy_values[v] =
         IF phase = "AGREEMENT"
           THEN agree.signed_proxy_values[v] \cup added(bodies, v)
           ELSE agree.signed_proxy_values[v]
  /\ \A k \in Node \ {n} : /\ waiting_messages'[k] = waiting_messages[k]
                           /\ proxy_values'[k] = proxy_values[k]
                           /\ agreement'[k] = agreement[k]

LEMMA HandleBodiesEffect ==
  ASSUME OverlayTypeOK, NEW n \in Node, NEW agree \in AgreementState, NEW bodies,
         NEW phase, NEW waiting, HandleBodies(n, bodies, phase, waiting, agree)
  PROVE  BodiesHandled(n, bodies, phase, waiting, agree)
<1>1. /\ waiting_messages' = [waiting_messages EXCEPT ![n] = waiting \cup forwarded(bodies)]
      /\ proxy_values' = [proxy_values EXCEPT
           ![n] = IF phase = "SHUFFLE" THEN @ \cup contributions(bodies) ELSE @]
      /\ agreement' = [agreement EXCEPT
           ![n] = IF phase = "AGREEMENT"
                    THEN handle_agreement_messages(agree, delivered(bodies)) ELSE agree]
  BY DEF HandleBodies
<1>2. \A v \in Node :
        handle_agreement_messages(agree, delivered(bodies)).signed_proxy_values[v] =
          agree.signed_proxy_values[v] \cup added(bodies, v)
  BY DEF handle_agreement_messages, AgreementState, added
<1>3. agreement'[n] = IF phase = "AGREEMENT"
                        THEN handle_agreement_messages(agree, delivered(bodies))
                        ELSE agree
  BY <1>1 DEF OverlayTypeOK
<1>4. /\ waiting_messages'[n] = waiting \cup forwarded(bodies)
      /\ proxy_values'[n] = IF phase = "SHUFFLE"
                              THEN proxy_values[n] \cup contributions(bodies)
                              ELSE proxy_values[n]
  BY <1>1 DEF OverlayTypeOK
<1>5. \A k \in Node \ {n} : /\ waiting_messages'[k] = waiting_messages[k]
                            /\ proxy_values'[k] = proxy_values[k]
                            /\ agreement'[k] = agreement[k]
  BY <1>1 DEF OverlayTypeOK
<1> QED
  BY <1>2, <1>3, <1>4, <1>5 DEF BodiesHandled

\* An item among the bodies handled in its phase has come.
LEMMA HandledHasCome ==
  ASSUME NoFailures, RoutesFit, OverlayTypeOK, NEW n \in Node,
         NEW agree \in AgreementState, NEW bodies, NEW phase, NEW waiting,
         HandleBodies(n, bodies, phase, waiting, agree),
         NEW x \in Items, NEW i \in 1 .. Len(path(x)), path(x)[i] = n,
         body(x, i) \in bodies, overlay_round'[n] >= at(x)[i],
         x.kind = "contribution" => phase = "SHUFFLE",
         x.kind = "sign" => phase = "AGREEMENT"
  PROVE  has_come(x, i)'
<1> DEFINE b == body(x, i)
<1>1. /\ b.kind = x.kind /\ b.value = x.value
      /\ b.signatures = (IF x.kind = "sign" THEN {x.source} ELSE {})
  BY BodyFields
<1>2. x.value \in Node /\ x.kind \in {"contribution", "sign"}
  BY ItemType
<1> BodiesHandled(n, bodies, phase, waiting, agree)
  BY HandleBodiesEffect
<1>3. CASE i = Len(path(x))
  <2>1. b \in delivered(bodies) /\ x.proxy = n
    BY <1>3, ItemBody, ItemPath DEF delivered
  <2> HIDE DEF b
  <2>2. CASE x.kind = "contribution"
    <3>1. x.value \in contributions(bodies)
      BY <1>1, <2>1, <2>2 DEF contributions
    <3>2. x.value \in proxy_values'[n]
      BY <2>2, <3>1 DEF BodiesHandled
    <3> QED
      BY <1>3, <2>1, <2>2, <3>2 DEF has_come, has_arrived
  <2>3. CASE x.kind = "sign"
    <3>1. signatures_added(b) = {x.source}
      BY <1>1, <2>3 DEF signatures_added
    <3>2. x.source \in added(bodies, x.value)
      BY <1>1, <2>1, <3>1 DEF added
    <3>3. x.source \in agreement'[n].signed_proxy_values[x.value]
      BY <1>2, <2>3, <3>2 DEF BodiesHandled
    <3> QED
      BY <1>3, <2>1, <2>3, <3>3 DEF has_come, has_arrived
  <2> QED
    BY <1>2, <2>2, <2>3
<1>4. CASE i # Len(path(x))
  <2>1. body(x, i + 1) \in forwarded(bodies)
    BY <1>4, ItemBody DEF forwarded
  <2>2. body(x, i + 1) \in waiting_messages'[n]
    BY <2>1 DEF BodiesHandled
  <2> QED
    BY <1>4, <2>2 DEF has_come
<1> QED
  BY <1>3, <1>4

\* What has come stays, or goes on in its round.
LEMMA HasComeStays ==
  ASSUME NEW x \in Items, NEW i \in 1 .. Len(path(x)), has_come(x, i),
         Len(path(x)) \in Nat,
         proxy_values[x.proxy] \subseteq proxy_values'[x.proxy],
         agreement[x.proxy].signed_proxy_values[x.value]
           \subseteq agreement'[x.proxy].signed_proxy_values[x.value],
         NEW k, path(x)[i] = k, overlay_round[k] \in Int, overlay_round'[k] \in Int,
         overlay_round[k] <= overlay_round'[k],
         i # Len(path(x)) => at(x)[i] \in Int /\ at(x)[i + 1] \in Int,
         i # Len(path(x)) /\ body(x, i + 1) \in waiting_messages[k]
           /\ overlay_round[k] >= at(x)[i] =>
             \/ overlay_round'[k] >= at(x)[i + 1]
             \/ body(x, i + 1) \in waiting_messages'[k]
  PROVE  has_come(x, i)'
<1>1. CASE i = Len(path(x))
  BY <1>1 DEF has_come, has_arrived
<1>2. CASE i # Len(path(x))
  <2>1. CASE overlay_round[k] >= at(x)[i + 1]
    <3>1. overlay_round'[k] >= at(x)[i + 1]
      BY <1>2, <2>1
    <3> QED
      BY <1>2, <3>1 DEF has_come
  <2>2. CASE overlay_round[k] >= at(x)[i] /\ body(x, i + 1) \in waiting_messages[k]
    <3>1. overlay_round'[k] >= at(x)[i]
      BY <1>2, <2>2
    <3> QED
      BY <1>2, <2>2, <3>1 DEF has_come
  <2> QED
    BY <1>2, <2>1, <2>2 DEF has_come
<1> QED
  BY <1>1, <1>2

\* A proxy learns values it is a proxy of, and signatures of their proxies.
LEMMA HandledProxyInv ==
  ASSUME NoFailures, RoutesFit, OverlayTypeOK, NEW n \in Node,
         NEW agree \in AgreementState, NEW bodies \in SUBSET Legal, NEW phase, NEW waiting,
         HandleBodies(n, bodies, phase, waiting, agree),
         \A b \in bodies : b.dest = n, ProxyInv(n),
         agree.signed_proxy_values = agreement[n].signed_proxy_values,
         query_num'[n] # -1
  PROVE  ProxyInv(n)'
<1> BodiesHandled(n, bodies, phase, waiting, agree)
  BY HandleBodiesEffect
<1>1. ASSUME NEW b \in delivered(bodies)
      PROVE  /\ b.value \in proxied_by(n)
             /\ signatures_added(b) \subseteq ProxiesOf[b.value]
             /\ n \in signatures_added(b) => acceptable(b.value)
  <2>1. b \in Legal /\ b.rest = <<>> /\ b.dest = n
    BY DEF delivered
  <2>2. /\ b.value \in Node /\ n \in ProxiesOf[b.value]
        /\ b.kind = "contribution" => b.signatures = {}
        /\ b.kind = "sign" => b.signatures \subseteq ProxiesOf[b.value] \ {n}
        /\ b.kind = "accept" =>
             b.signatures \subseteq ProxiesOf[b.value] /\ acceptable(b.value)
        /\ b.kind \in Kind
    BY <2>1, LegalAtEnd
  <2>3. signatures_added(b) \in {b.signatures, {}}
        /\ (b.kind = "contribution" => signatures_added(b) = {})
    BY <2>2 DEF signatures_added, Kind
  <2> QED
    BY <2>2, <2>3 DEF proxied_by, Kind
<1>2. proxy_values'[n] \subseteq proxied_by(n)
  <2>1. contributions(bodies) \subseteq proxied_by(n)
    BY <1>1 DEF contributions
  <2> QED
    BY <2>1 DEF ProxyInv, BodiesHandled
<1>3. ASSUME NEW v \in Node, agreement'[n].signed_proxy_values[v] # {}
      PROVE  /\ agreement'[n].signed_proxy_values[v] \subseteq ProxiesOf[v]
             /\ n \in ProxiesOf[v]
             /\ n \in agreement'[n].signed_proxy_values[v] => acceptable(v)
  <2> DEFINE S == agreement[n].signed_proxy_values[v]
             T == agreement'[n].signed_proxy_values[v]
  <2>1. PICK A : A = added(bodies, v)
    OBVIOUS
  <2>2. T = S \/ T = S \cup A
    BY <2>1 DEF BodiesHandled
  <2>3. S # {} => S \subseteq ProxiesOf[v] /\ n \in ProxiesOf[v] /\ (n \in S => acceptable(v))
    BY DEF ProxyInv, SignedInv
  <2>4. A # {} => A \subseteq ProxiesOf[v] /\ n \in ProxiesOf[v] /\ (n \in A => acceptable(v))
    BY <1>1, <2>1 DEF added, proxied_by
  <2> QED
    BY <1>3, <2>2, <2>3, <2>4
<1>4. SignedInv(n, agreement[n])'
  BY <1>3 DEF SignedInv
<1> QED
  BY <1>2, <1>4 DEF ProxyInv

-----------------------------------------------------------------------------
(* Delivery, step by step *)

\* A step that moves no body, and starts the overlay nowhere.
LEMMA DeliveryKept ==
  ASSUME DeliveryInv,
         UNCHANGED <<waiting_messages, outgoing_messages, future_overlay, overlay_net,
                     overlay_round, proxy_values, agreement>>,
         \A n \in Node :
           /\ query_num'[n] = -1 => query_num[n] = -1
           /\ protocol_phase'[n] \in OverlayPhase => protocol_phase[n] \in OverlayPhase
  PROVE  DeliveryInv'
<1>1. BodiesIn(Legal)'
  BY DEF DeliveryInv, BodiesIn
<1>2. \A m \in messages' : Addressed(m)
  BY DEF DeliveryInv, messages
<1>3. ASSUME NEW x \in Items PROVE Leaves(x)' /\ Travels(x)'
  <2>1. Leaves(x)'
    BY ItemType DEF DeliveryInv, Leaves, is_there
  <2>2. Travels(x)'
    BY DEF DeliveryInv, Travels, on_its_way, has_come, has_arrived
  <2> QED
    BY <2>1, <2>2
<1>4. \A n \in Node : ProxyInv(n)'
  BY DEF DeliveryInv, ProxyInv, SignedInv
<1> QED
  BY <1>1, <1>2, <1>3, <1>4 DEF DeliveryInv, Addressed

LEMMA QueryRequestDelivery ==
  ASSUME NoFailures, Typed, RoundsInv, DeliveryInv, NEW n \in Node,
         QueryRequestArrives(n)
  PROVE  DeliveryInv'
<1> USE DEF Typed, ControlTypeOK, RoundsTypeOK
<1>1. query_num[n] = -1 /\ StartQuery(n, 0)
  BY QueryIsFirst
<1>2. /\ protocol_phase' = [protocol_phase EXCEPT ![n] = "SETUP"]
      /\ query_num' = [query_num EXCEPT ![n] = 0]
      /\ overlay_round' = [overlay_round EXCEPT ![n] = -1]
      /\ proxy_values' = [proxy_values EXCEPT ![n] = {}]
      /\ agreement' = [agreement EXCEPT ![n] = NewAgreement]
  BY <1>1 DEF StartQuery
<1>3. UNCHANGED <<waiting_messages, outgoing_messages, future_overlay, overlay_net>>
  BY DEF QueryRequestArrives, messageVars
<1>4. overlay_round[n] = -1 /\ proxy_values[n] = {} /\ agreement[n] = NewAgreement
  BY <1>1 DEF RoundsInv, RoundInv, DeliveryInv, ProxyInv
<1>5. UNCHANGED <<overlay_round, proxy_values, agreement>>
  BY <1>2, <1>4 DEF OverlayTypeOK
<1>6. \A k \in Node :
        /\ query_num'[k] = -1 => query_num[k] = -1
        /\ protocol_phase'[k] \in OverlayPhase => protocol_phase[k] \in OverlayPhase
  BY <1>2 DEF OverlayPhase
<1> QED
  BY <1>3, <1>5, <1>6, DeliveryKept

LEMMA SignatureResponseDelivery ==
  ASSUME NoFailures, RoutesFit, Typed, RoundsInv, DeliveryInv, NEW n \in Node,
         SignatureResponseArrives(n)
  PROVE  DeliveryInv'
<1> USE DEF Typed, ControlTypeOK, RoundsTypeOK
<1> DEFINE bodies == multicast(n, "contribution", n, {})
<1>1. /\ query_num[n] = 0
      /\ protocol_phase' = [protocol_phase EXCEPT ![n] = "SHUFFLE"]
      /\ outgoing_messages' = [outgoing_messages EXCEPT ![n] = @ \cup bodies]
  BY SignatureIsForQuery
<1>2. UNCHANGED <<query_num, overlay_round, waiting_messages, future_overlay,
                  proxy_values, agreement, overlay_net>>
  BY DEF SignatureResponseArrives, roundVars, valueVars
<1>3. bodies = {body(x, 1) : x \in items_from(n, "contribution", n)}
  BY <1>1, MulticastBodies
<1>4. bodies \subseteq Legal
  BY <1>3, FirstBody, ItemIsLegal DEF items_from
<1> HIDE DEF bodies
<1>5. BodiesIn(Legal)'
  BY <1>1, <1>2, <1>4 DEF DeliveryInv, BodiesIn, OverlayTypeOK
<1>6. \A m \in messages' : Addressed(m)
  BY <1>2 DEF DeliveryInv, messages
<1>7. ASSUME NEW x \in Items PROVE Leaves(x)' /\ Travels(x)'
  <2>1. Travels(x)'
    BY <1>2 DEF DeliveryInv, Travels, on_its_way, has_come, has_arrived
  <2>2. /\ x.source \in Node /\ x.kind \in {"contribution", "sign"}
        /\ x.kind = "contribution" => x.source = x.value
    BY ItemType
  <2>3. CASE is_there(x)
    <3>1. outgoing_messages[x.source] \subseteq outgoing_messages'[x.source]
      BY <1>1, <2>2 DEF OverlayTypeOK
    <3> QED
      BY <1>2, <2>1, <2>3, <3>1 DEF DeliveryInv, Leaves
  <2>4. CASE ~is_there(x) /\ x.kind = "contribution" /\ x.source = n
    <3>1. body(x, 1) \in bodies
      BY <1>3, <2>2, <2>4 DEF items_from
    <3>2. body(x, 1) \in outgoing_messages'[n]
      BY <1>1, <3>1 DEF OverlayTypeOK
    <3> QED
      BY <2>1, <2>4, <3>2 DEF Leaves
  <2>5. CASE ~is_there(x) /\ ~(x.kind = "contribution" /\ x.source = n)
    <3>1. ~is_there(x)'
      BY <1>1, <1>2, <2>2, <2>5 DEF is_there
    <3> QED
      BY <2>1, <3>1 DEF Leaves
  <2> QED
    BY <2>3, <2>4, <2>5
<1>8. \A k \in Node : ProxyInv(k)'
  BY <1>2 DEF DeliveryInv, ProxyInv, SignedInv
<1> QED
  BY <1>5, <1>6, <1>7, <1>8 DEF DeliveryInv, Addressed

\* The bodies a node handles are for it, and in their phase.
LEMMA HandledAreForMe ==
  ASSUME NoFailures, Typed, RoundsInv, DeliveryInv, NEW n \in Node, NEW m \in messages,
         target(m.from, m.round) = n
  PROVE  m.bodies \subseteq Legal /\ \A b \in m.bodies : b.dest = n
<1>1. m.bodies \subseteq Legal
  BY DEF DeliveryInv, BodiesIn, messages
<1>2. Addressed(m)
  BY DEF DeliveryInv
<1> QED
  BY <1>1, <1>2 DEF Addressed

LEMMA PhaseOfRound ==
  ASSUME Typed, RoundsInv, NEW n \in Node, protocol_phase[n] \in OverlayPhase
  PROVE  protocol_phase[n] = IF overlay_round[n] <= PhaseRounds THEN "SHUFFLE" ELSE "AGREEMENT"
<1>1. RoundInv(n) /\ overlay_round[n] \in Nat \cup {-1} /\ PhaseRounds \in Nat
  BY PhaseIsLong DEF RoundsInv, Typed, ControlTypeOK, RoundsTypeOK
<1>2. CASE protocol_phase[n] = "SHUFFLE"
  BY <1>1, <1>2 DEF RoundInv
<1>3. CASE protocol_phase[n] = "AGREEMENT"
  BY <1>1, <1>3 DEF RoundInv
<1> QED
  BY <1>2, <1>3 DEF OverlayPhase

LEMMA OverlayArrivesDelivery ==
  ASSUME NoFailures, RoutesFit, Typed, RoundsInv, DeliveryInv, NEW n \in Node,
         OverlayArrives(n), EverybodyAlive'
  PROVE  DeliveryInv'
<1> USE DEF Typed, ControlTypeOK, RoundsTypeOK
<1>1. PICK m \in overlay_net :
        /\ target(m.from, m.round) = n /\ overlay_net' = overlay_net \ {m}
        /\ \/ /\ Handles(n, m)
              /\ protocol_phase[n] \in OverlayPhase /\ ~is_last_round[n]
           \/ Keeps(n, m)
  BY OverlayIsUsed
<1>2. UNCHANGED <<protocol_phase, query_num, overlay_round, outgoing_messages>>
  BY DEF OverlayArrives, roundVars
<1>3. m \in messages /\ m \in OverlayMessage /\ agreement[n] \in AgreementState
  BY MessageType DEF messages, OverlayTypeOK
<1>4. BodiesIn(Legal)'
  BY <1>1, <1>2, LegalClosed, OverlayArrivesBodies DEF DeliveryInv
<1>5. CASE Keeps(n, m)
  <2>1. /\ UNCHANGED <<waiting_messages, proxy_values, agreement>>
        /\ \A k \in Node : future_overlay'[k] =
             IF k = n THEN future_overlay[n] \cup {m} ELSE future_overlay[k]
    BY <1>5 DEF Keeps, OverlayTypeOK
  <2>2. messages' \subseteq messages
    BY <1>1, <1>3, <2>1 DEF messages
  <2>3. \A y \in messages' : Addressed(y)
    BY <2>2 DEF DeliveryInv
  <2>4. ASSUME NEW x \in Items PROVE Leaves(x)' /\ Travels(x)'
    <3>1. Leaves(x)'
      BY <1>2, <2>1 DEF DeliveryInv, Leaves, is_there
    <3>2. ASSUME NEW i \in 1 .. Len(path(x)), on_its_way(x, i) PROVE on_its_way(x, i)'
      <4>1. path(x)[i] \in Node
        BY ItemPath
      <4>2. PICK y \in overlay_net \cup future_overlay[path(x)[i]] :
              /\ y.from = hop(x.source, path(x), i - 1) /\ y.round = at(x)[i]
              /\ body(x, i) \in y.bodies
        BY <3>2 DEF on_its_way
      <4>3. y = m => path(x)[i] = n
        BY <1>1, <4>2, ItemSchedule
      <4>4. y \in overlay_net' \cup future_overlay'[path(x)[i]]
        BY <1>1, <2>1, <4>1, <4>2, <4>3
      <4> QED
        BY <4>2, <4>4 DEF on_its_way
    <3>3. \A i \in 1 .. Len(path(x)) : has_come(x, i) => has_come(x, i)'
      BY <1>2, <2>1 DEF has_come, has_arrived
    <3>4. Travels(x)'
      BY <1>2, <3>2, <3>3 DEF DeliveryInv, Travels
    <3> QED
      BY <3>1, <3>4
  <2>5. \A k \in Node : ProxyInv(k)'
    BY <1>2, <2>1 DEF DeliveryInv, ProxyInv, SignedInv
  <2> QED
    BY <1>4, <2>3, <2>4, <2>5 DEF DeliveryInv, Addressed
<1>6. CASE Handles(n, m) /\ protocol_phase[n] \in OverlayPhase
  <2> DEFINE phase == protocol_phase[n]
  <2>1. /\ HandleBodies(n, m.bodies, phase, waiting_messages[n], agreement[n])
        /\ m.round = overlay_round[n] /\ UNCHANGED future_overlay
    BY <1>6 DEF Handles
  <2>2. /\ m.bodies \in SUBSET Legal /\ \A b \in m.bodies : b.dest = n
        /\ phase = IF overlay_round[n] <= PhaseRounds THEN "SHUFFLE" ELSE "AGREEMENT"
    BY <1>1, <1>3, <1>6, HandledAreForMe, PhaseOfRound
  <2> HIDE DEF phase
  <2> BodiesHandled(n, m.bodies, phase, waiting_messages[n], agreement[n])
    BY <1>3, <2>1, HandleBodiesEffect
  <2>3. \A k \in Node :
          /\ waiting_messages[k] \subseteq waiting_messages'[k]
          /\ proxy_values[k] \subseteq proxy_values'[k]
          /\ \A v \in Node : agreement[k].signed_proxy_values[v]
                               \subseteq agreement'[k].signed_proxy_values[v]
    <3>1. /\ waiting_messages[n] \subseteq waiting_messages'[n]
          /\ proxy_values[n] \subseteq proxy_values'[n]
      BY DEF BodiesHandled
    <3>2. \A v \in Node : agreement[n].signed_proxy_values[v]
                            \subseteq agreement'[n].signed_proxy_values[v]
      BY DEF BodiesHandled
    <3>3. \A k \in Node \ {n} : /\ waiting_messages'[k] = waiting_messages[k]
                                /\ proxy_values'[k] = proxy_values[k]
                                /\ agreement'[k] = agreement[k]
      BY DEF BodiesHandled
    <3> QED
      BY <3>1, <3>2, <3>3
  <2>4. messages' \subseteq messages
    BY <1>1, <2>1 DEF messages
  <2>5. \A y \in messages' : Addressed(y)
    BY <2>4 DEF DeliveryInv
  <2>6. ASSUME NEW x \in Items PROVE Leaves(x)'
    <3>1. x.source \in Node
      BY ItemType
    <3> QED
      BY <1>2, <2>3, <3>1 DEF DeliveryInv, Leaves, is_there
  <2>7. ASSUME NEW x \in Items, NEW i \in 1 .. Len(path(x)), has_come(x, i)
        PROVE  has_come(x, i)'
    <3>1. path(x)[i] \in Node /\ x.proxy \in Node /\ x.value \in Node
      BY ItemPath, ItemType
    <3>2. CASE i = Len(path(x))
      BY <2>3, <2>7, <3>1, <3>2 DEF has_come, has_arrived
    <3>3. CASE i # Len(path(x))
      BY <1>2, <2>3, <2>7, <3>1, <3>3 DEF has_come
    <3> QED
      BY <3>2, <3>3
  <2>8. ASSUME NEW x \in Items, NEW i \in 1 .. Len(path(x)), on_its_way(x, i)
        PROVE  on_its_way(x, i)' \/ has_come(x, i)'
    <3>1. PICK y \in overlay_net \cup future_overlay[path(x)[i]] :
            /\ y.from = hop(x.source, path(x), i - 1) /\ y.round = at(x)[i]
            /\ body(x, i) \in y.bodies
      BY <2>8 DEF on_its_way
    <3>2. CASE y # m
      <4>1. y \in overlay_net' \cup future_overlay'[path(x)[i]]
        BY <1>1, <2>1, <3>1, <3>2
      <4> QED
        BY <3>1, <4>1 DEF on_its_way
    <3>3. CASE y = m
      <4>1. path(x)[i] = n /\ at(x)[i] \in Nat
        BY <1>1, <3>1, <3>3, ItemSchedule
      <4>2. body(x, i) \in m.bodies /\ overlay_round[n] = at(x)[i]
        BY <2>1, <3>1, <3>3
      <4>3. overlay_round'[n] >= at(x)[i]
        BY <1>2, <4>1, <4>2
      <4>4. /\ x.kind = "contribution" => phase = "SHUFFLE"
            /\ x.kind = "sign" => phase = "AGREEMENT"
        <5>1. PhaseRounds \in Nat
          BY PhaseIsLong
        <5> QED
          BY <2>2, <4>1, <4>2, <5>1, ItemRounds
      <4> QED
        BY <1>3, <2>1, <4>1, <4>2, <4>3, <4>4, HandledHasCome
    <3> QED
      BY <3>2, <3>3
  <2>9. \A x \in Items : Travels(x)'
    BY <1>2, <2>7, <2>8 DEF DeliveryInv, Travels
  <2>10. ASSUME NEW k \in Node PROVE ProxyInv(k)'
    <3>1. CASE k = n
      <4>1. query_num'[n] # -1
        BY <1>2, <1>6 DEF RoundsInv, RoundInv, OverlayPhase
      <4>2. ProxyInv(n)
        BY DEF DeliveryInv
      <4> QED
        BY <1>3, <2>1, <2>2, <3>1, <4>1, <4>2, HandledProxyInv
    <3>2. CASE k # n
      <4>1. proxy_values'[k] = proxy_values[k] /\ agreement'[k] = agreement[k]
        BY <3>2 DEF BodiesHandled
      <4> QED
        BY <1>2, <4>1 DEF DeliveryInv, ProxyInv, SignedInv
    <3> QED
      BY <3>1, <3>2
  <2> QED
    BY <1>4, <2>5, <2>6, <2>9, <2>10 DEF DeliveryInv, Addressed
<1> QED
  BY <1>1, <1>5, <1>6

\* What a node in the overlay sends and handles in the next round.
Produces(n, outgoing, phase, agree) ==
  /\ InOverlay(n) /\ agree \in AgreementState
  /\ agree.signed_proxy_values = agreement[n].signed_proxy_values
  /\ outgoing_messages[n] \subseteq outgoing /\ outgoing \subseteq Legal
  /\ overlay_round[n] = PhaseRounds => signs(n) \subseteq outgoing
  /\ phase = IF entered(n) <= PhaseRounds THEN "SHUFFLE" ELSE "AGREEMENT"

\* An item whose next hop is from n in the round entered is sent.
LEMMA NextIsSent ==
  ASSUME NoFailures, RoutesFit, Typed, RoundsInv, DeliveryInv, NEW n \in Node,
         NEW outgoing, NEW phase, NEW agree, Produces(n, outgoing, phase, agree),
         NEW x \in Items, NEW i \in 1 .. Len(path(x)),
         hop(x.source, path(x), i - 1) = n, at(x)[i] = entered(n)
  PROVE  body(x, i) \in sent(n, outgoing).bodies
<1>1. Len(path(x)) \in Nat
  BY ItemPath
<1>2. body(x, i) \in pending(n, outgoing)
  <2>1. CASE i = 1
    <3>1. x.source = n
      BY <2>1 DEF hop
    <3>2. at(x)[1] \in Nat /\ (x.kind = "sign" => at(x)[1] > PhaseRounds)
      BY <2>1, ItemSchedule, ItemRounds
    <3>3. at(x)[1] >= entered(n) /\ (x.kind = "sign" => entered(n) > PhaseRounds)
      BY <2>1, <3>2
    <3> QED
      BY <2>1, <3>1, <3>3, FirstIsPending DEF Produces
  <2>2. CASE i # 1
    <3>1. i - 1 \in 1 .. Len(path(x)) - 1 /\ (i - 1) + 1 = i /\ i - 1 # 0
      BY <1>1, <2>2
    <3>2. path(x)[i - 1] = n
      BY <3>1 DEF hop
    <3>3. body(x, (i - 1) + 1) \in waiting_messages[n]
      BY <3>1, <3>2, NextIsPending DEF Produces
    <3> QED
      BY <3>1, <3>3 DEF pending
  <2> QED
    BY <2>1, <2>2
<1>3. body(x, i).dest = target(n, entered(n))
  <2>1. body(x, i).dest = path(x)[i]
    BY BodyFields
  <2>2. target(hop(x.source, path(x), i - 1), at(x)[i]) = path(x)[i]
    BY ItemSchedule
  <2> QED
    BY <2>1, <2>2
<1> QED
  BY <1>2, <1>3 DEF sent, ready

\* A body that is not for the target of the round entered goes on waiting.
LEMMA OthersWait ==
  ASSUME OverlayTypeOK, NEW n \in Node, NEW outgoing, NEW phase, NEW agree \in AgreementState,
         EntersRound(n, outgoing, phase, agree),
         NEW b \in pending(n, outgoing), b.dest # target(n, entered(n))
  PROVE  b \in waiting_messages'[n]
<1>1. b \in pending(n, outgoing) \ ready(n, outgoing)
  BY DEF ready
<1>2. PICK bodies, waiting : /\ waiting = pending(n, outgoing) \ ready(n, outgoing)
                             /\ HandleBodies(n, bodies, phase, waiting, agree)
  BY DEF EntersRound
<1>3. BodiesHandled(n, bodies, phase, waiting, agree)
  BY <1>2, HandleBodiesEffect
<1> QED
  BY <1>1, <1>2, <1>3 DEF BodiesHandled

LEMMA EntersRoundDelivery ==
  ASSUME NoFailures, RoutesFit, Typed, RoundsInv, DeliveryInv, NEW n \in Node,
         NEW outgoing, NEW phase, NEW agree, Produces(n, outgoing, phase, agree),
         EntersRound(n, outgoing, phase, agree)
  PROVE  DeliveryInv'
<1> USE DEF Typed, ControlTypeOK, RoundsTypeOK
<1> DEFINE received == kept_for(n, entered(n))
           bodies   == UNION {m.bodies : m \in received}
           rest     == pending(n, outgoing) \ ready(n, outgoing)
<1>1. /\ \A k \in Node : overlay_round'[k] =
             IF k = n THEN entered(n) ELSE overlay_round[k]
      /\ overlay_net' = overlay_net \cup {sent(n, outgoing)}
      /\ \A k \in Node : outgoing_messages'[k] =
             IF k = n THEN {} ELSE outgoing_messages[k]
      /\ \A k \in Node : future_overlay'[k] =
             IF k = n THEN future_overlay[n] \ received ELSE future_overlay[k]
      /\ \A k \in Node : protocol_phase'[k] = IF k = n THEN phase ELSE protocol_phase[k]
      /\ HandleBodies(n, bodies, phase, rest, agree)
      /\ UNCHANGED query_num
  BY DEF EntersRound, OverlayTypeOK
<1>2. /\ overlay_round[n] \in Nat \cup {-1} /\ entered(n) = overlay_round[n] + 1
      /\ entered(n) \in Nat /\ PhaseRounds \in Nat
      /\ agree \in AgreementState /\ InOverlay(n)
  BY PhaseIsLong DEF entered, Produces
<1>3. /\ entered(n) <= PhaseRounds => phase = "SHUFFLE"
      /\ entered(n) > PhaseRounds => phase = "AGREEMENT"
      /\ phase \in OverlayPhase
  BY <1>2 DEF Produces, OverlayPhase
<1>4. \A m \in received :
        m \in messages /\ m.round = entered(n) /\ target(m.from, m.round) = n
  BY DEF kept_for, messages, RoundsInv, MessagesInv, ComingInv
<1> BodiesHandled(n, bodies, phase, rest, agree)
  <2> HIDE DEF bodies, rest
  <2> QED
    BY <1>1, <1>2, HandleBodiesEffect
<1>5. \A k \in Node \ {n} : /\ waiting_messages'[k] = waiting_messages[k]
                            /\ proxy_values'[k] = proxy_values[k]
                            /\ agreement'[k] = agreement[k]
  BY DEF BodiesHandled
<1>6. /\ proxy_values[n] \subseteq proxy_values'[n]
      /\ \A v \in Node : agreement[n].signed_proxy_values[v]
                           \subseteq agreement'[n].signed_proxy_values[v]
  <2> HIDE DEF bodies, rest
  <2>1. proxy_values[n] \subseteq proxy_values'[n]
    BY DEF BodiesHandled
  <2>2. \A v \in Node : agree.signed_proxy_values[v]
                          \subseteq agreement'[n].signed_proxy_values[v]
    BY DEF BodiesHandled
  <2> QED
    BY <2>1, <2>2 DEF Produces
<1>7. BodiesIn(Legal)'
  BY LegalClosed, EntersRoundBodies DEF DeliveryInv, Produces
<1>8. \A m \in messages' : Addressed(m)
  <2>1. messages' \subseteq messages \cup {sent(n, outgoing)}
    BY <1>1 DEF messages
  <2>2. Addressed(sent(n, outgoing))
    BY DEF Addressed, sent, ready
  <2> QED
    BY <2>1, <2>2 DEF DeliveryInv
<1>9. ASSUME NEW x \in Items PROVE Leaves(x)'
  <2>1. /\ x.source \in Node /\ x.kind \in {"contribution", "sign"}
        /\ 1 \in 1 .. Len(path(x))
    BY ItemType, FirstBody
  <2>2. CASE x.source # n
    BY <1>1, <1>5, <2>1, <2>2 DEF DeliveryInv, Leaves, is_there
  <2>3. CASE x.source = n /\ is_there(x)' /\ ~(entered(n) >= at(x)[1])
    <3>1. /\ at(x)[0] = start(x) /\ at(x)[1] \in Nat
          /\ \A r \in Nat : at(x)[0] < r /\ r < at(x)[1] =>
               target(hop(x.source, path(x), 0), r) # path(x)[1]
      <4>1. 1 - 1 = 0
        OBVIOUS
      <4> QED
        BY <2>1, <4>1, ItemSchedule
    <3>2. x.kind = "sign" => entered(n) > PhaseRounds
      BY <1>1, <2>3 DEF is_there
    <3>3. start(x) < entered(n)
      BY <1>2, <2>1, <3>2 DEF start
    <3>4. target(n, entered(n)) # path(x)[1]
      BY <1>2, <2>3, <3>1, <3>3 DEF hop
    <3>5. body(x, 1) \in pending(n, outgoing)
      <4>1. at(x)[1] >= entered(n)
        BY <1>2, <2>3, <3>1
      <4> QED
        BY <2>3, <3>2, <4>1, FirstIsPending DEF Produces
    <3>6. body(x, 1).dest = path(x)[1]
      BY <2>1, BodyFields
    <3>7. body(x, 1) \in waiting_messages'[n]
      BY <1>2, <3>4, <3>5, <3>6, OthersWait
    <3> QED
      BY <2>3, <3>7 DEF Leaves
  <2>4. CASE x.source = n /\ is_there(x)' /\ entered(n) >= at(x)[1]
    BY <1>1, <2>4 DEF Leaves
  <2> QED
    BY <2>2, <2>3, <2>4 DEF Leaves
<1>10. ASSUME NEW x \in Items, NEW i \in 1 .. Len(path(x)), has_come(x, i)
       PROVE  has_come(x, i)'
  <2> DEFINE k == path(x)[i]
  <2>1. /\ k \in Node /\ x.proxy \in Node /\ x.value \in Node /\ Len(path(x)) \in Nat
    BY ItemPath, ItemType
  <2>2. /\ proxy_values[x.proxy] \subseteq proxy_values'[x.proxy]
        /\ agreement[x.proxy].signed_proxy_values[x.value]
             \subseteq agreement'[x.proxy].signed_proxy_values[x.value]
    BY <1>5, <1>6, <2>1
  <2>3. /\ overlay_round[k] \in Int /\ overlay_round'[k] \in Int
        /\ overlay_round[k] <= overlay_round'[k]
    <3> HIDE DEF k
    <3>1. overlay_round[k] \in Nat \cup {-1}
      BY <2>1
    <3>2. overlay_round'[k] \in {overlay_round[k], overlay_round[k] + 1}
      BY <1>1, <1>2, <2>1
    <3> QED
      BY <3>1, <3>2
  <2>4. ASSUME i # Len(path(x))
        PROVE  /\ i + 1 \in 1 .. Len(path(x)) /\ at(x)[i] \in Nat
               /\ at(x)[i + 1] \in Nat
               /\ \A r \in Nat : at(x)[i] < r /\ r < at(x)[i + 1] =>
                    target(k, r) # path(x)[i + 1]
    <3>1. i + 1 \in 1 .. Len(path(x)) /\ (i + 1) - 1 = i /\ i # 0
      BY <2>1, <2>4
    <3>2. at(x)[i] \in Nat /\ at(x)[i + 1] \in Nat
      BY <3>1, ItemSchedule
    <3>3. \A r \in Nat : at(x)[(i + 1) - 1] < r /\ r < at(x)[i + 1] =>
            target(hop(x.source, path(x), (i + 1) - 1), r) # path(x)[i + 1]
      BY <3>1, ItemSchedule
    <3>4. hop(x.source, path(x), i) = k
      BY <3>1 DEF hop
    <3> QED
      BY <3>1, <3>2, <3>3, <3>4
  <2>5. ASSUME i # Len(path(x)), body(x, i + 1) \in waiting_messages[k],
               overlay_round[k] >= at(x)[i], ~(overlay_round'[k] >= at(x)[i + 1])
        PROVE  body(x, i + 1) \in waiting_messages'[k]
    <3>1. CASE k # n
      BY <1>5, <2>1, <2>5, <3>1
    <3>2. CASE k = n
      <4>1. target(n, entered(n)) # path(x)[i + 1]
        <5>1. overlay_round'[k] = entered(n)
          BY <1>1, <3>2
        <5>2. at(x)[i] < entered(n) /\ entered(n) < at(x)[i + 1]
          BY <1>2, <2>4, <2>5, <3>2, <5>1
        <5> QED
          BY <1>2, <2>4, <2>5, <3>2, <5>2
      <4>2. body(x, i + 1).dest = path(x)[i + 1]
        BY <2>4, <2>5, BodyFields
      <4>3. body(x, i + 1) \in pending(n, outgoing)
        BY <2>5, <3>2 DEF pending
      <4> QED
        BY <1>2, <3>2, <4>1, <4>2, <4>3, OthersWait
    <3> QED
      BY <3>1, <3>2
  <2>6. /\ i # Len(path(x)) => at(x)[i] \in Int /\ at(x)[i + 1] \in Int
        /\ i # Len(path(x)) /\ body(x, i + 1) \in waiting_messages[k]
             /\ overlay_round[k] >= at(x)[i] =>
               \/ overlay_round'[k] >= at(x)[i + 1]
               \/ body(x, i + 1) \in waiting_messages'[k]
    BY <2>4, <2>5
  <2>7. PICK j : j = k
    OBVIOUS
  <2> QED
    BY <1>10, <2>1, <2>2, <2>3, <2>6, <2>7, HasComeStays
<1>11. ASSUME NEW x \in Items, NEW i \in 1 .. Len(path(x)), on_its_way(x, i)
       PROVE  on_its_way(x, i)' \/ has_come(x, i)'
  <2>1. path(x)[i] \in Node
    BY ItemPath
  <2>2. PICK y \in overlay_net \cup future_overlay[path(x)[i]] :
          /\ y.from = hop(x.source, path(x), i - 1) /\ y.round = at(x)[i]
          /\ body(x, i) \in y.bodies
    BY <1>11 DEF on_its_way
  <2>3. CASE y \in overlay_net' \cup future_overlay'[path(x)[i]]
    BY <2>2, <2>3 DEF on_its_way
  <2>4. CASE y \notin overlay_net' \cup future_overlay'[path(x)[i]]
    <3>1. path(x)[i] = n /\ y \in received
      BY <1>1, <2>1, <2>2, <2>4
    <3>2. at(x)[i] = entered(n) /\ body(x, i) \in bodies
      BY <1>4, <2>2, <3>1
    <3>3. overlay_round'[n] >= at(x)[i]
      BY <1>1, <1>2, <3>2
    <3>4. /\ x.kind = "contribution" => phase = "SHUFFLE"
          /\ x.kind = "sign" => phase = "AGREEMENT"
      BY <1>2, <1>3, <3>2, ItemRounds
    <3> HIDE DEF bodies, rest
    <3> QED
      BY <1>1, <1>2, <3>1, <3>2, <3>3, <3>4, HandledHasCome
  <2> QED
    BY <2>3, <2>4
<1>12. ASSUME NEW x \in Items PROVE Travels(x)'
  <2>1. SUFFICES ASSUME NEW i \in 1 .. Len(path(x)),
                        overlay_round'[hop(x.source, path(x), i - 1)] >= at(x)[i]
                 PROVE  on_its_way(x, i)' \/ has_come(x, i)'
    BY DEF Travels
  <2> DEFINE from == hop(x.source, path(x), i - 1)
  <2>2. from \in Node /\ at(x)[i] \in Nat
    <3>1. i - 1 \in 0 .. Len(path(x))
      BY ItemPath
    <3> QED
      BY <3>1, ItemPath, ItemSchedule
  <2>3. CASE overlay_round[from] >= at(x)[i]
    BY <1>10, <1>11, <2>3 DEF DeliveryInv, Travels
  <2>4. CASE ~(overlay_round[from] >= at(x)[i])
    <3>1. from = n /\ at(x)[i] = entered(n)
      BY <1>1, <1>2, <2>1, <2>2, <2>4
    <3>2. body(x, i) \in sent(n, outgoing).bodies
      BY <3>1, NextIsSent
    <3>3. sent(n, outgoing).from = from /\ sent(n, outgoing).round = at(x)[i]
          /\ sent(n, outgoing) \in overlay_net'
      BY <1>1, <3>1 DEF sent
    <3>4. on_its_way(x, i)'
      BY <3>2, <3>3 DEF on_its_way
    <3> QED
      BY <3>4
  <2> QED
    BY <2>3, <2>4
<1>13. ASSUME NEW k \in Node PROVE ProxyInv(k)'
  <2>1. CASE k = n
    <3>1. bodies \in SUBSET Legal /\ \A b \in bodies : b.dest = n
      BY <1>4, HandledAreForMe
    <3>2. query_num'[n] # -1 /\ ProxyInv(n)
      BY <1>1, <1>2 DEF DeliveryInv, InOverlay
    <3> HIDE DEF bodies, rest
    <3> QED
      BY <1>1, <1>2, <2>1, <3>1, <3>2, HandledProxyInv DEF Produces
  <2>2. CASE k # n
    BY <1>1, <1>5, <2>2 DEF DeliveryInv, ProxyInv, SignedInv
  <2> QED
    BY <2>1, <2>2
<1> QED
  BY <1>7, <1>8, <1>9, <1>12, <1>13 DEF DeliveryInv, Addressed

-----------------------------------------------------------------------------
(* Signatures and proxies *)

\* Signatures on a value from its proxies, the node's own only if the value is
\* acceptable: they are enough only if the value is acceptable.
LEMMA EnoughIsAcceptable ==
  ASSUME NEW n \in Node, NEW v \in Node, SignedInv(n, agreement[n]),
         v \in accepted_values(agreement[n])
  PROVE  acceptable(v) /\ n \in ProxiesOf[v]
         /\ agreement[n].signed_proxy_values[v] \subseteq ProxiesOf[v]
<1> DEFINE S == agreement[n].signed_proxy_values[v]
           P == ProxiesOf[v]
<1>1. Cardinality(S) >= Log2N + 1 /\ Log2N \in Nat
  BY Log2NAssumption DEF accepted_values
<1>2. S # {}
  <2>1. Cardinality({}) = 0
    BY FS_EmptySet
  <2>2. S = {} => Cardinality(S) = 0
    BY <2>1
  <2> HIDE DEF S
  <2> QED
    BY <1>1, <2>2
<1>3. S \subseteq P /\ n \in P /\ (n \in S => acceptable(v))
  BY <1>2 DEF SignedInv
<1>4. P \subseteq Node
  BY ProxiesAssumption
<1>5. IsFiniteSet(P) /\ Cardinality(P) \in Nat
  BY <1>4, NodesAreFinite
<1>6. CASE n \notin S
  <2>1. IsFiniteSet(P \ {n}) /\ Cardinality(P \ {n}) = Cardinality(P) - 1
    BY <1>3, <1>5, FS_RemoveElement
  <2>2. Cardinality(S) <= Cardinality(P \ {n})
    BY <1>3, <1>6, <2>1, FS_Subset
  <2>3. Cardinality(S) \in Nat
    BY <1>3, <1>4, NodesAreFinite
  <2> HIDE DEF S, P
  <2>4. Cardinality(P) - 1 >= Log2N + 1
    BY <1>1, <1>5, <2>1, <2>2, <2>3
  <2> QED
    BY <1>3, <2>4 DEF acceptable, S, P
<1> QED
  BY <1>3, <1>6

\* A proxy with the signatures of all others accepts what is acceptable.
LEMMA AcceptableIsEnough ==
  ASSUME NEW n \in Node, NEW v \in proxied_by(n), acceptable(v),
         agreement[n].signed_proxy_values[v] \in SUBSET Node,
         ProxiesOf[v] \ {n} \subseteq agreement[n].signed_proxy_values[v]
  PROVE  v \in accepted_values(agreement[n])
<1> DEFINE S == agreement[n].signed_proxy_values[v]
           P == ProxiesOf[v]
<1>1. Cardinality(P) - 1 >= Log2N + 1 /\ Log2N \in Nat /\ v \in Node /\ n \in P
  BY Log2NAssumption DEF acceptable, proxied_by
<1>2. P \subseteq Node
  BY <1>1, ProxiesAssumption
<1>3. IsFiniteSet(P) /\ IsFiniteSet(S) /\ Cardinality(P) \in Nat /\ Cardinality(S) \in Nat
  BY <1>2, NodesAreFinite
<1>4. Cardinality(P \ {n}) = Cardinality(P) - 1
  BY <1>1, <1>3, FS_RemoveElement
<1>5. Cardinality(P \ {n}) <= Cardinality(S)
  BY <1>3, FS_Subset
<1> HIDE DEF P
<1>6. Cardinality(S) >= Log2N + 1
  BY <1>1, <1>3, <1>4, <1>5
<1> QED
  BY <1>1, <1>6 DEF accepted_values

LEMMA ProducedLegal ==
  ASSUME NoFailures, RoutesFit, Typed, RoundsInv, DeliveryInv, NEW n \in Node,
         query_num[n] = 0
  PROVE  /\ outgoing_messages[n] \subseteq Legal
         /\ signs(n) \subseteq Legal /\ accepts(n) \subseteq Legal
<1>1. outgoing_messages[n] \subseteq Legal /\ ProxyInv(n)
  BY DEF DeliveryInv, BodiesIn
<1>2. ASSUME NEW v \in proxy_values[n] PROVE multicast(n, "sign", v, {n}) \subseteq Legal
  <2>1. v \in Node /\ n \in ProxiesOf[v]
    BY <1>1 DEF ProxyInv, proxied_by
  <2>2. multicast(n, "sign", v, {n}) = {body(x, 1) : x \in items_from(n, "sign", v)}
    BY <2>1, MulticastBodies
  <2> QED
    BY <2>2, FirstBody, ItemIsLegal DEF items_from
<1>3. ASSUME NEW v \in accepted_values(agreement[n])
      PROVE  multicast(n, "accept", v, agreement[n].signed_proxy_values[v]) \subseteq Legal
  <2>1. v \in Node
    BY DEF accepted_values
  <2>2. PICK S : S = agreement[n].signed_proxy_values[v]
    OBVIOUS
  <2>3. S \subseteq ProxiesOf[v] /\ acceptable(v) /\ S \in SUBSET Node
    BY <1>1, <2>1, <2>2, EnoughIsAcceptable, ProxiesAssumption DEF ProxyInv
  <2>4. multicast(n, "accept", v, S) \in SUBSET Plain
    BY <2>1, <2>3, MulticastPlain DEF Kind
  <2>5. ASSUME NEW b \in multicast(n, "accept", v, S) PROVE b \in accept_bodies
    <3>1. b.value = v /\ b.signatures = S /\ leads_to(b) \in ProxiesOf[v]
      BY <2>1, MulticastLeads DEF Kind
    <3>2. b.kind = "accept"
      BY DEF multicast
    <3>3. b \in Body /\ b.query = 0
      BY <2>4 DEF Plain
    <3> QED
      BY <2>3, <3>1, <3>2, <3>3 DEF accept_bodies
  <2> QED
    BY <2>2, <2>5 DEF Legal
<1> QED
  BY <1>1, <1>2, <1>3 DEF signs, accepts

LEMMA RoundEndsDelivery ==
  ASSUME NoFailures, RoutesFit, Typed, RoundsInv, DeliveryInv, NEW n \in Node,
         EndOverlayRound(n), EverybodyAlive'
  PROVE  DeliveryInv'
<1> USE DEF Typed, ControlTypeOK, RoundsTypeOK
<1>1. InOverlay(n)
      /\ (EndsShuffle(n) \/ EndsPhase1(n) \/ Continues(n) \/ FinishAgreement(n))
  BY RoundEnds
<1>2. /\ overlay_round[n] \in Nat \cup {-1} /\ entered(n) = overlay_round[n] + 1
      /\ PhaseRounds \in Nat /\ PhaseRounds >= 1 /\ RoundInv(n)
      /\ agreement[n] \in AgreementState
  BY PhaseIsLong DEF entered, RoundsInv, OverlayTypeOK
<1>3. /\ outgoing_messages[n] \subseteq Legal
      /\ signs(n) \subseteq Legal /\ accepts(n) \subseteq Legal
  BY <1>1, ProducedLegal DEF InOverlay
<1>4. CASE EndsShuffle(n)
  <2>1. EntersRound(n, outgoing_messages[n] \cup signs(n), "AGREEMENT", agreement[n])
    BY <1>4 DEF EndsShuffle
  <2>2. entered(n) > PhaseRounds
    BY <1>2, <1>4 DEF EndsShuffle, FinishShuffle, ShuffleEnds
  <2>3. Produces(n, outgoing_messages[n] \cup signs(n), "AGREEMENT", agreement[n])
    BY <1>1, <1>2, <1>3, <2>2 DEF Produces
  <2> QED
    BY <2>1, <2>3, EntersRoundDelivery
<1>5. CASE EndsPhase1(n)
  <2>1. EntersRound(n, outgoing_messages[n] \cup accepts(n), "AGREEMENT",
                    finish_phase_1(agreement[n]))
    BY <1>5 DEF EndsPhase1
  <2>2. overlay_round[n] > PhaseRounds
    BY <1>2, <1>5 DEF EndsPhase1, FinishPhase1, Phase1Ends, RoundInv
  <2>3. /\ finish_phase_1(agreement[n]) \in AgreementState
        /\ finish_phase_1(agreement[n]).signed_proxy_values =
             agreement[n].signed_proxy_values
    BY <1>2 DEF finish_phase_1, AgreementState
  <2>4. ~(entered(n) <= PhaseRounds) /\ overlay_round[n] # PhaseRounds
    BY <1>2, <2>2
  <2>5. Produces(n, outgoing_messages[n] \cup accepts(n), "AGREEMENT",
                 finish_phase_1(agreement[n]))
    BY <1>1, <1>3, <2>3, <2>4 DEF Produces
  <2> QED
    BY <2>1, <2>3, <2>5, EntersRoundDelivery
<1>6. CASE Continues(n)
  <2>1. EntersRound(n, outgoing_messages[n], protocol_phase[n], agreement[n])
        /\ ~ShuffleEnds(n)
    BY <1>6 DEF Continues, ContinueOverlay
  <2>2. protocol_phase[n] \in {"SHUFFLE", "AGREEMENT"}
    BY <1>1 DEF InOverlay, OverlayPhase
  <2>3. /\ protocol_phase[n] = "SHUFFLE" => overlay_round[n] < PhaseRounds
        /\ protocol_phase[n] = "AGREEMENT" => overlay_round[n] > PhaseRounds
    BY <1>2, <2>1 DEF ShuffleEnds, RoundInv
  <2>4. overlay_round[n] # PhaseRounds
    BY <1>2, <2>2, <2>3
  <2>5. protocol_phase[n] = IF entered(n) <= PhaseRounds THEN "SHUFFLE" ELSE "AGREEMENT"
    BY <1>2, <2>2, <2>3
  <2>6. Produces(n, outgoing_messages[n], protocol_phase[n], agreement[n])
    BY <1>1, <1>2, <1>3, <2>4, <2>5 DEF Produces
  <2> QED
    BY <2>1, <2>6, EntersRoundDelivery
<1>7. CASE FinishAgreement(n)
  <2>1. /\ \E phase \in {"IDLE", "AGGREGATE"} :
             protocol_phase' = [protocol_phase EXCEPT ![n] = phase]
        /\ UNCHANGED <<waiting_messages, outgoing_messages, future_overlay, overlay_net,
                       query_num, overlay_round, proxy_values, agreement>>
    BY <1>7 DEF FinishAgreement, SendAggregateIfDone, messageVars
  <2>2. \A k \in Node :
          /\ query_num'[k] = -1 => query_num[k] = -1
          /\ protocol_phase'[k] \in OverlayPhase => protocol_phase[k] \in OverlayPhase
    BY <2>1 DEF OverlayPhase
  <2> QED
    BY <2>1, <2>2, DeliveryKept
<1> QED
  BY <1>1, <1>4, <1>5, <1>6, <1>7

LEMMA AggregationDelivery ==
  ASSUME NoFailures, Typed, RoundsInv, DeliveryInv, NEW n \in Node,
         AggregationArrives(n) \/ DrainAggregation(n)
  PROVE  DeliveryInv'
<1>1. UNCHANGED <<query_num, overlay_round, waiting_messages, outgoing_messages,
                  future_overlay, proxy_values, agreement, overlay_net>>
  BY DEF AggregationArrives, DrainAggregation, roundVars, messageVars, valueVars
<1>2. \/ UNCHANGED protocol_phase
      \/ \E phase \in {"IDLE", "AGGREGATE"} :
           protocol_phase' = [protocol_phase EXCEPT ![n] = phase]
  BY DEF AggregationArrives, DrainAggregation, HandleAggregation, SendAggregateIfDone
<1>3. \A k \in Node :
        protocol_phase'[k] \in OverlayPhase => protocol_phase[k] \in OverlayPhase
  BY <1>2 DEF OverlayPhase, Typed, ControlTypeOK, RoundsTypeOK
<1> QED
  BY <1>1, <1>3, DeliveryKept

LEMMA InitDelivery == ASSUME NoFailures, RoutesFit PROVE Init => DeliveryInv
<1> SUFFICES ASSUME Init PROVE DeliveryInv
  OBVIOUS
<1>1. BodiesIn(Legal) /\ \A m \in messages : Addressed(m)
  BY DEF Init, BodiesIn, messages
<1>2. ASSUME NEW x \in Items PROVE Leaves(x) /\ Travels(x)
  <2>1. \A n \in Node : overlay_round[n] = -1 /\ protocol_phase[n] = "IDLE"
    BY DEF Init
  <2>2. PhaseRounds \in Nat
    BY PhaseIsLong
  <2>3. ~is_there(x)
    BY <2>1, <2>2, ItemType DEF is_there, OverlayPhase
  <2>4. ASSUME NEW i \in 1 .. Len(path(x))
        PROVE  ~(overlay_round[hop(x.source, path(x), i - 1)] >= at(x)[i])
    <3>1. i - 1 \in 0 .. Len(path(x))
      BY ItemPath
    <3>2. hop(x.source, path(x), i - 1) \in Node /\ at(x)[i] \in Nat
      BY <3>1, ItemPath, ItemSchedule
    <3>3. overlay_round[hop(x.source, path(x), i - 1)] = -1
      BY <2>1, <3>2
    <3> QED
      BY <3>2, <3>3
  <2> QED
    BY <2>3, <2>4 DEF Leaves, Travels
<1>3. \A n \in Node : ProxyInv(n)
  BY DEF Init, ProxyInv, SignedInv, NewAgreement
<1> QED
  BY <1>1, <1>2, <1>3 DEF DeliveryInv

LEMMA NextDelivery ==
  ASSUME NoFailures, RoutesFit, Typed, RoundsInv, DeliveryInv, [Next]_vars, EverybodyAlive'
  PROVE  DeliveryInv'
<1>1. CASE UNCHANGED vars
  <2>1. UNCHANGED <<waiting_messages, outgoing_messages, future_overlay, overlay_net,
                    overlay_round, proxy_values, agreement, query_num, protocol_phase>>
    BY <1>1 DEF vars, roundVars, messageVars, valueVars
  <2> QED
    BY <2>1, DeliveryKept
<1>2. ASSUME NEW n \in Node, Handler(n) PROVE DeliveryInv'
  BY <1>2, QueryRequestDelivery, SignatureResponseDelivery, OverlayArrivesDelivery,
     AggregationDelivery, RoundEndsDelivery DEF Handler
<1>3. \A n \in Node : ~PingArrives(n) /\ ~Timer(n) /\ ~Crash(n)
  BY NobodyFails DEF RoundsInv
<1>4. CASE Server
  <2>1. UNCHANGED <<waiting_messages, outgoing_messages, future_overlay, overlay_net,
                    overlay_round, proxy_values, agreement, query_num, protocol_phase>>
    BY <1>4 DEF Server, ServerStartsQuery, ServerSigns, clientVars, roundVars,
       messageVars, valueVars
  <2> QED
    BY <2>1, DeliveryKept
<1> QED
  BY <1>1, <1>2, <1>3, <1>4 DEF Next

\* Every item reaches its proxy by its deadline, as long as the processes survive
\* what they relay.
THEOREM DeliveryInvariant ==
  ASSUME NoFailures, RoutesFit
  PROVE  Spec => [](Typed /\ (EverybodyAlive => RoundsInv /\ DeliveryInv))
<1>1. Init => (EverybodyAlive => DeliveryInv)
  BY InitDelivery
<1>2. Typed /\ (EverybodyAlive => RoundsInv) /\ (EverybodyAlive => DeliveryInv) /\ [Next]_vars =>
        (EverybodyAlive => DeliveryInv)'
  BY AliveBefore, NextDelivery
<1> QED
  BY <1>1, <1>2, RoundsInvariant, PTL DEF Spec

\* SHUFFLE lasts long enough: a node that leaves it has received every value it
\* is a proxy of, also those that came through other nodes, as long as the
\* processes survive what they relay.
THEOREM ShuffleIsLongEnough ==
  ASSUME NoFailures, RoutesFit PROVE Spec => [](EverybodyAlive => ShuffleDelivers)
<1>1. Typed /\ RoundsInv /\ DeliveryInv => ShuffleDelivers
  <2> SUFFICES ASSUME Typed, RoundsInv, DeliveryInv, NEW n \in Node,
                      protocol_phase[n] \in {"AGREEMENT", "AGGREGATE"}
               PROVE  proxy_values[n] = proxied_by(n)
    BY DEF ShuffleDelivers
  <2>1. overlay_round[n] > PhaseRounds
    <3>1. /\ RoundInv(n) /\ PhaseRounds \in Nat /\ overlay_round[n] \in Nat \cup {-1}
      BY PhaseIsLong DEF RoundsInv, Typed, ControlTypeOK, RoundsTypeOK
    <3> QED
      BY <3>1 DEF RoundInv
  <2>2. passed(n, PhaseRounds)
    BY <2>1 DEF passed
  <2>3. proxied_by(n) \subseteq proxy_values[n]
    BY <2>2, ContributionHasArrived
  <2> QED
    BY <2>3 DEF DeliveryInv, ProxyInv
<1> QED
  BY <1>1, DeliveryInvariant, PTL

\* A node that ends AGREEMENT accepts what is acceptable.
LEMMA AgreementIsComplete ==
  ASSUME NoFailures, RoutesFit, Typed, RoundsInv, DeliveryInv, NEW n \in Node,
         FinishAgreement(n)
  PROVE  accepted_values(agreement[n]) = {v \in proxied_by(n) : acceptable(v)}
<1>1. overlay_round[n] > 2 * PhaseRounds
  <2>1. protocol_phase[n] = "AGREEMENT" /\ agreement[n].phase_1_finished /\ RoundInv(n)
    BY DEF FinishAgreement, AgreementEnds, RoundsInv
  <2> QED
    BY <2>1 DEF RoundInv
<1>2. passed(n, 2 * PhaseRounds)
  BY <1>1 DEF passed
<1>3. ASSUME NEW v \in accepted_values(agreement[n])
      PROVE  v \in proxied_by(n) /\ acceptable(v)
  <2>1. v \in Node /\ SignedInv(n, agreement[n])
    BY DEF accepted_values, DeliveryInv, ProxyInv
  <2> QED
    BY <2>1, EnoughIsAcceptable DEF proxied_by
<1>4. ASSUME NEW v \in proxied_by(n), acceptable(v)
      PROVE  v \in accepted_values(agreement[n])
  <2>1. ProxiesOf[v] \ {n} \subseteq agreement[n].signed_proxy_values[v]
    BY <1>2, SignatureHasArrived
  <2>2. agreement[n].signed_proxy_values[v] \in SUBSET Node
    BY DEF proxied_by, Typed, OverlayTypeOK, AgreementState
  <2> QED
    BY <1>4, <2>1, <2>2, AcceptableIsEnough
<1> QED
  BY <1>3, <1>4

LEMMA NextProxiesAgree ==
  ASSUME NoFailures, RoutesFit, Typed, RoundsInv, DeliveryInv, ProxiesAgree, [Next]_vars,
         EverybodyAlive'
  PROVE  ProxiesAgree'
<1> USE DEF Typed, ControlTypeOK, RoundsTypeOK
<1>1. CASE UNCHANGED <<accepted, is_last_round>>
  BY <1>1 DEF ProxiesAgree
<1>2. ASSUME NEW n \in Node, FinishAgreement(n) PROVE ProxiesAgree'
  <2>1. /\ accepted' = [accepted EXCEPT ![n] = accepted_values(agreement[n])]
        /\ is_last_round' = [is_last_round EXCEPT ![n] = TRUE]
    BY <1>2 DEF FinishAgreement
  <2>2. accepted_values(agreement[n]) = {v \in proxied_by(n) : acceptable(v)}
    BY <1>2, AgreementIsComplete
  <2> QED
    BY <2>1, <2>2 DEF ProxiesAgree, OverlayTypeOK
<1>3. ASSUME NEW n \in Node, QueryRequestArrives(n) PROVE ProxiesAgree'
  <2>1. /\ accepted' = [accepted EXCEPT ![n] = {}]
        /\ is_last_round' = [is_last_round EXCEPT ![n] = FALSE]
    BY <1>3, QueryIsFirst DEF StartQuery
  <2> QED
    BY <2>1 DEF ProxiesAgree
<1>4. ASSUME NEW n \in Node, Handler(n), ~FinishAgreement(n), ~QueryRequestArrives(n)
      PROVE  UNCHANGED <<accepted, is_last_round>>
  <2>1. CASE SignatureResponseArrives(n) \/ OverlayArrives(n)
    BY <2>1 DEF SignatureResponseArrives, OverlayArrives, roundVars, valueVars
  <2>2. CASE AggregationArrives(n) \/ DrainAggregation(n)
    BY <2>2 DEF AggregationArrives, DrainAggregation, roundVars, valueVars
  <2>3. CASE EndOverlayRound(n)
    <3>1. EndsShuffle(n) \/ EndsPhase1(n) \/ Continues(n)
      BY <1>4, <2>3, RoundEnds
    <3>2. UNCHANGED is_last_round
      BY <3>1 DEF EndsShuffle, EndsPhase1, Continues, EntersRound
    <3>3. UNCHANGED accepted
      BY <3>1 DEF EndsShuffle, EndsPhase1, Continues, FinishShuffle, FinishPhase1,
         ContinueOverlay
    <3> QED
      BY <3>2, <3>3
  <2> QED
    BY <1>4, <2>1, <2>2, <2>3 DEF Handler
<1>5. \A n \in Node : ~PingArrives(n) /\ ~Timer(n) /\ ~Crash(n)
  BY NobodyFails DEF RoundsInv
<1>6. CASE UNCHANGED vars \/ Server
  <2>1. UNCHANGED <<accepted, is_last_round>>
    BY <1>6 DEF Server, ServerStartsQuery, ServerSigns, clientVars, vars, roundVars,
       valueVars
  <2> QED
    BY <1>1, <2>1
<1> QED
  BY <1>1, <1>2, <1>3, <1>4, <1>5, <1>6 DEF Next

\* The proxies of a value agree on it: all of them accept it or none of them, on
\* whatever paths their signatures go to each other, unless a process on one of
\* these paths has ended.
THEOREM ProxiesAreOfOneMind ==
  ASSUME NoFailures, RoutesFit PROVE Spec => [](EverybodyAlive => ProxiesAgree)
<1>1. Init => (EverybodyAlive => ProxiesAgree)
  BY DEF Init, ProxiesAgree
<1>2. Typed /\ (EverybodyAlive => RoundsInv /\ DeliveryInv) /\ (EverybodyAlive => ProxiesAgree)
        /\ [Next]_vars => (EverybodyAlive => ProxiesAgree)'
  BY NextProxiesAgree, AliveBefore
<1> QED
  BY <1>1, <1>2, DeliveryInvariant, PTL DEF Spec
=============================================================================
