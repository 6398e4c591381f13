---------------------------- MODULE Contribution ----------------------------
(***************************************************************************)
(* What happens to the bytes of one meter's contribution on its way        *)
(* through a query: blinded, signed by the server, unblinded, wrapped into *)
(* an onion, passed on by the meters of its path, checked by its proxy,    *)
(* and sent, signed by the proxy, to another proxy.  Every message is      *)
(* written to a buffer by its sender and read from it by its receiver.     *)
(* ProtocolState has the other half: all meters, rounds, failures and      *)
(* timeouts, with messages that are never bytes.                           *)
(***************************************************************************)
EXTENDS CryptoLibrary

CONSTANTS
  Meter,       \* the meter that contributes
  Paths,       \* the paths find_paths may return to its proxy
  OtherProxy,  \* the other proxy of the contribution
  Records,     \* the values the meter may contribute
  Randoms,     \* the random choices of brsa_blind: records salt, factor
  Session,     \* the session key of the envelopes
  Background,  \* other messages a meter sends: dummies, pings, aggregates
  Behind,      \* the bytes behind a message in the buffer it is read from
  LastQuery    \* bound: the last query number (they start at 0)

UTILITY_NODE_ID == -1

ASSUME PathsAssumption ==
  \A path \in Paths : path # <<>> /\ \A i \in DOMAIN path : path[i] \notin {Meter, OtherProxy}
ASSUME RandomsAssumption ==
  \A x \in Randoms : x.salt \in {0, 1} /\ x.factor \in blind_factors

VARIABLES
  server_query, meter_signed,    \* QueryServer: query number, curr_query_meters_signed
  my_contribution, path, secret, \* ProtocolState; current_blinding_secret
  to_meter, to_server,           \* frames, in order
  overlay,                       \* frames on their way between meters
  background,
  proxy_values,                  \* at the proxy
  rejected,                      \* contributions and signed values whose
                                 \* signature did not verify
  signed_proxy_values,           \* at the other proxy
  thrown                         \* the query of a response that could not be
                                 \* unblinded; -1: there was none

serverVars == <<server_query, meter_signed>>
meterVars == <<my_contribution, path, secret>>
proxyVars == <<proxy_values, signed_proxy_values, rejected>>
vars == <<serverVars, meterVars, to_meter, to_server, overlay, background,
          proxyVars, thrown>>

-----------------------------------------------------------------------------
\* A message on its way: what was written and, to compare, what was meant;
\* query is the query it was sent for and to its receiver.
frame(message, to, query) ==
  [message |-> message, bytes |-> to_bytes(Message, message), to |-> to, query |-> query]

received(f) == from_bytes(Message, f.bytes \o Behind)

tuple_bytes(value_tuple) == to_bytes(ValueTuple, value_tuple)
contribution_bytes(c) == to_bytes(Tuple(ValueContribution), c)

transport(sender, body, query) ==
  frame(<<OVERLAY, 0, 1, sender, body>>, destination(body), query)

Init ==
  /\ server_query = -1 /\ meter_signed = FALSE
  /\ my_contribution = <<>> /\ path = <<>> /\ secret = -1
  /\ to_meter = <<>> /\ to_server = <<>> /\ overlay = {} /\ background = {}
  /\ proxy_values = {} /\ rejected = {} /\ signed_proxy_values = {}
  /\ thrown = -1

\* Messages that carry no contribution; bound: one at a time, before the first
\* query.
SendBackground ==
  /\ server_query = -1 /\ background = {}
  /\ \E m \in Background : background' = {frame(m, Meter, -1)}
  /\ UNCHANGED <<serverVars, meterVars, to_meter, to_server, overlay, proxyVars, thrown>>

BackgroundArrives ==
  /\ background # {}
  /\ background' = {}
  /\ UNCHANGED <<serverVars, meterVars, to_meter, to_server, overlay, proxyVars, thrown>>

ServerStartsQuery_keeps_signed ==    \* a mutated form
  /\ server_query < LastQuery /\ background = {}
  /\ server_query' = server_query + 1
  /\ to_meter' = Append(to_meter,
       frame(<<QUERY_REQUEST, UTILITY_NODE_ID, server_query', 1, 2, 3,
               <<1, 0, 0, 0>>, <<>>, <<7>>>>, Meter, server_query'))
  /\ UNCHANGED <<meter_signed, meterVars, to_server, overlay, background, proxyVars, thrown>>

\* The server starts a query, while the last may be still under way.
ServerStartsQuery ==
  /\ server_query < LastQuery /\ background = {}
  /\ server_query' = server_query + 1
  /\ meter_signed' = FALSE
  /\ to_meter' = Append(to_meter,
       frame(<<QUERY_REQUEST, UTILITY_NODE_ID, server_query', 1, 2, 3,
               <<1, 0, 0, 0>>, <<>>, <<7>>>>, Meter, server_query'))
  /\ UNCHANGED <<meterVars, to_server, overlay, background, proxyVars, thrown>>

\* start_query: the contribution is blinded and sent to be signed; the secret
\* of an earlier query is gone.
QueryRequestArrives ==
  /\ to_meter # <<>> /\ thrown = -1
  /\ LET request == received(Head(to_meter))
     IN /\ request[1] = QUERY_REQUEST
        /\ \E record \in Records, p \in Paths, x \in Randoms :
             LET tuple == <<request[3], record, <<p[Len(p)], OtherProxy>>>>
                 blinded == brsa_blind(tuple_bytes(tuple), x.salt, x.factor)
             IN /\ my_contribution' = tuple
                /\ path' = p
                /\ secret' = blinded.secret
                /\ to_server' = Append(to_server,
                     frame(<<SIGNATURE_REQUEST, Meter, <<BYTES, blinded.blind_message>>>>,
                           UTILITY_NODE_ID, request[3]))
  /\ to_meter' = Tail(to_meter)
  /\ UNCHANGED <<serverVars, overlay, background, proxyVars, thrown>>

\* The server signs what it cannot read, once for each meter and query.
ServerSigns ==
  /\ to_server # <<>>
  /\ to_server' = Tail(to_server)
  /\ meter_signed' = TRUE
  /\ LET request == received(Head(to_server))
         signature == brsa_blind_sign(request[3][2])
     IN to_meter' = IF meter_signed THEN to_meter
                    ELSE Append(to_meter,
                           frame(<<SIGNATURE_RESPONSE, UTILITY_NODE_ID, <<BYTES, signature>>>>,
                                 request[2], Head(to_server).query))
  /\ UNCHANGED <<server_query, meterVars, overlay, background, proxyVars, thrown>>

\* handle_signature_response: a signature that does not become one of the
\* meter's present contribution ends the process.
SignatureResponseArrives ==
  /\ to_meter # <<>> /\ thrown = -1
  /\ LET response == received(Head(to_meter))
         signature == brsa_finalize(response[3][2], secret, tuple_bytes(my_contribution))
         onion == build_encrypted_onion(path,
                    <<VALUE_CONTRIBUTION, my_contribution, signature>>,
                    my_contribution[1], Session)
     IN /\ response[1] = SIGNATURE_RESPONSE
        /\ IF signature = Failed
           THEN thrown' = Head(to_meter).query /\ UNCHANGED overlay
           ELSE /\ overlay' = overlay \cup {transport(Meter, onion, my_contribution[1])}
                /\ UNCHANGED thrown
  /\ to_meter' = Tail(to_meter)
  /\ UNCHANGED <<serverVars, meterVars, to_server, background, proxyVars>>

-----------------------------------------------------------------------------
(* The overlay.  A body decrypted at its destination is the next layer, for *)
(* the next meter, or the payload.                                          *)

\* handle_shuffle_phase_message
ShuffleMessage(proxy, c, query) ==
  IF brsa_verify(c[3], tuple_bytes(c[2]))
  THEN /\ proxy_values' = proxy_values \cup {[proxy |-> proxy, value |-> c, sent |-> FALSE]}
       /\ UNCHANGED rejected
  ELSE rejected' = rejected \cup {query} /\ UNCHANGED proxy_values

\* handle_phase_1_message: the first signature of the map must be valid.
AgreementMessage(c, signatures, query) ==
  LET signer == CHOOSE s \in DOMAIN signatures : \A t \in DOMAIN signatures : s <= t
  IN IF rsa_verify(contribution_bytes(c), signatures[signer], signer)
     THEN signed_proxy_values' = signed_proxy_values \cup {c} /\ UNCHANGED rejected
     ELSE rejected' = rejected \cup {query} /\ UNCHANGED signed_proxy_values

\* handle_overlay_message, for onions and for PathOverlayMessages at the end of
\* their path; a body that cannot be decrypted ends the process.
Dispatch(f, message) ==
  LET body == enclosed_body(message)[1]
      is(type) == message # Failed /\ body[1] = type
  IN /\ overlay' = (overlay \ {f}) \cup
          (IF is(OVERLAY) \/ is(PATH_OVERLAY) THEN {transport(f.to, body, f.query)} ELSE {})
     /\ \/ /\ is(VALUE_CONTRIBUTION)
           /\ ShuffleMessage(f.to, body, f.query)
           /\ UNCHANGED signed_proxy_values
        \/ /\ is(SIGNED_VALUE)
           /\ AgreementMessage(<<VALUE_CONTRIBUTION, body[2], body[3]>>, body[4], f.query)
           /\ UNCHANGED proxy_values
        \/ /\ ~is(VALUE_CONTRIBUTION) /\ ~is(SIGNED_VALUE)
           /\ UNCHANGED proxyVars
     /\ thrown' = IF message = Failed THEN f.query ELSE thrown
     /\ UNCHANGED <<serverVars, meterVars, to_meter, to_server, background>>

opened(arrived, meter) ==
  IF is_encrypted(arrived) THEN rsa_decrypt(arrived, meter) ELSE arrived

OverlayArrives(f) == Dispatch(f, opened(received(f)[5], f.to))

\* At the end of SHUFFLE a proxy signs the value and sends it to the other
\* one, encrypted; bound: once, over a path of one hop.
FinishShuffle(v) ==
  LET signed == <<SIGNED_VALUE, v.value[2], v.value[3],
                  v.proxy :> rsa_sign(contribution_bytes(v.value), v.proxy)>>
      query  == v.value[2][1]
      message == rsa_encrypt(<<PATH_OVERLAY, <<>>, query, OtherProxy, 0, 0, <<signed>>>>,
                             OtherProxy, Session)
  IN /\ ~v.sent
     /\ overlay' = overlay \cup {transport(v.proxy, message, query)}
     /\ proxy_values' = (proxy_values \ {v}) \cup {[v EXCEPT !.sent = TRUE]}
     /\ UNCHANGED <<serverVars, meterVars, to_meter, to_server, background,
                    signed_proxy_values, rejected, thrown>>

Overlay ==
  \/ \E f \in overlay : OverlayArrives(f)
  \/ \E v \in proxy_values : FinishShuffle(v)

Next ==
  \/ SendBackground \/ BackgroundArrives \/ ServerStartsQuery
  \/ QueryRequestArrives \/ ServerSigns \/ SignatureResponseArrives
  \/ Overlay

Spec == Init /\ [][Next]_vars

-----------------------------------------------------------------------------
(* Properties *)

frames == overlay \cup background \cup Range(to_meter) \cup Range(to_server)

\* What a receiver reads is the message its sender wrote, whatever lies behind
\* it in the buffer.
ArrivesUnchanged == \A f \in frames : received(f) = f.message

\* to_bytes fills the buffer that was allocated from bytes_size and not more,
\* and post_object produces the same bytes.
WritesItsSize ==
  \A f \in frames : /\ Len(f.bytes) = bytes_size(Message, f.message)
                    /\ post_object(Message, f.message) = f.bytes

\* The cipher text of a body is as long as the buffer make_encrypted_message
\* allocates for it (its assertion), whatever the length of the plain text.
CiphertextFits ==
  \A f \in overlay :
    LET bytes == enclosed_body(f.message[5])[1][2]
    IN Len(bytes) = encrypted_size(Len(decrypted(bytes, f.to)))

\* Only the meter that is next on the path can open an onion: it and nobody
\* else learns the hop after it, or, if it is the proxy, the contribution.
Meters == UNION {Range(p) : p \in Paths} \cup {Meter, OtherProxy}

OnlyTheNextHopOpens ==
  \A f \in overlay, m \in Meters :
    (decrypted(enclosed_body(f.message[5])[1][2], m) # Failed) <=> (m = f.to)

\* Nothing but its proxy gets a contribution, and what the proxy accepts is
\* what the meter contributed to the query.
ProxyGetsContribution ==
  \A v \in proxy_values :
    /\ v.proxy = v.value[2][3][1]
    /\ v.value[2][1] = my_contribution[1] => v.value[2] = my_contribution

\* When no message is under way any more, the meter's contribution has been
\* accepted, unless the answer to an earlier query has ended the process.
ContributionIsAccepted ==
  to_meter = <<>> /\ to_server = <<>> /\ overlay = {} /\ my_contribution # <<>> =>
    thrown # -1 \/ \E v \in proxy_values : v.value[2] = my_contribution

\* The signature the server gives in answer to the present request unblinds;
\* only one that answers the request of an earlier query ends the process
\* (ProtocolState's unblinds).
ThrowsForOldQueryOnly == thrown # -1 => thrown < my_contribution[1]

\* The signature of a proxy is valid for the proxy that receives it.
SignaturesVerify == rejected = {}
=============================================================================
