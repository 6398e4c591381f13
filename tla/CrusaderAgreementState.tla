----------------------- MODULE CrusaderAgreementState -----------------------
(***************************************************************************)
(* The state one proxy keeps during Crusader Agreement and the functions   *)
(* that change it (CrusaderAgreementState.hpp and _impl.hpp).  A value is  *)
(* named by the meter that contributed it.  signed_proxy_values maps a     *)
(* value to the set of meters whose signature on it is known; a value the  *)
(* C++ map does not hold has the empty set.  Nothing forges a signature,   *)
(* so rsa_verify succeeds on every signature a message carries.            *)
(***************************************************************************)
EXTENDS Integers, FiniteSets

CONSTANTS
  Node,    \* the meters
  Log2N    \* log2n, the ceiling of the logarithm of num_nodes

ASSUME Log2NAssumption == Log2N \in Nat

AgreementState == [signed_proxy_values : [Node -> SUBSET Node],
                   phase_1_finished    : BOOLEAN]

NewAgreement == [signed_proxy_values |-> [v \in Node |-> {}],
                 phase_1_finished    |-> FALSE]

-----------------------------------------------------------------------------
(* Mutated forms, used to test the properties *)
one_signature_short(state) ==
  {v \in Node : Cardinality(state.signed_proxy_values[v]) >= Log2N}
-----------------------------------------------------------------------------

\* Values with enough signatures: what finish_phase_1 sends accept messages
\* for, and what finish_phase_2 returns.
accepted_values(state) ==
  {v \in Node : Cardinality(state.signed_proxy_values[v]) >= Log2N + 1}

finish_phase_1(state) == [state EXCEPT !.phase_1_finished = TRUE]

\* handle_phase_2_message believes an accept message whose signatures, the
\* accepter's own left out, are at least log2n.
enough_signatures(accepter, signatures) ==
  Cardinality(signatures \ {accepter}) >= Log2N

\* The signatures a SignedValue ("sign") or an AgreementValue ("accept")
\* adds.  A SignedValue carries the signature of its signer alone.
signatures_added(message) ==
  CASE message.kind = "sign" -> message.signatures
    [] message.kind = "accept" /\ enough_signatures(message.signer, message.signatures)
         -> message.signatures
    [] OTHER -> {}

\* handle_message for each of a set of messages.  What one message adds does
\* not depend on the others, so their order does not matter.
handle_agreement_messages(state, messages) ==
  [state EXCEPT !.signed_proxy_values =
     [v \in Node |-> state.signed_proxy_values[v] \cup
        UNION {signatures_added(m) : m \in {x \in messages : x.value = v}}]]
=============================================================================
