--------------------------- MODULE MCContribution ---------------------------
(***************************************************************************)
(* One contribution in bytes, with sizes scaled down: paths of one to      *)
(* three hops, records of different lengths, so that bodies end at, before *)
(* and behind the end of a cipher block.                                   *)
(***************************************************************************)
EXTENDS Contribution

\* A record that is a struct with members of several kinds.
MCRecord == Tuple(<<String, Int32, Set(Int32)>>)
MCRecords == { <<<<>>, -300, {}>>, <<<<65>>, 0, {-7, 5}>>, <<<<65, 66, 67>>, 70000, {9}>> }

MCPaths == { <<1>>, <<2, 1>>, <<3, 2, 1>> }

\* Products of two primes, as RSA has them: 11 * 17, and 107 * 3 = 1 mod 160.
MCRandoms == { [salt |-> 0, factor |-> 2], [salt |-> 1, factor |-> 90] }

MCBackground ==
  { <<OVERLAY, 3, 1, 2, <<OVERLAY, 0, 1, 0, 0, <<>>>>>>,       \* a dummy
    <<PING, 2, 0>>, <<PING, 70000, 1>>,
    <<AGGREGATION, 3, 0, 2, <<AGGREGATION_VALUE, <<<<66>>, -1, {3}>>>>>>,
    <<OVERLAY, 3, 0, 2, <<PATH_OVERLAY, <<4, 5>>, 0, 1, 0, 1,
                          <<<<AGGREGATION_VALUE, <<<<>>, 5, {}>>>>>>>>>> }

MCBehind == <<255, 1, 255, 255>>
=============================================================================
