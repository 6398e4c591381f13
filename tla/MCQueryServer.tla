--------------------------- MODULE MCQueryServer ---------------------------
(***************************************************************************)
(* Instances of QueryServer: three groups that report either of two        *)
(* results.  A group that is Silent may also be late or not report at all. *)
(***************************************************************************)
EXTENDS QueryServer
=============================================================================
