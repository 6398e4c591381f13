---------------------------- MODULE TimerManager ----------------------------
(***************************************************************************)
(* What the interface TimerManager promises to its users (the comments of  *)
(* TimerManager.hpp): a timer has an identifier of its own, its callback   *)
(* is invoked once when it expires, a timer cancelled before it has        *)
(* expired takes no action, and cancelling an expired one does nothing.    *)
(***************************************************************************)
CONSTANTS Id, Callback

VARIABLES
  state,      \* of each timer
  callback    \* of each timer that has been registered

State == {"free", "pending", "running", "cancelled", "done"}

Init ==
  /\ state = [id \in Id |-> "free"]
  /\ callback = [id \in Id |-> {}]

Becomes(id, from, to) ==
  /\ state[id] = from
  /\ state' = [state EXCEPT ![id] = to]

register_timer(id, c) ==
  /\ Becomes(id, "free", "pending")
  /\ callback' = [callback EXCEPT ![id] = {c}]

cancel_timer(id) == Becomes(id, "pending", "cancelled") /\ UNCHANGED callback

\* The timer expires: its callback starts, and no other one is running.
Expire(id) ==
  /\ \A other \in Id : state[other] # "running"
  /\ Becomes(id, "pending", "running")
  /\ UNCHANGED callback

\* A timer whose callback has returned, or that has been cancelled, is forgotten.
Forget(id) ==
  /\ Becomes(id, "running", "done") \/ Becomes(id, "cancelled", "done")
  /\ callback' = [callback EXCEPT ![id] = {}]

Next ==
  \E id \in Id :
    \/ \E c \in Callback : register_timer(id, c)
    \/ cancel_timer(id) \/ Expire(id) \/ Forget(id)

Spec == Init /\ [][Next]_<<state, callback>>
=============================================================================
