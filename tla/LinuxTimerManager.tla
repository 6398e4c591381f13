------------------------- MODULE LinuxTimerManager -------------------------
(***************************************************************************)
(* LinuxTimerManager: timers of the operating system, whose signal handler *)
(* queues their identifiers for a thread that runs the callbacks.  Three   *)
(* parties act on the tables: the network thread of the program, the       *)
(* callback thread, and through it the callbacks, which also register and  *)
(* cancel timers.  The mutex covers cancel_timer and the callback thread's *)
(* own steps, each of them one action here; register_timer takes no lock,  *)
(* and each of its uses of next_id and of the tables is an action.         *)
(*                                                                         *)
(* Two threads inside register_timer also race on the std::maps; what that *)
(* may do to the maps themselves is left out.                              *)
(***************************************************************************)
EXTENDS Integers, FiniteSets

CONSTANTS
  MaxTimers,  \* bound: the number of timers created
  Serial,     \* whether the threads never register timers at the same time
  Nobody      \* no timer

ASSUME MaxTimersAssumption == MaxTimers \in Nat
ASSUME SerialAssumption == Serial \in BOOLEAN

Id == 0 .. MaxTimers - 1
ASSUME NobodyAssumption == Nobody \notin Id

\* Who registers a timer; a callback is known by the thread that brought it.
Thread == {"network", "callback"}

VARIABLES
  next_id, timer_handles, timer_callbacks, cancelled_timers,
  timers_fired_semaphore, thread_shutdown,
  kernel,     \* the timers of the operating system, by handle: what has become
              \* of each, and the value its signal carries
  created,    \* how many there are; handles are numbered in this order
  returned,   \* the identifiers that have been returned to somebody
  reg,        \* for each thread where it is in register_timer
  handle,     \* and its variable timer_handle
  pc,         \* where the callback thread is
  timer_id    \* and its variable timer_id

tables == <<timer_handles, timer_callbacks, cancelled_timers>>
registers == <<next_id, created, returned, reg, handle>>
loop == <<pc, timer_id>>
vars == <<tables, registers, loop, timers_fired_semaphore, thread_shutdown, kernel>>

\* What may be in the tables: a handle, or the thread of the callback.
KernelState == {"none", "created", "armed", "refused", "queued", "taken", "deleted"}

Init ==
  /\ next_id = 0
  /\ timer_handles = [id \in Id |-> Nobody]
  /\ timer_callbacks = [id \in Id |-> {}]
  /\ cancelled_timers = {}
  /\ timers_fired_semaphore = 0
  /\ thread_shutdown = FALSE
  /\ kernel = [h \in Id |-> [state |-> "none", value |-> Nobody]]
  /\ created = 0
  /\ returned = {}
  /\ reg = [t \in Thread |-> "idle"]
  /\ handle = [t \in Thread |-> Nobody]
  /\ pc = "wait"
  /\ timer_id = Nobody

-----------------------------------------------------------------------------
(* Mutated forms, used to test the properties *)
ignores_cancelled(id) == FALSE
posted_once(n) == 1
same_next_id(id) == id
wakes_always == TRUE
Destroy_without_post ==
  /\ ~thread_shutdown
  /\ reg["network"] = "idle"
  /\ thread_shutdown' = TRUE
  /\ UNCHANGED <<tables, registers, loop, kernel, timers_fired_semaphore>>
-----------------------------------------------------------------------------
(* register_timer *)

\* A thread may call the manager: the network thread until it destroys it, the
\* callback thread while it runs a callback.
May(t) ==
  /\ reg[t] = "idle"
  /\ t = "network" => ~thread_shutdown
  /\ t = "callback" => pc = "running"

Goto(t, from, to) ==
  /\ reg[t] = from
  /\ reg' = [reg EXCEPT ![t] = to]

\* timer_create, for a signal with the value next_id.
CreateTimer(t) ==
  /\ May(t)
  /\ Serial => \A other \in Thread : reg[other] = "idle"
  /\ created < MaxTimers
  /\ Goto(t, "idle", "handle")
  /\ kernel' = [kernel EXCEPT ![created] = [state |-> "created", value |-> next_id]]
  /\ handle' = [handle EXCEPT ![t] = created]
  /\ created' = created + 1
  /\ UNCHANGED <<tables, next_id, returned, loop, timers_fired_semaphore, thread_shutdown>>

\* timer_handles[next_id] = timer_handle
StoreHandle(t) ==
  /\ Goto(t, "handle", "callback")
  /\ timer_handles' = [timer_handles EXCEPT ![next_id] = handle[t]]
  /\ UNCHANGED <<timer_callbacks, cancelled_timers, next_id, created, returned, handle,
                 loop, timers_fired_semaphore, thread_shutdown, kernel>>

\* timer_callbacks[next_id] = callback
StoreCallback(t) ==
  /\ Goto(t, "callback", "arm")
  /\ timer_callbacks' = [timer_callbacks EXCEPT ![next_id] = {t}]
  /\ UNCHANGED <<timer_handles, cancelled_timers, next_id, created, returned, handle,
                 loop, timers_fired_semaphore, thread_shutdown, kernel>>

\* timer_settime, which refuses delays of a second or more.
ArmTimer(t) ==
  /\ Goto(t, "arm", "return")
  /\ \E outcome \in {"armed", "refused"} :
       kernel' = [kernel EXCEPT ![handle[t]].state = outcome]
  /\ UNCHANGED <<tables, next_id, created, returned, handle, loop,
                 timers_fired_semaphore, thread_shutdown>>

\* return next_id++
incremented(id) == id + 1

ReturnId(t) ==
  /\ Goto(t, "return", "idle")
  /\ returned' = returned \cup {next_id}
  /\ next_id' = incremented(next_id)
  /\ UNCHANGED <<tables, created, handle, loop, timers_fired_semaphore,
                 thread_shutdown, kernel>>

register_timer(t) ==
  CreateTimer(t) \/ StoreHandle(t) \/ StoreCallback(t) \/ ArmTimer(t) \/ ReturnId(t)

-----------------------------------------------------------------------------
\* cancel_timer notes the identifiers that have not left the tables, among them
\* that of the callback that is running.
is_known(id) == timer_handles[id] # Nobody

cancel_timer(t) ==
  /\ May(t)
  /\ \E id \in returned :
       /\ is_known(id)
       /\ cancelled_timers' = cancelled_timers \cup {id}
  /\ UNCHANGED <<timer_handles, timer_callbacks, registers, loop,
                 timers_fired_semaphore, thread_shutdown, kernel>>

-----------------------------------------------------------------------------
\* timer_signal_handler.  The queue hands out what several threads have put in
\* in any order, so that it is the set of the timers queued.  A signal that
\* comes after the destructor finds no manager, and is not followed.
posted(n) == n + 1

timer_signal_handler(h) ==
  /\ kernel[h].state = "armed"
  /\ pc # "joined"
  /\ kernel' = [kernel EXCEPT ![h].state = "queued"]
  /\ timers_fired_semaphore' = posted(timers_fired_semaphore)
  /\ UNCHANGED <<tables, registers, loop, thread_shutdown>>

-----------------------------------------------------------------------------
(* callback_thread_main *)

queued == {h \in Id : kernel[h].state = "queued"}

\* sem_wait and try_dequeue.
sem_wait == timers_fired_semaphore > 0

Dequeue ==
  /\ pc = "wait"
  /\ sem_wait
  /\ timers_fired_semaphore' = timers_fired_semaphore - 1
  /\ \/ \E h \in queued :
          /\ kernel' = [kernel EXCEPT ![h].state = "taken"]
          /\ timer_id' = kernel[h].value
          /\ pc' = "check"
     \/ /\ queued = {}
        /\ pc' = IF thread_shutdown THEN "joined" ELSE "wait"
        /\ UNCHANGED <<kernel, timer_id>>
  /\ UNCHANGED <<tables, registers, thread_shutdown>>

is_cancelled(id) == id \in cancelled_timers

\* The timer has not been cancelled: its callback is looked up and run.  If it
\* is not in the table, at() throws, and nothing catches.
StartCallback ==
  /\ pc = "check"
  /\ ~is_cancelled(timer_id)
  /\ pc' = IF timer_callbacks[timer_id] # {} THEN "running" ELSE "ended"
  /\ UNCHANGED <<tables, registers, timer_id, timers_fired_semaphore, thread_shutdown, kernel>>

\* Removes the timer from the tables, and goes back to the condition of the loop.
Remove ==
  /\ timer_callbacks' = [timer_callbacks EXCEPT ![timer_id] = {}]
  /\ IF is_known(timer_id)
       THEN /\ kernel' = [kernel EXCEPT ![timer_handles[timer_id]].state = "deleted"]
            /\ timer_handles' = [timer_handles EXCEPT ![timer_id] = Nobody]
            /\ pc' = IF thread_shutdown THEN "joined" ELSE "wait"
       ELSE pc' = "ended" /\ UNCHANGED <<kernel, timer_handles>>
  /\ timer_id' = Nobody
  /\ UNCHANGED <<registers, timers_fired_semaphore, thread_shutdown>>

\* The timer has been cancelled.
DropCancelled ==
  /\ pc = "check"
  /\ is_cancelled(timer_id)
  /\ cancelled_timers' = cancelled_timers \ {timer_id}
  /\ Remove

CallbackReturns ==
  /\ pc = "running"
  /\ reg["callback"] = "idle"
  /\ UNCHANGED cancelled_timers
  /\ Remove

callback_thread_main == Dequeue \/ StartCallback \/ DropCancelled \/ CallbackReturns

\* The destructor, called by the thread that is not the callback thread's.
Destroy ==
  /\ ~thread_shutdown
  /\ reg["network"] = "idle"
  /\ thread_shutdown' = TRUE
  /\ timers_fired_semaphore' = timers_fired_semaphore + 1
  /\ UNCHANGED <<tables, registers, loop, kernel>>

-----------------------------------------------------------------------------
Next ==
  \/ \E t \in Thread : register_timer(t) \/ cancel_timer(t)
  \/ \E h \in Id : timer_signal_handler(h)
  \/ callback_thread_main
  \/ Destroy

\* Armed timers expire, the callback thread runs, and a callback that registers
\* a timer gets through with it.
Fairness ==
  /\ \A h \in Id : WF_vars(timer_signal_handler(h))
  /\ WF_vars(callback_thread_main)
  /\ WF_vars(StoreHandle("callback") \/ StoreCallback("callback")
               \/ ArmTimer("callback") \/ ReturnId("callback"))

Spec == Init /\ [][Next]_vars
FairSpec == Spec /\ Fairness

-----------------------------------------------------------------------------
(* Properties *)

TypeOK ==
  /\ next_id \in 0 .. MaxTimers
  /\ timer_handles \in [Id -> Id \cup {Nobody}]
  /\ timer_callbacks \in [Id -> SUBSET Thread]
  /\ cancelled_timers \subseteq Id
  /\ timers_fired_semaphore \in Nat
  /\ thread_shutdown \in BOOLEAN
  /\ kernel \in [Id -> [state : KernelState, value : Id \cup {Nobody}]]
  /\ created \in 0 .. MaxTimers
  /\ returned \subseteq Id
  /\ reg \in [Thread -> {"idle", "handle", "callback", "arm", "return"}]
  /\ handle \in [Thread -> Id \cup {Nobody}]
  /\ pc \in {"wait", "check", "running", "joined", "ended"}
  /\ timer_id \in Id \cup {Nobody}

\* What has become of a timer, as the interface speaks of it.  It counts as
\* registered when its callback is in the table, before it is armed.
status(id) ==
  CASE timer_callbacks[id] = {} ->
         IF kernel[id].state = "deleted" THEN "done" ELSE "free"
    [] timer_callbacks[id] # {} /\ pc = "running" /\ timer_id = id -> "running"
    [] timer_callbacks[id] # {} /\ ~(pc = "running" /\ timer_id = id) ->
         IF id \in cancelled_timers THEN "cancelled" ELSE "pending"

\* As long as no two timers carry one identifier, for which it is enough that
\* registrations do not overlap, the class implements its interface: every
\* callback that runs is that of a timer that was registered and not cancelled,
\* it runs once and alone, whatever signals, cancellations and registrations
\* from inside callbacks come in between.
Interface ==
  INSTANCE TimerManager WITH
    Callback <- Thread,
    state <- [id \in Id |-> status(id)],
    callback <- timer_callbacks

ImplementsTimerManager == Interface!Spec

\* The callback thread lives on: at() finds each timer whose signal it handles.
CallbackThreadSurvives == pc # "ended"

\* No timer that has been armed is forgotten: its signal wakes up the callback
\* thread, which runs its callback or finds it cancelled.
EveryArmedTimerEnds ==
  \A h \in Id : kernel[h].state = "armed" ~> kernel[h].state = "deleted" \/ thread_shutdown

\* The destructor returns: it wakes up a sleeping callback thread, and a busy
\* one sees the flag.
ShutdownCompletes == thread_shutdown ~> pc = "joined"

\* "A unique identifier for this timer": two timers that have been created
\* carry different identifiers.
IdentifiersAreUnique ==
  \A g, h \in 0 .. created - 1 : g # h => kernel[g].value # kernel[h].value
=============================================================================
