----------------------- MODULE LinuxTimerManager_proofs -----------------------
(***************************************************************************)
(* LinuxTimerManager implements TimerManager for any number of timers, as  *)
(* long as no two of them carry one identifier.  Nothing is assumed of the *)
(* threads: register_timer takes no lock, and two threads in it at a time  *)
(* may make two timers with one identifier, which stays so.  That is the   *)
(* only way to get them (OnlyOverlapsDuplicate).  The inductive invariant  *)
(* says that until then the handle, the identifier and the signal's value  *)
(* of a timer are the same number, and how far each timer has come in the  *)
(* tables.                                                                 *)
(***************************************************************************)
EXTENDS LinuxTimerManager, TLAPS

-----------------------------------------------------------------------------
(* Types *)

KernelTimer == [state : KernelState, value : Id \cup {Nobody}]

LEMMA KernelType ==
  ASSUME NEW k \in [Id -> KernelTimer], NEW h \in Id, NEW s \in KernelState
  PROVE  [k EXCEPT ![h].state = s] \in [Id -> KernelTimer]
<1>1. [k[h] EXCEPT !.state = s] \in KernelTimer
  BY DEF KernelTimer
<1> QED
  BY <1>1

\* The threads that are inside register_timer.
Registering == {t \in Thread : reg[t] # "idle"}

\* Each of them has created a timer and not yet incremented next_id, so that
\* next_id stays an index of the tables while anybody is about to use it.
NextIdLags ==
  /\ next_id <= created
  /\ Registering # {} => next_id < created
  /\ reg["network"] # "idle" /\ reg["callback"] # "idle" => next_id + 1 < created
  /\ \A t \in Registering : handle[t] \in Id /\ kernel[handle[t]].state # "none"

\* The signal of a timer that exists carries an identifier, the tables hold
\* handles of such timers, and the callback thread works on an identifier.
SignalsCarryIds ==
  /\ \A id \in Id : timer_handles[id] # Nobody => kernel[timer_handles[id]].state # "none"
  /\ \A h \in Id : kernel[h].state # "none" => kernel[h].value \in Id
  /\ pc \in {"check", "running"} => timer_id \in Id

TypeInv == TypeOK /\ NextIdLags /\ SignalsCarryIds

LEMMA RegisterTypeInv ==
  ASSUME TypeInv, NEW t \in Thread, register_timer(t) PROVE TypeInv'
<1> USE MaxTimersAssumption, NobodyAssumption
    DEF TypeInv, TypeOK, NextIdLags, SignalsCarryIds, Goto, Id, tables, loop,
        Registering, Thread
<1>1. CASE CreateTimer(t)
  <2>1. reg[t] = "idle" /\ created \in Id /\ next_id \in Id
    BY <1>1 DEF CreateTimer, May
  <2>2. kernel' \in [Id -> [state : KernelState, value : Id \cup {Nobody}]]
    BY <1>1, <2>1 DEF CreateTimer, KernelState
  <2>3. \A h \in Id : kernel'[h].state # "none" => kernel'[h].value \in Id
    BY <1>1, <2>1 DEF CreateTimer
  <2>4. NextIdLags'
    BY <1>1, <2>1 DEF CreateTimer
  <2> QED
    BY <1>1, <2>1, <2>2, <2>3, <2>4 DEF CreateTimer
<1>2. CASE StoreHandle(t)
  BY <1>2 DEF StoreHandle
<1>3. CASE StoreCallback(t)
  BY <1>3 DEF StoreCallback
<1>4. CASE ArmTimer(t)
  <2>1. PICK outcome \in {"armed", "refused"} :
          kernel' = [kernel EXCEPT ![handle[t]].state = outcome]
    BY <1>4 DEF ArmTimer
  <2>2. handle[t] \in Id
    BY <1>4 DEF ArmTimer
  <2>3. kernel' \in [Id -> [state : KernelState, value : Id \cup {Nobody}]]
    BY <2>1, <2>2, KernelType DEF KernelState, KernelTimer
  <2> QED
    BY <1>4, <2>1, <2>2, <2>3 DEF ArmTimer
<1>5. CASE ReturnId(t)
  BY <1>5 DEF ReturnId, incremented
<1> QED
  BY <1>1, <1>2, <1>3, <1>4, <1>5 DEF register_timer

\* The handle in the tables is that of a timer the kernel has.
LEMMA RemoveTypeInv ==
  ASSUME TypeInv, timer_id \in Id, Remove, cancelled_timers' \subseteq Id
  PROVE  TypeInv'
<1> USE DEF TypeInv, TypeOK, NextIdLags, SignalsCarryIds, Remove, registers, Registering
<1>1. CASE is_known(timer_id)
  <2>1. timer_handles[timer_id] \in Id
    BY <1>1 DEF is_known
  <2>2. kernel' = [kernel EXCEPT ![timer_handles[timer_id]].state = "deleted"]
    BY <1>1
  <2>3. kernel' \in [Id -> [state : KernelState, value : Id \cup {Nobody}]]
    BY <2>1, <2>2, KernelType DEF KernelState, KernelTimer
  <2>4. \A h \in Id : kernel'[h].value = kernel[h].value
    BY <2>1, <2>2
  <2>5. \A h \in Id : kernel'[h].state # "none" <=> kernel[h].state # "none"
    BY <1>1, <2>1, <2>2 DEF is_known
  <2>6. timer_handles' = [timer_handles EXCEPT ![timer_id] = Nobody]
    BY <1>1
  <2>7. SignalsCarryIds'
    BY <1>1, <2>4, <2>5, <2>6
  <2>8. NextIdLags'
    BY <2>5
  <2> QED
    BY <1>1, <2>3, <2>6, <2>7, <2>8
<1>2. CASE ~is_known(timer_id)
  BY <1>2
<1> QED
  BY <1>1, <1>2

LEMMA NextTypeInv == TypeInv /\ [Next]_vars => TypeInv'
<1> SUFFICES ASSUME TypeInv, [Next]_vars PROVE TypeInv'
  OBVIOUS
<1> USE MaxTimersAssumption, NobodyAssumption
    DEF TypeInv, TypeOK, NextIdLags, SignalsCarryIds, Id, tables, loop, registers,
        Registering, Thread
<1>1. CASE UNCHANGED vars
  BY <1>1 DEF vars
<1>2. ASSUME NEW t \in Thread, register_timer(t) PROVE TypeInv'
  BY <1>2, RegisterTypeInv
<1>3. ASSUME NEW t \in Thread, cancel_timer(t) PROVE TypeInv'
  BY <1>3 DEF cancel_timer
<1>4. ASSUME NEW h \in Id, timer_signal_handler(h) PROVE TypeInv'
  <2>1. kernel' = [kernel EXCEPT ![h].state = "queued"]
    BY <1>4 DEF timer_signal_handler
  <2>2. kernel' \in [Id -> [state : KernelState, value : Id \cup {Nobody}]]
    BY <2>1, KernelType DEF KernelState, KernelTimer
  <2> QED
    BY <1>4, <2>1, <2>2 DEF timer_signal_handler, posted
<1>5. CASE Dequeue
  <2>1. CASE queued = {} /\ UNCHANGED <<kernel, timer_id>>
    BY <1>5, <2>1 DEF Dequeue, sem_wait
  <2>2. ASSUME NEW h \in queued, kernel' = [kernel EXCEPT ![h].state = "taken"],
               timer_id' = kernel[h].value, pc' = "check"
        PROVE  TypeInv'
    <3>1. h \in Id /\ kernel[h].state = "queued"
      BY DEF queued
    <3>2. kernel' \in [Id -> [state : KernelState, value : Id \cup {Nobody}]]
      BY <3>1, <2>2, KernelType DEF KernelState, KernelTimer
    <3> QED
      BY <1>5, <2>2, <3>1, <3>2 DEF Dequeue, sem_wait
  <2> QED
    BY <1>5, <2>1, <2>2 DEF Dequeue
<1>6. CASE StartCallback
  BY <1>6 DEF StartCallback
<1>7. CASE DropCancelled
  BY <1>7, RemoveTypeInv DEF DropCancelled
<1>8. CASE CallbackReturns
  BY <1>8, RemoveTypeInv DEF CallbackReturns
<1>9. CASE Destroy
  BY <1>9 DEF Destroy
<1> QED
  BY <1>1, <1>2, <1>3, <1>4, <1>5, <1>6, <1>7, <1>8, <1>9 DEF Next, callback_thread_main

LEMMA InitTypeInv == Init => TypeInv
<1> SUFFICES ASSUME Init PROVE TypeInv
  OBVIOUS
<1> USE MaxTimersAssumption, NobodyAssumption DEF Init, Id
<1>1. TypeOK
  <2>1. kernel \in [Id -> [state : KernelState, value : Id \cup {Nobody}]]
    BY DEF KernelState
  <2>2. timer_callbacks \in [Id -> SUBSET Thread]
    OBVIOUS
  <2>3. /\ reg \in [Thread -> {"idle", "handle", "callback", "arm", "return"}]
        /\ handle \in [Thread -> Id \cup {Nobody}]
    OBVIOUS
  <2>4. next_id \in 0 .. MaxTimers /\ created \in 0 .. MaxTimers
    OBVIOUS
  <2> QED
    BY <2>1, <2>2, <2>3, <2>4 DEF TypeOK
<1>2. NextIdLags
  BY DEF NextIdLags, Registering, Thread
<1>3. SignalsCarryIds
  BY DEF SignalsCarryIds
<1> QED
  BY <1>1, <1>2, <1>3 DEF TypeInv

LEMMA TypeInvariant == Spec => []TypeInv
BY InitTypeInv, NextTypeInv, PTL DEF Spec

\* Even if two threads register timers at the same time, so that identifiers
\* are handed out twice, next_id and what the tables hold stay identifiers and
\* handles of timers that exist (register_timer, callback_thread_main).
THEOREM TimersTypeCorrect == Spec => []TypeOK
<1>1. TypeInv => TypeOK
  BY DEF TypeInv
<1> QED
  BY <1>1, TypeInvariant, PTL
-----------------------------------------------------------------------------
(* Unique identifiers *)

\* The kernel keeps every timer with the value it was created with, so that two
\* timers with one identifier remain.
LEMMA TimersKeepValues ==
  ASSUME TypeInv, [Next]_vars
  PROVE  created <= created' /\ \A h \in 0 .. created - 1 : kernel'[h].value = kernel[h].value
<1> USE MaxTimersAssumption DEF TypeInv, TypeOK, Id
<1>1. CASE \E t \in Thread : CreateTimer(t)
  BY <1>1 DEF CreateTimer
<1>2. CASE \E t \in Thread : ArmTimer(t)
  <2>1. PICK t \in Thread : ArmTimer(t)
    BY <1>2
  <2>2. PICK outcome : kernel' = [kernel EXCEPT ![handle[t]].state = outcome]
    BY <2>1 DEF ArmTimer
  <2> QED
    BY <2>1, <2>2 DEF ArmTimer
<1>3. CASE \E t \in Thread :
             StoreHandle(t) \/ StoreCallback(t) \/ ReturnId(t) \/ cancel_timer(t)
  BY <1>3 DEF StoreHandle, StoreCallback, ReturnId, cancel_timer, registers
<1>4. CASE \E h \in Id : timer_signal_handler(h)
  BY <1>4 DEF timer_signal_handler, registers
<1>5. CASE callback_thread_main
  <2>1. UNCHANGED created
    BY <1>5 DEF callback_thread_main, Dequeue, StartCallback, DropCancelled,
       CallbackReturns, Remove, registers
  <2>2. UNCHANGED kernel \/ \E g, s : kernel' = [kernel EXCEPT ![g].state = s]
    BY <1>5 DEF callback_thread_main, Dequeue, StartCallback, DropCancelled,
       CallbackReturns, Remove
  <2>3. ASSUME NEW g, NEW s, kernel' = [kernel EXCEPT ![g].state = s]
        PROVE  \A h \in Id : kernel'[h].value = kernel[h].value
    BY <2>3
  <2>4. \A h \in Id : kernel'[h].value = kernel[h].value
    BY <2>2, <2>3
  <2>5. \A h \in 0 .. created - 1 : h \in Id
    OBVIOUS
  <2> QED
    BY <2>1, <2>4, <2>5
<1>6. CASE Destroy \/ UNCHANGED vars
  BY <1>6 DEF Destroy, vars, registers
<1> QED
  BY <1>1, <1>2, <1>3, <1>4, <1>5, <1>6 DEF Next, register_timer

LEMMA UniqueBefore ==
  ASSUME TypeInv, [Next]_vars, IdentifiersAreUnique'
  PROVE  IdentifiersAreUnique
<1>1. created <= created' /\ \A h \in 0 .. created - 1 : kernel'[h].value = kernel[h].value
  BY TimersKeepValues
<1>2. created \in Int /\ created' \in Int /\ created <= created'
  BY <1>1, NextTypeInv, MaxTimersAssumption DEF TypeInv, TypeOK
<1>3. \A h \in 0 .. created - 1 : h \in 0 .. created' - 1
  <2>1. PICK c : c = created'
    OBVIOUS
  <2>2. created \in Int /\ c \in Int /\ created <= c
    BY <1>2, <2>1
  <2>3. \A h \in 0 .. created - 1 : h \in 0 .. c - 1
    BY <2>2
  <2> QED
    BY <2>1, <2>3
<1> QED
  BY <1>1, <1>3 DEF IdentifiersAreUnique

-----------------------------------------------------------------------------
(* The invariant, as long as identifiers are unique *)

\* One thread at most is in register_timer, and its timer is the newest.
RegisterInv ==
  /\ \A t \in Thread : reg[t] # "idle" =>
       /\ \A other \in Thread : other # t => reg[other] = "idle"
       /\ created = next_id + 1
       /\ handle[t] = next_id
  /\ (\A t \in Thread : reg[t] = "idle") => created = next_id
  /\ reg["callback"] # "idle" => pc = "running"
  /\ returned \cup cancelled_timers \subseteq 0 .. next_id - 1

\* How far that timer has come.
StageInv ==
  \A t \in Thread :
    /\ reg[t] \in {"handle", "callback", "arm"} => kernel[next_id].state = "created"
    /\ reg[t] \in {"handle", "callback"} => timer_callbacks[next_id] = {}
    /\ reg[t] = "callback" => timer_handles[next_id] = next_id
    /\ reg[t] = "arm" => timer_callbacks[next_id] # {}

TimerInv ==
  \A h \in Id :
    /\ kernel[h].state = "none" <=> h >= created
    /\ h < created => kernel[h].value = h
    /\ timer_handles[h] \in {Nobody, h}
    /\ timer_callbacks[h] # {} => timer_handles[h] = h
    /\ kernel[h].state \in {"armed", "refused", "queued", "taken"} => timer_callbacks[h] # {}
    /\ kernel[h].state \in {"none", "deleted"} => timer_callbacks[h] = {}

\* The timer the callback thread works on is in the tables.
LoopInv ==
  /\ pc # "ended"
  /\ pc \in {"check", "running"} => timer_id \in Id /\ kernel[timer_id].state = "taken"

Inv == TypeOK /\ RegisterInv /\ StageInv /\ TimerInv /\ LoopInv

LEMMA InitInv == Init => Inv
<1> SUFFICES ASSUME Init PROVE Inv
  OBVIOUS
<1> USE MaxTimersAssumption, NobodyAssumption DEF Init, Id
<1>1. TypeOK
  BY InitTypeInv DEF TypeInv
<1>2. RegisterInv
  BY DEF RegisterInv, Thread
<1>3. StageInv
  BY DEF StageInv
<1>4. TimerInv
  BY DEF TimerInv
<1>5. LoopInv
  BY DEF LoopInv
<1> QED
  BY <1>1, <1>2, <1>3, <1>4, <1>5 DEF Inv

\* A thread that creates a timer while the other is in register_timer takes the
\* identifier that one has taken.
LEMMA NobodyElse ==
  ASSUME Inv, NEW t \in Thread, CreateTimer(t), IdentifiersAreUnique'
  PROVE  \A other \in Thread : reg[other] = "idle"
<1> SUFFICES ASSUME NEW other \in Thread, reg[other] # "idle" PROVE FALSE
  OBVIOUS
<1> USE MaxTimersAssumption DEF Inv, TypeOK, Id
<1>1. created = next_id + 1 /\ next_id \in Id /\ created \in Id
  BY DEF RegisterInv, CreateTimer
<1>2. kernel'[created].value = next_id /\ created' = created + 1
  BY <1>1 DEF CreateTimer
<1>3. kernel'[next_id].value = next_id
  BY <1>1 DEF CreateTimer, TimerInv
<1>4. next_id \in 0 .. created' - 1 /\ created \in 0 .. created' - 1 /\ next_id # created
  BY <1>1, <1>2
<1> QED
  BY <1>2, <1>3, <1>4 DEF IdentifiersAreUnique

LEMMA CreateTimerInv ==
  ASSUME Inv, NEW t \in Thread, CreateTimer(t), \A other \in Thread : reg[other] = "idle"
  PROVE  Inv'
<1> USE MaxTimersAssumption, NobodyAssumption
    DEF Inv, TypeOK, CreateTimer, May, Goto, Id, tables, loop
<1>0. next_id = created /\ created \in Id
  BY DEF RegisterInv
<1>1. TypeOK'
  <2>1. kernel' \in [Id -> [state : KernelState, value : Id \cup {Nobody}]]
    BY <1>0 DEF KernelState
  <2> QED
    BY <1>0, <2>1
<1>2. RegisterInv'
  BY DEF RegisterInv
<1>3. StageInv'
  BY DEF StageInv, RegisterInv, TimerInv
<1>4. TimerInv'
  BY <1>0 DEF TimerInv
<1>5. LoopInv'
  BY DEF LoopInv, TimerInv
<1> QED
  BY <1>1, <1>2, <1>3, <1>4, <1>5

\* StoreHandle, StoreCallback, ArmTimer and ReturnId.
LEMMA RestOfRegisterInv ==
  ASSUME Inv, NEW t \in Thread,
         StoreHandle(t) \/ StoreCallback(t) \/ ArmTimer(t) \/ ReturnId(t)
  PROVE  Inv'
<1> USE MaxTimersAssumption, NobodyAssumption
    DEF Inv, TypeOK, Goto, Id, tables, loop, KernelState
<1>0. /\ \A other \in Thread : other # t => reg[other] = "idle"
      /\ created = next_id + 1 /\ handle[t] = next_id /\ next_id \in Id
  BY DEF StoreHandle, StoreCallback, ArmTimer, ReturnId, RegisterInv
<1>1. CASE StoreHandle(t)
  BY <1>0, <1>1 DEF StoreHandle, RegisterInv, StageInv, TimerInv, LoopInv
<1>2. CASE StoreCallback(t)
  BY <1>0, <1>2 DEF StoreCallback, RegisterInv, StageInv, TimerInv, LoopInv
<1>3. CASE ArmTimer(t)
  BY <1>0, <1>3 DEF ArmTimer, RegisterInv, StageInv, TimerInv, LoopInv
<1>4. CASE ReturnId(t)
  BY <1>0, <1>4 DEF ReturnId, incremented, RegisterInv, StageInv, TimerInv, LoopInv
<1> QED
  BY <1>1, <1>2, <1>3, <1>4

LEMMA OtherStepsInv ==
  ASSUME Inv,
         \/ \E t \in Thread : cancel_timer(t)
         \/ \E h \in Id : timer_signal_handler(h)
         \/ Dequeue \/ StartCallback
  PROVE  Inv'
<1> USE MaxTimersAssumption, NobodyAssumption
    DEF Inv, TypeOK, Id, tables, loop, registers, KernelState
<1>1. CASE \E t \in Thread : cancel_timer(t)
  BY <1>1 DEF cancel_timer, RegisterInv, StageInv, TimerInv, LoopInv
<1>2. CASE \E h \in Id : timer_signal_handler(h)
  BY <1>2 DEF timer_signal_handler, posted, RegisterInv, StageInv, TimerInv, LoopInv
<1>3. CASE Dequeue
  <2>1. CASE \E h \in queued :
               /\ kernel' = [kernel EXCEPT ![h].state = "taken"]
               /\ timer_id' = kernel[h].value
               /\ pc' = "check"
    <3>1. PICK h \in Id : /\ kernel[h].state = "queued"
                         /\ kernel' = [kernel EXCEPT ![h].state = "taken"]
                         /\ timer_id' = kernel[h].value
                         /\ pc' = "check"
      BY <2>1 DEF queued
    <3>2. timer_id' = h
      BY <3>1 DEF TimerInv
    <3>3. RegisterInv' /\ StageInv'
      BY <1>3, <3>1 DEF Dequeue, RegisterInv, StageInv
    <3>4. TimerInv' /\ LoopInv'
      BY <1>3, <3>1, <3>2 DEF Dequeue, TimerInv, LoopInv
    <3>5. TypeOK'
      <4>1. timers_fired_semaphore' \in Nat
        BY <1>3 DEF Dequeue, sem_wait
      <4>2. kernel' \in [Id -> [state : KernelState, value : Id \cup {Nobody}]]
        BY <3>1, KernelType DEF KernelTimer
      <4> QED
        BY <1>3, <3>1, <3>2, <4>1, <4>2 DEF Dequeue
    <3> QED
      BY <3>3, <3>4, <3>5
  <2>2. CASE pc' \in {"wait", "joined"} /\ UNCHANGED <<kernel, timer_id>>
    BY <1>3, <2>2 DEF Dequeue, sem_wait, RegisterInv, StageInv, TimerInv, LoopInv
  <2> QED
    BY <1>3, <2>1, <2>2 DEF Dequeue
<1>4. CASE StartCallback
  <2>1. timer_id \in Id /\ timer_callbacks[timer_id] # {} /\ kernel[timer_id].state = "taken"
    BY <1>4 DEF StartCallback, TimerInv, LoopInv
  <2>2. pc' = "running"
    BY <1>4, <2>1 DEF StartCallback
  <2>3. RegisterInv' /\ StageInv' /\ TimerInv' /\ LoopInv'
    BY <1>4, <2>1, <2>2 DEF StartCallback, RegisterInv, StageInv, TimerInv, LoopInv
  <2>4. TypeOK'
    BY <1>4, <2>2 DEF StartCallback
  <2> QED
    BY <2>3, <2>4
<1> QED
  BY <1>1, <1>2, <1>3, <1>4

LEMMA DestroyInv ==
  ASSUME Inv, Destroy
  PROVE  Inv'
<1> USE DEF Destroy, tables, registers, loop, Inv
<1>1. RegisterInv'
  BY DEF RegisterInv
<1>2. StageInv'
  BY DEF StageInv
<1>3. TimerInv'
  BY DEF TimerInv
<1>4. LoopInv'
  BY DEF LoopInv
<1>5. TypeOK'
  BY DEF TypeOK
<1> QED
  BY <1>1, <1>2, <1>3, <1>4, <1>5

\* What DropCancelled and CallbackReturns do: the timer leaves the tables.
Removed ==
  /\ pc \in {"check", "running"}
  /\ reg["callback"] = "idle"
  /\ timer_callbacks' = [timer_callbacks EXCEPT ![timer_id] = {}]
  /\ timer_handles' = [timer_handles EXCEPT ![timer_id] = Nobody]
  /\ kernel' = [kernel EXCEPT ![timer_id].state = "deleted"]
  /\ pc' \in {"wait", "joined"}
  /\ timer_id' = Nobody
  /\ cancelled_timers' \in {cancelled_timers, cancelled_timers \ {timer_id}}
  /\ UNCHANGED <<registers, timers_fired_semaphore, thread_shutdown>>

LEMMA RemoveRemoves ==
  ASSUME Inv, DropCancelled \/ CallbackReturns
  PROVE  Removed
<1>1. timer_id \in Id /\ timer_handles[timer_id] = timer_id /\ timer_id # Nobody
  BY NobodyAssumption
  DEF Inv, LoopInv, TimerInv, DropCancelled, CallbackReturns
<1>2. reg["callback"] = "idle"
  BY DEF Inv, RegisterInv, DropCancelled, CallbackReturns, Thread
<1> QED
  BY <1>1, <1>2 DEF Removed, DropCancelled, CallbackReturns, Remove, is_known

LEMMA RemovedInv ==
  ASSUME Inv, Removed
  PROVE  Inv'
<1> USE MaxTimersAssumption, NobodyAssumption
    DEF Inv, Removed, Id, registers
<1>0. timer_id \in Id /\ kernel[timer_id].state = "taken"
  BY DEF LoopInv
<1>1. TypeOK'
  BY <1>0 DEF TypeOK, KernelState
<1>2. RegisterInv'
  BY DEF RegisterInv, Thread
<1>3. StageInv'
  BY <1>0 DEF StageInv, TypeOK, RegisterInv
<1>4. TimerInv'
  BY <1>0 DEF TimerInv, TypeOK
<1>5. LoopInv'
  BY DEF LoopInv
<1> QED
  BY <1>1, <1>2, <1>3, <1>4, <1>5

LEMMA NextInv ==
  ASSUME Inv, [Next]_vars, IdentifiersAreUnique'
  PROVE  Inv'
<1>1. CASE \E t \in Thread : CreateTimer(t)
  BY <1>1, NobodyElse, CreateTimerInv
<1>2. CASE \E t \in Thread :
             StoreHandle(t) \/ StoreCallback(t) \/ ArmTimer(t) \/ ReturnId(t)
  BY <1>2, RestOfRegisterInv
<1>3. CASE \/ \E t \in Thread : cancel_timer(t)
           \/ \E h \in Id : timer_signal_handler(h)
           \/ Dequeue \/ StartCallback
  BY <1>3, OtherStepsInv
<1>4. CASE DropCancelled \/ CallbackReturns
  BY <1>4, RemoveRemoves, RemovedInv
<1>5. CASE Destroy
  BY <1>5, DestroyInv
<1>6. CASE UNCHANGED vars
  BY <1>6 DEF vars, tables, registers, loop, Inv, TypeOK, RegisterInv, StageInv,
     TimerInv, LoopInv
<1> QED
  BY <1>1, <1>2, <1>3, <1>4, <1>5, <1>6 DEF Next, register_timer, callback_thread_main

\* Until two timers carry one identifier, every timer is known by one number, and
\* the tables of LinuxTimerManager hold what is still to be run, whatever threads
\* call register_timer and cancel_timer.
THEOREM TimersInvariant == Spec => [](IdentifiersAreUnique => Inv)
<1>1. Init => (IdentifiersAreUnique => Inv)
  BY InitInv
<1>2. TypeInv /\ (IdentifiersAreUnique => Inv) /\ [Next]_vars =>
        (IdentifiersAreUnique => Inv)'
  BY UniqueBefore, NextInv
<1> QED
  BY <1>1, <1>2, TypeInvariant, PTL DEF Spec

\* at() throws in callback_thread_main only after two timers have got one
\* identifier.
THEOREM ThreadSurvives == Spec => [](IdentifiersAreUnique => CallbackThreadSurvives)
<1>1. Inv => CallbackThreadSurvives
  BY DEF Inv, LoopInv, CallbackThreadSurvives
<1> QED
  BY <1>1, TimersInvariant, PTL

\* An identifier is given a second time only by a thread that enters
\* register_timer while another is in it, which takes no lock.
THEOREM OnlyOverlapsDuplicate ==
  Spec => [][IdentifiersAreUnique /\ ~IdentifiersAreUnique' =>
               \E t \in Thread : CreateTimer(t) /\ \E other \in Thread \ {t} : reg[other] # "idle"
            ]_vars
<1> DEFINE Overlap == \E t \in Thread :
                        CreateTimer(t) /\ \E other \in Thread \ {t} : reg[other] # "idle"
<1>1. ASSUME TypeInv, Inv, [Next]_vars, ~Overlap PROVE IdentifiersAreUnique'
  <2>1. CASE \E t \in Thread : CreateTimer(t)
    <3>1. PICK t \in Thread : CreateTimer(t)
      BY <2>1
    <3>2. \A other \in Thread : reg[other] = "idle"
      BY <1>1, <3>1 DEF CreateTimer, May
    <3>3. Inv'
      BY <1>1, <3>1, <3>2, CreateTimerInv
    <3>4. TypeOK' /\ TimerInv'
      BY <3>3 DEF Inv
    <3>5. \A h \in 0 .. created' - 1 : h \in Id /\ h < created'
      <4>1. PICK c : c = created'
        OBVIOUS
      <4>2. c \in 0 .. MaxTimers /\ MaxTimers \in Nat
        BY <3>4, <4>1, MaxTimersAssumption DEF TypeOK
      <4>3. \A h \in 0 .. c - 1 : h \in Id /\ h < c
        BY <4>2 DEF Id
      <4> QED
        BY <4>1, <4>3
    <3>6. \A h \in 0 .. created' - 1 : kernel'[h].value = h
      BY <3>4, <3>5 DEF TimerInv
    <3> QED
      BY <3>6 DEF IdentifiersAreUnique
  <2>2. CASE ~\E t \in Thread : CreateTimer(t)
    <3>1. UNCHANGED created
      BY <1>1, <2>2
      DEF Next, register_timer, StoreHandle, StoreCallback, ArmTimer, ReturnId, cancel_timer,
          timer_signal_handler, callback_thread_main, Dequeue, StartCallback, DropCancelled,
          CallbackReturns, Remove, Destroy, registers, vars
    <3>2. \A h \in 0 .. created - 1 : kernel'[h].value = h
      BY <1>1, TimersKeepValues, MaxTimersAssumption DEF Inv, TypeOK, TimerInv, Id
    <3> QED
      BY <3>1, <3>2 DEF IdentifiersAreUnique
  <2> QED
    BY <2>1, <2>2
<1>2. TypeInv /\ (IdentifiersAreUnique => Inv) /\ [Next]_vars =>
        [IdentifiersAreUnique /\ ~IdentifiersAreUnique' => Overlap]_vars
  BY <1>1
<1> QED
  BY <1>2, TypeInvariant, TimersInvariant, PTL DEF Spec

-----------------------------------------------------------------------------
(* The interface *)

\* How a step changes the interface's view of the timers.
Stays == UNCHANGED <<[id \in Id |-> status(id)], timer_callbacks>>

Moves(id, from, to) ==
  /\ status(id) = from /\ status(id)' = to
  /\ \A other \in Id : other # id => status(other)' = status(other)

LEMMA MovesBecomes ==
  ASSUME NEW id \in Id, NEW from, NEW to, Moves(id, from, to)
  PROVE  Interface!Becomes(id, from, to)
BY DEF Moves, Interface!Becomes

LEMMA RegisterMaps ==
  ASSUME Inv, NEW t \in Thread, register_timer(t)
  PROVE  Interface!Next \/ Stays
<1> USE DEF Inv, TypeOK, Goto, tables, loop
<1>1. CASE CreateTimer(t)
  <2>1. created \in Id /\ kernel[created].state = "none"
    BY <1>1, MaxTimersAssumption DEF CreateTimer, TimerInv, Id
  <2>2. \A id \in Id : kernel'[id].state = "deleted" <=> kernel[id].state = "deleted"
    BY <1>1, <2>1 DEF CreateTimer
  <2> QED
    BY <1>1, <2>2 DEF CreateTimer, Stays, status
<1>2. CASE StoreHandle(t)
  BY <1>2 DEF StoreHandle, Stays, status
<1>3. CASE StoreCallback(t)
  <2>1. next_id \in Id /\ next_id \notin cancelled_timers
    BY <1>3, MaxTimersAssumption DEF StoreCallback, RegisterInv, Id
  <2>2. timer_callbacks[next_id] = {} /\ kernel[next_id].state = "created"
    BY <1>3 DEF StoreCallback, StageInv
  <2>3. ~(pc = "running" /\ timer_id = next_id)
    BY <2>2 DEF LoopInv
  <2>4. Moves(next_id, "free", "pending")
    BY <1>3, <2>1, <2>2, <2>3 DEF StoreCallback, Moves, status
  <2> QED
    BY <1>3, <2>1, <2>4, MovesBecomes
    DEF StoreCallback, Interface!Next, Interface!register_timer
<1>4. CASE ArmTimer(t)
  <2>1. \A id \in Id : kernel'[id].state = "deleted" <=> kernel[id].state = "deleted"
    BY <1>4 DEF ArmTimer, StageInv, RegisterInv, KernelState
  <2> QED
    BY <1>4, <2>1 DEF ArmTimer, Stays, status
<1>5. CASE ReturnId(t)
  BY <1>5 DEF ReturnId, Stays, status
<1> QED
  BY <1>1, <1>2, <1>3, <1>4, <1>5 DEF register_timer

LEMMA CancelMaps ==
  ASSUME Inv, NEW t \in Thread, cancel_timer(t)
  PROVE  Interface!Next \/ Stays
<1> USE DEF Inv, TypeOK
<1>1. PICK id \in Id : cancelled_timers' = cancelled_timers \cup {id}
  BY DEF cancel_timer
<1>2. UNCHANGED <<timer_callbacks, kernel, pc, timer_id>>
  BY DEF cancel_timer, loop
<1>3. CASE status(id) = "pending"
  <2>1. Moves(id, "pending", "cancelled")
    BY <1>1, <1>2, <1>3 DEF Moves, status
  <2> QED
    BY <1>2, <2>1, MovesBecomes DEF Interface!Next, Interface!cancel_timer
<1>4. CASE status(id) # "pending"
  BY <1>1, <1>2, <1>4 DEF Stays, status
<1> QED
  BY <1>3, <1>4

LEMMA StartMaps ==
  ASSUME Inv, StartCallback
  PROVE  Interface!Next \/ Stays
<1> USE DEF Inv, TypeOK
<1>1. timer_id \in Id /\ timer_callbacks[timer_id] # {} /\ timer_id \notin cancelled_timers
  BY DEF StartCallback, is_cancelled, LoopInv, TimerInv
<1>2. pc = "check" /\ pc' = "running"
  BY <1>1 DEF StartCallback
<1>3. UNCHANGED <<tables, kernel, timer_id>>
  BY DEF StartCallback
<1>4. Moves(timer_id, "pending", "running")
  BY <1>1, <1>2, <1>3 DEF Moves, status, tables
<1>5. \A other \in Id : status(other) # "running"
  BY <1>2 DEF status
<1> QED
  BY <1>1, <1>3, <1>4, <1>5, MovesBecomes DEF Interface!Next, Interface!Expire, tables

LEMMA RemoveMaps ==
  ASSUME Inv, DropCancelled \/ CallbackReturns
  PROVE  Interface!Next \/ Stays
<1> USE DEF Inv, TypeOK
<1>1. PICK id \in Id : id = timer_id /\ timer_callbacks[id] # {}
  BY DEF DropCancelled, CallbackReturns, LoopInv, TimerInv
<1>2. Removed
  BY RemoveRemoves
<1>3. status(id) \in {"running", "cancelled"}
  BY <1>1 DEF DropCancelled, CallbackReturns, is_cancelled, status
<1>4. \A other \in Id : other # id =>
        /\ kernel'[other] = kernel[other]
        /\ other \in cancelled_timers' <=> other \in cancelled_timers
        /\ timer_callbacks'[other] = timer_callbacks[other]
  BY <1>1, <1>2 DEF Removed
<1>5. timer_callbacks'[id] = {} /\ kernel'[id].state = "deleted"
  BY <1>1, <1>2 DEF Removed
<1>6. pc' # "running" /\ (pc = "running" => timer_id = id)
  BY <1>1, <1>2 DEF Removed
<1>7. status(id)' = "done"
  BY <1>5 DEF status
<1>8. \A other \in Id : other # id => status(other)' = status(other)
  BY <1>4, <1>6 DEF status
<1>9. Moves(id, status(id), "done")
  BY <1>7, <1>8 DEF Moves
<1>10. Interface!Forget(id)
  BY <1>1, <1>2, <1>3, <1>9, MovesBecomes DEF Interface!Forget, Removed
<1> QED
  BY <1>1, <1>10 DEF Interface!Next

LEMMA QueueMaps ==
  ASSUME Inv, Destroy \/ Dequeue \/ (\E h \in Id : timer_signal_handler(h)) \/ UNCHANGED vars
  PROVE  Stays
<1> USE DEF Inv, TypeOK
<1>1. UNCHANGED <<cancelled_timers, timer_callbacks>>
  BY DEF Destroy, Dequeue, timer_signal_handler, tables, vars
<1>2. \A id \in Id : kernel'[id].state = "deleted" <=> kernel[id].state = "deleted"
  BY DEF Destroy, Dequeue, timer_signal_handler, queued, vars
<1>3. (pc' = "running" <=> pc = "running") /\ (pc = "running" => timer_id' = timer_id)
  BY DEF Destroy, Dequeue, timer_signal_handler, loop, vars
<1> QED
  BY <1>1, <1>2, <1>3 DEF Stays, status

LEMMA InitMaps == Init => Interface!Init
BY DEF Init, Interface!Init, status

\* A LinuxTimerManager whose timers carry different identifiers is a TimerManager:
\* each of its steps is a step of the interface or none of its business.
THEOREM TimersImplementInterface ==
  Spec => ([]IdentifiersAreUnique => ImplementsTimerManager)
<1>1. Init => Interface!Init
  BY InitMaps
<1>2. Inv /\ [Next]_vars => Interface!Next \/ Stays
  BY RegisterMaps, CancelMaps, StartMaps, RemoveMaps, QueueMaps
  DEF Next, callback_thread_main
<1>3. Inv /\ [Next]_vars =>
        [Interface!Next]_<<[id \in Id |-> status(id)], timer_callbacks>>
  BY <1>2 DEF Stays
<1> QED
  BY <1>1, <1>3, TimersInvariant, PTL
  DEF Spec, ImplementsTimerManager, Interface!Spec
=============================================================================
