------------------------ MODULE MCLinuxTimerManager ------------------------
(***************************************************************************)
(* Instances of LinuxTimerManager: up to four timers, registered by the network *)
(* thread or by callbacks, one at a time or two at once.                   *)
(***************************************************************************)
EXTENDS LinuxTimerManager
=============================================================================
