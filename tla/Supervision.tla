---------------------------- MODULE Supervision ----------------------------
(***************************************************************************)
(* What robot::daemon promises of its Master: there is at most one, its    *)
(* death is always collected before another is started, and none is        *)
(* started once the daemon has decided to stop.                            *)
(***************************************************************************)
CONSTANTS Pid, NoPid

VARIABLES
  worker,   (* the Master, or NoPid                                         *)
  dead,     (* it has ended and has not been collected                      *)
  stopped   (* the daemon has decided to stop                               *)

vars == <<worker, dead, stopped>>

Init == worker = NoPid /\ dead = FALSE /\ stopped = FALSE

Start(p) ==
  /\ ~stopped /\ worker = NoPid
  /\ worker' = p
  /\ UNCHANGED <<dead, stopped>>

Die ==
  /\ worker # NoPid /\ ~dead
  /\ dead' = TRUE
  /\ UNCHANGED <<worker, stopped>>

Collect ==
  /\ dead
  /\ worker' = NoPid /\ dead' = FALSE
  /\ UNCHANGED stopped

(* The daemon gives up supervising, with or without a Master.              *)
Stop ==
  /\ ~stopped
  /\ stopped' = TRUE /\ worker' = NoPid /\ dead' = FALSE

Next == (\E p \in Pid : Start(p)) \/ Die \/ Collect \/ Stop

Spec == Init /\ [][Next]_vars
=============================================================================
