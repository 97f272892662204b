---------------------------- MODULE MC_AsyncLog ----------------------------
EXTENDS AsyncLog

CONSTANTS p1, p2, owner

(* Two producers and the owner send five messages through two cells: the   *)
(* queue is full, goes round twice, and the flush meets messages of the    *)
(* other producer on both sides.                                           *)
MCJobs == (p1 :> <<"log", "flush">>) @@ (p2 :> <<"log", "log">>) @@ (owner :> <<"terminate">>)
=============================================================================
