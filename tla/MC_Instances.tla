---------------------------- MODULE MC_Instances ----------------------------
(* Instances of Instances for TLC.                                         *)
EXTENDS Instances, TLC

(* Invocations differ in nothing but their pid.                            *)
ProcSymmetry == Permutations(Proc)
=============================================================================
