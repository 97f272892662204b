--------------------------- MODULE MC_Supervisor ---------------------------
(***************************************************************************)
(* Instances of Supervisor for TLC.  Configurations are strings that say   *)
(* what the loader makes of them.                                          *)
(***************************************************************************)
EXTENDS Supervisor, TLC

KindsOf == [a |-> "valid", b |-> "valid", keeps |-> "sparse",
            part |-> "partial", lacks |-> "throws"]

(* Two full files and one that keeps settings; every kind of file.         *)
FewConfigs == {"a", "b", "part"}
AllConfigs == {"a", "keeps", "part", "lacks"}
FewKinds == [c \in FewConfigs |-> KindsOf[c]]
AllKinds == [c \in AllConfigs |-> KindsOf[c]]

(* Masters differ in nothing but their pid.                                *)
PidSymmetry == Permutations(Pid)
=============================================================================
