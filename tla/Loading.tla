------------------------------ MODULE Loading ------------------------------
(***************************************************************************)
(* What loading promises to those who edit configuration files, and what   *)
(* Supervisor takes it for: how a load ends and which settings it changes  *)
(* is a matter of the file alone.  A file may say nothing of a setting,    *)
(* which then stays as it is; it may not depend on the files before it.    *)
(***************************************************************************)
CONSTANTS
  File,
  NoFile,  (* no file was loaded yet                                        *)
  Kinds(_),(* how loading a file may end: "good", "bad" or "throws"         *)
  Given(_),(* the value a file gives to each setting, or Silent             *)
  Silent,
  Default  (* the settings before the first load                            *)

VARIABLES
  running, (* "new", "up" or "gone"                                         *)
  tried,   (* the file last loaded, NoFile before the first                 *)
  ok,      (* and whether loading it succeeded                              *)
  conf     (* the settings of a daemon that is up, otherwise Default        *)

vars == <<running, tried, ok, conf>>

Init == running = "new" /\ tried = NoFile /\ ok = FALSE /\ conf = Default

Taken(f, c) == [x \in DOMAIN Default |-> IF Given(f)[x] = Silent THEN c[x] ELSE Given(f)[x]]

Fail == running' = "gone" /\ ok' = FALSE /\ conf' = Default

(* The first load.  The defaults may be unfit for a file that relies on    *)
(* them: there may be fewer cores than default threads.                    *)
Start(f) ==
  /\ running = "new"
  /\ tried' = f
  /\ \/ "good" \in Kinds(f) /\ running' = "up" /\ ok' = TRUE /\ conf' = Taken(f, Default)
     \/ Fail

(* A reload that fails takes what the file gives up to its first mistake.  *)
Reload(f) ==
  /\ running = "up"
  /\ tried' = f
  /\ \/ /\ \/ "good" \in Kinds(f) /\ ok' = TRUE
           \/ "bad" \in Kinds(f) /\ ok' = FALSE
        /\ running' = "up" /\ conf' = Taken(f, conf)
     \/ "throws" \in Kinds(f) /\ Fail

Next == \E f \in File : Start(f) \/ Reload(f)

Spec == Init /\ [][Next]_vars
=============================================================================
