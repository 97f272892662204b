----------------------------- MODULE MC_Loader -----------------------------
EXTENDS Loader, FiniteSets

MCUnit == [none |-> 1, k |-> 2, m |-> 4]

Size(n, u) == [digits |-> n, suffix |-> u]

(* A file that states every setting correctly.                             *)
Good == [readable |-> TRUE, daemon |-> TRUE, threads |-> 1, logname |-> TRUE,
         level |-> "warn", size |-> Size(3, "k"), ram |-> Size(5, "m"),
         tcp |-> TRUE, port |-> 2]

(* The other values of each setting.  With IntMod 16, the size 8 is        *)
(* negative, 16 is zero and 15 with a suffix wraps.                        *)
Values ==
  [readable |-> {FALSE}, daemon |-> {FALSE}, logname |-> {FALSE}, tcp |-> {FALSE},
   threads |-> {None, 0, 2, 3}, level |-> {None, BadLevel, "trace", "error"},
   size |-> {None, Junk, Size(0, "k"), Size(8, "m"), Size(16, "none")},
   ram |-> {None, Junk, Size(0, "m"), Size(15, "k")},
   port |-> {None, 0, 3, 4}]

(* Files with at most one setting other than Good's.                       *)
OneOff == {Good} \cup UNION {{[Good EXCEPT ![k] = v] : v \in Values[k]} : k \in DOMAIN Values}

(* Files with a missing or a quiet level next to another setting that is   *)
(* off, and files that leave two settings out.                             *)
TwoOff == {[f EXCEPT !.level = v] : f \in OneOff, v \in {None, "error"}}
Sparse == {[[Good EXCEPT ![j] = None] EXCEPT ![k] = None] :
             j \in {"threads", "level", "port"}, k \in {"threads", "level", "port"}}

AnyFile == OneOff \cup TwoOff \cup Sparse

(* Files that state everything, at most with a port out of range.          *)
PortOff == {[Good EXCEPT !.port = v] : v \in Values.port \cup {Good.port}}
=============================================================================
