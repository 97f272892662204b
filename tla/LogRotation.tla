---------------------------- MODULE LogRotation ----------------------------
(***************************************************************************)
(* The rotating_file_sinks of the daemon, the Master and its slaves, which *)
(* all write <logname>.log and rotate it to <logname>.1.log.               *)
(*                                                                         *)
(* Every load makes a new sink.  A fork copies the daemon's sink: the copy *)
(* shares the open file but counts for itself.  A slave keeps the sink it  *)
(* was made with.  Sinks have a mutex each; nothing orders the rotations   *)
(* of two of them.  A record has the size 1, so that sizes count records.  *)
(***************************************************************************)
EXTENDS Naturals, Sequences, FiniteSets

CONSTANTS
  MaxSize,   (* the Size of the configuration                               *)
  Records,   (* bound: records written                                      *)
  Sinks,     (* bound: sinks made                                           *)
  Faults     (* bound: failing calls of fopen                               *)

ASSUME RotationAssumption ==
  MaxSize \in Nat \ {0} /\ Records \in Nat /\ Sinks \in Nat /\ Faults \in Nat

Process == {"daemon", "master"}
Role    == {"daemon", "master", "slave"}
Hole    == 0      (* what a file contains where nothing was written         *)

VARIABLES
  inode,   (* the contents of every file ever made, a sequence of records   *)
  name,    (* name[0] and name[1]: the files of .log and .1.log, 0 for none *)
  desc,    (* open files: [file, offset, append]                            *)
  sink,    (* sinks: [proc, fd, size, pc, alone], fd 0 while it is closed   *)
  uses,    (* the sink each role logs to, 0 for none                        *)
  up,      (* the processes that run                                        *)
  author,  (* author[r]: the sink that wrote the record r                   *)
  faults,
  thrown   (* history: sinks that threw without a fault, and whether nobody *)
           (* else had changed a name since they began to rotate            *)

vars == <<inode, name, desc, sink, uses, up, author, faults, thrown>>

Place == {"ready", "stat1", "remove", "stat0", "rename", "open"}

TypeOK ==
  /\ inode \in Seq(Seq(0 .. Len(author)))
  /\ name \in [{0, 1} -> 0 .. Len(inode)]
  /\ desc \in Seq([file : 1 .. Len(inode), offset : Nat, append : BOOLEAN])
  /\ sink \in Seq([proc : Process, fd : 0 .. Len(desc), size : Nat,
                    pc : Place, alone : BOOLEAN])
  /\ \A s \in DOMAIN sink : sink[s].fd = 0 <=> sink[s].pc # "ready"
  /\ uses \in [Role -> 0 .. Len(sink)]
  /\ up \subseteq Process
  /\ author \in Seq(1 .. Len(sink))
  /\ faults \in 0 .. Faults
  /\ thrown \subseteq BOOLEAN

Init ==
  /\ inode = <<>> /\ name = [i \in {0, 1} |-> 0]
  /\ desc = <<>> /\ sink = <<>> /\ uses = [r \in Role |-> 0]
  /\ up = {} /\ author = <<>> /\ faults = 0 /\ thrown = {}
-----------------------------------------------------------------------------
(* Files                                                                   *)

Fill(c, n) == c \o [i \in 1 .. n - Len(c) |-> Hole]

(* Writing the record r at the offset o of the contents c.                 *)
Put(c, o, r) ==
  IF o < Len(c) THEN [c EXCEPT ![o + 1] = r] ELSE Append(Fill(c, o), r)

(* The file that fopen opens or makes.  "ab" writes at its end; "wb"       *)
(* empties it first, and writes at an offset of its own.                   *)
File0 == IF name[0] = 0 THEN Len(inode) + 1 ELSE name[0]

(* Everyone else who is rotating may be surprised by the change of a name. *)
Meddle(s, new) ==
  [t \in DOMAIN sink |->
     IF t = s THEN new ELSE [sink[t] EXCEPT !.alone = FALSE]]

Size(i) == IF i = 0 THEN 0 ELSE Len(inode[i])
-----------------------------------------------------------------------------
(* The processes                                                           *)

(* rotating_file_sink's constructor asks for the size of the file.         *)
Opened(p) == [proc |-> p, fd |-> Len(desc) + 1, size |-> Size(name[0]),
              pc |-> "ready", alone |-> TRUE]

Busy(p) == \E s \in DOMAIN sink : sink[s].proc = p /\ uses[p] = s /\ sink[s].pc # "ready"

(* The daemon's first load, or the load of a SIGHUP: the old sink goes     *)
(* away unless a slave uses it.                                            *)
Load(p) ==
  /\ Len(sink) < Sinks
  /\ IF p \in up THEN ~Busy(p) ELSE p = "daemon"
  /\ up' = up \cup {p}
  /\ inode' = IF name[0] = 0 THEN Append(inode, <<>>) ELSE inode
  /\ name' = [name EXCEPT ![0] = File0]
  /\ desc' = Append(desc, [file |-> File0, offset |-> 0, append |-> TRUE])
  /\ sink' = Append(IF name[0] = 0 THEN Meddle(0, Opened(p)) ELSE sink, Opened(p))
  /\ uses' = [uses EXCEPT ![p] = Len(sink) + 1]
  /\ UNCHANGED <<author, faults, thrown>>

(* monitor_proc forks the Master, whose slaves are made with its sink.     *)
Fork ==
  /\ "daemon" \in up /\ "master" \notin up /\ ~Busy("daemon")
  /\ Len(sink) < Sinks
  /\ up' = up \cup {"master"}
  /\ sink' = Append(sink, [sink[uses["daemon"]] EXCEPT !.proc = "master"])
  /\ uses' = [uses EXCEPT !["master"] = Len(sink) + 1, !["slave"] = Len(sink) + 1]
  /\ UNCHANGED <<inode, name, desc, author, faults, thrown>>

Gone(p) ==
  /\ up' = up \ {p}
  /\ uses' = [r \in Role |-> IF uses[r] # 0 /\ sink[uses[r]].proc = p THEN 0 ELSE uses[r]]

(* A process is killed, perhaps in the middle of a rotation.               *)
Die(p) ==
  /\ p \in up /\ Gone(p)
  /\ UNCHANGED <<inode, name, desc, sink, author, faults, thrown>>
-----------------------------------------------------------------------------
(* _sink_it and _rotate                                                    *)

(* file_helper::write, flushed at once, of the next record to the open     *)
(* file d of the contents and open files given.                            *)
Write(s, d, content, opened) ==
  LET o == opened[d]
      at == IF o.append THEN Len(content[o.file]) ELSE o.offset
  IN  /\ author' = Append(author, s)
      /\ inode' = [content EXCEPT ![o.file] = Put(@, at, Len(author) + 1)]
      /\ desc' = [opened EXCEPT ![d].offset = at + 1]

(* Mutant: only what was in the file when it was opened is counted.        *)
CountNothing(s) == sink[s].size

(* The new size is compared with the limit before the record is written.   *)
Count(s) == sink[s].size + 1

Log(r) ==
  /\ Len(author) < Records
  /\ LET s == uses[r] IN
       /\ s # 0 /\ sink[s].pc = "ready"
       /\ IF Count(s) > MaxSize
          THEN /\ sink' = [sink EXCEPT ![s].size = Count(s), ![s].fd = 0,
                                       ![s].pc = "stat1", ![s].alone = TRUE]
               /\ UNCHANGED <<inode, desc, author>>
          ELSE /\ sink' = [sink EXCEPT ![s].size = Count(s)]
               /\ Write(s, sink[s].fd, inode, desc)
  /\ UNCHANGED <<name, uses, up, faults, thrown>>

Rotating(s, pc) ==
  sink[s].pc = pc /\ sink[s].proc \in up /\ \E r \in Role : uses[r] = s

(* An exception leaves line_logger's destructor: the process terminates.   *)
Throw(s) ==
  /\ Gone(sink[s].proc)
  /\ UNCHANGED <<inode, name, desc, sink, author>>

(* Mutant: the target is removed without a look.                           *)
StatNothing(s) ==
  /\ Rotating(s, "stat1")
  /\ sink' = [sink EXCEPT ![s].pc = "remove"]
  /\ UNCHANGED <<inode, name, desc, uses, up, author, faults, thrown>>

StatTarget(s) ==
  /\ Rotating(s, "stat1")
  /\ sink' = [sink EXCEPT ![s].pc = IF name[1] = 0 THEN "stat0" ELSE "remove"]
  /\ UNCHANGED <<inode, name, desc, uses, up, author, faults, thrown>>

Remove(s) ==
  /\ Rotating(s, "remove")
  /\ IF name[1] = 0
     THEN Throw(s) /\ thrown' = thrown \cup {sink[s].alone}
     ELSE /\ name' = [name EXCEPT ![1] = 0]
          /\ sink' = Meddle(s, [sink[s] EXCEPT !.pc = "stat0"])
          /\ UNCHANGED <<inode, desc, uses, up, author, thrown>>
  /\ UNCHANGED faults

StatSource(s) ==
  /\ Rotating(s, "stat0")
  /\ sink' = [sink EXCEPT ![s].pc = IF name[0] = 0 THEN "open" ELSE "rename"]
  /\ UNCHANGED <<inode, name, desc, uses, up, author, faults, thrown>>

(* Mutant: the file is not kept under the other name.                      *)
RenameAway(s) ==
  /\ Rotating(s, "rename")
  /\ name' = [i \in {0, 1} |-> 0]
  /\ sink' = Meddle(s, [sink[s] EXCEPT !.pc = "open"])
  /\ UNCHANGED <<inode, desc, uses, up, author, thrown, faults>>

(* rename replaces the target if someone has made it again.                *)
Rename(s) ==
  /\ Rotating(s, "rename")
  /\ IF name[0] = 0
     THEN Throw(s) /\ thrown' = thrown \cup {sink[s].alone}
     ELSE /\ name' = [i \in {0, 1} |-> IF i = 1 THEN name[0] ELSE 0]
          /\ sink' = Meddle(s, [sink[s] EXCEPT !.pc = "open"])
          /\ UNCHANGED <<inode, desc, uses, up, author, thrown>>
  /\ UNCHANGED faults

(* reopen(true), and the write of the record that was too much.            *)
Reopen(s) ==
  /\ Rotating(s, "open")
  /\ name' = [name EXCEPT ![0] = File0]
  /\ Write(s, Len(desc) + 1,
           IF name[0] = 0 THEN Append(inode, <<>>) ELSE [inode EXCEPT ![File0] = <<>>],
           Append(desc, [file |-> File0, offset |-> 0, append |-> FALSE]))
  /\ sink' = Meddle(s, [sink[s] EXCEPT !.pc = "ready", !.size = 1, !.fd = Len(desc) + 1])
  /\ UNCHANGED <<uses, up, faults, thrown>>

(* fopen failed five times: no descriptor is left, or no permission.       *)
ReopenFails(s) ==
  /\ Rotating(s, "open") /\ faults < Faults
  /\ Throw(s) /\ faults' = faults + 1 /\ UNCHANGED thrown
-----------------------------------------------------------------------------
Rotate(s) == StatTarget(s) \/ Remove(s) \/ StatSource(s) \/ Rename(s) \/ Reopen(s) \/ ReopenFails(s)

Next ==
  \/ \E p \in Process : Load(p) \/ Die(p)
  \/ Fork
  \/ \E r \in Role : Log(r)
  \/ \E s \in DOMAIN sink : Rotate(s)

Spec == Init /\ [][Next]_vars
-----------------------------------------------------------------------------
Contents(i) == IF i = 0 THEN <<>> ELSE inode[i]
Trail == Contents(name[1]) \o Contents(name[0])

(* The Master and its slaves have not logged anything yet.                 *)
Sole == /\ \A r \in DOMAIN author : sink[author[r]].proc = "daemon"
        /\ \A s \in DOMAIN sink : sink[s].proc = "master" => sink[s].pc = "ready"

(* As long as the daemon alone writes, the two files hold its latest       *)
(* records in order, at least as many as one file may have: also in the    *)
(* middle of a rotation, after a crash in the middle of one, and across    *)
(* reloads and restarts.                                                   *)
KeepsRecent ==
  Sole => /\ \E k \in 0 .. Len(author) : Trail = [i \in 1 .. Len(author) - k |-> k + i]
          /\ Len(Trail) >= (IF Len(author) < MaxSize THEN Len(author) ELSE MaxSize)

Writers(i) == {author[r] : r \in {q \in DOMAIN author : \E k \in DOMAIN inode[i] : inode[i][k] = q}}

(* However many sinks share a file, it is never longer than the limit for  *)
(* each sink that wrote to it: every sink counts at least its own records. *)
SizeBounded ==
  \A i \in DOMAIN inode :
    Cardinality({k \in DOMAIN inode[i] : inode[i][k] # Hole})
      <= MaxSize * Cardinality(Writers(i))

(* Without failing calls a rotation throws, and takes its process down,    *)
(* only when another sink changed the same names meanwhile.                *)
ThrowsOnlyInRace == TRUE \notin thrown
=============================================================================
