------------------------------- MODULE Loader -------------------------------
(***************************************************************************)
(* robot::loader: what loading configuration files does to the settings of *)
(* the process, over the life of one daemon.                               *)
(*                                                                         *)
(* daemon_load_config checks a file setting by setting and assigns some of *)
(* the static members on the way, so a load that fails leaves behind what  *)
(* it had assigned before.  The numbers keep the widths of the C++ types,  *)
(* scaled by constants.                                                    *)
(***************************************************************************)
EXTENDS Naturals

CONSTANTS
  File,      (* configuration files, records as FileType below              *)
  NoFile,    (* no file was loaded yet                                      *)
  NoLimit,   (* no Master was forked yet                                    *)
  Port0,     (* 3333, the port before any file is loaded                    *)
  None,      (* a setting that is missing or has the wrong type             *)
  Junk,      (* a size that size_parse's regular expression does not match  *)
  Level,     (* the names from_str knows                                    *)
  Quiet,     (* those of them above warn                                    *)
  BadLevel,  (* a name it does not                                          *)
  Info,      (* the default level                                           *)
  Cores,     (* hardware_concurrency, or the number of slaves when that is 0*)
  IntMod,    (* 2^32: the values of an int                                  *)
  LongMod,   (* 2^64: the values of an unsigned long                        *)
  Unit,      (* the factor of each suffix of a size                         *)
  PortMax    (* 65535                                                       *)

(* A size is its number and its suffix.                                    *)
SizeText == [digits : Nat, suffix : DOMAIN Unit] \cup {None, Junk}
FileType == [readable : BOOLEAN, daemon : BOOLEAN, threads : Nat \cup {None},
             logname : BOOLEAN, level : Level \cup {BadLevel, None},
             size : SizeText, ram : SizeText, tcp : BOOLEAN, port : Nat \cup {None}]

ASSUME LevelAssumption ==
  Info \in Level /\ BadLevel \notin Level /\ None \notin Level /\ Quiet \subseteq Level
ASSUME NumberAssumption ==
  /\ Cores \in Nat \ {0} /\ PortMax \in Nat \ {0}
  /\ IntMod \in Nat /\ LongMod \in Nat /\ IntMod % 2 = 0 /\ LongMod % 2 = 0
  /\ 2 < IntMod /\ IntMod <= LongMod /\ Port0 \in Nat
  /\ \A u \in DOMAIN Unit : Unit[u] \in Nat \ {0} /\ Unit[u] * IntMod <= LongMod
ASSUME NoneAssumption == None \notin Nat /\ None # Junk
ASSUME FileAssumption == \A f \in File : f \in FileType

VARIABLES
  life,    (* of the daemon: "new", "up", "exited" or "crashed"             *)
  st,      (* its loader statics and the level of its logger                *)
  tried,   (* the file last loaded, NoFile before the first                 *)
  ok,      (* and whether daemon_load_config returned 0                     *)
  limit    (* RLIMIT_STACK of the Master forked last, NoLimit without one   *)

vars == <<life, st, tried, ok, limit>>
-----------------------------------------------------------------------------
(* size_parse                                                              *)

(* atoi converts through long and cuts to int; the assignment to unsigned  *)
(* long extends the sign.  A missing size is the empty string, hence 0.    *)
Atoi(n) ==
  LET long == IF n >= LongMod \div 2 THEN LongMod \div 2 - 1 ELSE n
      int  == long % IntMod
  IN  IF int >= IntMod \div 2 THEN LongMod - IntMod + int ELSE int

Number(t) == IF t = None THEN 0 ELSE Atoi(t.digits)

(* Mutant: zero passes.                                                    *)
SizeFailsUnlessZero(t) == t = Junk

SizeFails(t) == t = Junk \/ Number(t) = 0

(* What a size_parse that matched leaves in its output parameter, which is *)
(* assigned before it is found to be zero.                                 *)
SizeValue(t) == IF Number(t) = 0 THEN 0 ELSE (Number(t) * Unit[t.suffix]) % LongMod
-----------------------------------------------------------------------------
(* daemon_load_config<tcp_server>                                          *)

(* Mutant: ThreadCount is only read by the first load.                     *)
ThreadsFirst(f, s) == IF f.threads = None \/ s.toFile THEN s.threads ELSE f.threads

(* ThreadCount and Port default to the current value.                      *)
Threads(f, s) == IF f.threads = None THEN s.threads ELSE f.threads
(* The level falls back to that of the current logger, or to info.         *)
LevelOf(f, s) == IF f.level # None THEN f.level ELSE IF s.toFile THEN s.loglev ELSE Info

(* Mutant: ... to its value before any file.                               *)
PortOrFirst(f, s) == IF f.port = None THEN Port0 ELSE f.port

Port(f, s) == IF f.port = None THEN s.port ELSE f.port

(* The checks, numbered in the order of the code.                          *)
Fails(f, s, k) ==
  \/ k = 1 /\ ~f.readable
  \/ k = 2 /\ ~f.daemon
  \/ k = 3 /\ Threads(f, s) \notin 1 .. Cores
  \/ k = 4 /\ ~f.logname
  \/ k = 5 /\ LevelOf(f, s) \notin Level
  \/ k = 6 /\ SizeFails(f.size)
  \/ k = 7 /\ SizeFails(f.ram)
  \/ k = 8 /\ ~f.tcp
  \/ k = 9 /\ Port(f, s) \notin 1 .. PortMax

Passes(f, s, k) == \A j \in 1 .. k : ~Fails(f, s, j)

(* The warning of a port that is too large has two placeholders and one    *)
(* argument: spdlog throws spdlog_ex when the new logger lets warnings     *)
(* through.                                                                *)
PortWarningThrows(f, s) ==
  /\ s.toFile /\ Passes(f, s, 8) /\ Port(f, s) > PortMax
  /\ LevelOf(f, s) \notin Quiet

(* A missing section raises an exception too; other errors return a code.  *)
Throws(f, s) ==
  \/ ~f.daemon /\ Passes(f, s, 1)
  \/ ~f.tcp /\ Passes(f, s, 7)
  \/ PortWarningThrows(f, s)
Succeeds(f, s) == Passes(f, s, 9)

(* A mutant: log_to_file is set as soon as the file is read.               *)
LogsToFileEarly(f, s) == Passes(f, s, 1)

(* The sink and the logger are replaced once the daemon's section is read; *)
(* log_to_file is set at the end, also when a slave's section has failed.  *)
SinkMade(f, s)   == Passes(f, s, 7)
LogsToFile(f, s) == Passes(f, s, 8)

(* The statics after the load, whether or not it got to its end.           *)
Load(f, s) ==
  [threads |-> IF Passes(f, s, 3) THEN Threads(f, s) ELSE s.threads,
   lev     |-> IF Passes(f, s, 5) THEN LevelOf(f, s) ELSE s.lev,
   ram     |-> IF Passes(f, s, 6) /\ f.ram # Junk THEN SizeValue(f.ram) ELSE s.ram,
   size    |-> IF SinkMade(f, s) THEN SizeValue(f.size) ELSE s.size,
   loglev  |-> IF SinkMade(f, s) THEN LevelOf(f, s) ELSE s.loglev,
   log     |-> s.log \/ SinkMade(f, s),
   port    |-> IF Succeeds(f, s) THEN Port(f, s) ELSE s.port,
   toFile  |-> s.toFile \/ LogsToFile(f, s)]
-----------------------------------------------------------------------------
(* The statics before main; size is that of the sink, 0 without one.       *)
Statics0 == [threads |-> 2, lev |-> Info, ram |-> 0, size |-> 0, loglev |-> Info,
             log |-> FALSE, port |-> Port0, toFile |-> FALSE]

Init == /\ life = "new" /\ st = Statics0
        /\ tried = NoFile /\ ok = FALSE /\ limit = NoLimit

(* daemon's constructor.  After an error it logs before it exits, through  *)
(* a logger that only a load that got past MaxRamUse has made.             *)
Start(f) ==
  /\ life = "new"
  /\ st' = Load(f, st)
  /\ tried' = f /\ ok' = Succeeds(f, st)
  /\ life' = IF Succeeds(f, st) THEN "up"
             ELSE IF Throws(f, st) \/ ~Load(f, st).log THEN "crashed" ELSE "exited"
  /\ UNCHANGED limit

(* daemon::reload_config, on SIGHUP; nothing catches the exception.        *)
Reload(f) ==
  /\ life = "up"
  /\ st' = Load(f, st)
  /\ tried' = f /\ ok' = Succeeds(f, st)
  /\ life' = IF Throws(f, st) THEN "crashed" ELSE "up"
  /\ UNCHANGED limit

(* monitor_proc forks a Master, which inherits the statics and gives       *)
(* itself MaxRamUse as the limit of its stack.                             *)
ForkMaster ==
  /\ life = "up"
  /\ limit' = st.ram
  /\ UNCHANGED <<life, st, tried, ok>>

Next == (\E f \in File : Start(f) \/ Reload(f)) \/ ForkMaster

Spec == Init /\ [][Next]_vars
-----------------------------------------------------------------------------
StaticsType ==
  [threads : Nat, lev : Level, ram : 0 .. LongMod - 1, size : 0 .. LongMod - 1,
   loglev : Level, log : BOOLEAN, port : Nat, toFile : BOOLEAN]

(* Every static stays in the range of its C++ type.                        *)
TypeOK ==
  /\ life \in {"new", "up", "exited", "crashed"}
  /\ st \in StaticsType
  /\ tried \in File \cup {NoFile} /\ ok \in BOOLEAN
  /\ limit \in 0 .. LongMod - 1 \/ limit = NoLimit

(* Whatever was loaded, failed loads included, a running daemon has at     *)
(* least one and at most Cores threads, a port it can bind and a rotating  *)
(* sink with a size above zero; after a load that succeeded the next       *)
(* Master has a stack: no product of size_parse wraps to zero.             *)
StaticsInRange ==
  life = "up" => /\ st.threads \in 1 .. Cores
                 /\ st.port \in 1 .. PortMax
                 /\ st.size # 0
                 /\ ok => st.ram # 0

(* log_to_file sends the error messages of every later load to log, so it  *)
(* is never set while log is null.                                         *)
LogBeforeFile == st.toFile => st.log

(* A reload that fails leaves the slave's settings alone, and one that     *)
(* fails in the daemon's own section also leaves the sink and the logger:  *)
(* the daemon goes on logging the failure where it logged before.          *)
FailureKeepsSink ==
  [][life = "up" /\ ~ok' =>
       /\ st'.port = st.port
       /\ \/ <<st'.size, st'.loglev, st'.log>> = <<st.size, st.loglev, st.log>>
          \/ \A k \in 1 .. 7 : ~Fails(tried', st, k)]_vars

States(f) == \A k \in {"threads", "level", "port"} : f[k] # None

(* A successful load of a file that states every setting makes the         *)
(* statics a function of that file, whatever was loaded or failed before.  *)
Determined ==
  ok /\ States(tried) =>
    st = [threads |-> tried.threads, lev |-> tried.level, loglev |-> tried.level,
          size |-> SizeValue(tried.size), ram |-> SizeValue(tried.ram),
          port |-> tried.port, log |-> TRUE, toFile |-> TRUE]

(* The implementation relation: the settings are those of Loading.  Sound  *)
(* are the checks that a file passes by itself, whatever the settings are; *)
(* a setting it does not state is not its mistake.  lev is left out: the   *)
(* level a file does not state is taken from the logger.                   *)
Flawed(f, k) ==
  \/ k = 1 /\ ~f.readable
  \/ k = 2 /\ ~f.daemon
  \/ k = 3 /\ f.threads # None /\ f.threads \notin 1 .. Cores
  \/ k = 4 /\ ~f.logname
  \/ k = 5 /\ f.level # None /\ f.level \notin Level
  \/ k = 6 /\ SizeFails(f.size)
  \/ k = 7 /\ SizeFails(f.ram)
  \/ k = 8 /\ ~f.tcp
  \/ k = 9 /\ f.port # None /\ f.port \notin 1 .. PortMax
Sound(f, k) == \A j \in 1 .. k : ~Flawed(f, j)

(* Only a file that leaves the level out next to a port that is too large  *)
(* may end in two ways.                                                    *)
NoSection(f) == (Sound(f, 1) /\ ~f.daemon) \/ (Sound(f, 7) /\ ~f.tcp)
LargePort(f) == Sound(f, 8) /\ f.port # None /\ f.port > PortMax
KindsOf(f) ==
  IF Sound(f, 9) THEN {"good"}
  ELSE IF NoSection(f) \/ (LargePort(f) /\ f.level \in Level \ Quiet) THEN {"throws"}
  ELSE IF LargePort(f) /\ f.level = None THEN {"bad", "throws"}
  ELSE {"bad"}

GivenBy(f) ==
  [threads |-> IF Sound(f, 3) THEN f.threads ELSE None,
   ram     |-> IF Sound(f, 6) /\ f.ram # Junk THEN SizeValue(f.ram) ELSE None,
   size    |-> IF Sound(f, 7) THEN SizeValue(f.size) ELSE None,
   level   |-> IF Sound(f, 7) THEN f.level ELSE None,
   port    |-> IF Sound(f, 9) THEN f.port ELSE None]

Settings(s) == [threads |-> s.threads, ram |-> s.ram, size |-> s.size,
                level |-> s.loglev, port |-> s.port]

Abs == INSTANCE Loading WITH
         Kinds   <- KindsOf,
         Given   <- GivenBy,
         Silent  <- None,
         Default <- Settings(Statics0),
         running <- IF life \in {"exited", "crashed"} THEN "gone" ELSE life,
         conf    <- IF life = "up" THEN Settings(st) ELSE Settings(Statics0)

(* How a load ends and what it changes depends on the file and not on what *)
(* was loaded, or failed to load, before.                                  *)
ImplementsLoading == Abs!Spec

(* cli_parser.cpp: "reload configuration file without stopping daemon"; a  *)
(* load that fails is to return CHILD_NEED_WORK (tcp_server.hpp).          *)
ReloadKeepsDaemon == [][life = "up" => life' = "up"]_vars
=============================================================================
