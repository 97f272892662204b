---------------------------- MODULE LoaderProofs ----------------------------
(***************************************************************************)
(* Theorems of Loader, for any files, levels, numbers of cores and widths. *)
(***************************************************************************)
EXTENDS Loader, TLAPS

Records == [digits : Nat, suffix : DOMAIN Unit]

(* Halving the width of an int.                                            *)
LEMMA HalfInt ==
  /\ IntMod \div 2 \in Nat \ {0} /\ IntMod = 2 * (IntMod \div 2)
  /\ LongMod \div 2 \in Nat \ {0} /\ LongMod = 2 * (LongMod \div 2)
BY NumberAssumption

(* atoi gives the non-negative half of the ints, or the negative half at   *)
(* the top of the unsigned longs.                                          *)
LEMMA AtoiRange ==
  ASSUME NEW n \in Nat
  PROVE  \/ Atoi(n) \in 0 .. (IntMod \div 2) - 1
         \/ Atoi(n) \in LongMod - (IntMod \div 2) .. LongMod - 1
<1> DEFINE long == IF n >= LongMod \div 2 THEN LongMod \div 2 - 1 ELSE n
           int  == long % IntMod
<1>1. long \in Nat
  BY HalfInt
<1>2. int \in 0 .. IntMod - 1
  BY <1>1, NumberAssumption
<1>3. Atoi(n) = IF int >= IntMod \div 2 THEN LongMod - IntMod + int ELSE int
  BY DEF Atoi
<1> HIDE DEF int
<1> QED
  BY <1>2, <1>3, HalfInt, NumberAssumption

(* A product with a positive factor is at least the other factor.          *)
LEMMA Grows == ASSUME NEW a \in Nat, NEW b \in Nat, b > 0 PROVE a * b >= a
OBVIOUS

LEMMA Product == ASSUME NEW a \in Nat, NEW b \in Nat PROVE a * b \in Nat
OBVIOUS

LEMMA Remainder ==
  ASSUME NEW a \in Nat, NEW m \in Nat, m > 0 PROVE a % m \in 0 .. m - 1
OBVIOUS

LEMMA Monotone ==
  ASSUME NEW a \in Nat, NEW b \in Nat, NEW c \in Nat, a <= b PROVE a * c <= b * c
OBVIOUS

(* A number strictly between two multiples of m is none.                   *)
LEMMA NoMultiple ==
  ASSUME NEW m \in Nat \ {0}, NEW q \in Nat, NEW r \in 1 .. m - 1
  PROVE  (q * m + r) % m # 0
<1> DEFINE a == q * m + r
           k == a \div m
<1>1. a \in Nat /\ k \in Nat
  OBVIOUS
<1> SUFFICES ASSUME a % m = 0 PROVE FALSE
  OBVIOUS
<1>2. a = k * m
  BY <1>1
<1>3. CASE k <= q
  <2>1. k * m <= q * m
    BY <1>1, <1>3, Monotone
  <2> QED
    BY <1>1, <1>2, <2>1
<1>4. CASE k >= q + 1
  <2>1. (q + 1) * m <= k * m
    BY <1>1, <1>4, Monotone
  <2>2. (q + 1) * m = q * m + m
    OBVIOUS
  <2> QED
    BY <1>1, <1>2, <2>1, <2>2
<1> QED
  BY <1>1, <1>3, <1>4

(* The heart of StaticsInRange: a size that size_parse accepts does not    *)
(* wrap to zero, though it may wrap to something else.                     *)
LEMMA NonZeroSize ==
  ASSUME NEW t \in SizeText, ~SizeFails(t)
  PROVE  SizeValue(t) \in 1 .. LongMod - 1
<1> DEFINE h == IntMod \div 2
           n == Number(t)
           u == Unit[t.suffix]
<1>1. t \in Records
  BY DEF SizeFails, Number, SizeText, Records
<1>2. u \in Nat \ {0} /\ u * IntMod <= LongMod
  BY <1>1, NumberAssumption DEF Records
<1>3. n # 0 /\ (n \in 0 .. h - 1 \/ n \in LongMod - h .. LongMod - 1)
  BY <1>1, AtoiRange DEF SizeFails, Number, Records
<1>4. SizeValue(t) = (n * u) % LongMod
  BY <1>3 DEF SizeValue
<1>5. /\ h \in Nat \ {0} /\ h <= LongMod
      /\ h * u + h * u <= LongMod /\ h * u \in Nat \ {0}
  BY <1>2, HalfInt, NumberAssumption
<1> HIDE DEF h, n, u
<1>6. n * u \in Nat /\ (n * u) % LongMod \in 0 .. LongMod - 1
  <2>1. n \in Nat
    BY <1>3, <1>5, NumberAssumption
  <2>2. n * u \in Nat
    BY <1>2, <2>1, Product
  <2> QED
    BY <2>2, NumberAssumption, Remainder
<1>7. CASE n \in 1 .. h - 1
  <2>1. n * u <= h * u /\ n * u >= 1
    BY <1>2, <1>5, <1>7, Monotone, Grows
  <2>2. n * u \in 1 .. LongMod - 1
    BY <1>5, <1>6, <2>1, NumberAssumption
  <2>3. n * u = 0 * LongMod + n * u
    BY <1>6, NumberAssumption
  <2> QED
    BY <1>4, <1>6, <2>2, <2>3, NoMultiple, NumberAssumption
<1>8. CASE n \in LongMod - h .. LongMod - 1
  <2> DEFINE m == LongMod - n
  <2>1. m \in 1 .. h
    BY <1>5, <1>8, NumberAssumption
  <2>2. m * u <= h * u /\ m * u >= 1
    BY <1>2, <1>5, <2>1, Monotone, Grows
  <2>3. LongMod - m * u \in 1 .. LongMod - 1
    BY <1>2, <1>5, <2>1, <2>2, NumberAssumption
  <2>4. n * u = (u - 1) * LongMod + (LongMod - m * u)
    BY <1>2, <1>8, <2>1, NumberAssumption
  <2> HIDE DEF m
  <2> QED
    BY <1>2, <1>4, <1>6, <2>3, <2>4, NoMultiple, NumberAssumption
<1> QED
  BY <1>3, <1>5, <1>7, <1>8
-----------------------------------------------------------------------------
LEMMA SizeInRange ==
  ASSUME NEW t \in SizeText, t # Junk
  PROVE  SizeValue(t) \in 0 .. LongMod - 1
<1>1. CASE SizeFails(t)
  BY <1>1, NumberAssumption DEF SizeFails, SizeValue
<1>2. CASE ~SizeFails(t)
  BY <1>2, NonZeroSize, NumberAssumption
<1> QED
  BY <1>1, <1>2

LEMMA Earlier ==
  ASSUME NEW f, NEW s, NEW j \in Nat, NEW k \in Nat, j <= k, Passes(f, s, k)
  PROVE  Passes(f, s, j)
BY DEF Passes

LEMMA PassedChecks ==
  ASSUME NEW f, NEW s
  PROVE  /\ Passes(f, s, 3) => Threads(f, s) \in 1 .. Cores
         /\ Passes(f, s, 5) => LevelOf(f, s) \in Level
         /\ Passes(f, s, 7) => ~SizeFails(f.size) /\ ~SizeFails(f.ram)
         /\ Passes(f, s, 9) => Port(f, s) \in 1 .. PortMax
BY DEF Passes, Fails

(* Whether or not it succeeds, a load keeps every static in its type.      *)
LEMMA LoadType ==
  ASSUME NEW f \in File, NEW s \in StaticsType
  PROVE  Load(f, s) \in StaticsType
<1> DEFINE new == Load(f, s)
<1>1. f \in FileType
  BY FileAssumption
<1>2. new.threads \in Nat
  BY PassedChecks, NumberAssumption DEF Load, StaticsType
<1>3. new.lev \in Level
  BY PassedChecks DEF Load, StaticsType
<1>4. new.loglev \in Level
  BY PassedChecks, Earlier DEF Load, StaticsType, SinkMade
<1>5. new.ram \in 0 .. LongMod - 1
  BY <1>1, SizeInRange DEF Load, StaticsType, FileType
<1>6. new.size \in 0 .. LongMod - 1
  BY <1>1, PassedChecks, NonZeroSize, NumberAssumption DEF Load, StaticsType, FileType, SinkMade
<1>7. new.port \in Nat
  BY PassedChecks, NumberAssumption DEF Load, StaticsType, Succeeds
<1>8. new.log \in BOOLEAN /\ new.toFile \in BOOLEAN
  BY DEF Load, StaticsType, SinkMade, LogsToFile, Passes
<1> QED
  BY <1>2, <1>3, <1>4, <1>5, <1>6, <1>7, <1>8 DEF Load, StaticsType

(* The three invariants are inductive one after the other.                 *)
LEMMA TypeStep == TypeOK /\ [Next]_vars => TypeOK'
<1> SUFFICES ASSUME TypeOK, [Next]_vars PROVE TypeOK'
  OBVIOUS
<1>1. ASSUME NEW f \in File, Start(f) \/ Reload(f) PROVE TypeOK'
  <2>1. Load(f, st) \in StaticsType /\ Succeeds(f, st) \in BOOLEAN
    BY LoadType DEF TypeOK, Succeeds, Passes
  <2> QED
    BY <1>1, <2>1 DEF Start, Reload, TypeOK
<1>2. CASE ForkMaster
  BY <1>2 DEF ForkMaster, TypeOK, StaticsType
<1>3. CASE UNCHANGED vars
  BY <1>3 DEF vars, TypeOK
<1> QED
  BY <1>1, <1>2, <1>3 DEF Next

(* Every static stays in the range of its type, failed loads included.     *)
THEOREM LoaderTypeCorrect == Spec => []TypeOK
<1>1. Statics0 \in StaticsType
  <2>1. 0 \in 0 .. LongMod - 1 /\ 2 \in Nat /\ Port0 \in Nat
    BY NumberAssumption
  <2> QED
    BY <2>1, LevelAssumption DEF Statics0, StaticsType
<1>2. Init => TypeOK
  BY <1>1 DEF Init, TypeOK
<1> QED
  BY <1>2, TypeStep, PTL DEF Spec

(* A step of the loader's life is one load, or leaves the statics alone.   *)
LEMMA LoadOrKeep ==
  ASSUME [Next]_vars
  PROVE  \/ UNCHANGED <<life, st, tried, ok>>
         \/ \E f \in File : /\ st' = Load(f, st) /\ tried' = f /\ ok' = Succeeds(f, st)
                            /\ life' = "up" => life = "up" \/ Succeeds(f, st)
<1>1. ASSUME NEW f \in File, Start(f) \/ Reload(f)
      PROVE  /\ st' = Load(f, st) /\ tried' = f /\ ok' = Succeeds(f, st)
             /\ life' = "up" => life = "up" \/ Succeeds(f, st)
  BY <1>1, Zenon DEF Start, Reload, Succeeds
<1>2. ForkMaster \/ UNCHANGED vars => UNCHANGED <<life, st, tried, ok>>
  BY DEF ForkMaster, vars
<1>3. ForkMaster \/ UNCHANGED vars \/ \E f \in File : Start(f) \/ Reload(f)
  BY DEF Next
<1> QED
  BY <1>1, <1>2, <1>3

(* Errors are never written to a log that does not exist.                  *)
THEOREM LogBeforeFileAlways == Spec => []LogBeforeFile
<1>1. Init => LogBeforeFile
  BY DEF Init, Statics0, LogBeforeFile
<1>2. LogBeforeFile /\ [Next]_vars => LogBeforeFile'
  <2> SUFFICES ASSUME LogBeforeFile, [Next]_vars PROVE LogBeforeFile'
    OBVIOUS
  <2>1. ASSUME NEW f \in File, st' = Load(f, st) PROVE LogBeforeFile'
    <3>1. LogsToFile(f, st) => SinkMade(f, st)
      BY Earlier DEF SinkMade, LogsToFile
    <3>2. /\ st'.log = (st.log \/ SinkMade(f, st))
          /\ st'.toFile = (st.toFile \/ LogsToFile(f, st))
      BY <2>1 DEF Load
    <3> QED
      BY <3>1, <3>2, Zenon DEF LogBeforeFile
  <2> QED
    BY <2>1, LoadOrKeep DEF LogBeforeFile
<1> QED
  BY <1>1, <1>2, PTL DEF Spec

(* A running daemon has threads, a port and a log of positive size, and    *)
(* after a successful load a stack for its next Master.                    *)
THEOREM StaticsInRangeAlways == Spec => []StaticsInRange
<1>1. Init => StaticsInRange
  BY DEF Init, StaticsInRange
<1>2. TypeOK /\ StaticsInRange /\ [Next]_vars => StaticsInRange'
  <2> SUFFICES ASSUME TypeOK, StaticsInRange, [Next]_vars, life' = "up"
               PROVE  StaticsInRange'
    BY DEF StaticsInRange
  <2>1. ASSUME NEW f \in File, st' = Load(f, st), ok' = Succeeds(f, st),
               life = "up" \/ Succeeds(f, st)
        PROVE  StaticsInRange'
    <3>1. Succeeds(f, st) => Passes(f, st, 3) /\ SinkMade(f, st)
      BY Earlier DEF Succeeds, SinkMade
    <3>2. st'.threads \in 1 .. Cores
      BY <2>1, <3>1, PassedChecks DEF Load, StaticsInRange
    <3>3. st'.port \in 1 .. PortMax
      BY <2>1, PassedChecks DEF Load, StaticsInRange, Succeeds
    <3>4. SinkMade(f, st) => SizeValue(f.size) # 0
      BY PassedChecks, NonZeroSize, FileAssumption, NumberAssumption DEF SinkMade, FileType
    <3>5. st'.size # 0
      BY <2>1, <3>1, <3>4 DEF Load, StaticsInRange
    <3>6. Succeeds(f, st) => Passes(f, st, 6) /\ ~SizeFails(f.ram)
      BY Earlier, PassedChecks DEF Succeeds
    <3>7. ok' => st'.ram # 0
      BY <2>1, <3>6, NonZeroSize, FileAssumption, NumberAssumption
         DEF Load, FileType, SizeFails
    <3> QED
      BY <3>2, <3>3, <3>5, <3>7 DEF StaticsInRange
  <2> QED
    BY <2>1, LoadOrKeep DEF StaticsInRange
<1> QED
  BY <1>1, <1>2, LoaderTypeCorrect, PTL DEF Spec

(* A full file that loads determines the statics, whatever came before.    *)
THEOREM DeterminedAlways == Spec => []Determined
<1>1. Init => Determined
  BY DEF Init, Determined
<1>2. TypeOK /\ Determined /\ [Next]_vars => Determined'
  <2> SUFFICES ASSUME TypeOK, Determined, [Next]_vars PROVE Determined'
    OBVIOUS
  <2>1. ASSUME NEW f \in File, st' = Load(f, st), tried' = f, ok' = Succeeds(f, st)
        PROVE  Determined'
    <3> SUFFICES ASSUME Succeeds(f, st), States(f)
                 PROVE  st' = [threads |-> f.threads, lev |-> f.level,
                               loglev |-> f.level, size |-> SizeValue(f.size),
                               ram |-> SizeValue(f.ram), port |-> f.port,
                               log |-> TRUE, toFile |-> TRUE]
      BY <2>1 DEF Determined
    <3>1. /\ Passes(f, st, 3) /\ Passes(f, st, 5) /\ Passes(f, st, 6)
          /\ SinkMade(f, st) /\ LogsToFile(f, st)
      BY Earlier DEF Succeeds, SinkMade, LogsToFile
    <3>2. f.ram # Junk
      BY <3>1, PassedChecks DEF SinkMade, SizeFails
    <3>3. f.threads # None /\ f.level # None /\ f.port # None
      BY FileAssumption DEF States, FileType
    <3> QED
      BY <2>1, <3>1, <3>2, <3>3 DEF Load, Threads, LevelOf, Port
  <2> QED
    BY <2>1, LoadOrKeep DEF Determined
<1> QED
  BY <1>1, <1>2, LoaderTypeCorrect, PTL DEF Spec

(* A reload that fails in the daemon's section leaves the log as it was.   *)
THEOREM FailureKeepsSinkAlways == Spec => FailureKeepsSink
<1> DEFINE Kept == life = "up" /\ ~ok' =>
                     /\ st'.port = st.port
                     /\ \/ <<st'.size, st'.loglev, st'.log>> = <<st.size, st.loglev, st.log>>
                        \/ \A k \in 1 .. 7 : ~Fails(tried', st, k)
<1>1. TypeOK /\ [Next]_vars => [Kept]_vars
  <2> SUFFICES ASSUME TypeOK, [Next]_vars, life = "up", ~ok'
               PROVE  /\ st'.port = st.port
                      /\ \/ <<st'.size, st'.loglev, st'.log>> = <<st.size, st.loglev, st.log>>
                         \/ \A k \in 1 .. 7 : ~Fails(tried', st, k)
    OBVIOUS
  <2>1. ASSUME NEW f \in File, st' = Load(f, st), tried' = f, ok' = Succeeds(f, st)
        PROVE  /\ st'.port = st.port
               /\ \/ <<st'.size, st'.loglev, st'.log>> = <<st.size, st.loglev, st.log>>
                  \/ \A k \in 1 .. 7 : ~Fails(tried', st, k)
    <3>1. st'.port = st.port
      BY <2>1 DEF Load
    <3>2. CASE SinkMade(f, st)
      BY <2>1, <3>1, <3>2 DEF SinkMade, Passes
    <3>3. CASE ~SinkMade(f, st)
      BY <2>1, <3>1, <3>3 DEF Load, TypeOK, StaticsType
    <3> QED
      BY <3>2, <3>3
  <2> QED
    BY <2>1, LoadOrKeep
<1> QED
  BY <1>1, LoaderTypeCorrect, PTL DEF Spec, FailureKeepsSink
-----------------------------------------------------------------------------
(* Settings on which a file may rely that leaves some out.                 *)
Sane(s) ==
  s.threads \in 1 .. Cores /\ s.port \in 1 .. PortMax /\ s.loglev \in Level /\ s.toFile

LEMMA FlawFails ==
  ASSUME NEW f, NEW s, NEW k, Flawed(f, k) PROVE Fails(f, s, k)
BY DEF Flawed, Fails, Threads, LevelOf, Port

LEMMA SaneFails ==
  ASSUME NEW f, NEW s, NEW k, Sane(s), Fails(f, s, k) PROVE Flawed(f, k)
BY DEF Sane, Flawed, Fails, Threads, LevelOf, Port

(* Which checks a file passes does not depend on sane settings, and a file *)
(* passes none that it would not pass by itself.                           *)
LEMMA SoundPasses ==
  ASSUME NEW f, NEW s, NEW k
  PROVE  (Passes(f, s, k) => Sound(f, k)) /\ (Sane(s) => Passes(f, s, k) = Sound(f, k))
BY FlawFails, SaneFails DEF Passes, Sound

LEMMA SoundEarlier ==
  ASSUME NEW f, NEW j \in Nat, NEW k \in Nat, j <= k, Sound(f, k) PROVE Sound(f, j)
BY DEF Sound

(* A load takes the settings that the file gives and keeps the others.     *)
LEMMA TakesGiven ==
  ASSUME NEW f \in File, NEW s, Sane(s) \/ (s = Statics0 /\ Succeeds(f, s))
  PROVE  Settings(Load(f, s)) = Abs!Taken(f, Settings(s))
<1> DEFINE new == Load(f, s)
           given == GivenBy(f)
<1>1. f \in FileType /\ None \notin Nat
  BY FileAssumption, NoneAssumption
<1>2. \A k \in {3, 6, 7, 9} : Passes(f, s, k) = Sound(f, k)
  <2>1. ASSUME NEW k \in {3, 6, 7, 9}, Sane(s) PROVE Passes(f, s, k) = Sound(f, k)
    BY <2>1, SoundPasses
  <2>2. ASSUME NEW k \in {3, 6, 7, 9}, Passes(f, s, 9) PROVE Passes(f, s, k) = Sound(f, k)
    <3>1. Passes(f, s, k)
      BY <2>2, Earlier
    <3> QED
      BY <3>1, SoundPasses DEF Passes, Sound
  <2> QED
    BY <2>1, <2>2 DEF Succeeds
<1>3. new.threads = IF given.threads = None THEN s.threads ELSE given.threads
  BY <1>2 DEF Load, GivenBy, Threads
<1>4. new.port = IF given.port = None THEN s.port ELSE given.port
  BY <1>2 DEF Load, GivenBy, Port, Succeeds
<1>5. f.ram # Junk => SizeValue(f.ram) # None
  BY <1>1, SizeInRange, NumberAssumption DEF FileType
<1>6. Sound(f, 7) => SizeValue(f.size) # None
  BY <1>1, <1>2, PassedChecks, SizeInRange, NumberAssumption DEF FileType, SizeFails
<1>7. new.ram = IF given.ram = None THEN s.ram ELSE given.ram
  BY <1>2, <1>5 DEF Load, GivenBy
<1>8. new.size = IF given.size = None THEN s.size ELSE given.size
  BY <1>2, <1>6 DEF Load, GivenBy, SinkMade
<1>9. f.level = None => LevelOf(f, s) = s.loglev
  BY DEF LevelOf, Sane, Statics0
<1>10. new.loglev = IF given.level = None THEN s.loglev ELSE given.level
  BY <1>2, <1>9 DEF Load, GivenBy, SinkMade, LevelOf
<1> QED
  BY <1>3, <1>4, <1>7, <1>8, <1>10 DEF Abs!Taken, Settings
-----------------------------------------------------------------------------
(* A daemon that is up logs to its file.                                   *)
LogsUp == life = "up" => st.toFile

LEMMA LogsUpAlways == Spec => []LogsUp
<1>1. Init => LogsUp
  BY DEF Init, LogsUp
<1>2. LogsUp /\ [Next]_vars => LogsUp'
  <2> SUFFICES ASSUME LogsUp, [Next]_vars, life' = "up" PROVE st'.toFile
    BY DEF LogsUp
  <2>1. ASSUME NEW f \in File, st' = Load(f, st), life = "up" \/ Succeeds(f, st)
        PROVE  st'.toFile
    <3>1. Succeeds(f, st) => LogsToFile(f, st)
      BY Earlier DEF LogsToFile, Succeeds
    <3>2. st.toFile \/ LogsToFile(f, st)
      BY <2>1, <3>1 DEF LogsUp
    <3> QED
      BY <2>1, <3>2 DEF Load
  <2> QED
    BY <2>1, LoadOrKeep DEF LogsUp
<1> QED
  BY <1>1, <1>2, PTL DEF Spec

(* A load that throws does not succeed; on sane settings what throws, and  *)
(* what does not, is as KindsOf says.                                      *)
LEMMA ThrowFails ==
  ASSUME NEW f \in File, NEW s \in StaticsType, Throws(f, s) PROVE ~Succeeds(f, s)
<1>1. PortWarningThrows(f, s) => Port(f, s) \notin 1 .. PortMax
  BY NumberAssumption DEF PortWarningThrows
<1> QED
  BY <1>1 DEF Throws, Succeeds, Passes, Fails

LEMMA KindOfLoad ==
  ASSUME NEW f \in File, NEW s \in StaticsType, Sane(s)
  PROVE  /\ Succeeds(f, s) => "good" \in KindsOf(f)
         /\ Throws(f, s) => "throws" \in KindsOf(f)
         /\ ~Succeeds(f, s) /\ ~Throws(f, s) => "bad" \in KindsOf(f)
<1>1. \A k \in 1 .. 9 : Passes(f, s, k) = Sound(f, k)
  BY SoundPasses
<1>2. Succeeds(f, s) = Sound(f, 9)
  BY <1>1 DEF Succeeds
<1>3. ~(s.port > PortMax) /\ s.toFile
  BY NumberAssumption DEF Sane
<1>4. Sound(f, 8) /\ Port(f, s) > PortMax <=> LargePort(f)
  BY <1>3 DEF Port, LargePort
<1>5. PortWarningThrows(f, s) <=> LargePort(f) /\ LevelOf(f, s) \notin Quiet
  <2>1. Passes(f, s, 8) <=> Sound(f, 8)
    BY <1>1
  <2> QED
    BY <1>3, <1>4, <2>1 DEF PortWarningThrows
<1>6. Throws(f, s) <=> NoSection(f) \/ (LargePort(f) /\ LevelOf(f, s) \notin Quiet)
  <2>1. (Passes(f, s, 1) <=> Sound(f, 1)) /\ (Passes(f, s, 7) <=> Sound(f, 7))
    BY <1>1
  <2> QED
    BY <1>5, <2>1 DEF Throws, NoSection
<1>7. Throws(f, s) => ~Sound(f, 9)
  BY <1>2, ThrowFails
<1>8. LargePort(f) => f.level \in Level \cup {None}
  BY DEF LargePort, Sound, Flawed
<1>9. f.level # None => LevelOf(f, s) = f.level
  BY DEF LevelOf
<1>10. None \notin Level
  BY LevelAssumption
<1> QED
  BY <1>2, <1>6, <1>7, <1>8, <1>9, <1>10 DEF KindsOf

LEMMA UpIsSane ==
  ASSUME TypeOK, StaticsInRange, LogsUp, life = "up" PROVE Sane(st)
BY DEF TypeOK, StaticsInRange, LogsUp, StaticsType, Sane

LEMMA FirstLoad ==
  ASSUME TypeOK, NEW f \in File, Start(f), st = Statics0 PROVE Abs!Start(f)
<1>1. life = "new" /\ tried' = f /\ ok' = Succeeds(f, st) /\ st' = Load(f, st)
  BY DEF Start
<1>2. CASE Succeeds(f, st)
  <2>1. life' = "up" /\ ok' = TRUE
    BY <1>1, <1>2 DEF Start, Succeeds, Passes
  <2>2. Sound(f, 9)
    BY <1>2, SoundPasses DEF Succeeds
  <2>3. "good" \in KindsOf(f)
    BY <2>2 DEF KindsOf
  <2>4. Settings(st') = Abs!Taken(f, Settings(Statics0))
    BY <1>1, <1>2, TakesGiven
  <2> QED
    BY <1>1, <2>1, <2>3, <2>4 DEF Abs!Start
<1>3. CASE ~Succeeds(f, st)
  <2>1. life' \in {"crashed", "exited"} /\ ok' = FALSE
    BY <1>1, <1>3 DEF Start
  <2> QED
    BY <1>1, <2>1 DEF Abs!Start, Abs!Fail
<1> QED
  BY <1>2, <1>3

LEMMA LaterLoad ==
  ASSUME TypeOK, NEW f \in File, Reload(f), Sane(st) PROVE Abs!Reload(f)
<1>1. /\ life = "up" /\ tried' = f /\ ok' = Succeeds(f, st) /\ st' = Load(f, st)
      /\ life' = IF Throws(f, st) THEN "crashed" ELSE "up"
  BY DEF Reload
<1>2. st \in StaticsType /\ Succeeds(f, st) \in BOOLEAN
  BY DEF TypeOK, Succeeds, Passes
<1>3. CASE Throws(f, st)
  <2>1. life' = "crashed" /\ ok' = FALSE
    BY <1>1, <1>2, <1>3, ThrowFails
  <2>2. "throws" \in KindsOf(f)
    BY <1>2, <1>3, KindOfLoad
  <2> QED
    BY <1>1, <2>1, <2>2 DEF Abs!Reload, Abs!Fail
<1>4. CASE ~Throws(f, st)
  <2>1. life' = "up"
    BY <1>1, <1>4
  <2>2. ("good" \in KindsOf(f) /\ ok' = TRUE) \/ ("bad" \in KindsOf(f) /\ ok' = FALSE)
    BY <1>1, <1>2, <1>4, KindOfLoad
  <2>3. Settings(st') = Abs!Taken(f, Settings(st))
    BY <1>1, TakesGiven
  <2> QED
    BY <1>1, <2>1, <2>2, <2>3 DEF Abs!Reload
<1> QED
  BY <1>3, <1>4

(* How a load ends and which settings it changes depends on the file, and  *)
(* on no file that was loaded before it.  A step of the loader is a load   *)
(* of Loading or none, as the settings of a running daemon are sane.       *)
THEOREM LoaderImplementsLoading == Spec => ImplementsLoading
<1> DEFINE Fresh == life = "new" => st = Statics0
<1>1. Spec => []Fresh
  <2>1. Init => Fresh
    BY DEF Init
  <2>2. Fresh /\ [Next]_vars => Fresh'
    BY DEF Next, Start, Reload, ForkMaster, vars
  <2> QED
    BY <2>1, <2>2, PTL DEF Spec
<1>2. Init => Abs!Init
  BY DEF Init, Abs!Init
<1>3. TypeOK /\ StaticsInRange /\ LogsUp /\ Fresh /\ [Next]_vars => [Abs!Next]_(Abs!vars)
  <2> SUFFICES ASSUME TypeOK, StaticsInRange, LogsUp, Fresh, [Next]_vars
               PROVE  [Abs!Next]_(Abs!vars)
    OBVIOUS
  <2>1. ASSUME NEW f \in File, Start(f) PROVE Abs!Start(f)
    BY <2>1, FirstLoad DEF Start
  <2>2. ASSUME NEW f \in File, Reload(f) PROVE Abs!Reload(f)
    BY <2>2, LaterLoad, UpIsSane DEF Reload
  <2>3. CASE ForkMaster \/ UNCHANGED vars
    BY <2>3 DEF ForkMaster, vars, Abs!vars
  <2> QED
    BY <2>1, <2>2, <2>3 DEF Next, Abs!Next
<1> QED
  BY <1>1, <1>2, <1>3, LoaderTypeCorrect, StaticsInRangeAlways, LogsUpAlways, PTL
     DEF Spec, ImplementsLoading, Abs!Spec
=============================================================================
