------------------------------ MODULE LogText ------------------------------
(***************************************************************************)
(* The log statements of LogLine with the text that the formatter and the  *)
(* pattern make of them, against what their format strings mean.           *)
(***************************************************************************)
EXTENDS LogLine, Pattern, Meaning

(* MemoryWriter::write into the empty buffer of a new line.                *)
Formatted(text, args) == Write(text, args, <<>>)
-----------------------------------------------------------------------------
(* The payloads a due statement may log: what it means and what was        *)
(* streamed after it; or, if it throws, a part of what comes before the    *)
(* field that cannot be formatted.                                         *)
Payload(c, t) ==
  LET m == Means(c.pieces, c.args)
  IN  IF c.args = <<>> THEN ~threw /\ t = TextOf(c.pieces) \o c.more
      ELSE IF m.ok THEN ~threw /\ t = m.text \o c.more
      ELSE threw /\ Len(t) <= Len(m.text) /\ t = SubSeq(m.text, 1, Len(t))

(* Every field shows its own argument, padded, signed and cut as its       *)
(* specification says, and whatever cannot be formatted throws: parser,    *)
(* indexing and writers together give what the string means.  A syslog     *)
(* sink gets that text, a stream what the pattern makes of it.             *)
Faithful ==
  pc = "done" /\ due =>
    \A s \in DOMAIN Sinks : \A r \in {sunk[s][i] : i \in DOMAIN sunk[s]} :
      IF Sinks[s] = "syslog" THEN Payload(case, r.text)
      ELSE \E z \in DOMAIN Sinks :
             /\ Sinks[z] = "syslog"
             /\ r.text = FormatLine(case.pattern, [name |-> Name, tid |-> Tid, level |-> case.level,
                                                   raw |-> sunk[z][1].text], case.tm)

(* The short flags, spelled as the comments of pattern_formatter_impl.h    *)
(* spell them.                                                             *)
Spelling ==
  [c \in {"T", "X", "R", "D", "x", "r", "+"} |->
     CASE c \in {"T", "X"} -> <<"%", "H", ":", "%", "M", ":", "%", "S">>
       [] c = "R" -> <<"%", "H", ":", "%", "M">>
       [] c \in {"D", "x"} -> <<"%", "m", "/", "%", "d", "/", "%", "C">>
       [] c = "r" -> <<"%", "I", ":", "%", "M", ":", "%", "S", " ", "%", "p">>
       [] c = "+" -> <<"[", "%", "Y", "-", "%", "m", "-", "%", "d", " ", "%", "H", ":", "%", "M",
                       ":", "%", "S", ".", "%", "e", "]", " ", "[", "%", "n", "]", " ", "[",
                       "%", "l", "]", " ", "%", "v">>]

Spelled(p) ==
  IF \E i \in 1 .. Len(p) - 1 : p[i] = "%" /\ p[i + 1] \in DOMAIN Spelling
  THEN LET i == CHOOSE i \in 1 .. Len(p) - 1 : p[i] = "%" /\ p[i + 1] \in DOMAIN Spelling
       IN  SubSeq(p, 1, i - 1) \o Spelling[p[i + 1]] \o SubSeq(p, i + 2, Len(p))
  ELSE p

(* A short flag shows what the flags it stands for show, at any time.      *)
ShortFlags ==
  pc = "sink" => rec.text = FormatLine(Spelled(case.pattern),
    [name |-> Name, tid |-> Tid, level |-> rec.lvl, raw |-> rec.raw], case.tm)
=============================================================================
