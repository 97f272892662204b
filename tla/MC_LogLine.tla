----------------------------- MODULE MC_LogLine -----------------------------
(* Log statements for LogLine, in four families.                           *)
EXTENDS LogText

Args1 == {Arg("int", -42), Arg("uchar", 255), Arg("bool", TRUE), Arg("string", <<"a", "b", "c">>),
          Arg("char", [ch |-> "x", code |-> 120]),
          Arg("double", [neg |-> TRUE, kind |-> "num", text |-> <<"1", ".", "5">>])}

Statement(pieces, args) ==
  [pieces |-> pieces, args |-> args, more |-> <<>>, level |-> 4, force |-> FALSE,
   pattern |-> <<"%", "v">>, tm |-> [sec |-> 9, min |-> 5, hour |-> 0, mday |-> 1, mon |-> 0,
   year |-> 116, wday |-> 5, off |-> 180, ns |-> 7000000]]

(* One field with every combination of flags.  A fill needs an alignment;  *)
(* the layouts that depart from the rule for other types are left out.     *)
Specs ==
  {s \in [align : {"", "<", ">", "^", "="}, fill : {" ", "*"}, sign : {"", "+"}, hash : BOOLEAN,
          zero : BOOLEAN, nested : {FALSE}, width : {0, 7}, prec : {-1, 2}, type : {"", "x", "s"}] :
     /\ s.fill = "*" => s.align # ""
     /\ s.zero => s.align \in {"", "<"}
     /\ s.hash => s.type = "x" /\ s.prec < 0
     /\ s.sign = "+" /\ s.prec < 0 => s.align \in {"", "="}}
OneField ==
  {Statement(<<Auto(s), Lit("z")>>, <<a>>) : s \in Specs, a \in Args1}
Regular(st) ==
  LET s == st.pieces[1].spec  a == st.args[1]
  IN  /\ a.type = "DOUBLE" => s.prec < 0 /\ (s.align = "<" => s.fill = " " /\ ~s.zero)
      /\ a.type = "BOOL" /\ s.type = "" => s.align # "=" /\ ~s.zero

(* Up to three pieces, well indexed or not, with a named argument.         *)
Pieces == {Lit("a"), Lit("{"), Lit("}"), Auto(Plain), Auto([Plain EXCEPT !.nested = TRUE]),
           Index(0, Plain), Index(1, Plain), ByName(<<"n">>, Plain)}
Args2 == <<Arg("int", 3), NamedArg("string", <<"n">>, <<"y">>), Arg("unsigned", 1)>>
Several ==
  {Statement(p \o b, a) : p \in UNION {[1 .. n -> Pieces] : n \in 1 .. 3},
     b \in {<<>>}, a \in {<<Arg("int", 10), Arg("charptr", NullText)>>, Args2}}
  \cup {Statement(p \o <<Brace(c)>>, Args2) : p \in UNION {[1 .. n -> Pieces] : n \in 0 .. 2}, c \in {"{"}}
  \cup {Statement(p \o <<Brace("}")>>, Args2) : p \in [1 .. 1 -> Pieces \ {Lit("}")}]}

(* Integers at the powers of ten and at the end of the range.              *)
Numbers == {0, 9, 10, 99, 100, 101, 999, 1000, 16383, 16384, 99999, 100000, 536870911}
Integer == {Statement(<<Auto(Plain)>>, <<Arg("long", n)>>) : n \in Numbers \cup {-n : n \in Numbers}}
  \cup {Statement(<<Auto(Plain)>>, <<Arg("int", -536870912)>>)}

(* Patterns and times: midnight, noon, the end of a year; streamed texts.  *)
Times == {[sec |-> s, min |-> m, hour |-> h, mday |-> 31, mon |-> 11, year |-> y, wday |-> 6,
           off |-> o, ns |-> 12345678] :
            s \in {5, 59}, m \in {0, 30}, h \in {0, 12, 23}, y \in {99, 126}, o \in {330}}
MCPatterns == {<<"[", "%", "T", "]", " ", "<", "%", "L", ">", " ", "%", "v">>, <<"%", "+">>,
             <<"%", "R", "%">>, <<"%", "D", "%", "q">>, <<"%", "r", "%", "z", "%", "f", "%", "F">>,
             <<"%", "c", "%", "a", "%", "A", "%", "b", "%", "B", "%", "t", "%", "p", "%", "x">>}
Lines ==
  {[Statement(<<Lit("a")>>, <<>>) EXCEPT !.pattern = p, !.tm = t, !.more = <<"b">>, !.level = l] :
     p \in MCPatterns, t \in Times, l \in {4, 5}}
  \cup {[Statement(<<Lit("{"), Auto(Plain)>>, a) EXCEPT !.more = m, !.force = f, !.level = l] :
          a \in {<<>>, <<Arg("string", <<"s", "t", "u">>)>>}, m \in {<<>>, <<"p", "q">>},
          f \in BOOLEAN, l \in {0, 5, 8}}

MCSinks == <<"stream", "syslog">>

AnyCase == {st \in OneField : Regular(st)} \cup Several \cup Integer \cup Lines
=============================================================================
