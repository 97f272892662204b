------------------------------ MODULE Pattern ------------------------------
(***************************************************************************)
(* pattern_formatter: the line that a logger's pattern makes of a message. *)
(* The names of days, months and levels are single characters here; tm is  *)
(* the broken down time with its offset from UTC in minutes (off) and the  *)
(* nanoseconds of the second (ns).                                         *)
(***************************************************************************)
EXTENDS Format

LOCAL INSTANCE SequencesExt

level_names == <<"trace", "debug", "info", "notice", "warning", "error", "critical", "alert",
                 "emerg", "off">>
short_level_names == <<"T", "D", "I", "N", "W", "E", "C", "A", "M", "O">>
days   == <<"Sun", "Mon", "Tue", "Wed", "Thu", "Fri", "Sat">>
full_days == <<"Sunday", "Monday", "Tuesday", "Wednesday", "Thursday", "Friday", "Saturday">>
months == <<"Jan", "Feb", "Mar", "Apr", "May", "June", "July", "Aug", "Sept", "Oct", "Nov", "Dec">>
full_months == <<"January", "February", "March", "April", "May", "June", "July", "August",
                 "September", "October", "November", "December">>

(* fmt::pad(v, width, '0'): the fill goes before a minus sign.             *)
Pad(v, width) ==
  WriteInt([Start(<<>>, <<>>, <<>>) EXCEPT !.spec.width = width, !.spec.fill = "0"], v).out
Dec(v) == Pad(v, 0)

(* pad_n_join                                                              *)
Join(vs, sep) == Tail(FlattenSeq([i \in DOMAIN vs |-> <<sep>> \o Pad(vs[i], 2)]))

(* Division and remainder of C.                                            *)
Quot(a, b) == IF a < 0 THEN -((-a) \div b) ELSE a \div b
Rem(a, b)  == a - b * Quot(a, b)

to12h(tm) == IF tm.hour > 12 THEN tm.hour - 12 ELSE tm.hour
ampm(tm)  == IF tm.hour >= 12 THEN "PM" ELSE "AM"

Clock(tm) == Join(<<tm.hour, tm.min, tm.sec>>, ":")

(* The sign is that of the hours, which keep theirs.                       *)
Offset(tm) ==
  LET h == Quot(tm.off, 60)
  IN  (IF h >= 0 THEN <<"+">> ELSE <<"-">>) \o Join(<<h, Rem(tm.off, 60)>>, ":")

(* Mutant: the full line takes the month as tm has it, from 0.             *)
FullMonthFromZero(msg, tm) ==
  <<"[">> \o Dec(tm.year + 1900) \o <<"-">> \o Join(<<tm.mon, tm.mday>>, "-") \o <<" ">>
    \o Clock(tm) \o <<".">> \o Pad(tm.ns \div 1000000, 3) \o <<"]", " ">>
    \o <<"[", msg.name, "]", " ", "[", level_names[msg.level + 1], "]", " ">> \o msg.raw

Full(msg, tm) ==
  <<"[">> \o Dec(tm.year + 1900) \o <<"-">> \o Join(<<tm.mon + 1, tm.mday>>, "-") \o <<" ">>
    \o Clock(tm) \o <<".">> \o Pad(tm.ns \div 1000000, 3) \o <<"]", " ">>
    \o <<"[", msg.name, "]", " ", "[", level_names[msg.level + 1], "]", " ">> \o msg.raw

(* handle_flag and the flag formatters; other flags appear as they are.    *)
Flag(c, msg, tm) ==
  CASE c = "n" -> <<msg.name>>
    [] c = "l" -> <<level_names[msg.level + 1]>>
    [] c = "L" -> <<short_level_names[msg.level + 1]>>
    [] c = "t" -> Dec(msg.tid)
    [] c = "v" -> msg.raw
    [] c = "a" -> <<days[tm.wday + 1]>>
    [] c = "A" -> <<full_days[tm.wday + 1]>>
    [] c \in {"b", "h"} -> <<months[tm.mon + 1]>>
    [] c = "B" -> <<full_months[tm.mon + 1]>>
    [] c = "c" -> <<days[tm.wday + 1], " ", months[tm.mon + 1], " ">> \o Dec(tm.mday) \o <<" ">>
                    \o Clock(tm) \o <<" ">> \o Dec(tm.year + 1900)
    [] c = "C" -> Pad(tm.year % 100, 2)
    [] c = "Y" -> Dec(tm.year + 1900)
    [] c \in {"D", "x"} -> Join(<<tm.mon + 1, tm.mday, tm.year % 100>>, "/")
    [] c = "m" -> Pad(tm.mon + 1, 2)
    [] c = "d" -> Pad(tm.mday, 2)
    [] c = "H" -> Pad(tm.hour, 2)
    [] c = "I" -> Pad(to12h(tm), 2)
    [] c = "M" -> Pad(tm.min, 2)
    [] c = "S" -> Pad(tm.sec, 2)
    [] c = "e" -> Pad(tm.ns \div 1000000, 3)
    [] c = "f" -> Pad(tm.ns \div 1000, 6)
    [] c = "F" -> Pad(tm.ns, 9)
    [] c = "p" -> <<ampm(tm)>>
    [] c = "r" -> Join(<<to12h(tm), tm.min, tm.sec>>, ":") \o <<" ", ampm(tm)>>
    [] c = "R" -> Join(<<tm.hour, tm.min>>, ":")
    [] c \in {"T", "X"} -> Clock(tm)
    [] c = "z" -> Offset(tm)
    [] c = "+" -> Full(msg, tm)
    [] OTHER -> <<"%", c>>

(* compile_pattern: a formatter is a flag, or characters to be shown as    *)
(* they are.  A percent sign at the end is dropped.                        *)
Chars(s) == [flag |-> NUL, text |-> s]

RECURSIVE Compile(_, _)
Compile(pattern, chars) ==
  LET user == IF chars = <<>> THEN <<>> ELSE <<Chars(chars)>>
  IN  IF pattern = <<>> THEN user
      ELSE IF Head(pattern) # "%" THEN Compile(Tail(pattern), Append(chars, Head(pattern)))
      ELSE IF Len(pattern) = 1 THEN user
      ELSE user \o <<[flag |-> pattern[2], text |-> <<>>]>> \o Compile(SubSeq(pattern, 3, Len(pattern)), <<>>)

(* pattern_formatter::format                                               *)
FormatLine(pattern, msg, tm) ==
  LET fs == Compile(pattern, <<>>)
  IN  FlattenSeq([i \in DOMAIN fs |-> IF fs[i].flag = NUL THEN fs[i].text ELSE Flag(fs[i].flag, msg, tm)])
        \o <<"eol">>
=============================================================================
