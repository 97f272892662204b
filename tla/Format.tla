------------------------------- MODULE Format -------------------------------
(***************************************************************************)
(* cppformat as spdlog uses it: what MemoryWriter::write(format, args...)  *)
(* appends to its buffer, or that it throws FormatError, and what it had   *)
(* written by then.                                                        *)
(*                                                                         *)
(* A text is a sequence of characters.  The formatter is a record that the *)
(* parsing functions hand on: p is the position that the pointer s points  *)
(* to, start where the literal text not yet written begins, next is        *)
(* next_arg_index_, arg the argument read last, num the number, out the    *)
(* buffer, and err says that FormatError was thrown (the wording is left   *)
(* out).                                                                   *)
(***************************************************************************)
EXTENDS Writers, TLC

CONSTANTS
  UMod,      (* 2^32: the values of an unsigned                             *)
  Letter     (* the characters a name may start with                        *)

IntMax == UMod \div 2 - 1

NUL == "NUL"

(* What the pointers of the arguments may point to instead of a text.      *)
NullText == <<"NULL">>

Hex   == Digit \o <<"a", "b", "c", "d", "e", "f">>
HexUp == Digit \o <<"A", "B", "C", "D", "E", "F">>

IsDigit(c)  == \E i \in 1 .. 10 : Digit[i] = c
DigitVal(c) == (CHOOSE i \in 1 .. 10 : Digit[i] = c) - 1

(***************************************************************************)
(* Arguments.  MakeValue gives each C++ type one of a few types; custom    *)
(* stands for every type that is written by its operator<<, a string once  *)
(* written.  Integers are the numbers themselves; a floating point number  *)
(* is its sign, its kind and the characters snprintf makes of it.          *)
(***************************************************************************)
SignedType  == {"INT", "LONG_LONG"}
IntType     == SignedType \cup {"UINT", "ULONG_LONG"}
IntegerType == IntType \cup {"BOOL", "CHAR"}
NumericType == IntegerType \cup {"DOUBLE"}

MakeType ==
  [bool |-> "BOOL", short |-> "INT", ushort |-> "UINT", int |-> "INT", unsigned |-> "UINT",
   long |-> "LONG_LONG", ulong |-> "ULONG_LONG", float |-> "DOUBLE", double |-> "DOUBLE",
   schar |-> "INT", uchar |-> "UINT", char |-> "CHAR", charptr |-> "CSTRING",
   string |-> "STRING", voidptr |-> "POINTER", enum |-> "INT", object |-> "STRING"]

NoName == <<>>
NoArg  == [type |-> "NONE", name |-> NoName, val |-> 0]

Arg(ctype, val)         == [type |-> MakeType[ctype], name |-> NoName, val |-> val]
NamedArg(ctype, n, val) == [type |-> MakeType[ctype], name |-> n, val |-> val]

Spec0 == [align |-> "DEFAULT", fill |-> " ", flags |-> {}, width |-> 0, prec |-> -1, type |-> ""]

(* The formatter at the start of a call.                                   *)
Start(text, args, out) ==
  [text |-> text, args |-> args, p |-> 1, start |-> 1, next |-> 0, num |-> 0,
   arg |-> NoArg, spec |-> Spec0, out |-> out, err |-> FALSE]

At(q, i)   == IF i > Len(q.text) THEN NUL ELSE q.text[i]
Cur(q)     == At(q, q.p)
Adv(q)     == [q EXCEPT !.p = @ + 1]
Throw(q)   == [q EXCEPT !.err = TRUE]
Then(q, F(_)) == IF q.err THEN q ELSE F(q)
-----------------------------------------------------------------------------
(* Numbers and arguments                                                   *)

(* The wrap is noticed only if it makes the value smaller.                 *)
RECURSIVE ParseNonnegativeInt(_, _)
ParseNonnegativeInt(q, value) ==
  LET new == (value * 10 + DigitVal(Cur(q))) % UMod
      r   == Adv(q)
  IN  IF new < value THEN Throw(r)
      ELSE IF IsDigit(Cur(r)) THEN ParseNonnegativeInt(r, new)
      ELSE IF new > IntMax THEN Throw(r)
      ELSE [r EXCEPT !.num = new]

DoGetArg(q, i) == IF i < Len(q.args) THEN [q EXCEPT !.arg = q.args[i + 1]] ELSE Throw(q)

(* Automatic indexing counts up from 0, manual indexing sets -1.           *)
NextArg(q) == IF q.next < 0 THEN Throw(q) ELSE DoGetArg([q EXCEPT !.next = @ + 1], q.next)

(* Mutant: an index does not stop the count.                               *)
CheckNoAutoIndexNever(q) == q

CheckNoAutoIndex(q) == IF q.next > 0 THEN Throw(q) ELSE [q EXCEPT !.next = -1]

GetArg(q) == Then(CheckNoAutoIndex(q), LAMBDA r : DoGetArg(r, r.num))

(* Of arguments with the same name the map keeps the first.                *)
Named(q, name) == {i \in DOMAIN q.args : q.args[i].name = name}
GetNamed(q, name) ==
  IF Named(q, name) = {} THEN Throw(q)
  ELSE [q EXCEPT !.arg = q.args[CHOOSE i \in Named(q, name) : \A j \in Named(q, name) : i <= j]]

ParseArgIndex(q) ==
  IF IsDigit(Cur(q)) THEN Then(ParseNonnegativeInt(q, 0), GetArg) ELSE NextArg(q)

ParseArgName(q) ==
  LET ends == {e \in q.p + 1 .. Len(q.text) + 1 : At(q, e) \notin Letter /\ ~IsDigit(At(q, e))}
      end  == CHOOSE e \in ends : \A f \in ends : e <= f
  IN  Then(CheckNoAutoIndex([q EXCEPT !.p = end]),
           LAMBDA r : GetNamed(r, SubSeq(q.text, q.p, end - 1)))

ParseArg(q) == IF Cur(q) \in Letter THEN ParseArgName(q) ELSE ParseArgIndex(q)
-----------------------------------------------------------------------------
(* The specification after the colon, part by part                         *)

AlignOf == "<" :> "LEFT" @@ ">" :> "RIGHT" @@ "=" :> "NUMERIC" @@ "^" :> "CENTER"

RequireNumeric(q) == IF q.arg.type \in NumericType THEN q ELSE Throw(q)

(* An alignment behind the first character makes that the fill.  A closing *)
(* brace there ends the field; the alignment read past it has no effect on *)
(* a field without width.                                                  *)
FillAlign(q) ==
  LET c == Cur(q)
      a == At(q, q.p + 1)
      Set(r, align) == Then(IF align = "=" THEN RequireNumeric(r) ELSE r,
                            LAMBDA s : [s EXCEPT !.spec.align = AlignOf[align]])
  IN  IF c = NUL THEN q
      ELSE IF a \in DOMAIN AlignOf
      THEN IF c = "{" THEN Throw(q)
           ELSE IF c = "}" THEN [q EXCEPT !.spec.align = AlignOf[a]]
           ELSE Set([q EXCEPT !.p = @ + 2, !.spec.fill = c], a)
      ELSE IF c \in DOMAIN AlignOf THEN Set(Adv(q), c) ELSE q

FlagsOf == "+" :> {"SIGN", "PLUS"} @@ "-" :> {"MINUS"} @@ " " :> {"SIGN"}

CheckSign(q) == IF q.arg.type \in NumericType \ {"UINT", "ULONG_LONG"} THEN Adv(q) ELSE Throw(q)

Sign(q) ==
  IF Cur(q) \notin DOMAIN FlagsOf THEN q
  ELSE Then(CheckSign(q), LAMBDA r : [r EXCEPT !.spec.flags = FlagsOf[Cur(q)]])

Hash(q) ==
  IF Cur(q) # "#" THEN q
  ELSE Then(RequireNumeric(Adv(q)), LAMBDA r : [r EXCEPT !.spec.flags = @ \cup {"HASH"}])

Zero(q) ==
  IF Cur(q) # "0" THEN q
  ELSE Then(RequireNumeric(Adv(q)),
            LAMBDA r : [r EXCEPT !.spec.align = "NUMERIC", !.spec.fill = "0"])

(* A width or precision is a number or a field that names an integer.      *)
Nested(q) ==
  Then(ParseArg(Adv(q)),
       LAMBDA r : IF Cur(r) = "}" /\ r.arg.type \in IntType /\ r.arg.val \in 0 .. IntMax
                  THEN [Adv(r) EXCEPT !.arg = q.arg, !.num = r.arg.val] ELSE Throw(r))

HasNumber(q) == IsDigit(Cur(q)) \/ Cur(q) = "{"
Number(q)    == IF IsDigit(Cur(q)) THEN ParseNonnegativeInt(q, 0) ELSE Nested(q)

Width(q) == IF HasNumber(q) THEN Then(Number(q), LAMBDA r : [r EXCEPT !.spec.width = r.num]) ELSE q

Precision(q) ==
  IF Cur(q) # "." THEN q
  ELSE IF ~HasNumber(Adv(q)) THEN Throw(q)
  ELSE Then(Number(Adv(q)),
            LAMBDA r : IF r.arg.type \in IntegerType \cup {"POINTER"} THEN Throw(r)
                       ELSE [r EXCEPT !.spec.prec = r.num])

Type(q) == IF Cur(q) \in {"}", NUL} THEN q ELSE [Adv(q) EXCEPT !.spec.type = Cur(q)]

ParseSpec(q) ==
  IF Cur(q) # ":" THEN q
  ELSE Then(Then(Then(Then(Then(Then(FillAlign(Adv(q)), Sign), Hash), Zero), Width), Precision), Type)
-----------------------------------------------------------------------------
(* Writing                                                                 *)

RECURSIVE InBase(_, _, _)
InBase(n, base, digits) ==
  (IF n < base THEN <<>> ELSE InBase(n \div base, base, digits)) \o <<digits[1 + (n % base)]>>

BaseOf == "x" :> 16 @@ "X" :> 16 @@ "b" :> 2 @@ "B" :> 2 @@ "o" :> 8

(* The magnitude is unsigned: 0 - value is right for the least int too.    *)
WriteInt(q, value) ==
  LET abs  == (IF value < 0 THEN -value ELSE value) % UMod
      sign == SignOf(value < 0, q.spec)
      t    == q.spec.type
      base == IF "HASH" \notin q.spec.flags THEN <<>> ELSE IF t = "o" THEN <<"0">> ELSE <<"0", t>>
      put(prefix, digits) == [q EXCEPT !.out = @ \o PrepareIntBuffer(q.spec, prefix, digits)]
  IN  IF t \in {"", "d"} THEN put(sign, FormatDecimal(abs, CountDigits(abs)))
      ELSE IF t \in DOMAIN BaseOf
      THEN put(sign \o base, InBase(abs, BaseOf[t], IF t = "X" THEN HexUp ELSE Hex))
      ELSE Throw(q)

(* Blanks that snprintf puts in front become the fill, those behind do not.*)
WriteDouble(q, v) ==
  LET spec  == q.spec
      upper == spec.type \in {"E", "F", "G", "A"}
      sign  == SignOf(v.neg, spec)
      width == IF sign # <<>> /\ spec.width > 0 THEN spec.width - 1 ELSE spec.width
      rest  == IF width > Len(v.text) THEN width - Len(v.text) ELSE 0
  IN  IF spec.type \notin {"", "e", "f", "g", "a", "E", "F", "G", "A"} THEN Throw(q)
      ELSE [q EXCEPT !.out = @ \o
        IF v.kind = "nan" THEN WriteStr(spec, sign \o IF upper THEN <<"N", "A", "N">> ELSE <<"n", "a", "n">>)
        ELSE IF v.kind = "inf" THEN WriteStr(spec, sign \o IF upper THEN <<"I", "N", "F">> ELSE <<"i", "n", "f">>)
        ELSE IF spec.align = "CENTER" THEN WriteStr(spec, sign \o v.text)
        ELSE IF spec.align = "LEFT" THEN sign \o v.text \o Rep(" ", rest)
        ELSE IF spec.align = "NUMERIC" THEN sign \o Rep(spec.fill, rest) \o v.text
        ELSE Rep(spec.fill, rest) \o sign \o v.text]

WriteChar(q, c) ==
  IF q.spec.align = "NUMERIC" \/ q.spec.flags # {} THEN Throw(q)
  ELSE [q EXCEPT !.out = @ \o WriteStr(q.spec, <<c>>)]

WriteString(q, s) ==
  IF q.spec.type \notin {"", "s"} \/ s = NullText THEN Throw(q)
  ELSE LET n == IF q.spec.prec >= 0 /\ q.spec.prec < Len(s) THEN q.spec.prec ELSE Len(s)
       IN  [q EXCEPT !.out = @ \o WriteStr(q.spec, SubSeq(s, 1, n))]

WritePointer(q, p) == WriteInt([q EXCEPT !.spec.flags = {"HASH"}, !.spec.type = "x"], p)

(* ArgVisitor and ArgFormatterBase.  A bool is a word unless a type asks   *)
(* for a number.  A char carries its character and its code.               *)
Visit(q) ==
  LET a == q.arg  t == q.spec.type
  IN  CASE a.type \in IntType -> WriteInt(q, a.val)
        [] a.type = "BOOL" /\ t # "" -> WriteInt(q, IF a.val THEN 1 ELSE 0)
        [] a.type = "BOOL" /\ t = "" ->
             [q EXCEPT !.out = @ \o WriteStr(q.spec, IF a.val THEN <<"t", "r", "u", "e">>
                                                     ELSE <<"f", "a", "l", "s", "e">>)]
        [] a.type = "CHAR" /\ t \notin {"", "c"} -> WriteInt(q, a.val.code)
        [] a.type = "CHAR" /\ t \in {"", "c"} -> WriteChar(q, a.val.ch)
        [] a.type = "DOUBLE" -> WriteDouble(q, a.val)
        [] a.type = "CSTRING" /\ t = "p" -> WritePointer(q, IF a.val = NullText THEN 0 ELSE 1)
        [] a.type = "STRING" \/ (a.type = "CSTRING" /\ t # "p") -> WriteString(q, a.val)
        [] a.type = "POINTER" -> IF t \in {"", "p"} THEN WritePointer(q, a.val) ELSE Throw(q)
-----------------------------------------------------------------------------
(* BasicFormatter::format                                                  *)

Close(q) == IF Cur(q) = "}" THEN Adv(q) ELSE Throw(q)

(* The field after an opening brace.                                       *)
Field(q) ==
  Then(Then(Then(ParseArg([q EXCEPT !.spec = Spec0]), ParseSpec), Close), Visit)

(* Writes the literal text from start to the position end.                 *)
Flush(q, end) == [q EXCEPT !.out = @ \o SubSeq(q.text, q.start, end)]
Resume(q)     == [q EXCEPT !.start = q.p]

(* The loop over the text.  A doubled brace is written once.               *)
RECURSIVE Loop(_)
Loop(q) ==
  LET c == Cur(q)
      r == Adv(q)
  IN  IF q.err THEN q
      ELSE IF c = NUL THEN Flush(q, q.p - 1)
      ELSE IF c \notin {"{", "}"} THEN Loop(r)
      ELSE IF Cur(r) = c THEN Loop(Resume(Adv(Flush(r, q.p))))
      ELSE IF c = "}" THEN Throw(r)
      ELSE Loop(Resume(Field(Flush(r, q.p - 1))))

(* MemoryWriter::write: the formatter at the end of the call.              *)
Write(text, args, out) == Loop(Start(text, args, out))
=============================================================================
