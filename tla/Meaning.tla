------------------------------ MODULE Meaning ------------------------------
(***************************************************************************)
(* What a format string means, defined without a parser.  The string is    *)
(* given as pieces: characters shown as they are, fields, and single       *)
(* braces, which are errors.  TextOf writes the pieces in the concrete     *)
(* syntax; Means says what formatting that text has to give.               *)
(***************************************************************************)
EXTENDS Format

LOCAL INSTANCE SequencesExt

Lit(c)   == [kind |-> "lit", c |-> c]
Brace(c) == [kind |-> "brace", c |-> c]

(* A field with the next argument, the i-th, or the one called name.       *)
Auto(spec)        == [kind |-> "auto", spec |-> spec]
Index(i, spec)    == [kind |-> "index", i |-> i, spec |-> spec]
ByName(name, spec) == [kind |-> "name", name |-> name, spec |-> spec]
Fields == {"auto", "index", "name"}

Plain == [align |-> "", fill |-> " ", sign |-> "", hash |-> FALSE, zero |-> FALSE,
          nested |-> FALSE, width |-> 0, prec |-> -1, type |-> ""]
-----------------------------------------------------------------------------
(* The concrete syntax: {id:[[fill]align][sign][#][0][width][.prec][type]} *)

(* Length of n in a base, and its digits.                                  *)
Places(n, base) == CHOOSE k \in 1 .. 31 : n < base ^ k /\ (k = 1 \/ n >= base ^ (k - 1))
Numeral(n, base, digits) ==
  LET k == Places(n, base)
  IN  [i \in 1 .. k |-> digits[1 + ((n \div base ^ (k - i)) % base)]]

Word(c)        == IF c = "" THEN <<>> ELSE <<c>>
When(b, s)     == IF b THEN s ELSE <<>>
Decimal(n)     == Numeral(n, 10, Digit)

SpecText(s) ==
  When(s.fill # " ", <<s.fill>>) \o Word(s.align) \o Word(s.sign) \o When(s.hash, <<"#">>)
    \o When(s.zero, <<"0">>) \o (IF s.nested THEN <<"{", "}">> ELSE When(s.width > 0, Decimal(s.width)))
    \o When(s.prec >= 0, <<".">> \o Decimal(s.prec)) \o Word(s.type)

PieceText(x) ==
  CASE x.kind = "lit"   -> IF x.c \in {"{", "}"} THEN <<x.c, x.c>> ELSE <<x.c>>
    [] x.kind = "brace" -> <<x.c>>
    [] x.kind \in Fields ->
         <<"{">> \o (CASE x.kind = "auto" -> <<>> [] x.kind = "index" -> Decimal(x.i)
                       [] x.kind = "name" -> x.name)
           \o When(x.spec # Plain, <<":">> \o SpecText(x.spec)) \o <<"}">>

TextOf(pieces) == FlattenSeq([k \in DOMAIN pieces |-> PieceText(pieces[k])])
-----------------------------------------------------------------------------
(* Which arguments the pieces ask for, in order                            *)

Asks(x) ==
  IF x.kind \notin Fields THEN <<>>
  ELSE <<x.kind>> \o When(x.spec.nested, <<"auto">>)
AsksUpTo(pieces, k) == FlattenSeq([j \in 1 .. k |-> Asks(pieces[j])])
Count(pieces, k)    == Len(AsksUpTo(pieces, k))

(* All automatic and enough arguments, or none automatic.                  *)
Orderly(pieces, k, args) ==
  LET asked == AsksUpTo(pieces, k)
  IN  \/ Len(asked) <= Len(args) /\ \A j \in DOMAIN asked : asked[j] = "auto"
      \/ \A j \in DOMAIN asked : asked[j] # "auto"

(* The argument of the k-th piece, a sequence of none or one.              *)
Found(pieces, k, args) ==
  LET x == pieces[k]
      i == IF x.kind = "auto" THEN {Count(pieces, k - 1) + 1}
           ELSE IF x.kind = "index" THEN {x.i + 1}
           ELSE {j \in DOMAIN args : args[j].name = x.name}
  IN  IF i \cap DOMAIN args = {} THEN <<>>
      ELSE <<args[CHOOSE j \in i : \A h \in i : j <= h]>>

WidthOf(pieces, k, args) ==
  IF pieces[k].spec.nested THEN args[Count(pieces, k)].val ELSE pieces[k].spec.width
-----------------------------------------------------------------------------
(* What a field shows                                                      *)

Codes(type) ==
  CASE type \in IntType \cup {"BOOL"} -> {"", "d", "x", "X", "b", "B", "o"}
    [] type = "CHAR"    -> {"", "c", "d", "x", "X", "b", "B", "o"}
    [] type = "DOUBLE"  -> {"", "e", "f", "g", "a", "E", "F", "G", "A"}
    [] type = "STRING"  -> {"", "s"}
    [] type = "CSTRING" -> {"", "s", "p"}
    [] type = "POINTER" -> {"", "p"}

(* Numbers only: = 0 # and a sign, the sign for signed ones only; no       *)
(* precision for what has none; a character shown as one has no sign.      *)
Legal(s, a) ==
  /\ s.type \in Codes(a.type)
  /\ s.align = "=" \/ s.zero \/ s.hash \/ s.sign # "" => a.type \in NumericType
  /\ s.sign # "" => a.type \notin {"UINT", "ULONG_LONG"}
  /\ s.prec >= 0 => a.type \notin IntegerType \cup {"POINTER"}
  /\ a.type = "CHAR" /\ s.type \in {"", "c"} => s.align # "=" /\ ~s.zero /\ ~s.hash /\ s.sign = ""
  /\ a.type \in {"STRING", "CSTRING"} => a.val # NullText

(* Where the fill goes: before all, behind the sign, behind all.           *)
Places3(align, n) ==
  CASE align = "<" -> <<0, 0, n>>
    [] align = ">" -> <<n, 0, 0>>
    [] align = "^" -> <<n \div 2, 0, n - n \div 2>>
    [] align = "=" -> <<0, n, 0>>

IsNumber(s, a) == \/ a.type \in IntType \cup {"DOUBLE", "POINTER"}
                  \/ a.type \in {"BOOL", "CHAR"} /\ s.type \notin {"", "c"}

SignText(neg, s) == IF neg THEN <<"-">> ELSE When(s.sign \in {"+", " "}, <<s.sign>>)

Magnitude(s, n) ==
  CASE s.type \in {"", "d"} -> Decimal(n)
    [] s.type = "x" -> Numeral(n, 16, Hex)      [] s.type = "X" -> Numeral(n, 16, HexUp)
    [] s.type \in {"b", "B"} -> Numeral(n, 2, Digit)  [] s.type = "o" -> Numeral(n, 8, Digit)

BaseText(s) == When(s.hash /\ s.type \notin {"", "d"}, <<"0">> \o When(s.type # "o", <<s.type>>))

Value(a) == IF a.type = "BOOL" THEN IF a.val THEN 1 ELSE 0
            ELSE IF a.type = "CHAR" THEN a.val.code ELSE a.val

(* The part before the numeric fill, and the part behind it.               *)
Halves(s, a) ==
  IF a.type = "DOUBLE" THEN <<SignText(a.val.neg, s), a.val.text>>
  ELSE IF a.type = "POINTER" THEN <<<<"0", "x">>, Numeral(a.val, 16, Hex)>>
  ELSE IF IsNumber(s, a)
  THEN LET v == Value(a) IN <<SignText(v < 0, s) \o BaseText(s), Magnitude(s, IF v < 0 THEN -v ELSE v)>>
  ELSE IF a.type = "CHAR" THEN <<<<>>, <<a.val.ch>>>>
  ELSE IF a.type = "BOOL"
  THEN <<<<>>, IF a.val THEN <<"t", "r", "u", "e">> ELSE <<"f", "a", "l", "s", "e">>>>
  ELSE <<<<>>, IF s.prec >= 0 /\ s.prec < Len(a.val) THEN SubSeq(a.val, 1, s.prec) ELSE a.val>>

FieldText(s, width, a) ==
  LET h     == Halves(s, a)
      n     == Len(h[1]) + Len(h[2])
      align == IF s.zero THEN "=" ELSE IF s.align # "" THEN s.align
               ELSE IF IsNumber(s, a) THEN ">" ELSE "<"
      fill  == Places3(align, IF width > n THEN width - n ELSE 0)
      c     == IF s.zero THEN "0" ELSE s.fill
  IN  Rep(c, fill[1]) \o h[1] \o Rep(c, fill[2]) \o h[2] \o Rep(c, fill[3])
-----------------------------------------------------------------------------
(* Whether the k-th piece can be formatted, and what it shows.             *)
Good(pieces, k, args) ==
  \/ pieces[k].kind = "lit"
  \/ /\ pieces[k].kind \in Fields
     /\ Orderly(pieces, k, args)
     /\ Found(pieces, k, args) # <<>>
     /\ Legal(pieces[k].spec, Found(pieces, k, args)[1])
     /\ pieces[k].spec.nested =>
          args[Count(pieces, k)].type \in IntType /\ args[Count(pieces, k)].val \in 0 .. IntMax

Shows(pieces, k, args) ==
  IF pieces[k].kind = "lit" THEN <<pieces[k].c>>
  ELSE FieldText(pieces[k].spec, WidthOf(pieces, k, args), Found(pieces, k, args)[1])

(* The pieces before the first that cannot be formatted, and their text.   *)
GoodPart(pieces, args) ==
  CHOOSE n \in 0 .. Len(pieces) :
    /\ \A k \in 1 .. n : Good(pieces, k, args)
    /\ n = Len(pieces) \/ ~Good(pieces, n + 1, args)

Means(pieces, args) ==
  [ok   |-> GoodPart(pieces, args) = Len(pieces),
   text |-> FlattenSeq([k \in 1 .. GoodPart(pieces, args) |-> Shows(pieces, k, args)])]
=============================================================================
