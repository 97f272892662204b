------------------------------ MODULE Writers ------------------------------
(***************************************************************************)
(* The part of cppformat's BasicWriter that needs no recursion: decimal    *)
(* digits and their number, and the layout of a field in its width.        *)
(***************************************************************************)
EXTENDS Integers, Sequences

Digit == <<"0", "1", "2", "3", "4", "5", "6", "7", "8", "9">>

Rep(c, n) == [i \in 1 .. n |-> c]

(* fill_padding puts the odd character behind the content.                 *)
Center(n) == n \div 2

(* write_str, and the same layout in visit_char: the default is left.      *)
WriteStr(spec, s) ==
  LET n    == IF spec.width > Len(s) THEN spec.width - Len(s) ELSE 0
      left == IF spec.align = "RIGHT" THEN n ELSE IF spec.align = "CENTER" THEN Center(n) ELSE 0
  IN  Rep(spec.fill, left) \o s \o Rep(spec.fill, n - left)

(* prepare_int_buffer for a number without precision, the only ones that   *)
(* get here: the default is right, and = fills behind the sign.            *)
PrepareIntBuffer(spec, prefix, digits) ==
  LET n    == Len(prefix) + Len(digits)
      fill == Rep(spec.fill, IF spec.width > n THEN spec.width - n ELSE 0)
  IN  IF spec.align = "NUMERIC" THEN prefix \o fill \o digits
      ELSE IF spec.align \in {"LEFT", "CENTER"} THEN WriteStr(spec, prefix \o digits)
      ELSE fill \o prefix \o digits

(* 32 - clz(n | 1), for a number that an unsigned holds.                     *)
BitLength(n) == CHOOSE k \in 1 .. 32 : n < 2 ^ k /\ (k = 1 \/ n >= 2 ^ (k - 1))
PowersOf10 == [t \in 0 .. 9 |-> IF t = 0 THEN 0 ELSE 10 ^ t]

(* The number of decimal digits, by the length in bits.                    *)
CountDigits(n) ==
  LET t == (BitLength(n) * 1233) \div 4096
  IN  t - (IF n < PowersOf10[t] THEN 1 ELSE 0) + 1

FormatDecimal(n, count) == [i \in 1 .. count |-> Digit[1 + ((n \div 10 ^ (count - i)) % 10)]]

(* The minus sign, or what the flags ask for.                              *)
SignOf(neg, spec) ==
  IF neg THEN <<"-">>
  ELSE IF "SIGN" \notin spec.flags THEN <<>>
  ELSE IF "PLUS" \in spec.flags THEN <<"+">> ELSE <<" ">>
=============================================================================
