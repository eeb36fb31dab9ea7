---------------------------- MODULE PrintfProofs ----------------------------
(***************************************************************************)
(* _vsnprintf, for any format, arguments and buffer: where the parser is   *)
(* in the format (ParseInv), that every conversion gives a text of a known *)
(* length and what the buffer holds of it (OutInv), and what the last      *)
(* conversion printed (FieldInv), against the C standard for integers.     *)
(***************************************************************************)
EXTENDS Printf, NaturalsInduction, SequenceTheorems, WellFoundedInduction, TLAPS

Less == {ss \in Nat \X Nat : ss[1] < ss[2]}

(* A nonempty set of naturals has a least element. *)
LEMMA LeastElement ==
  ASSUME NEW S, S \subseteq Nat, S # {}
  PROVE  \E m \in S : \A n \in S : m <= n
<1>1. IsWellFoundedOn(Less, Nat)
  BY NatLessThanWellFounded DEF OpToRel, Less
<1>2. PICK m \in S : \A n \in S : ~ (<<n, m>> \in Less)
  BY <1>1, WFMin
<1>3. \A n \in S : ~ (n < m)
  BY <1>2 DEF Less
<1> QED
  BY <1>3

(* A nonempty set of integers with an upper bound has a greatest element. *)
LEMMA Greatest ==
  ASSUME NEW S, S \subseteq Int, S # {}, NEW b \in Int, \A x \in S : x <= b
  PROVE  Max(S) \in S /\ \A x \in S : x <= Max(S)
<1> DEFINE D == {n \in Nat : \E x \in S : n = b - x}
<1>1. \A x \in S : x \in Int /\ b - x \in D
  OBVIOUS
<1>2. D \subseteq Nat /\ D # {}
  BY <1>1
<1>3. PICK m \in D : \A n \in D : m <= n
  BY <1>2, LeastElement
<1>4. PICK g \in S : m = b - g
  BY <1>3
<1>5. \A x \in S : g >= x
  <2> TAKE x \in S
  <2>1. m <= b - x
    BY <1>1, <1>3
  <2> QED
    BY <1>1, <1>4, <2>1
<1>6. Max(S) \in S /\ \A x \in S : Max(S) >= x
  BY <1>5 DEF Max
<1>7. Max(S) \in Int
  BY <1>6
<1> QED
  BY <1>1, <1>6, <1>7

-----------------------------------------------------------------------------
(* The walk over the format *)

Format == Seq(STRING \ {NUL})
Directive == {"flags", "width", "precision", "length", "specifier"}
InDirective ==
  \E i \in 1 .. pos - 1 :
    /\ i <= Len(call.format) /\ call.format[i] = "%"
    /\ \A j \in i + 1 .. pos - 1 : DirectiveChar(call.format[j])

(* Where the parser may be: inside a directive, from its percent sign on,  *)
(* there are only characters of flags, numbers and lengths.                *)
ParseInv ==
  /\ call.format \in Format /\ pos \in Nat \ {0}
  /\ pc \in {"text", "done", "astray"} \union Directive
  /\ pc # "astray" => pos <= Len(call.format) + 1
  /\ pc \in Directive => InDirective
  /\ pc = "astray" => Unfinished(call.format)

(* _atoi stops behind the last digit, at the latest at the terminator. *)
LEMMA AtoiPlace ==
  ASSUME call.format \in Format, NEW i \in Nat \ {0}, i <= Len(call.format) + 1
  PROVE  /\ atoi(i).next \in i .. Len(call.format) + 1
         /\ \A k \in i .. atoi(i).next - 1 : is_digit(call.format[k])
         /\ i <= Len(call.format) /\ is_digit(call.format[i]) => atoi(i).next > i
<1> DEFINE S == {n \in i - 1 .. Len(call.format) :
                   \A k \in i .. n : is_digit(call.format[k])}
           last == Max(S)
<1>1. Len(call.format) \in Nat
  BY DEF Format
<1>2. S \subseteq Int /\ \A x \in S : x <= Len(call.format)
  BY <1>1
<1>3. i - 1 \in S
  BY <1>1
<1>5. atoi(i).next = last + 1
  BY DEF atoi
<1>6. i <= Len(call.format) /\ is_digit(call.format[i]) => i \in S
  <2>1. \A k \in i .. i : k = i
    OBVIOUS
  <2> QED
    BY <1>1, <2>1
<1> HIDE DEF S
<1>4. last \in S /\ \A x \in S : x <= last
  <2>1. PICK b \in Int : b = Len(call.format)
    BY <1>1
  <2> QED
    BY <1>2, <1>3, <2>1, Greatest, Zenon
<1> USE DEF S
<1>7. PICK n \in S : n = last
  BY <1>4
<1>8. /\ n \in i - 1 .. Len(call.format)
      /\ \A k \in i .. n : is_digit(call.format[k])
  BY <1>7
<1> HIDE DEF S, last
<1>9. n + 1 \in i .. Len(call.format) + 1 /\ n + 1 - 1 = n
  BY <1>1, <1>8
<1>10. i \in S => i <= n
  BY <1>4, <1>7
<1>11. i \in S => n + 1 > i
  BY <1>8, <1>10, <1>1
<1> QED
  BY <1>5, <1>6, <1>7, <1>8, <1>9, <1>11

(* A character that is not the terminator is inside the format. *)
LEMMA Inside ==
  ASSUME call.format \in Format, NEW i \in Nat \ {0}, CharAt(i) # NUL
  PROVE  i <= Len(call.format) /\ CharAt(i) = call.format[i]
BY DEF CharAt, Format, NUL

(* The terminator is behind the format. *)
LEMMA Behind ==
  ASSUME call.format \in Format, NEW i \in Nat \ {0}, CharAt(i) = NUL
  PROVE  i > Len(call.format)
<1>1. CASE i <= Len(call.format)
  <2>1. call.format[i] \in STRING \ {NUL}
    BY <1>1 DEF Format
  <2> QED
    BY <1>1, <2>1 DEF CharAt
<1> QED
  BY <1>1 DEF Format

(* Neither the terminator nor the star is a digit. *)
LEMMA DigitIsText == ~is_digit(NUL) /\ ~is_digit("*")
<1>1. ASSUME NEW d \in 0 .. 9 PROVE DigitChar(d, {}) # "" /\ DigitChar(d, {}) # "*"
  <2> DEFINE digits == <<"0", "1", "2", "3", "4", "5", "6", "7", "8", "9">>
  <2>1. /\ digits[1] = "0" /\ digits[2] = "1" /\ digits[3] = "2" /\ digits[4] = "3"
        /\ digits[5] = "4" /\ digits[6] = "5" /\ digits[7] = "6" /\ digits[8] = "7"
        /\ digits[9] = "8" /\ digits[10] = "9"
    OBVIOUS
  <2>2. DigitChar(d, {}) = digits[d + 1]
    BY DEF DigitChar
  <2> HIDE DEF digits
  <2>3. d + 1 \in {1, 2, 3, 4, 5, 6, 7, 8, 9, 10}
    OBVIOUS
  <2> QED
    BY <2>1, <2>2, <2>3
<1> QED
  BY <1>1 DEF is_digit, NUL

(* A step that stays inside the directive. *)
LEMMA Further ==
  ASSUME ParseInv, InDirective, call' = call,
         NEW n \in Nat, pos <= n, n <= Len(call.format) + 1, pos' = n,
         \A k \in pos .. n - 1 : DirectiveChar(call.format[k])
  PROVE  InDirective'
<1>1. PICK i \in 1 .. pos - 1 :
        /\ i <= Len(call.format) /\ call.format[i] = "%"
        /\ \A j \in i + 1 .. pos - 1 : DirectiveChar(call.format[j])
  BY DEF InDirective
<1>2. pos \in Nat
  BY DEF ParseInv
<1>3. i \in 1 .. n - 1
  BY <1>1, <1>2
<1>4. ASSUME NEW j \in i + 1 .. n - 1 PROVE DirectiveChar(call.format[j])
  <2>1. j \in i + 1 .. pos - 1 \/ j \in pos .. n - 1
    BY <1>2, <1>3
  <2> QED
    BY <1>1, <2>1
<1>5. \E i0 \in 1 .. n - 1 :
        /\ i0 <= Len(call.format) /\ call.format[i0] = "%"
        /\ \A j \in i0 + 1 .. n - 1 : DirectiveChar(call.format[j])
  BY <1>1, <1>3, <1>4
<1> QED
  BY <1>5 DEF InDirective, DirectiveChar, is_digit, DigitChar

(* A width that is a number ends where _atoi does. *)
LEMMA WidthDigits ==
  ASSUME EvaluateWidth, is_digit(ch)
  PROVE  pos' = atoi(pos).next /\ width' = atoi(pos).value
<1>1. ch # "*"
  BY DigitIsText
<1> QED
  BY <1>1 DEF EvaluateWidth

(* Each step of the parser keeps its place. *)
LEMMA ParseNext ==
  ASSUME ParseInv, [Next]_vars
  PROVE  ParseInv'
<1> USE DEF ParseInv
<1>0. Len(call.format) \in Nat
  BY DEF Format
<1>1. CASE Literal
  <2>1. pos <= Len(call.format)
    BY <1>1, Inside DEF Literal, ch
  <2> QED
    BY <1>0, <1>1, <2>1 DEF Literal, Directive
<1>2. CASE Percent
  <2>1. pos <= Len(call.format) /\ call.format[pos] = "%"
    BY <1>2, Inside DEF Percent, ch, NUL
  <2>2. pos \in 1 .. pos + 1 - 1 /\ \A j \in pos + 1 .. pos + 1 - 1 : FALSE
    OBVIOUS
  <2>3. \E i \in 1 .. pos + 1 - 1 :
          /\ i <= Len(call.format) /\ call.format[i] = "%"
          /\ \A j \in i + 1 .. pos + 1 - 1 : DirectiveChar(call.format[j])
    BY <2>1, <2>2
  <2>4. InDirective'
    BY <1>2, <2>3 DEF Percent, InDirective, DirectiveChar, is_digit, DigitChar
  <2> QED
    BY <1>0, <1>2, <2>1, <2>4 DEF Percent, Directive
<1>3. CASE EvaluateFlags
  <2>1. CASE ch \in DOMAIN FlagChars
    <3>1. pos <= Len(call.format) /\ ch = call.format[pos]
      BY <2>1, Inside DEF ch, FlagChars, NUL
    <3>2. \A k \in pos .. pos + 1 - 1 : DirectiveChar(call.format[k])
      BY <2>1, <3>1 DEF DirectiveChar
    <3>3. /\ InDirective /\ call' = call /\ pos' = pos + 1 /\ pos + 1 \in Nat
          /\ pos <= pos + 1 /\ pos + 1 <= Len(call.format) + 1
      BY <1>0, <1>3, <2>1, <3>1 DEF EvaluateFlags, AfterFlag, Directive
    <3>4. InDirective'
      BY <3>2, <3>3, Further
    <3> QED
      BY <1>0, <1>3, <2>1, <3>3, <3>4 DEF EvaluateFlags, Directive
  <2>2. CASE ch \notin DOMAIN FlagChars
    <3>1. InDirective'
      BY <1>3, <2>2 DEF EvaluateFlags, Directive, InDirective, DirectiveChar, is_digit
    <3> QED
      BY <1>3, <2>2, <3>1 DEF EvaluateFlags, Directive
  <2> QED
    BY <2>1, <2>2
<1>4. CASE EvaluateWidth
  <2>1. CASE is_digit(ch)
    <3>1. pos <= Len(call.format) /\ ch = call.format[pos]
      BY <2>1, Inside, DigitIsText DEF ch
    <3>2. PICK n : n = atoi(pos).next
      OBVIOUS
    <3>3. /\ n \in pos .. Len(call.format) + 1
          /\ \A k \in pos .. n - 1 : is_digit(call.format[k])
      BY <3>1, <3>2, AtoiPlace
    <3>6. pc = "width" /\ call' = call /\ pos' = n /\ InDirective
      <4>1. pc = "width" /\ call' = call
        BY <1>4 DEF EvaluateWidth
      <4>2. pos' = atoi(pos).next
        BY <1>4, <2>1, WidthDigits
      <4> QED
        BY <3>2, <4>1, <4>2 DEF Directive
    <3>4. /\ InDirective /\ call' = call /\ pos' = n /\ n \in Nat
          /\ pos <= n /\ n <= Len(call.format) + 1
      BY <1>0, <3>3, <3>6
    <3>5. InDirective'
      BY <3>3, <3>4, Further DEF DirectiveChar
    <3> QED
      BY <1>4, <3>3, <3>4, <3>5 DEF EvaluateWidth, Directive
  <2>2. CASE ~is_digit(ch) /\ ch = "*"
    <3>1. pos <= Len(call.format) /\ ch = call.format[pos]
      BY <2>2, Inside DEF ch, NUL
    <3>2. \A k \in pos .. pos + 1 - 1 : DirectiveChar(call.format[k])
      BY <2>2, <3>1 DEF DirectiveChar
    <3>3. /\ InDirective /\ call' = call /\ pos' = pos + 1 /\ pos + 1 \in Nat
          /\ pos <= pos + 1 /\ pos + 1 <= Len(call.format) + 1
      BY <1>0, <1>4, <2>2, <3>1 DEF EvaluateWidth, Directive
    <3>4. InDirective'
      BY <3>2, <3>3, Further
    <3> QED
      BY <1>0, <1>4, <3>3, <3>4 DEF EvaluateWidth, Directive
  <2>3. CASE ~is_digit(ch) /\ ch # "*"
    <3>1. pos' = pos /\ call' = call /\ pc = "width" /\ pc' = "precision"
      BY <1>4, <2>3 DEF EvaluateWidth
    <3>2. InDirective'
      BY <3>1 DEF Directive, InDirective, DirectiveChar, is_digit
    <3> QED
      BY <3>1, <3>2 DEF Directive
  <2> QED
    BY <2>1, <2>2, <2>3
<1>5. CASE EvaluatePrecision
  <2>1. CASE ch # "."
    <3>1. pos' = pos /\ call' = call /\ pc = "precision" /\ pc' = "length"
      BY <1>5, <2>1 DEF EvaluatePrecision
    <3>2. InDirective'
      BY <3>1 DEF Directive, InDirective, DirectiveChar, is_digit
    <3> QED
      BY <3>1, <3>2 DEF Directive
  <2>2. ASSUME ch = "." PROVE pos <= Len(call.format) /\ call.format[pos] = "."
    BY <2>2, Inside DEF ch, NUL
  <2>3. CASE ch = "." /\ CharAt(pos + 1) = "*"
    <3>0. pos + 1 \in Nat \ {0}
      OBVIOUS
    <3>1. pos + 1 <= Len(call.format) /\ call.format[pos + 1] = "*"
      BY <2>3, <3>0, Inside DEF NUL
    <3>2. \A k \in pos .. pos + 2 - 1 : k = pos \/ k = pos + 1
      OBVIOUS
    <3>3. \A k \in pos .. pos + 2 - 1 : DirectiveChar(call.format[k])
      BY <2>2, <2>3, <3>1, <3>2 DEF DirectiveChar
    <3>4. /\ InDirective /\ call' = call /\ pos' = pos + 2 /\ pos + 2 \in Nat
          /\ pos <= pos + 2 /\ pos + 2 <= Len(call.format) + 1
      BY <1>0, <1>5, <2>3, <3>1 DEF EvaluatePrecision, Directive
    <3>5. InDirective'
      BY <3>3, <3>4, Further
    <3> QED
      BY <1>0, <1>5, <3>4, <3>5 DEF EvaluatePrecision, Directive
  <2>4. CASE ch = "." /\ CharAt(pos + 1) # "*"
    <3>1. PICK n : n = atoi(pos + 1).next
      OBVIOUS
    <3>2. pos + 1 \in Nat \ {0} /\ pos + 1 <= Len(call.format) + 1
      BY <1>0, <2>2, <2>4
    <3>3. /\ n \in pos + 1 .. Len(call.format) + 1
          /\ \A k \in pos + 1 .. n - 1 : is_digit(call.format[k])
      BY <3>1, <3>2, AtoiPlace
    <3>4. /\ InDirective /\ call' = call /\ pos' = n /\ n \in Nat
          /\ pos <= n /\ n <= Len(call.format) + 1
      BY <1>0, <1>5, <2>4, <3>1, <3>3 DEF EvaluatePrecision, Directive
    <3>5. \A k \in pos .. n - 1 : k = pos \/ k \in pos + 1 .. n - 1
      BY <3>4
    <3>6. \A k \in pos .. n - 1 : DirectiveChar(call.format[k])
      BY <2>2, <2>4, <3>3, <3>5 DEF DirectiveChar
    <3>7. InDirective'
      BY <3>4, <3>6, Further
    <3> QED
      BY <1>5, <3>3, <3>4, <3>7 DEF EvaluatePrecision, Directive
  <2> QED
    BY <2>1, <2>3, <2>4
<1>6. CASE EvaluateLength
  <2>1. PICK n : n = pos + LengthField(pos)
    OBVIOUS
  <2>2. /\ n \in Nat /\ pos <= n /\ n <= Len(call.format) + 1
        /\ \A k \in pos .. n - 1 : DirectiveChar(call.format[k])
    <3>1. CASE LengthField(pos) = 0
      BY <1>6, <2>1, <3>1 DEF EvaluateLength
    <3>2. CASE LengthField(pos) = 1
      <4>1. CharAt(pos) \in {"l", "h", "t", "j", "z"}
        BY <3>2 DEF LengthField
      <4>2. pos <= Len(call.format) /\ CharAt(pos) = call.format[pos]
        BY <4>1, Inside DEF NUL
      <4>3. \A k \in pos .. n - 1 : k = pos
        BY <2>1, <3>2
      <4> QED
        BY <1>0, <2>1, <3>2, <4>1, <4>2, <4>3 DEF DirectiveChar
    <3>3. CASE LengthField(pos) = 2
      <4>1. CharAt(pos) \in {"l", "h"} /\ CharAt(pos + 1) = CharAt(pos)
        BY <3>3 DEF LengthField
      <4>2. pos <= Len(call.format) /\ CharAt(pos) = call.format[pos]
        BY <4>1, Inside DEF NUL
      <4>0. pos + 1 \in Nat \ {0}
        OBVIOUS
      <4>3. pos + 1 <= Len(call.format) /\ CharAt(pos + 1) = call.format[pos + 1]
        BY <4>0, <4>1, Inside DEF NUL
      <4>4. \A k \in pos .. n - 1 : k = pos \/ k = pos + 1
        BY <2>1, <3>3
      <4> QED
        BY <1>0, <2>1, <3>3, <4>1, <4>2, <4>3, <4>4 DEF DirectiveChar
    <3> QED
      BY <3>1, <3>2, <3>3 DEF LengthField
  <2>3. InDirective /\ call' = call /\ pos' = n /\ pc' = "specifier"
    BY <1>6, <2>1 DEF EvaluateLength, Directive
  <2>4. InDirective'
    BY <2>2, <2>3, Further
  <2> QED
    BY <2>2, <2>3, <2>4 DEF Directive
<1>7. CASE ConvertArgument
  <2>1. ch # NUL
    BY <1>7 DEF ConvertArgument, IntegerSpecs, FixedSpecs, ExpSpecs, NUL
  <2>2. pos <= Len(call.format)
    BY <2>1, Inside DEF ch
  <2>3. call' = call /\ pos' = pos + 1 /\ pc' = "text"
    BY <1>7 DEF ConvertArgument
  <2> QED
    BY <1>0, <2>2, <2>3 DEF Directive
<1>8. CASE ConvertOther
  <2>1. call' = call /\ pos' = pos + 1 /\ pc = "specifier"
    BY <1>8 DEF ConvertOther
  <2>2. CASE ch # NUL
    <3>1. pos <= Len(call.format) /\ pc' = "text"
      BY <1>8, <2>2, Inside DEF ch, ConvertOther
    <3> QED
      BY <1>0, <2>1, <3>1 DEF Directive
  <2>3. CASE ch = NUL
    <3>1. pos > Len(call.format) /\ pc' = "astray"
      BY <1>8, <2>3, Behind DEF ch, ConvertOther
    <3>2. PICK i \in 1 .. pos - 1 :
            /\ i <= Len(call.format) /\ call.format[i] = "%"
            /\ \A j \in i + 1 .. pos - 1 : DirectiveChar(call.format[j])
      BY <2>1 DEF InDirective, Directive
    <3>3. i \in DOMAIN call.format /\ \A j \in i + 1 .. Len(call.format) : j \in i + 1 .. pos - 1
      BY <1>0, <3>1, <3>2 DEF Format
    <3>4. Unfinished(call.format)
      BY <3>2, <3>3 DEF Unfinished
    <3>5. Unfinished(call.format)'
      BY <2>1, <3>4 DEF Unfinished, DirectiveChar, is_digit
    <3> QED
      BY <2>1, <3>1, <3>5 DEF Directive
  <2> QED
    BY <2>2, <2>3
<1>9. CASE Terminate
  BY <1>9 DEF Terminate, Directive
<1>10. CASE UNCHANGED vars
  BY <1>10 DEF vars, InDirective, Unfinished, DirectiveChar, is_digit
<1> QED
  BY <1>1, <1>2, <1>3, <1>4, <1>5, <1>6, <1>7, <1>8, <1>9, <1>10 DEF Next

(* A call starts at the beginning of a format. *)
LEMMA ParseInit == Init => ParseInv
BY CallAssumption DEF Init, ParseInv, Format, Directive

(* The inductive invariant of the walk over the format. *)
THEOREM Parses == Spec => []ParseInv
BY ParseInit, ParseNext, PTL DEF Spec

(* Only a directive that lacks its specifier leads the parser behind the   *)
(* terminator of the format, for every format there is.                    *)
THEOREM InsideFormatHolds == Spec => []InsideFormat
<1>1. ParseInv => InsideFormat
  BY DEF ParseInv, InsideFormat, Format
<1> QED
  BY <1>1, Parses, PTL

-----------------------------------------------------------------------------
(* Texts *)

(* The characters printf.c writes are strings, which the provers do not    *)
(* know of a literal.                                                      *)
DigitChars == {"0", "1", "2", "3", "4", "5", "6", "7", "8", "9", "a", "b", "c", "d",
               "e", "f", "A", "B", "C", "D", "E", "F"}
Char == STRING \union {NUL, " ", "-", "+", "x", "X", ".", "n", "i"} \union DigitChars
Text == Seq(Char)

(* The characters that the conversions write. *)
LEMMA CharIs ==
  /\ \A c \in STRING : c \in Char
  /\ \A c \in DigitChars : c \in Char
  /\ \A c \in {NUL, " ", "-", "+", "x", "X", ".", "n", "i"} : c \in Char
  /\ \A c \in {"0", "b", "e", "E", "a", "f"} : c \in Char
<1>1. \A c \in DigitChars : c \in Char
  BY DEF Char
<1>2. \A c \in {"0", "b", "e", "E", "a", "f"} : c \in DigitChars
  BY DEF DigitChars
<1> QED
  BY <1>1, <1>2 DEF Char

(* A set of naturals with zero and every successor has all of them. *)
LEMMA Upwards ==
  ASSUME NEW T, 0 \in T, \A n \in Nat : n \in T => n + 1 \in T
  PROVE  Nat \subseteq T
<1> SUFFICES ASSUME NEW k \in Nat, k \notin T PROVE FALSE
  OBVIOUS
<1> DEFINE D == {n \in Nat : n \notin T}
<1>1. D \subseteq Nat /\ D # {}
  OBVIOUS
<1>2. PICK n \in D : \A q \in D : n <= q
  BY <1>1, LeastElement
<1>3. n # 0 /\ n \in Nat /\ n \notin T
  BY <1>2
<1>4. n - 1 \in Nat /\ ~(n <= n - 1) /\ n - 1 + 1 = n
  BY <1>3
<1>5. n - 1 \in T
  BY <1>2, <1>4
<1> QED
  BY <1>3, <1>4, <1>5

(* The larger of two numbers. *)
LEMMA MaxOfTwo ==
  ASSUME NEW a \in Int, NEW b \in Int
  PROVE  Max({a, b}) = IF a >= b THEN a ELSE b
BY DEF Max

(* The smaller of two numbers. *)
LEMMA MinOfTwo ==
  ASSUME NEW a \in Int, NEW b \in Int
  PROVE  Min({a, b}) = IF a <= b THEN a ELSE b
BY DEF Min

(* A row of one character. *)
LEMMA Repeats ==
  ASSUME NEW c \in Char, NEW n \in Int
  PROVE  /\ Repeat(c, n) \in Text
         /\ Len(Repeat(c, n)) = IF n > 0 THEN n ELSE 0
         /\ \A i \in 1 .. n : Repeat(c, n)[i] = c
         /\ n <= 0 => Repeat(c, n) = <<>>
<1>1. PICK m \in Nat : m = Max({n, 0}) /\ m = IF n > 0 THEN n ELSE 0
  BY MaxOfTwo
<1>2. Repeat(c, n) = [i \in 1 .. m |-> c]
  BY <1>1 DEF Repeat
<1>3. [i \in 1 .. m |-> c] \in Seq(Char) /\ Len([i \in 1 .. m |-> c]) = m
  OBVIOUS
<1>4. \A i \in 1 .. n : i \in 1 .. m
  BY <1>1
<1>5. n <= 0 => m = 0
  BY <1>1
<1>6. Repeat(c, n) \in Text /\ Len(Repeat(c, n)) = m
  BY <1>2, <1>3 DEF Text
<1>7. n <= 0 => Repeat(c, n) = <<>>
  BY <1>5, <1>6, EmptySeq DEF Text
<1> QED
  BY <1>1, <1>2, <1>4, <1>6, <1>7

(* Two texts one behind the other. *)
LEMMA Joined ==
  ASSUME NEW s \in Text, NEW t \in Text
  PROVE  /\ s \o t \in Text /\ Len(s \o t) = Len(s) + Len(t)
         /\ Len(s) \in Nat /\ Len(t) \in Nat
         /\ \A i \in 1 .. Len(s) : (s \o t)[i] = s[i]
         /\ \A i \in 1 .. Len(t) : (s \o t)[Len(s) + i] = t[i]
BY DEF Text

(* A text of one character. *)
LEMMA Single ==
  ASSUME NEW c \in Char
  PROVE  <<c>> \in Text /\ Len(<<c>>) = 1
BY DEF Text

(* The end of a text, which is what a full buffer keeps. *)
LEMMA LastNText ==
  ASSUME NEW s \in Text, NEW n \in Nat
  PROVE  /\ LastN(s, n) \in Text
         /\ Len(LastN(s, n)) = IF Len(s) <= n THEN Len(s) ELSE n
<1>1. Len(s) \in Nat
  BY DEF Text
<1>2. CASE Len(s) > n
  <2>1. \A i \in Len(s) - n + 1 .. Len(s) : s[i] \in Char
    BY <1>1, <1>2 DEF Text
  <2>2. Len(s) - n + 1 \in Int /\ Len(s) \in Int
    BY <1>1
  <2>3. /\ SubSeq(s, Len(s) - n + 1, Len(s)) \in Seq(Char)
        /\ Len(SubSeq(s, Len(s) - n + 1, Len(s)))
             = IF Len(s) - n + 1 <= Len(s) THEN Len(s) - (Len(s) - n + 1) + 1 ELSE 0
    BY <2>1, <2>2, SubSeqProperties
  <2>4. LastN(s, n) = SubSeq(s, Len(s) - n + 1, Len(s))
    BY <1>1, <1>2 DEF LastN
  <2>5. (IF Len(s) - n + 1 <= Len(s) THEN Len(s) - (Len(s) - n + 1) + 1 ELSE 0) = n
    BY <1>1, <1>2
  <2> QED
    BY <1>1, <1>2, <2>3, <2>4, <2>5 DEF Text
<1>3. CASE Len(s) <= n
  BY <1>3 DEF LastN
<1> QED
  BY <1>1, <1>2, <1>3

(* One more character in front, if there is room. *)
LEMMA PutText ==
  ASSUME NEW c \in Char, NEW s \in Text, NEW n \in Nat
  PROVE  /\ Put(c, s, n) \in Text
         /\ Len(Put(c, s, n)) = IF Len(s) < n THEN Len(s) + 1 ELSE Len(s)
BY Single, Joined DEF Put

(* Zeros in front up to the width or the end of the buffer. *)
LEMMA ZeroFillText ==
  ASSUME NEW s \in Text, NEW n \in Int, NEW size \in Nat, Len(s) <= size
  PROVE  /\ ZeroFill(s, n, size) \in Text
         /\ Len(ZeroFill(s, n, size)) =
              IF n <= Len(s) THEN Len(s) ELSE IF n <= size THEN n ELSE size
<1>1. PICK m \in Int : m = Min({n, size}) /\ m = IF n <= size THEN n ELSE size
  BY MinOfTwo
<1>2. Len(s) \in Nat /\ m - Len(s) \in Int
  BY DEF Text
<1>3. PICK z : z = Repeat("0", m - Len(s))
  OBVIOUS
<1>4. z \in Text /\ Len(z) = IF m - Len(s) > 0 THEN m - Len(s) ELSE 0
  BY <1>2, <1>3, Repeats, CharIs
<1>5. ZeroFill(s, n, size) = z \o s
  BY <1>1, <1>3 DEF ZeroFill
<1>6. z \o s \in Text /\ Len(z \o s) = Len(z) + Len(s)
  BY <1>4, Joined
<1> QED
  BY <1>1, <1>2, <1>4, <1>5, <1>6

(* What _out_rev hands out is the text, or as wide as the field. *)
LEMMA OutRevText ==
  ASSUME NEW s \in Text, NEW w \in Int, NEW fl
  PROVE  /\ out_rev(s, w, fl) \in Text
         /\ Len(out_rev(s, w, fl)) =
              IF w <= Len(s) \/ ("ZEROPAD" \in fl /\ "LEFT" \notin fl) THEN Len(s) ELSE w
<1>1. Len(s) \in Nat /\ w - Len(s) \in Int
  BY DEF Text
<1>2. PICK p : p = Repeat(" ", w - Len(s))
  OBVIOUS
<1>3. p \in Text /\ Len(p) = IF w - Len(s) > 0 THEN w - Len(s) ELSE 0
  BY <1>1, <1>2, Repeats, CharIs
<1>4. /\ s \o p \in Text /\ Len(s \o p) = Len(s) + Len(p)
      /\ p \o s \in Text /\ Len(p \o s) = Len(p) + Len(s)
  BY <1>3, Joined
<1>5. out_rev(s, w, fl) = IF "LEFT" \in fl THEN s \o p
                          ELSE IF "ZEROPAD" \in fl THEN s ELSE p \o s
  BY <1>2 DEF out_rev
<1> QED
  BY <1>1, <1>3, <1>4, <1>5

Signs(negative, fl) == negative \/ fl \intersect {"PLUS", "SPACE"} # {}

(* The sign takes one column, if there is room. *)
LEMMA SignText ==
  ASSUME NEW s \in Text, NEW negative \in BOOLEAN, NEW fl, NEW n \in Nat
  PROVE  /\ Sign(s, negative, fl, n) \in Text
         /\ Len(Sign(s, negative, fl, n)) =
              IF Signs(negative, fl) /\ Len(s) < n THEN Len(s) + 1 ELSE Len(s)
<1>1. \A c \in {"-", "+", " "} :
        /\ Put(c, s, n) \in Text
        /\ Len(Put(c, s, n)) = IF Len(s) < n THEN Len(s) + 1 ELSE Len(s)
  BY PutText, CharIs
<1> QED
  BY <1>1 DEF Sign, Signs

(* The width that is left for the zeros is a number. *)
LEMMA SignWidthInt ==
  ASSUME NEW w \in Nat, NEW negative \in BOOLEAN, NEW fl
  PROVE  /\ SignWidth(w, negative, fl) \in Nat
         /\ SignWidth(w, negative, fl) =
              IF w > 0 /\ "ZEROPAD" \in fl /\ "LEFT" \notin fl /\ Signs(negative, fl)
              THEN w - 1 ELSE w
BY DEF SignWidth, Signs

-----------------------------------------------------------------------------
(* Integers *)

(* A digit is a character. *)
LEMMA DigitCharIs ==
  ASSUME NEW d \in 0 .. 15, NEW fl
  PROVE  DigitChar(d, fl) \in Char
<1>1. <<"0", "1", "2", "3", "4", "5", "6", "7", "8", "9">> \in Seq(DigitChars)
  BY DEF DigitChars
<1>2. /\ <<"A", "B", "C", "D", "E", "F">> \in Seq(DigitChars)
      /\ <<"a", "b", "c", "d", "e", "f">> \in Seq(DigitChars)
  BY DEF DigitChars
<1>3. d < 10 => d + 1 \in 1 .. 10
  OBVIOUS
<1>4. d >= 10 => d - 9 \in 1 .. 6
  OBVIOUS
<1>5. DigitChar(d, fl) \in DigitChars
  BY <1>1, <1>2, <1>3, <1>4 DEF DigitChar
<1> QED
  BY <1>5, CharIs

Bases == {2, 8, 10, 16}
Digits(g, top, base, fl) ==
  g = [v \in 0 .. top |->
        IF v < base THEN <<DigitChar(v, fl)>>
        ELSE g[v \div base] \o <<DigitChar(v % base, fl)>>]

(* A quotient is smaller than what is divided. *)
LEMMA Divides ==
  ASSUME NEW v \in Nat, NEW base \in Bases, v >= base
  PROVE  v \div base \in Nat /\ v \div base < v /\ v % base \in 0 .. 15
<1>1. CASE base = 2
  BY <1>1
<1>2. CASE base = 8
  BY <1>2
<1>3. CASE base = 10
  BY <1>3
<1>4. CASE base = 16
  BY <1>4
<1> QED
  BY <1>1, <1>2, <1>3, <1>4 DEF Bases

(* DigitsOf takes one digit after the other. *)
LEMMA DigitsUnfold ==
  ASSUME NEW value \in Nat, NEW base \in Bases, NEW fl
  PROVE  \E g : Digits(g, value, base, fl) /\ DigitsOf(value, base, fl) = g[value]
<1> DEFINE T == {n \in Nat : \E g : Digits(g, n, base, fl)}
<1>1. 0 \in T
  <2> DEFINE g == [v \in 0 .. 0 |-> <<DigitChar(v, fl)>>]
  <2>1. \A v \in 0 .. 0 : v < base
    BY DEF Bases
  <2>2. g = [v \in 0 .. 0 |-> IF v < base THEN <<DigitChar(v, fl)>>
                              ELSE g[v \div base] \o <<DigitChar(v % base, fl)>>]
    BY <2>1
  <2>3. Digits(g, 0, base, fl)
    BY <2>2 DEF Digits
  <2> QED
    BY <2>3
<1>2. ASSUME NEW n \in Nat, n \in T PROVE n + 1 \in T
  <2>1. PICK g : Digits(g, n, base, fl)
    BY <1>2
  <2> DEFINE last == IF n + 1 < base THEN <<DigitChar(n + 1, fl)>>
                     ELSE g[(n + 1) \div base] \o <<DigitChar((n + 1) % base, fl)>>
             h == [v \in 0 .. n + 1 |-> IF v = n + 1 THEN last ELSE g[v]]
  <2>2. \A v \in 0 .. n : g[v] = IF v < base THEN <<DigitChar(v, fl)>>
                              ELSE g[v \div base] \o <<DigitChar(v % base, fl)>>
    BY <2>1 DEF Digits
  <2>3. ASSUME NEW v \in 0 .. n + 1
        PROVE  h[v] = IF v < base THEN <<DigitChar(v, fl)>>
                      ELSE h[v \div base] \o <<DigitChar(v % base, fl)>>
    <3>1. v >= base => v \div base \in 0 .. n /\ v \div base # n + 1 /\ v \div base \in 0 .. n + 1
      BY Divides
    <3>2. v >= base => h[v \div base] = g[v \div base]
      BY <3>1
    <3>3. v = n + 1 \/ (v \in 0 .. n /\ v # n + 1)
      OBVIOUS
    <3>4. base \in Nat
      BY DEF Bases
    <3>5. CASE v = n + 1
      <4>1. h[v] = last
        BY <3>5
      <4>2. CASE v < base
        BY <3>5, <4>1, <4>2
      <4>3. CASE ~(v < base)
        <5>1. h[v] = g[v \div base] \o <<DigitChar(v % base, fl)>>
          BY <3>5, <4>1, <4>3
        <5>2. h[v \div base] = g[v \div base]
          BY <3>2, <3>4, <4>3
        <5> HIDE DEF h, last
        <5> QED
          BY <4>3, <5>1, <5>2
      <4> QED
        BY <4>2, <4>3
    <3>6. CASE v \in 0 .. n /\ v # n + 1
      <4>1. h[v] = g[v]
        BY <3>6
      <4> QED
        BY <2>2, <3>2, <3>4, <3>6, <4>1
    <3> QED
      BY <3>3, <3>5, <3>6
  <2>4. h = [v \in 0 .. n + 1 |-> h[v]]
    OBVIOUS
  <2> HIDE DEF h
  <2>5. Digits(h, n + 1, base, fl)
    BY <2>3, <2>4 DEF Digits
  <2> QED
    BY <2>5
<1>3. value \in T
  <2> HIDE DEF T
  <2> QED
    BY <1>1, <1>2, Upwards
<1>4. \E g : g = [v \in 0 .. value |->
        IF v < base THEN <<DigitChar(v, fl)>>
        ELSE g[v \div base] \o <<DigitChar(v % base, fl)>>]
  BY <1>3 DEF Digits
<1> QED
  BY <1>4 DEF DigitsOf, Digits

(* The digits are a text that is not empty; small numbers have few. *)
LEMMA DigitsText ==
  ASSUME NEW value \in Nat, NEW base \in Bases, NEW fl
  PROVE  /\ DigitsOf(value, base, fl) \in Text /\ Len(DigitsOf(value, base, fl)) > 0
         /\ value < base => DigitsOf(value, base, fl) = <<DigitChar(value, fl)>>
<1>1. PICK g : Digits(g, value, base, fl) /\ DigitsOf(value, base, fl) = g[value]
  BY DigitsUnfold
<1>2. \A v \in 0 .. value : g[v] = IF v < base THEN <<DigitChar(v, fl)>>
                                 ELSE g[v \div base] \o <<DigitChar(v % base, fl)>>
  BY <1>1 DEF Digits
<1> DEFINE D == {n \in 0 .. value : ~(g[n] \in Text /\ Len(g[n]) > 0)}
<1>3. D = {}
  <2> SUFFICES ASSUME D # {} PROVE FALSE
    OBVIOUS
  <2>1. D \subseteq Nat
    OBVIOUS
  <2>2. PICK n \in D : \A q \in D : n <= q
    BY <2>1, LeastElement
  <2>3. n \in 0 .. value /\ n \in Nat /\ ~(g[n] \in Text /\ Len(g[n]) > 0)
    BY <2>2
  <2>4. CASE n < base
    <3>1. n \in 0 .. 15
      BY <2>3, <2>4 DEF Bases
    <3>2. g[n] = <<DigitChar(n, fl)>>
      BY <1>2, <2>3, <2>4
    <3>3. g[n] \in Text /\ Len(g[n]) = 1
      BY <3>1, <3>2, DigitCharIs, Single
    <3>4. Len(g[n]) > 0
      BY <3>3
    <3> QED
      BY <2>3, <3>3, <3>4
  <2>5. CASE n >= base
    <3>1. PICK m \in Nat : m = n \div base /\ m < n
      BY <2>3, <2>5, Divides
    <3>2. PICK d \in 0 .. 15 : d = n % base
      BY <2>3, <2>5, Divides
    <3>3. m \in 0 .. value /\ ~(n <= m)
      BY <2>3, <3>1
    <3>4. g[m] \in Text /\ Len(g[m]) > 0
      BY <2>2, <3>3
    <3>5. g[n] = g[m] \o <<DigitChar(d, fl)>>
      <4>1. ~(n < base)
        BY <2>3, <2>5 DEF Bases
      <4> QED
        BY <1>2, <2>3, <3>1, <3>2, <4>1
    <3>6. <<DigitChar(d, fl)>> \in Text /\ Len(<<DigitChar(d, fl)>>) = 1
      BY DigitCharIs, Single
    <3>7. g[n] \in Text /\ Len(g[n]) = Len(g[m]) + 1 /\ Len(g[m]) \in Nat
      BY <3>4, <3>5, <3>6, Joined
    <3> QED
      BY <2>3, <3>4, <3>7
  <2> QED
    BY <2>3, <2>4, <2>5 DEF Bases
<1>4. value \in 0 .. value
  OBVIOUS
<1> QED
  BY <1>1, <1>2, <1>3, <1>4

(* The sizes are numbers. *)
LEMMA Sizes == NtoaBuffer \in Nat /\ FtoaBuffer \in Nat /\ DefaultPrecision \in Nat
               /\ MaxPower \in Nat /\ Mantissa \in Nat /\ MaxFloat \in Nat
               /\ NtoaBuffer > 0 /\ FtoaBuffer > 0
BY SizesAssumption

(* The empty text. *)
LEMMA EmptyText == <<>> \in Text /\ Len(<<>>) = 0
BY EmptySeq DEF Text

(* The hash flag makes a text of a text. *)
LEMMA PrefixText ==
  ASSUME NEW s \in Text, NEW base, NEW prec, NEW w, NEW fl
  PROVE  Prefix(s, base, prec, w, fl) \in Text
<1>1. PrefixRoom(s, base, prec, w, fl) \in Text
  <2>1. ASSUME NEW k \in {2, 3} PROVE SubSeq(s, k, Len(s)) \in Text
    <3>1. Len(s) \in Int /\ k \in Int /\ \A i \in k .. Len(s) : s[i] \in Char
      BY DEF Text
    <3> QED
      BY <3>1, SubSeqProperties DEF Text
  <2> QED
    BY <2>1 DEF PrefixRoom
<1>2. ASSUME NEW t \in Text PROVE PutLetter(t, base, fl) \in Text
  <2>1. \A c \in {"X", "x", "b"} : Put(c, t, NtoaBuffer) \in Text
    BY Sizes, PutText, CharIs
  <2> QED
    BY <2>1 DEF PutLetter
<1>3. \A t \in Text : Put("0", t, NtoaBuffer) \in Text
  BY Sizes, PutText, CharIs
<1> QED
  BY <1>1, <1>2, <1>3 DEF Prefix

(* _ntoa_format prints a text. *)
LEMMA NtoaFormatText ==
  ASSUME NEW d \in Text, Len(d) <= NtoaBuffer, NEW negative \in BOOLEAN, NEW base,
         NEW prec \in Nat, NEW w \in Nat, NEW fl
  PROVE  ntoa_format(d, negative, base, prec, w, fl) \in Text
<1> DEFINE sw == SignWidth(w, negative, fl)
           target == Max({prec, IF "ZEROPAD" \in fl THEN sw ELSE 0})
           filled == IF "LEFT" \in fl THEN d ELSE ZeroFill(d, target, NtoaBuffer)
           whole == Prefix(filled, base, prec, sw, fl)
<1>1. sw \in Nat
  BY SignWidthInt
<1>2. target \in Int
  <2> HIDE DEF sw
  <2> QED
    BY <1>1, MaxOfTwo
<1> HIDE DEF sw, target
<1>3. filled \in Text
  BY <1>2, Sizes, ZeroFillText
<1> HIDE DEF filled
<1>4. whole \in Text
  BY <1>3, PrefixText
<1> HIDE DEF whole
<1>5. Sign(whole, negative, fl, NtoaBuffer) \in Text
  BY <1>4, Sizes, SignText
<1>6. out_rev(Sign(whole, negative, fl, NtoaBuffer), sw, fl) \in Text
  BY <1>1, <1>5, OutRevText
<1> QED
  BY <1>6 DEF ntoa_format, sw, target, filled, whole

(* _ntoa_long prints a text. *)
LEMMA NtoaText ==
  ASSUME NEW value \in Nat, NEW negative \in BOOLEAN, NEW base \in Bases,
         NEW prec \in Nat, NEW w \in Nat, NEW fl
  PROVE  ntoa_long(value, negative, base, prec, w, fl) \in Text
<1> DEFINE d == IF "PRECISION" \in fl /\ value = 0 THEN <<>>
                ELSE LastN(DigitsOf(value, base, fl), NtoaBuffer)
           fl2 == IF value = 0 THEN fl \ {"HASH"} ELSE fl
<1>1. d \in Text /\ Len(d) <= NtoaBuffer
  <2>1. DigitsOf(value, base, fl) \in Text
    BY DigitsText
  <2>2. /\ LastN(DigitsOf(value, base, fl), NtoaBuffer) \in Text
        /\ Len(LastN(DigitsOf(value, base, fl), NtoaBuffer)) <= NtoaBuffer
    BY <2>1, Sizes, LastNText DEF Text
  <2> QED
    BY <2>2, EmptyText, Sizes
<1>2. ntoa_long(value, negative, base, prec, w, fl) =
        ntoa_format(d, negative, base, prec, w, fl2)
  BY DEF ntoa_long
<1> HIDE DEF d, fl2
<1> QED
  BY <1>1, <1>2, NtoaFormatText

-----------------------------------------------------------------------------
(* Doubles *)

(* Every double there is: its exponent is at most MaxExp2. *)
Double ==
  {x \in [kind : {"nan", "inf", "finite"}, neg : BOOLEAN, num : Nat, den : Nat \ {0}] :
     x.num < 2 * 2^MaxExp2 * x.den}

(* A quotient rounded to Mantissa bits is a quotient. *)
LEMMA RoundedIs ==
  ASSUME NEW n \in Nat, NEW d \in Nat \ {0}
  PROVE  /\ Rounded(n, d)[1] \in Nat /\ Rounded(n, d)[2] \in Nat \ {0}
<1>1. PICK k \in 0 .. 2 * Mantissa : k = ScaleOf(n, d)
  <2> DEFINE P(k) == n * 2^k >= 2^(Mantissa - 1) * d \/ k = 2 * Mantissa
             S == {k \in 0 .. 2 * Mantissa : P(k)}
  <2>1. 2 * Mantissa \in S /\ S \subseteq Nat
    BY Sizes
  <2>2. PICK k \in S : \A i \in S : k <= i
    BY <2>1, LeastElement
  <2>3. k \in 0 .. 2 * Mantissa /\ P(k)
    BY <2>2
  <2>4. ASSUME NEW i \in 0 .. k - 1 PROVE n * 2^i < 2^(Mantissa - 1) * d
    <3>1. i \in 0 .. 2 * Mantissa /\ ~(k <= i)
      BY Sizes, <2>3
    <3>2. ~P(i)
      BY <2>2, <3>1
    <3>3. 2^i \in Nat /\ 2^(Mantissa - 1) \in Nat
      <4>1. Mantissa - 1 \in 0 .. 2 * Mantissa
        BY SizesAssumption
      <4> QED
        BY <3>1, <4>1, PowerAssumption
    <3>4. n * 2^i \in Int /\ 2^(Mantissa - 1) * d \in Int
      BY <3>3
    <3> QED
      BY <3>2, <3>4
  <2> QED
    BY <2>3, <2>4 DEF ScaleOf
<1>2. PICK s \in Nat \ {0} : s = 2^k
  BY <1>1, PowerAssumption
<1>3. PICK q \in Nat : q = (n * s) \div d
  BY <1>2
<1>4. Rounded(n, d) = <<NearestEven(q, (n * s) % d, d), s>>
  BY <1>1, <1>2, <1>3 DEF Rounded, RoundedAt
<1>5. NearestEven(q, (n * s) % d, d) \in Nat
  BY <1>3 DEF NearestEven
<1> QED
  BY <1>2, <1>4, <1>5

(* The bound on decimal exponents has at most three digits. *)
LEMMA MaxExponentIs ==
  /\ MaxExp2 \in 2 .. 1023 /\ MaxExponent \in 2 .. 309
  /\ 30103 * MaxExp2 < 100000 * (MaxExponent - 1)
BY SizesAssumption DEF MaxExponent

(* The two parts of _ftoa are numbers. *)
LEMMA FractionIs ==
  ASSUME NEW n \in Nat, NEW d \in Nat \ {0}, NEW p \in 0 .. MaxPower
  PROVE  /\ Fraction(n, d, p)[1] \in Nat /\ Fraction(n, d, p)[2] \in Nat
         /\ RoundWhole(n, d, Fraction(n, d, p)[1]) \in Nat
<1>1. PICK ten \in Nat \ {0} : ten = 10^p
  <2>1. p \in 0 .. Max({MaxPower, MaxExponent})
    BY Sizes, MaxOfTwo, MaxExponentIs
  <2> QED
    BY <2>1, PowerAssumption
<1>2. PICK r \in Nat : r = n % d
  OBVIOUS
<1>3. PICK whole \in Nat : whole = n \div d
  OBVIOUS
<1>4. PICK m \in Nat : m = r * ten
  OBVIOUS
<1>5. PICK tmp : tmp = Rounded(m, d)
  OBVIOUS
<1>6. tmp[1] \in Nat /\ tmp[2] \in Nat \ {0}
  BY <1>5, RoundedIs
<1>7. PICK frac \in Nat : frac = tmp[1] \div tmp[2]
  BY <1>6
<1>8. PICK diff : diff = 2 * (tmp[1] % tmp[2]) - tmp[2]
  OBVIOUS
<1>9. Fraction(n, d, p) = RoundFraction(whole, frac, diff, p)
  BY <1>1, <1>2, <1>3, <1>4, <1>5, <1>7, <1>8 DEF Fraction, FractionOf
<1>10. /\ RoundFraction(whole, frac, diff, p)[1] \in Nat
       /\ RoundFraction(whole, frac, diff, p)[2] \in Nat
  BY DEF RoundFraction
<1>11. \A v \in Nat : RoundWhole(n, d, v) \in Nat
  BY DEF RoundWhole
<1> QED
  BY <1>9, <1>10, <1>11

(* The digits left to convert are at most those asked for. *)
LEMMA PowerIndexIs ==
  ASSUME NEW prec \in Nat
  PROVE  PowerIndex(prec) \in 0 .. prec
<1>1. PICK a \in Nat : a = Max({prec - MaxPower, 0}) /\ a <= prec
  BY Sizes, MaxOfTwo
<1>2. PICK b \in Nat : b = Min({a, FtoaBuffer}) /\ b <= prec
  <2>1. a \in Int /\ FtoaBuffer \in Int
    BY Sizes
  <2>2. Min({a, FtoaBuffer}) = IF a <= FtoaBuffer THEN a ELSE FtoaBuffer
    BY <2>1, MinOfTwo
  <2> QED
    BY <1>1, <2>2, Sizes
<1> QED
  BY <1>1, <1>2 DEF PowerIndex

(* Decimal digits are a text. *)
LEMMA TenDigits == \A v \in Nat : DigitsOf(v, 10, {}) \in Text
BY DigitsText DEF Bases

(* The digits of a number without exponent fit the buffer. *)
LEMMA FixedText2 ==
  ASSUME NEW n \in Nat, NEW d \in Nat \ {0}, NEW prec \in Nat
  PROVE  FixedDigits(n, d, prec) \in Text /\ Len(FixedDigits(n, d, prec)) <= FtoaBuffer
<1>1. PICK p \in Nat : p = PowerIndex(prec) /\ prec - p \in Int
  BY PowerIndexIs
<1>2. FixedDigits(n, d, prec) = FixedDigitsAt(n, d, prec, p)
  BY <1>1 DEF FixedDigits
<1>3. CASE p > MaxPower
  <2>1. FtoaBuffer \in Int
    BY Sizes
  <2>2. Repeat("0", FtoaBuffer) \in Text /\ Len(Repeat("0", FtoaBuffer)) = FtoaBuffer
    BY <2>1, Sizes, Repeats, CharIs
  <2> QED
    BY <1>2, <1>3, <2>2, Sizes DEF FixedDigitsAt
<1>4. CASE ~(p > MaxPower)
  <2>1. p \in 0 .. MaxPower
    BY <1>4, Sizes
  <2>2. PICK parts : parts = Fraction(n, d, p)
    OBVIOUS
  <2>3. parts[1] \in Nat /\ parts[2] \in Nat /\ RoundWhole(n, d, parts[1]) \in Nat
    BY <2>1, <2>2, FractionIs
  <2>4. ASSUME NEW digits \in Text PROVE Decimal(digits, p) \in Text
    <3>1. (IF Len(digits) > p THEN FtoaBuffer ELSE p - Len(digits)) \in Int
      BY Sizes DEF Text
    <3>2. PICK z \in Text :
            z = Repeat("0", IF Len(digits) > p THEN FtoaBuffer ELSE p - Len(digits))
      BY <3>1, Repeats, CharIs
    <3>3. <<".">> \in Text
      BY Single, CharIs
    <3>4. (<<".">> \o z) \o digits \in Text
      BY <3>3, Joined
    <3> QED
      BY <3>2, <3>4 DEF Decimal
  <2>5. FixedText(n, d, p, parts) \in Text
    BY <2>3, <2>4, TenDigits, Joined DEF FixedText
  <2>6. Repeat("0", prec - p) \in Text
    BY <1>1, Repeats, CharIs
  <2>7. PICK all \in Text : all = FixedText(n, d, p, parts) \o Repeat("0", prec - p)
    BY <2>5, <2>6, Joined
  <2>8. LastN(all, FtoaBuffer) \in Text /\ Len(LastN(all, FtoaBuffer)) <= FtoaBuffer
    BY Sizes, LastNText DEF Text
  <2> QED
    BY <1>2, <1>4, <2>2, <2>7, <2>8 DEF FixedDigitsAt
<1> QED
  BY <1>3, <1>4

(* How long what _ftoa hands out is, from the text without a width. *)
LEMMA FtoaText ==
  ASSUME NEW x, x.neg \in BOOLEAN, x.num \in Nat, x.den \in Nat \ {0},
         NEW prec \in Nat, NEW w \in Nat, NEW fl
  PROVE  /\ ftoa_finite(x, prec, w, fl) \in Text
         /\ Len(ftoa_finite(x, prec, 0, fl)) \in Nat
         /\ \/ "ZEROPAD" \notin fl
            \/ w < FtoaBuffer
            => Len(ftoa_finite(x, prec, w, fl)) =
                 IF Len(ftoa_finite(x, prec, 0, fl)) > w
                 THEN Len(ftoa_finite(x, prec, 0, fl)) ELSE w
<1>1. PICK pr \in Nat : pr = IF "PRECISION" \in fl THEN prec ELSE DefaultPrecision
  BY Sizes
<1>2. PICK t : t = FixedDigits(x.num, x.den, pr)
  OBVIOUS
<1>3. t \in Text /\ Len(t) <= FtoaBuffer /\ Len(t) \in Nat
  <2>1. PICK n \in Nat, d \in Nat \ {0} : n = x.num /\ d = x.den
    OBVIOUS
  <2>2. t \in Text /\ Len(t) <= FtoaBuffer
    BY <1>2, <2>1, FixedText2
  <2> QED
    BY <2>2 DEF Text
<1> DEFINE zeros(v) == ftoa_zeros(t, SignWidth(v, x.neg, fl), fl)
           signed(v) == Sign(zeros(v), x.neg, fl, FtoaBuffer)
           sgn == Signs(x.neg, fl)
           filling == "ZEROPAD" \in fl /\ "LEFT" \notin fl
<1>4. ASSUME NEW v \in Nat
      PROVE  /\ SignWidth(v, x.neg, fl) \in Nat
             /\ SignWidth(v, x.neg, fl) = IF v > 0 /\ filling /\ sgn THEN v - 1 ELSE v
  BY SignWidthInt
<1>5. ASSUME NEW v \in Nat
      PROVE  /\ zeros(v) \in Text
             /\ Len(zeros(v)) = LET s == IF v > 0 /\ sgn THEN v - 1 ELSE v
                                IN  IF ~filling \/ s <= Len(t) THEN Len(t)
                                    ELSE IF s <= FtoaBuffer THEN s ELSE FtoaBuffer
  <2>1. CASE filling
    <3>1. zeros(v) = ZeroFill(t, SignWidth(v, x.neg, fl), FtoaBuffer)
      BY <2>1 DEF ftoa_zeros
    <3>2. SignWidth(v, x.neg, fl) \in Int
      BY <1>4
    <3>3. /\ zeros(v) \in Text
          /\ Len(zeros(v)) = IF SignWidth(v, x.neg, fl) <= Len(t) THEN Len(t)
                             ELSE IF SignWidth(v, x.neg, fl) <= FtoaBuffer
                                  THEN SignWidth(v, x.neg, fl) ELSE FtoaBuffer
      BY <1>3, <3>1, <3>2, Sizes, ZeroFillText
    <3> HIDE DEF zeros
    <3> QED
      BY <1>4, <2>1, <3>3
  <2>2. CASE ~filling
    BY <1>3, <2>2 DEF ftoa_zeros
  <2> QED
    BY <2>1, <2>2
<1>6. ASSUME NEW v \in Nat
      PROVE  /\ signed(v) \in Text
             /\ Len(signed(v)) = IF sgn /\ Len(zeros(v)) < FtoaBuffer
                                 THEN Len(zeros(v)) + 1 ELSE Len(zeros(v))
  <2> HIDE DEF zeros
  <2> QED
    BY <1>5, Sizes, SignText
<1>7. ASSUME NEW v \in Nat
      PROVE  /\ ftoa_finite(x, prec, v, fl) \in Text
             /\ Len(ftoa_finite(x, prec, v, fl)) =
                  IF v <= Len(signed(v)) \/ filling THEN Len(signed(v)) ELSE v
  <2>1. ftoa_finite(x, prec, v, fl) = out_rev(signed(v), SignWidth(v, x.neg, fl), fl)
    BY <1>1, <1>2 DEF ftoa_finite
  <2>2. PICK u \in Int : u = SignWidth(v, x.neg, fl)
    BY <1>4
  <2> HIDE DEF signed
  <2>3. /\ out_rev(signed(v), u, fl) \in Text
        /\ Len(out_rev(signed(v), u, fl)) =
              IF u <= Len(signed(v)) \/ filling THEN Len(signed(v)) ELSE u
    BY <1>6, OutRevText
  <2> QED
    BY <1>4, <2>1, <2>2, <2>3
<1>8. 0 \in Nat
  OBVIOUS
<1> HIDE DEF signed, zeros, sgn, filling
<1>9. /\ Len(zeros(0)) = Len(t)
      /\ Len(signed(0)) = IF sgn /\ Len(t) < FtoaBuffer THEN Len(t) + 1 ELSE Len(t)
      /\ Len(ftoa_finite(x, prec, 0, fl)) = Len(signed(0))
  <2>1. Len(zeros(0)) = Len(t)
    BY <1>3, <1>5, <1>8
  <2>2. Len(signed(0)) = IF sgn /\ Len(t) < FtoaBuffer THEN Len(t) + 1 ELSE Len(t)
    BY <1>6, <1>8, <2>1
  <2> QED
    BY <1>3, <1>7, <1>8, <2>1, <2>2
<1>10. "ZEROPAD" \notin fl => ~filling
  BY DEF filling
<1>11. /\ Len(zeros(w)) = LET s == IF w > 0 /\ sgn THEN w - 1 ELSE w
                          IN  IF ~filling \/ s <= Len(t) THEN Len(t)
                              ELSE IF s <= FtoaBuffer THEN s ELSE FtoaBuffer
       /\ Len(signed(w)) = IF sgn /\ Len(zeros(w)) < FtoaBuffer
                           THEN Len(zeros(w)) + 1 ELSE Len(zeros(w))
       /\ Len(ftoa_finite(x, prec, w, fl)) =
            IF w <= Len(signed(w)) \/ filling THEN Len(signed(w)) ELSE w
  BY <1>5, <1>6, <1>7
<1>12. Len(ftoa_finite(x, prec, 0, fl)) \in Nat
  BY <1>3, <1>9
<1>13. ASSUME ~filling \/ w < FtoaBuffer
       PROVE  Len(ftoa_finite(x, prec, w, fl)) =
                 IF Len(ftoa_finite(x, prec, 0, fl)) > w
                 THEN Len(ftoa_finite(x, prec, 0, fl)) ELSE w
  <2>1. CASE filling
    BY <1>3, <1>9, <1>11, <1>13, <2>1, Sizes
  <2>2. CASE ~filling
    BY <1>3, <1>9, <1>11, <2>2, Sizes
  <2> QED
    BY <2>1, <2>2
<1> QED
  BY <1>7, <1>10, <1>12, <1>13

(* The powers of ten that exponents need are numbers. *)
LEMMA PowersOfTen == \A n \in 0 .. MaxExponent : 10^n \in Nat \ {0}
<1>1. \A n \in 0 .. MaxExponent : n \in 0 .. Max({MaxPower, MaxExponent})
  BY Sizes, MaxOfTwo, MaxExponentIs
<1> QED
  BY <1>1, PowerAssumption

(* A power of ten is a quotient of numbers. *)
LEMMA FractionOfPower ==
  ASSUME NEW e \in -MaxExponent .. MaxExponent
  PROVE  Pow10Fraction(e)[1] \in Nat \ {0} /\ Pow10Fraction(e)[2] \in Nat \ {0}
<1>1. CASE e >= 0
  <2>1. e \in 0 .. MaxExponent
    BY <1>1, MaxExponentIs
  <2> QED
    BY <1>1, <2>1, PowersOfTen DEF Pow10Fraction
<1>2. CASE ~(e >= 0)
  <2>1. -e \in 0 .. MaxExponent
    BY <1>2, MaxExponentIs
  <2> QED
    BY <1>2, <2>1, PowersOfTen DEF Pow10Fraction
<1> QED
  BY <1>1, <1>2

(* The exponent field is the largest power of two not above the number. *)
LEMMA Exp2Is ==
  ASSUME NEW x
  PROVE  /\ exp2(x) \in -MaxExp2 .. MaxExp2
         /\ exp2(x) # -MaxExp2 => AtLeast(x, Pow2Fraction(exp2(x)))
         /\ \A k \in 1 - MaxExp2 .. MaxExp2 : k > exp2(x) => ~AtLeast(x, Pow2Fraction(k))
<1> DEFINE S == {-MaxExp2} \union
                  {k \in 1 - MaxExp2 .. MaxExp2 : AtLeast(x, Pow2Fraction(k))}
<1>0. MaxExp2 \in 2 .. 1023
  BY MaxExponentIs
<1>1. S \subseteq -MaxExp2 .. MaxExp2 /\ -MaxExp2 \in S
  BY <1>0
<1>2. S \subseteq Int /\ \A k \in S : k <= MaxExp2
  BY <1>0, <1>1
<1>3. exp2(x) = Max(S)
  BY DEF exp2
<1>4. /\ \A k \in S : k # -MaxExp2 => AtLeast(x, Pow2Fraction(k))
      /\ \A k \in 1 - MaxExp2 .. MaxExp2 : AtLeast(x, Pow2Fraction(k)) => k \in S
  OBVIOUS
<1> HIDE DEF S
<1>5. PICK b \in Int : b = MaxExp2
  BY <1>0
<1>6. Max(S) \in S /\ \A k \in S : k <= Max(S)
  BY <1>1, <1>2, <1>5, Greatest
<1>7. PICK g \in -MaxExp2 .. MaxExp2 : g = exp2(x) /\ g \in S /\ \A k \in S : k <= g
  BY <1>1, <1>3, <1>6
<1>8. ASSUME NEW k \in 1 - MaxExp2 .. MaxExp2, k > g PROVE ~AtLeast(x, Pow2Fraction(k))
  BY <1>0, <1>4, <1>7, <1>8
<1> QED
  BY <1>4, <1>7, <1>8

(* "conv.F is now in [1,2)" *)
LEMMA SignificandIs ==
  ASSUME NEW x \in Double, NEW b, b = exp2(x), NEW m, m = Significand(x, b)
  PROVE  m[2] \in Nat \ {0} /\ m[1] \in m[2] .. 2 * m[2]
<1>1. PICK num \in Nat, den \in Nat \ {0} : num = x.num /\ den = x.den
  BY DEF Double
<1>2. PICK B \in Nat : B = MaxExp2 /\ B >= 2
  BY MaxExponentIs
<1>3. b \in -B .. B
  BY <1>2, Exp2Is
<1>4. \A n \in 0 .. B : 2^n \in Nat \ {0} /\ 2^(n + 1) = 2 * 2^n
  BY <1>2, PowerAssumption
<1>5. CASE b = -B
  <2>1. 1 - B \in 1 - B .. B /\ 1 - B > b /\ B - 1 \in 0 .. B /\ ~(1 - B >= 0)
        /\ -(1 - B) = B - 1
    BY <1>2, <1>5
  <2>2. PICK q \in Nat \ {0} : q = 2^(B - 1)
    BY <1>4, <2>1
  <2>3. Pow2Fraction(1 - B) = <<1, q>>
    BY <2>1, <2>2 DEF Pow2Fraction
  <2>4. ~AtLeast(x, Pow2Fraction(1 - B))
    BY <1>2, <2>1, Exp2Is
  <2>5. PICK nq \in Nat : nq = num * q
    OBVIOUS
  <2>6. ~(1 * den <= nq)
    BY <1>1, <2>3, <2>4, <2>5 DEF AtLeast
  <2>7. m = <<den + nq, den>>
    BY <1>1, <1>2, <1>5, <2>2, <2>5 DEF Significand
  <2> QED
    BY <2>6, <2>7
<1>6. CASE b # -B /\ b >= 0
  <2>1. b \in 0 .. B /\ b + 1 >= 0
    BY <1>3, <1>6
  <2>2. PICK q \in Nat \ {0} : q = 2^b /\ 2^(b + 1) = 2 * q
    BY <1>4, <2>1
  <2>3. Pow2Fraction(b) = <<q, 1>> /\ Pow2Fraction(b + 1) = <<2 * q, 1>>
    BY <1>6, <2>1, <2>2 DEF Pow2Fraction
  <2>4. PICK dq \in Nat \ {0} : dq = q * den /\ dq = den * q /\ 2 * dq = (2 * q) * den
    OBVIOUS
  <2>5. q * den <= num * 1
    <3>1. AtLeast(x, Pow2Fraction(b))
      BY <1>2, <1>6, Exp2Is
    <3> QED
      BY <1>1, <2>3, <3>1 DEF AtLeast
  <2>6. num <= 2 * dq
    <3>1. CASE b = B
      BY <1>1, <1>2, <2>2, <2>4, <3>1 DEF Double
    <3>2. CASE b # B
      <4>1. b + 1 \in 1 - B .. B /\ b + 1 > b
        BY <1>2, <2>1, <3>2
      <4>2. ~AtLeast(x, Pow2Fraction(b + 1))
        BY <1>2, <4>1, Exp2Is
      <4>3. ~((2 * q) * den <= num * 1)
        BY <1>1, <2>3, <4>2 DEF AtLeast
      <4> QED
        BY <2>4, <4>3
    <3> QED
      BY <3>1, <3>2
  <2>7. m = <<num, dq>>
    BY <1>1, <1>2, <1>6, <2>3, <2>4 DEF Significand
  <2> QED
    BY <2>4, <2>5, <2>6, <2>7
<1>7. CASE b # -B /\ ~(b >= 0)
  <2>1. -b \in 1 .. B /\ -b - 1 \in 0 .. B /\ (-b - 1) + 1 = -b /\ b + 1 \in 1 - B .. B
        /\ b + 1 > b /\ -(b + 1) = -b - 1
    BY <1>2, <1>3, <1>7
  <2>2. PICK r \in Nat \ {0} : r = 2^(-b - 1) /\ 2^(-b) = 2 * r
    BY <1>4, <2>1
  <2>3. Pow2Fraction(b) = <<1, 2 * r>>
    BY <1>7, <2>2 DEF Pow2Fraction
  <2>4. Pow2Fraction(b + 1) = <<1, r>>
    <3>1. CASE b + 1 = 0
      <4>1. -b - 1 = 0 /\ b + 1 >= 0
        BY <1>3, <3>1
      <4>2. r = 1
        BY <2>2, <4>1, PowerAssumption
      <4>3. Pow2Fraction(b + 1) = <<2^(b + 1), 1>>
        BY <4>1 DEF Pow2Fraction
      <4>4. 2^(b + 1) = 1
        BY <3>1, PowerAssumption
      <4> QED
        BY <4>2, <4>3, <4>4
    <3>2. CASE b + 1 # 0
      <4>1. ~(b + 1 >= 0)
        BY <1>3, <1>7, <3>2
      <4> QED
        BY <2>1, <2>2, <4>1 DEF Pow2Fraction
    <3> QED
      BY <3>1, <3>2
  <2>5. PICK nr \in Nat : nr = num * r /\ 2 * nr = num * (2 * r)
    OBVIOUS
  <2>6. 1 * den <= num * (2 * r)
    <3>1. AtLeast(x, Pow2Fraction(b))
      BY <1>2, <1>7, Exp2Is
    <3> QED
      BY <1>1, <2>3, <3>1 DEF AtLeast
  <2>7. ~(1 * den <= num * r)
    <3>1. ~AtLeast(x, Pow2Fraction(b + 1))
      BY <1>2, <2>1, Exp2Is
    <3> QED
      BY <1>1, <2>4, <3>1 DEF AtLeast
  <2>8. m = <<2 * nr, den>>
    BY <1>1, <1>2, <1>7, <2>3, <2>5 DEF Significand
  <2> QED
    BY <2>5, <2>6, <2>7, <2>8
<1> QED
  BY <1>5, <1>6, <1>7

(* A quotient between -k and k is truncated to such a number. *)
LEMMA TruncRange ==
  ASSUME NEW n \in Int, NEW d \in Nat \ {0}, NEW k \in Nat, NEW kd \in Nat, kd = k * d,
         n < kd, -n < kd
  PROVE  Trunc(n, d) \in Int /\ Trunc(n, d) < k /\ -k < Trunc(n, d)
<1>1. ASSUME NEW p \in Nat, p < kd PROVE p \div d \in Nat /\ p \div d < k
  <2>1. PICK q \in Nat : q = p \div d
    OBVIOUS
  <2>2. q * d <= p
    BY <2>1
  <2>3. CASE q >= k
    <3>1. q * d >= k * d
      BY <2>3
    <3> QED
      BY <1>1, <2>2, <3>1
  <2> QED
    BY <2>1, <2>3
<1>2. CASE n >= 0
  BY <1>1, <1>2 DEF Trunc
<1>3. CASE ~(n >= 0)
  <2>1. -n \in Nat
    BY <1>3
  <2>2. PICK q \in Nat : q = (-n) \div d /\ q < k
    BY <1>1, <2>1
  <2> QED
    BY <1>3, <2>2 DEF Trunc
<1> QED
  BY <1>2, <1>3

(* The approximation of the logarithm keeps below MaxExponent. *)
LEMMA LogsRange ==
  ASSUME NEW x \in Double, NEW b, b = exp2(x), NEW t \in Logs(Significand(x, b), b)
  PROVE  t \in Int /\ t < MaxExponent /\ -MaxExponent < t
<1>1. PICK m : m = Significand(x, b)
  OBVIOUS
<1>2. PICK u \in Int, d \in Nat \ {0} : m[1] = u /\ m[2] = d /\ d <= u /\ u <= 2 * d
  BY <1>1, SignificandIs
<1>3. PICK B \in Nat, E \in Nat :
        /\ B = MaxExp2 /\ E = MaxExponent /\ E >= 2 /\ 30103 * B < 100000 * (E - 1)
  BY MaxExponentIs
<1>4. b \in Int /\ -B <= b /\ b <= B
  BY <1>3, Exp2Is
<1>5. PICK c \in {-1, 1} : t = Trunc(LogOf(m, b, c), 200000 * d)
  BY <1>1, <1>2 DEF Logs
<1>6. PICK db \in Int, dB \in Nat, dE \in Nat :
        /\ db = d * b /\ dB = d * B /\ dE = d * E
        /\ db <= dB /\ -dB <= db /\ 30103 * dB <= 100000 * (dE - d)
  <2>1. d * b \in Int /\ d * B \in Nat /\ d * E \in Nat
    BY <1>3, <1>4
  <2>2. d * b <= d * B
    BY <1>4
  <2>3. d * (-B) <= d * b /\ d * (-B) = -(d * B)
    BY <1>4
  <2>4. d * (30103 * B) <= d * (100000 * (E - 1))
    BY <1>3
  <2>5. d * (30103 * B) = 30103 * (d * B) /\ d * (100000 * (E - 1)) = 100000 * (d * E - d)
    BY <1>3
  <2> QED
    BY <2>1, <2>2, <2>3, <2>4, <2>5
<1>7. PICK n \in Int : /\ n = LogOf(m, b, c)
                       /\ n = 35218 * d + 60206 * db + 28953 * (2 * u - 3 * d) + c * 2 * d
  <2>1. LogOf(m, b, c) = 2 * d * (17609 + 30103 * b) + 28953 * (2 * u - 3 * d) + c * 2 * d
    BY <1>2 DEF LogOf
  <2>2. 2 * d * (17609 + 30103 * b) = 35218 * d + 60206 * (d * b)
    BY <1>4
  <2>3. c * 2 * d \in Int
    OBVIOUS
  <2> QED
    BY <1>6, <2>1, <2>2, <2>3
<1>8. c * 2 * d \in -(2 * d) .. 2 * d
  BY <1>5
<1>9. n < 200000 * dE /\ -n < 200000 * dE
  BY <1>2, <1>6, <1>7, <1>8
<1>10. 200000 * dE = E * (200000 * d) /\ 200000 * dE \in Nat /\ 200000 * d \in Nat \ {0}
  BY <1>6
<1> QED
  BY <1>3, <1>5, <1>7, <1>9, <1>10, TruncRange

(* The exponents of a double. *)
LEMMA ExponentRange ==
  ASSUME NEW x \in Double, NEW e \in Exponents(x)
  PROVE  e \in -MaxExponent .. MaxExponent
<1>1. CASE x.kind # "finite"
  BY <1>1, MaxExponentIs DEF Exponents
<1>2. CASE x.kind = "finite"
  <2>1. PICK b : b = exp2(x)
    OBVIOUS
  <2>2. PICK t \in Logs(Significand(x, b), b) : e \in Corrected(x, t, Pow10Fraction(t))
    BY <1>2, <2>1 DEF Exponents
  <2>3. e = t \/ e = t - 1
    BY <2>2 DEF Corrected
  <2>4. t \in Int /\ t < MaxExponent /\ -MaxExponent < t
    BY <2>1, LogsRange
  <2> QED
    BY <2>3, <2>4, MaxExponentIs
<1> QED
  BY <1>1, <1>2

(* Numbers of up to three digits. *)
Small == 0 .. 999
ShortDigits(v, fl) ==
  /\ Len(DigitsOf(v, 10, fl)) \in Nat /\ Len(DigitsOf(v, 10, fl)) <= 3
  /\ v < 100 => Len(DigitsOf(v, 10, fl)) <= 2

(* They have at most three digits, those below 100 at most two. *)
LEMMA SmallDigits ==
  ASSUME NEW fl, NEW top \in Small
  PROVE  ShortDigits(top, fl)
<1> USE DEF Small
<1>1. PICK ten \in Bases : ten = 10
  BY DEF Bases
<1>0. top \in Nat
  OBVIOUS
<1>2. PICK g : Digits(g, top, ten, fl) /\ DigitsOf(top, ten, fl) = g[top]
  BY <1>0, DigitsUnfold
<1>3. \A v \in 0 .. top : g[v] = IF v < ten THEN <<DigitChar(v, fl)>>
                                 ELSE g[v \div ten] \o <<DigitChar(v % ten, fl)>>
  BY <1>2 DEF Digits
<1>4. \A v \in 0 .. 9 : <<DigitChar(v, fl)>> \in Text /\ Len(<<DigitChar(v, fl)>>) = 1
  BY DigitCharIs, Single
<1>5. ASSUME NEW v \in 0 .. top, v < 10
      PROVE  g[v] \in Text /\ Len(g[v]) = 1
  BY <1>1, <1>3, <1>4, <1>5
<1>6. ASSUME NEW v \in 0 .. top, v >= 10, NEW k \in Nat, g[v \div 10] \in Text,
             Len(g[v \div 10]) <= k
      PROVE  g[v] \in Text /\ Len(g[v]) <= k + 1
  <2>1. PICK z \in Text : z = <<DigitChar(v % 10, fl)>> /\ Len(z) = 1
    <3>1. v % 10 \in 0 .. 9
      OBVIOUS
    <3> QED
      BY <1>4, <3>1
  <2>2. PICK u \in Text : u = g[v \div 10] /\ Len(u) <= k
    BY <1>6
  <2>3. g[v] = u \o z
    <3>1. ~(v < ten) /\ v \div ten = v \div 10 /\ v % ten = v % 10
      BY <1>1, <1>6
    <3>2. g[v] = g[v \div ten] \o <<DigitChar(v % ten, fl)>>
      BY <1>3, <3>1
    <3> QED
      BY <2>1, <2>2, <3>1, <3>2
  <2>4. u \o z \in Text /\ Len(u \o z) = Len(u) + Len(z)
    BY Joined
  <2> QED
    BY <2>1, <2>2, <2>3, <2>4 DEF Text
<1>7. ASSUME NEW v \in 0 .. top, v < 100
      PROVE  g[v] \in Text /\ Len(g[v]) <= 2
  <2>1. CASE v < 10
    <3>1. g[v] \in Text /\ Len(g[v]) = 1
      BY <1>5, <2>1
    <3> QED
      BY <3>1
  <2>2. CASE v >= 10
    <3>0. v \in Nat
      OBVIOUS
    <3>1. v \div 10 \in 0 .. top /\ v \div 10 < 10
      BY <1>0, <1>7, <2>2, <3>0
    <3>2. g[v \div 10] \in Text /\ Len(g[v \div 10]) <= 1
      <4>1. PICK q \in 0 .. top : q = v \div 10 /\ q < 10
        BY <3>1
      <4>2. g[q] \in Text /\ Len(g[q]) = 1
        BY <1>5, <4>1
      <4> QED
        BY <4>1, <4>2
    <3>3. 1 \in Nat /\ 1 + 1 = 2
      OBVIOUS
    <3> QED
      BY <1>6, <2>2, <3>2, <3>3
  <2> QED
    BY <2>1, <2>2
<1>8. g[top] \in Text /\ Len(g[top]) <= 3
  <2>1. CASE top < 100
    BY <1>7, <2>1 DEF Text
  <2>2. CASE top >= 100
    <3>1. top \div 10 \in 0 .. top /\ top \div 10 < 100
      BY <2>2
    <3>2. g[top \div 10] \in Text /\ Len(g[top \div 10]) <= 2
      BY <1>7, <3>1
    <3>3. 2 \in Nat /\ 2 + 1 = 3 /\ top \in 0 .. top /\ top >= 10
      BY <2>2
    <3> QED
      BY <1>6, <3>2, <3>3
  <2> QED
    BY <2>1, <2>2
<1>9. top < 100 => Len(g[top]) <= 2
  BY <1>7
<1> QED
  <2>1. Len(DigitsOf(top, 10, fl)) \in Nat /\ Len(DigitsOf(top, 10, fl)) <= 3
    BY <1>1, <1>2, <1>8 DEF Text
  <2>2. top < 100 => Len(DigitsOf(top, 10, fl)) <= 2
    BY <1>1, <1>2, <1>9
  <2> QED
    BY <2>1, <2>2 DEF ShortDigits

(* The digits of an exponent fit its columns. *)
LEMMA ExponentColumns ==
  ASSUME NEW d \in Text, NEW mw \in {4, 5}, Len(d) <= mw - 2, NtoaBuffer >= 4,
         NEW negative \in BOOLEAN, NEW fl,
         "ZEROPAD" \in fl, "PLUS" \in fl, "LEFT" \notin fl, "HASH" \notin fl
  PROVE  Len(ntoa_format(d, negative, 10, 0, mw - 1, fl)) = mw - 1
<1>0. Len(d) \in Nat
  BY DEF Text
<1>1. Signs(negative, fl)
  BY DEF Signs
<1>2. SignWidth(mw - 1, negative, fl) = mw - 2
  BY <1>1, SignWidthInt
<1>3. Max({0, IF "ZEROPAD" \in fl THEN mw - 2 ELSE 0}) = mw - 2
  BY MaxOfTwo
<1>4. PICK filled : filled = ZeroFill(d, mw - 2, NtoaBuffer)
  OBVIOUS
<1>5. filled \in Text /\ Len(filled) = mw - 2
  <2>1. Len(d) <= NtoaBuffer /\ mw - 2 <= NtoaBuffer
    BY <1>0, Sizes
  <2>2. /\ filled \in Text
        /\ Len(filled) = IF mw - 2 <= Len(d) THEN Len(d)
                         ELSE IF mw - 2 <= NtoaBuffer THEN mw - 2 ELSE NtoaBuffer
    BY <1>4, <2>1, Sizes, ZeroFillText
  <2> QED
    BY <1>0, <2>1, <2>2
<1>6. Prefix(filled, 10, 0, mw - 2, fl) = filled
  BY DEF Prefix
<1>7. PICK s : s = Sign(filled, negative, fl, NtoaBuffer)
  OBVIOUS
<1>8. s \in Text /\ Len(s) = mw - 1
  <2>1. /\ s \in Text
        /\ Len(s) = IF Signs(negative, fl) /\ Len(filled) < NtoaBuffer
                    THEN Len(filled) + 1 ELSE Len(filled)
    BY <1>5, <1>7, Sizes, SignText
  <2> QED
    BY <1>1, <1>5, <2>1, Sizes
<1>9. ntoa_format(d, negative, 10, 0, mw - 1, fl) = out_rev(s, mw - 2, fl)
  BY <1>2, <1>3, <1>4, <1>6, <1>7 DEF ntoa_format
<1> QED
  BY <1>8, <1>9, OutRevText

(* The columns an exponent takes. *)
Columns(e) == IF e \in 1 - LongExponent .. LongExponent - 1 THEN 4 ELSE 5

(* The exponent fills its columns if the buffer has room for it. *)
LEMMA ExponentText ==
  ASSUME NEW e \in -MaxExponent .. MaxExponent, NEW fl
  PROVE  /\ EtoaExponent(e, Columns(e), fl) \in Text
         /\ NtoaBuffer >= 4 => Len(EtoaExponent(e, Columns(e), fl)) = Columns(e)
<1>1. PICK v \in 0 .. 999 : v = IF e < 0 THEN -e ELSE e
  BY MaxExponentIs
<1>2. PICK mw \in {4, 5} : mw = Columns(e)
  BY DEF Columns
<1>3. mw = 4 => v < 100
  BY <1>1, <1>2, MaxExponentIs, SizesAssumption DEF Columns
<1>4. PICK letter \in Char : letter = IF "UPPERCASE" \in fl THEN "E" ELSE "e"
  BY CharIs
<1> DEFINE fx == {"ZEROPAD", "PLUS"}
           n == ntoa_long(v, e < 0, 10, 0, mw - 1, fx)
<1>5. EtoaExponent(e, Columns(e), fl) = <<letter>> \o n
  BY <1>1, <1>2, <1>4 DEF EtoaExponent
<1>6. (e < 0) \in BOOLEAN /\ mw - 1 \in Nat /\ 10 \in Bases /\ 0 \in Nat
  BY DEF Bases
<1>7. n \in Text
  <2>1. v \in Nat
    BY <1>1
  <2> QED
    BY <1>6, <2>1, NtoaText
<1>8. ASSUME NtoaBuffer >= 4 PROVE Len(n) = mw - 1
  <2>1. PICK d : d = DigitsOf(v, 10, fx)
    OBVIOUS
  <2>2. d \in Text /\ Len(d) \in Nat
    BY <1>6, <2>1, DigitsText DEF Text
  <2>3. Len(d) <= mw - 2
    <3>2. v \in Small
      BY DEF Small
    <3>3. ShortDigits(v, fx)
      BY <3>2, SmallDigits
    <3>1. Len(d) <= 3 /\ (v < 100 => Len(d) <= 2)
      BY <2>1, <3>3 DEF ShortDigits
    <3> QED
      BY <1>3, <2>2, <3>1
  <2>4. LastN(d, NtoaBuffer) = d
    BY <1>8, <2>2, <2>3, Sizes DEF LastN
  <2>5. PICK fl2 : fl2 = IF v = 0 THEN fx \ {"HASH"} ELSE fx
    OBVIOUS
  <2>6. "ZEROPAD" \in fl2 /\ "PLUS" \in fl2 /\ "LEFT" \notin fl2 /\ "HASH" \notin fl2
    BY <2>5
  <2>7. n = ntoa_format(d, e < 0, 10, 0, mw - 1, fl2)
    BY <2>1, <2>4, <2>5 DEF ntoa_long
  <2> QED
    <3>1. PICK neg \in BOOLEAN : neg = (e < 0)
      BY <1>6
    <3>2. Len(ntoa_format(d, neg, 10, 0, mw - 1, fl2)) = mw - 1
      BY <1>8, <2>2, <2>3, <2>6, ExponentColumns
    <3> QED
      BY <2>7, <3>1, <3>2
<1> HIDE DEF n
<1>9. <<letter>> \in Text /\ Len(<<letter>>) = 1
  BY Single
<1>10. <<letter>> \o n \in Text /\ Len(<<letter>> \o n) = 1 + Len(n)
  BY <1>7, <1>9, Joined
<1> QED
  BY <1>2, <1>5, <1>8, <1>10

(* The number the digits of "%e" are taken from. *)
LEMMA MantissaIs ==
  ASSUME NEW x \in Double, x.kind = "finite", NEW e \in Exponents(x), NEW fallBack
  PROVE  LET m == Mantissas(x, Scaled(x, Pow10Fraction(e), fallBack))
         IN  m.neg \in BOOLEAN /\ m.num \in Nat /\ m.den \in Nat \ {0}
<1>1. PICK s : s = Scaled(x, Pow10Fraction(e), fallBack)
  OBVIOUS
<1>0. x.neg \in BOOLEAN /\ x.num \in Nat /\ x.den \in Nat \ {0}
  BY DEF Double
<1>2. s[1] \in Nat /\ s[2] \in Nat \ {0}
  <2>1. CASE fallBack \/ x.num = 0
    BY <1>0, <1>1, <2>1 DEF Scaled
  <2>2. CASE ~(fallBack \/ x.num = 0)
    <3>1. e \in -MaxExponent .. MaxExponent
      BY ExponentRange
    <3>2. PICK p : p = Pow10Fraction(e)
      OBVIOUS
    <3>3. p[1] \in Nat \ {0} /\ p[2] \in Nat \ {0}
      BY <3>1, <3>2, FractionOfPower
    <3>4. PICK num \in Nat : num = x.num * p[2]
      BY <1>0, <3>3
    <3>5. PICK den \in Nat \ {0} : den = x.den * p[1]
      BY <1>0, <3>3
    <3>6. s = Rounded(num, den)
      BY <1>1, <2>2, <3>2, <3>4, <3>5 DEF Scaled
    <3> QED
      BY <3>6, RoundedIs
  <2> QED
    BY <2>1, <2>2
<1>3. PICK m : m = Mantissas(x, s)
  OBVIOUS
<1>4. m.neg = x.neg /\ m.num = s[1] /\ m.den = s[2]
  BY <1>3 DEF Mantissas, Double
<1> QED
  BY <1>0, <1>1, <1>2, <1>3, <1>4

(* The spaces that _etoa adds on the right fill the field. *)
LEMMA PadLeftText ==
  ASSUME NEW s \in Text, NEW w \in Nat, NEW fl
  PROVE  /\ PadLeftAligned(s, w, fl) \in Text
         /\ Len(PadLeftAligned(s, w, fl)) =
              IF "LEFT" \in fl /\ w > Len(s) THEN w ELSE Len(s)
<1>1. Len(s) \in Nat /\ w - Len(s) \in Int
  BY DEF Text
<1>2. PICK p : p = Repeat(" ", w - Len(s))
  OBVIOUS
<1>3. p \in Text /\ Len(p) = IF w - Len(s) > 0 THEN w - Len(s) ELSE 0
  BY <1>1, <1>2, Repeats, CharIs
<1>4. s \o p \in Text /\ Len(s \o p) = Len(s) + Len(p)
  BY <1>3, Joined
<1>5. PadLeftAligned(s, w, fl) = IF "LEFT" \in fl THEN s \o p ELSE s
  BY <1>2 DEF PadLeftAligned
<1> QED
  BY <1>1, <1>3, <1>4, <1>5

(* "%e" and "%g": the text, and that width and exponent are counted once. *)
LEMMA EtoaText ==
  ASSUME NEW x \in Double, x.kind = "finite", NEW e \in Exponents(x),
         NEW prec \in Nat, NEW w \in Nat, NEW fl
  PROVE  /\ etoa_finite(x, e, prec, w, fl) \in Text
         /\ Len(etoa_finite(x, e, prec, 0, fl)) \in Nat
         /\ NtoaBuffer >= 4 /\ ("ZEROPAD" \notin fl \/ w < FtoaBuffer)
            => Len(etoa_finite(x, e, prec, w, fl)) =
                 IF Len(etoa_finite(x, e, prec, 0, fl)) > w
                 THEN Len(etoa_finite(x, e, prec, 0, fl)) ELSE w
<1>1. PICK pr \in Nat : pr = IF "PRECISION" \in fl THEN prec ELSE DefaultPrecision
  BY Sizes
<1>2. PICK fb : fb = EtoaFallBack(x, fl)
  OBVIOUS
<1>3. PICK mw \in {0, 4, 5} : mw = IF fb THEN 0 ELSE Columns(e)
  BY DEF Columns
<1>4. e \in Int /\ e \in -MaxExponent .. MaxExponent
  BY ExponentRange, MaxExponentIs
<1>5. PICK ex : ex = EtoaExponent(e, mw, fl)
  OBVIOUS
<1>6. ex \in Text /\ Len(ex) \in Nat /\ (NtoaBuffer >= 4 => Len(ex) = mw)
  <2>1. CASE fb
    <3>1. ex = <<>> /\ mw = 0
      BY <1>3, <1>5, <2>1 DEF EtoaExponent
    <3> QED
      BY <3>1, EmptyText
  <2>2. CASE ~fb
    <3>1. ex = EtoaExponent(e, Columns(e), fl) /\ mw = Columns(e)
      BY <1>3, <1>5, <2>2
    <3>2. ex \in Text /\ (NtoaBuffer >= 4 => Len(ex) = mw)
      BY <1>4, <3>1, ExponentText
    <3> QED
      BY <3>2 DEF Text
  <2> QED
    BY <2>1, <2>2
<1>7. PICK ep \in Nat : ep = EtoaPrecision(e, pr, fb, fl)
  <2>1. Max({pr - e - 1, 0}) \in Nat
    BY <1>4, MaxOfTwo
  <2>2. EtoaPrecision(e, pr, fb, fl) \in Nat
    BY <2>1 DEF EtoaPrecision
  <2> QED
    BY <2>2
<1>8. PICK m : m = Mantissas(x, Scaled(x, Pow10Fraction(e), fb))
  OBVIOUS
<1>9. m.neg \in BOOLEAN /\ m.num \in Nat /\ m.den \in Nat \ {0}
  BY <1>8, MantissaIs
<1>10. PICK fl3 : fl3 = (fl \ {"ADAPT_EXP"}) \union (IF fb THEN {"PRECISION"} ELSE {})
  OBVIOUS
<1>11. "ZEROPAD" \in fl3 <=> "ZEROPAD" \in fl
  BY <1>10
<1>12. PICK A \in Nat : A = Len(ftoa_finite(m, ep, 0, fl3))
  BY <1>9, FtoaText
<1>13. ASSUME NEW v \in Nat
       PROVE  /\ etoa_finite(x, e, prec, v, fl) \in Text
              /\ Len(etoa_finite(x, e, prec, v, fl)) \in Nat
              /\ NtoaBuffer >= 4 /\ ("ZEROPAD" \notin fl \/ v < FtoaBuffer) =>
                   Len(etoa_finite(x, e, prec, v, fl)) =
                     IF A + mw > v THEN A + mw ELSE v
  <2>1. PICK ew \in Nat : ew = EtoaWidth(v, mw, fl)
    BY DEF EtoaWidth
  <2>2. PICK f : f = ftoa_finite(m, ep, ew, fl3)
    OBVIOUS
  <2>3. /\ f \in Text /\ Len(f) \in Nat
        /\ ("ZEROPAD" \notin fl \/ ew < FtoaBuffer)
             => Len(f) = IF A > ew THEN A ELSE ew
    <3>1. /\ f \in Text
          /\ ("ZEROPAD" \notin fl3 \/ ew < FtoaBuffer)
               => Len(f) = IF A > ew THEN A ELSE ew
      BY <1>9, <1>12, <2>2, FtoaText
    <3> QED
      BY <1>11, <3>1 DEF Text
  <2>4. PICK s : s = f \o ex
    OBVIOUS
  <2>5. s \in Text /\ Len(s) = Len(f) + Len(ex)
    BY <1>6, <2>3, <2>4, Joined
  <2>6. etoa_finite(x, e, prec, v, fl) = PadLeftAligned(s, v, fl)
    <3>1. etoa_finite(x, e, prec, v, fl) = etoa_digits(x, e, pr, v, fl, fb, mw)
      BY <1>1, <1>2, <1>3 DEF etoa_finite, Columns
    <3> QED
      BY <1>5, <1>7, <1>8, <1>10, <2>1, <2>2, <2>4, <3>1 DEF etoa_digits
  <2>7. /\ etoa_finite(x, e, prec, v, fl) \in Text
        /\ Len(etoa_finite(x, e, prec, v, fl)) =
              IF "LEFT" \in fl /\ v > Len(s) THEN v ELSE Len(s)
    BY <2>5, <2>6, PadLeftText
  <2>8. ew = IF v <= mw \/ ("LEFT" \in fl /\ mw > 0) THEN 0 ELSE v - mw
    BY <2>1 DEF EtoaWidth
  <2>9. ew <= v
    BY <2>8
  <2>10. ASSUME NtoaBuffer >= 4, "ZEROPAD" \notin fl \/ v < FtoaBuffer
         PROVE  Len(etoa_finite(x, e, prec, v, fl)) = IF A + mw > v THEN A + mw ELSE v
    <3>1. Len(f) = IF A > ew THEN A ELSE ew
      BY <2>3, <2>9, <2>10, Sizes
    <3>2. Len(ex) = mw
      BY <1>6, <2>10
    <3>4. PICK lf \in Nat : lf = Len(f) /\ lf = IF A > ew THEN A ELSE ew
      BY <2>3, <3>1
    <3>3. PICK l \in Nat : l = Len(s) /\ l = mw + IF A > ew THEN A ELSE ew
      <4>1. Len(s) = lf + mw
        BY <2>5, <3>2, <3>4
      <4> QED
        BY <3>4, <4>1
    <3> QED
      BY <2>7, <2>8, <3>3
  <2> QED
    BY <1>6, <2>3, <2>5, <2>7, <2>10
<1>14. PICK L \in Nat : L = Len(etoa_finite(x, e, prec, 0, fl))
  BY <1>13
<1>15. NtoaBuffer >= 4 => L = A + mw
  <2>1. PICK z \in Nat : z = 0 /\ z < FtoaBuffer
    BY Sizes
  <2>2. NtoaBuffer >= 4 => Len(etoa_finite(x, e, prec, z, fl)) = IF A + mw > z THEN A + mw ELSE z
    BY <1>13, <2>1
  <2> QED
    BY <1>14, <2>1, <2>2
<1> QED
  BY <1>13, <1>14, <1>15

-----------------------------------------------------------------------------
(* Every conversion gives a text. *)

Special(x, fl) ==
  IF x.kind = "nan" THEN <<"n", "a", "n">>
  ELSE (IF x.neg THEN <<"-">> ELSE IF "PLUS" \in fl THEN <<"+">> ELSE <<>>) \o <<"i", "n", "f">>

(* Infinities and what is no number are a text of their own. *)
LEMMA SpecialText ==
  ASSUME NEW x, NEW w \in Nat, NEW fl
  PROVE  /\ Special(x, fl) \in Text
         /\ ftoa_special(x, w, fl) = out_rev(Special(x, fl), w, fl)
         /\ ftoa_special(x, w, fl) \in Text
<1>1. "n" \in Char /\ "a" \in Char /\ "i" \in Char /\ "f" \in Char
  BY CharIs
<1>2. <<"n", "a", "n">> \in Text /\ <<"i", "n", "f">> \in Text
  BY <1>1 DEF Text
<1>3. <<"-">> \in Text /\ <<"+">> \in Text /\ <<>> \in Text
  BY Single, CharIs, EmptyText
<1>4. Special(x, fl) \in Text
  BY <1>2, <1>3, Joined DEF Special
<1>5. ftoa_special(x, w, fl) = out_rev(Special(x, fl), w, fl)
  BY DEF ftoa_special, Special
<1> QED
  BY <1>4, <1>5, OutRevText

Specs == IntegerSpecs \union FixedSpecs \union ExpSpecs \union {"c", "s", "p"}

(* The argument is of the type its directive says. *)
Fits(spec, arg) ==
  /\ spec \in IntegerSpecs \union {"p"} => arg \in Int
  /\ spec \in FixedSpecs \union ExpSpecs => arg \in Double
  /\ spec = "c" => arg \in STRING
  /\ spec = "s" => arg \in Seq(STRING)

(* An integer conversion prints a text. *)
LEMMA IntegerTextIs ==
  ASSUME NEW spec \in IntegerSpecs, NEW n \in Int, NEW prec \in Nat, NEW w \in Nat, NEW fl
  PROVE  IntegerText(spec, n, prec, w, fl) \in Text
<1>1. PICK b \in Nat \ {0} : b = 2^BitsOf(fl)
  BY SizesAssumption, PowerAssumption DEF BitsOf
<1>2. PICK v \in Int : v = IF spec \in {"d", "i"} THEN Signed(n, BitsOf(fl))
                          ELSE Unsigned(n, BitsOf(fl))
  BY <1>1 DEF Signed, Unsigned
<1>3. PICK u \in Nat : u = IF v < 0 THEN -v ELSE v
  OBVIOUS
<1>4. PICK base \in Bases : base = Base(spec)
  BY DEF Base, Bases
<1>7. (v < 0) \in BOOLEAN
  OBVIOUS
<1>5. PICK neg \in BOOLEAN : neg = (v < 0)
  BY <1>7
<1>6. IntegerText(spec, n, prec, w, fl) = ntoa_long(u, neg, base, prec, w, fl)
  BY <1>2, <1>3, <1>4, <1>5 DEF IntegerText
<1> QED
  BY <1>6, NtoaText

(* A string is cut by its precision, whatever the width, and padded. *)
LEMMA StringTextIs ==
  ASSUME NEW s \in Text, NEW prec \in Nat, NEW fl
  PROVE  \E t \in Text : \A w \in Nat :
           StringText(s, prec, w, fl) = out_rev(t, w, fl \ {"ZEROPAD"})
<1>1. PICK m \in Int : m = Min({prec, Len(s)}) /\ m <= Len(s)
  BY MinOfTwo DEF Text
<1>2. \A i \in 1 .. m : s[i] \in Char
  BY <1>1 DEF Text
<1>3. SubSeq(s, 1, m) \in Text
  BY <1>2, SubSeqProperties DEF Text
<1>4. PICK t \in Text : t = IF "PRECISION" \in fl THEN SubSeq(s, 1, m) ELSE s
  BY <1>3
<1> QED
  BY <1>1, <1>4 DEF StringText

(* A string argument is a text. *)
LEMMA CharText == ASSUME NEW s \in Seq(STRING) PROVE s \in Text
<1>1. STRING \subseteq Char
  BY DEF Char
<1> QED
  BY <1>1, SeqMonotonic DEF Text

(* Every conversion prints a text. *)
LEMMA TextIs ==
  ASSUME NEW spec \in Specs, NEW arg, Fits(spec, arg),
         NEW e, spec \in FixedSpecs \union ExpSpecs => e \in Exponents(arg),
         NEW prec \in Nat, NEW w \in Nat, NEW fl
  PROVE  TextOf(spec, arg, e, prec, w, fl) \in Text
<1>1. CASE spec \in IntegerSpecs
  <2>1. TextOf(spec, arg, e, prec, w, fl) = IntegerText(spec, arg, prec, w, fl)
    BY <1>1 DEF TextOf, IntegerSpecs, FixedSpecs, ExpSpecs
  <2> QED
    BY <1>1, <2>1, IntegerTextIs DEF Fits
<1>2. CASE spec \in FixedSpecs \union ExpSpecs
  <2>1. arg \in Double /\ e \in Exponents(arg)
    BY <1>2 DEF Fits
  <2>2. etoa(arg, e, prec, w, fl) \in Text
    BY <2>1, EtoaText, SpecialText DEF etoa
  <2>3. ftoa(arg, e, prec, w, fl) \in Text
    <3>1. arg.neg \in BOOLEAN /\ arg.num \in Nat /\ arg.den \in Nat \ {0}
      BY <2>1 DEF Double
    <3>2. ftoa_finite(arg, prec, w, fl) \in Text
      BY <3>1, FtoaText
    <3> QED
      BY <2>2, <3>2 DEF ftoa
  <2>4. \/ TextOf(spec, arg, e, prec, w, fl) = ftoa(arg, e, prec, w, fl)
        \/ TextOf(spec, arg, e, prec, w, fl) = etoa(arg, e, prec, w, fl)
    BY <1>2 DEF TextOf, IntegerSpecs, FixedSpecs, ExpSpecs
  <2> QED
    BY <2>2, <2>3, <2>4
<1>3. CASE spec = "c"
  <2>1. TextOf(spec, arg, e, prec, w, fl) = StringText(<<arg>>, 1, w, fl)
    BY <1>3 DEF TextOf, IntegerSpecs, FixedSpecs, ExpSpecs
  <2>2. PICK s \in Text, one \in Nat : s = <<arg>> /\ one = 1
    BY <1>3, CharIs, Single DEF Fits
  <2>4. PICK t \in Text :
          \A v \in Nat : StringText(s, one, v, fl) = out_rev(t, v, fl \ {"ZEROPAD"})
    BY StringTextIs
  <2>3. StringText(<<arg>>, 1, w, fl) = out_rev(t, w, fl \ {"ZEROPAD"})
    BY <2>2, <2>4
  <2> QED
    BY <2>1, <2>3, OutRevText
<1>4. CASE spec = "s"
  <2>1. TextOf(spec, arg, e, prec, w, fl) = StringText(arg, prec, w, fl)
    BY <1>4 DEF TextOf, IntegerSpecs, FixedSpecs, ExpSpecs
  <2>2. arg \in Text
    BY <1>4, CharText DEF Fits
  <2>a. PICK s \in Text : s = arg
    BY <2>2
  <2>b. PICK t \in Text : \A x \in Nat :
          StringText(s, prec, x, fl) = out_rev(t, x, fl \ {"ZEROPAD"})
    BY StringTextIs
  <2>3. StringText(arg, prec, w, fl) = out_rev(t, w, fl \ {"ZEROPAD"})
    BY <2>a, <2>b
  <2> QED
    BY <2>1, <2>3, OutRevText
<1>5. CASE spec = "p"
  <2>1. TextOf(spec, arg, e, prec, w, fl) = PointerText(arg, prec, fl)
    BY <1>5 DEF TextOf, IntegerSpecs, FixedSpecs, ExpSpecs
  <2>2. PICK b \in Nat \ {0} : b = 2^TypeBits["long"]
    BY SizesAssumption, PowerAssumption
  <2>3. PICK v \in Nat : v = Unsigned(arg, TypeBits["long"])
    BY <1>5, <2>2 DEF Unsigned, Fits
  <2>4. PICK n \in Nat : n = TypeBits["long"] \div 4
    BY SizesAssumption
  <2>5. 16 \in Bases /\ FALSE \in BOOLEAN
    BY DEF Bases
  <2>6. PointerText(arg, prec, fl) = ntoa_long(v, FALSE, 16, prec, n, fl)
    BY <2>3, <2>4 DEF PointerText
  <2> QED
    BY <2>1, <2>5, <2>6, NtoaText
<1> QED
  BY <1>1, <1>2, <1>3, <1>4, <1>5 DEF Specs

-----------------------------------------------------------------------------
(* Numbers in the format *)

(* One more digit, in an unsigned int. *)
Longer(value, c) == (value * 10 + DigitValue(c)) % 2^TypeBits["int"]
Numbers(g, f, i, top) ==
  g = [n \in i - 1 .. top |-> IF n < i THEN 0 ELSE Longer(g[n - 1], f[n])]

(* The function that sums up the digits of a number in the format. *)
LEMMA NumbersExist ==
  ASSUME NEW f, NEW i \in Nat, NEW top \in Nat, i - 1 <= top
  PROVE  \E g : Numbers(g, f, i, top)
<1> DEFINE T == {j \in Nat : \E g : Numbers(g, f, i, i - 1 + j)}
<1>1. 0 \in T
  <2> DEFINE g == [n \in i - 1 .. i - 1 + 0 |-> 0]
  <2>1. g = [n \in i - 1 .. i - 1 + 0 |->
               IF n < i THEN 0 ELSE Longer(g[n - 1], f[n])]
    OBVIOUS
  <2>2. Numbers(g, f, i, i - 1 + 0)
    BY <2>1 DEF Numbers
  <2> QED
    BY <2>2
<1>2. ASSUME NEW j \in Nat, j \in T PROVE j + 1 \in T
  <2>1. PICK g : Numbers(g, f, i, i - 1 + j)
    BY <1>2
  <2> DEFINE last == Longer(g[i - 1 + j], f[i + j])
             h == [n \in i - 1 .. i - 1 + (j + 1) |-> IF n = i + j THEN last ELSE g[n]]
  <2>2. \A n \in i - 1 .. i - 1 + j :
          g[n] = IF n < i THEN 0 ELSE Longer(g[n - 1], f[n])
    BY <2>1 DEF Numbers
  <2>3. ASSUME NEW n \in i - 1 .. i - 1 + (j + 1)
        PROVE  h[n] = IF n < i THEN 0 ELSE Longer(h[n - 1], f[n])
    <3>1. ~(n < i) => /\ n - 1 \in i - 1 .. i - 1 + (j + 1) /\ n - 1 # i + j
                      /\ h[n - 1] = g[n - 1]
      OBVIOUS
    <3>2. CASE n = i + j
      <4>1. ~(n < i) /\ n - 1 = i - 1 + j /\ h[n] = last
        BY <3>2
      <4>2. h[n] = Longer(g[n - 1], f[n])
        BY <3>2, <4>1
      <4> HIDE DEF h, last
      <4> QED
        BY <3>1, <4>1, <4>2
    <3>3. CASE n # i + j
      <4>1. n \in i - 1 .. i - 1 + j /\ h[n] = g[n]
        BY <3>3
      <4> HIDE DEF h, last
      <4> QED
        BY <2>2, <3>1, <4>1
    <3> QED
      BY <3>2, <3>3
  <2>4. h = [n \in i - 1 .. i - 1 + (j + 1) |-> h[n]]
    OBVIOUS
  <2> HIDE DEF h
  <2>5. Numbers(h, f, i, i - 1 + (j + 1))
    BY <2>3, <2>4 DEF Numbers
  <2> QED
    BY <2>5
<1>3. PICK j \in Nat : i - 1 + j = top
  <2>1. top - (i - 1) \in Nat /\ i - 1 + (top - (i - 1)) = top
    OBVIOUS
  <2> QED
    BY <2>1
<1>4. j \in T
  <2> HIDE DEF T
  <2> QED
    BY <1>1, <1>2, Upwards
<1> QED
  BY <1>3, <1>4

(* _atoi returns a natural number. *)
LEMMA AtoiValue ==
  ASSUME call.format \in Format, NEW i \in Nat \ {0}, i <= Len(call.format) + 1
  PROVE  atoi(i).value \in Nat
<1>1. PICK top : top = Max({n \in i - 1 .. Len(call.format) :
                             \A k \in i .. n : is_digit(call.format[k])})
  OBVIOUS
<1>2. atoi(i).next = top + 1
  BY <1>1 DEF atoi
<1>3. Len(call.format) \in Nat
  BY DEF Format
<1>4. top \in Int
  <2> DEFINE S == {n \in i - 1 .. Len(call.format) :
                     \A k \in i .. n : is_digit(call.format[k])}
  <2>1. S \subseteq Int /\ \A x \in S : x <= Len(call.format)
    BY <1>3
  <2>2. i - 1 \in S
    BY <1>3
  <2>4. PICK b \in Int : b = Len(call.format)
    BY <1>3
  <2> HIDE DEF S
  <2>3. Max(S) \in S
    BY <2>1, <2>2, <2>4, Greatest, Zenon
  <2> QED
    BY <1>1, <2>1, <2>3 DEF S
<1>5. PICK nx : nx = atoi(i).next
  OBVIOUS
<1>6. top \in Nat /\ i - 1 <= top /\ \A k \in i .. top : is_digit(call.format[k])
  <2>1. /\ nx \in i .. Len(call.format) + 1
        /\ \A k \in i .. nx - 1 : is_digit(call.format[k])
    BY <1>5, AtoiPlace
  <2>2. nx \in Int /\ nx - 1 = top /\ nx >= i
    BY <1>2, <1>3, <1>4, <1>5, <2>1
  <2> QED
    BY <1>4, <2>1, <2>2
<1>7. \E g : g = [n \in i - 1 .. top |->
                  IF n < i THEN 0 ELSE Longer(g[n - 1], call.format[n])]
  BY <1>6, NumbersExist DEF Numbers
<1>8. PICK g : /\ g = [n \in i - 1 .. top |->
                    IF n < i THEN 0 ELSE Longer(g[n - 1], call.format[n])]
               /\ atoi(i).value = g[top]
  BY <1>1, <1>7 DEF atoi, Longer
<1>9. \A n \in i - 1 .. top :
        g[n] = IF n < i THEN 0 ELSE Longer(g[n - 1], call.format[n])
  BY <1>8
<1>10. ASSUME NEW c, is_digit(c) PROVE DigitValue(c) \in Nat
  <2>1. PICK d \in 0 .. 9 : DigitChar(d, {}) = c
    BY <1>10 DEF is_digit
  <2>2. DigitValue(c) \in 0 .. 9
    BY <2>1 DEF DigitValue
  <2> QED
    BY <2>2
<1> DEFINE D == {n \in i - 1 .. top : g[n] \notin Nat}
<1>11. D = {}
  <2> SUFFICES ASSUME D # {} PROVE FALSE
    OBVIOUS
  <2>1. D \subseteq Nat
    OBVIOUS
  <2>2. PICK n \in D : \A q \in D : n <= q
    BY <2>1, LeastElement
  <2>3. n \in i - 1 .. top /\ n \in Nat /\ g[n] \notin Nat
    BY <2>2
  <2>4. ~(n < i)
    BY <1>9, <2>3
  <2>5. n - 1 \in i - 1 .. top /\ ~(n <= n - 1) /\ n \in i .. top
    BY <1>6, <2>3, <2>4
  <2>6. g[n - 1] \in Nat
    BY <2>2, <2>5
  <2>7. DigitValue(call.format[n]) \in Nat
    BY <1>6, <1>10, <2>5
  <2>8. g[n] = Longer(g[n - 1], call.format[n])
    BY <1>9, <2>3, <2>4
  <2>9. PICK N \in Nat \ {0} : N = 2^TypeBits["int"]
    BY SizesAssumption, PowerAssumption
  <2>10. PICK s \in Nat : s = g[n - 1] * 10 + DigitValue(call.format[n])
    BY <2>6, <2>7
  <2>11. g[n] = s % N
    BY <2>8, <2>9, <2>10 DEF Longer
  <2> QED
    BY <2>3, <2>9, <2>10, <2>11
<1>12. top \in i - 1 .. top
  BY <1>6
<1> QED
  BY <1>8, <1>11, <1>12

-----------------------------------------------------------------------------
(* The output *)

(* What the caller owes: arguments of the types the directives say, which  *)
(* va_arg and the conversions take for granted.                            *)
ArgumentsFit ==
  /\ pc = "width" /\ ch = "*" => va[1] \in Int
  /\ pc = "precision" /\ ch = "." /\ CharAt(pos + 1) = "*" => va[1] \in Int
  /\ pc = "specifier" => Fits(ch, va[1])

(* The bytes a text has reached: the caller's buffer, and for sprintf_, to *)
(* which the size of that is not known, what follows it.                   *)
Reached == {i \in Nat : i < call.count \/ (i < Len(out) /\ i < maxlen)}

(* The parts of a directive that were read are numbers; what was handed to *)
(* the output function is a text, and the buffer holds as much of it as    *)
(* fits, in front of bytes not stored to.                                  *)
OutInv ==
  /\ call.count \in 0 .. 2^TypeBits["long"] - 1 /\ call.entry \in DOMAIN OutFunction
  /\ width \in Nat /\ precision \in Nat
  /\ out \in Text
  /\ pc # "done" /\ Output = "_out_buffer" =>
       buffer = [i \in Reached |-> IF i < Len(out) THEN out[i + 1] ELSE Unwritten]
  /\ CutAndTerminated

(* The size _vsnprintf is told is not below that of the buffer, and equal  *)
(* to it unless the caller is sprintf_.                                    *)
LEMMA MaxlenIs ==
  ASSUME call.count \in 0 .. 2^TypeBits["long"] - 1, call.entry \in DOMAIN OutFunction
  PROVE  /\ 2^TypeBits["long"] \in Nat \ {0} /\ call.count \in Nat
         /\ maxlen \in call.count .. 2^TypeBits["long"] - 1
         /\ Output = "_out_buffer" /\ call.entry # "sprintf_" => maxlen = call.count
<1>1. "long" \in DOMAIN TypeBits
  BY SizesAssumption
<1>2. PICK N \in Nat \ {0} : N = 2^TypeBits["long"]
  BY <1>1, PowerAssumption
<1>3. call.count \in Nat /\ call.count <= N - 1
  BY <1>2
<1>4. maxlen = IF call.entry \in {"snprintf_", "vsnprintf_"} THEN call.count ELSE N - 1
  BY <1>2 DEF maxlen
<1>5. Output = "_out_buffer" /\ call.entry # "sprintf_"
        => call.entry \in {"snprintf_", "vsnprintf_"}
  BY DEF Output, OutFunction
<1> QED
  BY <1>2, <1>3, <1>4, <1>5

(* Before the first step nothing is handed out. *)
LEMMA OutInit == Init => OutInv
<1> SUFFICES ASSUME Init PROVE OutInv
  OBVIOUS
<1>1. call.count \in 0 .. 2^TypeBits["long"] - 1 /\ call.entry \in DOMAIN OutFunction
  BY CallAssumption DEF Init
<1>2. out \in Text /\ Len(out) = 0 /\ pc # "done"
  BY EmptyText DEF Init
<1>3. buffer = [i \in 0 .. call.count - 1 |-> Unwritten]
  BY DEF Init
<1>4. width \in Nat /\ precision \in Nat
  BY DEF Init
<1>5. call.count \in Nat
  BY <1>1, MaxlenIs
<1>6. Reached = 0 .. call.count - 1 /\ \A i \in Reached : ~(i < Len(out))
  BY <1>2, <1>5 DEF Reached
<1>7. CutAndTerminated
  BY <1>2 DEF CutAndTerminated
<1>8. buffer = [i \in Reached |-> IF i < Len(out) THEN out[i + 1] ELSE Unwritten]
  BY <1>3, <1>6
<1> QED
  BY <1>1, <1>2, <1>4, <1>7, <1>8 DEF OutInv

(* A text goes behind the one handed out before. *)
LEMMA Emits ==
  ASSUME OutInv, call' = call, pc # "done", pc' # "done",
         NEW t \in Text, Emit(t), width' \in Nat, precision' \in Nat
  PROVE  OutInv'
<1>1. out \in Text /\ Len(out) \in Nat /\ Len(t) \in Nat
  BY DEF OutInv, Text
<1>a. call.count \in Nat /\ maxlen \in call.count .. 2^TypeBits["long"] - 1
      /\ 2^TypeBits["long"] \in Nat \ {0}
  BY MaxlenIs DEF OutInv
<1>2. PICK n \in Nat, l \in Nat, c \in Nat, M \in Nat :
        n = Len(out) /\ l = Len(t) /\ c = call.count /\ M = maxlen /\ c <= M
  BY <1>1, <1>a
<1>3. out' = out \o t
  BY DEF Emit
<1>4. /\ out' \in Text /\ Len(out') = n + l
      /\ \A i \in 1 .. n : out'[i] = out[i]
      /\ \A i \in 1 .. l : out'[n + i] = t[i]
  BY <1>1, <1>2, <1>3, Joined
<1>5. Output' = Output /\ maxlen' = maxlen
  BY DEF Output, maxlen
<1>6. /\ Reached = {i \in Nat : i < c \/ (i < n /\ i < M)}
      /\ Reached' = {i \in Nat : i < c \/ (i < n + l /\ i < M)}
      /\ Stores(t, n) = {i \in n .. n + l - 1 : i < M}
  BY <1>2, <1>4, <1>5 DEF Reached, Stores
<1>7. ASSUME Output = "_out_buffer"
      PROVE  buffer' = [i \in Reached' |-> IF i < n + l THEN out'[i + 1] ELSE Unwritten]
  <2>1. buffer = [i \in Reached |-> IF i < n THEN out[i + 1] ELSE Unwritten]
    BY <1>2, <1>7 DEF OutInv
  <2>2. buffer' = [i \in Reached \union Stores(t, n) |->
                     IF i \in Stores(t, n) THEN t[i - n + 1] ELSE buffer[i]]
    BY <1>2, <1>7, <2>1 DEF Emit, out_buffer
  <2>3. Reached \union Stores(t, n) = Reached'
    BY <1>2, <1>6
  <2>4. ASSUME NEW i \in Reached'
        PROVE  (IF i \in Stores(t, n) THEN t[i - n + 1] ELSE buffer[i]) =
                 IF i < n + l THEN out'[i + 1] ELSE Unwritten
    <3>1. i \in Nat /\ (i < c \/ (i < n + l /\ i < M))
      BY <1>6
    <3>2. CASE i < n
      <4>1. i \notin Stores(t, n) /\ i \in Reached /\ i + 1 \in 1 .. n /\ i < n + l
        BY <1>2, <1>6, <3>1, <3>2
      <4> QED
        BY <1>4, <2>1, <3>2, <4>1
    <3>3. CASE ~(i < n) /\ i < n + l
      <4>1. PICK j \in 1 .. l : j = i - n + 1 /\ n + j = i + 1
        BY <3>1, <3>3
      <4>2. i \in Stores(t, n)
        BY <1>2, <1>6, <3>1, <3>3
      <4> QED
        BY <1>4, <3>3, <4>1, <4>2
    <3>4. CASE ~(i < n + l)
      <4>1. i \notin Stores(t, n) /\ i \in Reached /\ ~(i < n)
        BY <1>6, <3>1, <3>4
      <4> QED
        BY <2>1, <3>4, <4>1
    <3> QED
      BY <3>1, <3>2, <3>3, <3>4
  <2> QED
    BY <2>2, <2>3, <2>4
<1>8. CutAndTerminated'
  BY DEF CutAndTerminated
<1> QED
  BY <1>4, <1>5, <1>7, <1>8 DEF OutInv

(* A step that hands out nothing. *)
LEMMA Silent ==
  ASSUME OutInv, call' = call, out' = out, buffer' = buffer, pc # "done", pc' # "done",
         width' \in Nat, precision' \in Nat
  PROVE  OutInv'
<1>1. Output' = Output /\ Reached' = Reached
  BY DEF Output, Reached, maxlen
<1>2. CutAndTerminated'
  BY DEF CutAndTerminated
<1> QED
  BY <1>1, <1>2 DEF OutInv

(* What stands in the format is a character. *)
LEMMA CharInside ==
  ASSUME call.format \in Format, NEW i \in Nat \ {0}
  PROVE  CharAt(i) \in Char
<1>1. CASE i <= Len(call.format)
  <2>1. call.format[i] \in STRING
    BY <1>1 DEF Format
  <2> QED
    BY <1>1, <2>1, CharIs DEF CharAt
<1>2. CASE ~(i <= Len(call.format))
  BY <1>2, CharIs DEF CharAt
<1> QED
  BY <1>1, <1>2

(* A number below the modulus is left alone. *)
LEMMA SmallModulus ==
  ASSUME NEW N \in Nat \ {0}, NEW a \in 0 .. N - 1
  PROVE  a % N = a
<1>1. PICK q \in Nat, r \in 0 .. N - 1 : q = a \div N /\ r = a % N
  OBVIOUS
<1>2. a = N * q + r
  BY <1>1
<1>3. CASE q >= 1
  <2>1. N * q >= N
    BY <1>3
  <2> QED
    BY <1>2, <2>1
<1>4. CASE q = 0
  BY <1>1, <1>2, <1>4
<1> QED
  BY <1>3, <1>4

(* The terminator goes to the last byte that is left, and to none of a     *)
(* buffer without bytes.                                                   *)
EndOf(n, c) == IF n <= c - 1 THEN n ELSE c - 1
LEMMA TerminatorPlace ==
  ASSUME call.count \in 0 .. 2^TypeBits["long"] - 1, call.entry \in DOMAIN OutFunction,
         Output = "_out_buffer", NEW n \in Nat, n = Len(out),
         call.entry = "sprintf_" => n < call.count,
         NEW c \in Nat, c = call.count
  PROVE  /\ Reached = 0 .. c - 1
         /\ Stores(<<NUL>>, TerminatorIndex(n)) = {i \in 0 .. c - 1 : i = EndOf(n, c)}
         /\ TerminatorIndex(n) \in Nat
         /\ c > 0 => TerminatorIndex(n) = EndOf(n, c)
<1>0. PICK end \in Int : end = EndOf(n, c) /\ end = IF n <= c - 1 THEN n ELSE c - 1
  BY DEF EndOf
<1>1. PICK N \in Nat \ {0}, M \in Nat :
        /\ N = 2^TypeBits["long"] /\ M = maxlen /\ c <= M /\ M <= N - 1
        /\ n < c \/ M = c
  BY MaxlenIs
<1>2. Reached = 0 .. c - 1
  BY <1>1 DEF Reached
<1>3. PICK z : z = TerminatorIndex(n)
  OBVIOUS
<1>4. z = IF n < M THEN n ELSE (M - 1) % N
  BY <1>1, <1>3 DEF TerminatorIndex
<1>5. z \in Nat /\ (c > 0 => z = end) /\ (c = 0 => M = 0)
  <2>1. CASE n < c
    BY <1>0, <1>1, <1>4, <2>1
  <2>2. CASE ~(n < c) /\ c > 0
    <3>1. M = c /\ z = (c - 1) % N /\ c - 1 \in 0 .. N - 1
      <4>1. M = c /\ ~(n < M)
        BY <1>1, <2>2
      <4>2. c - 1 \in 0 .. N - 1
        BY <1>1, <2>2
      <4> QED
        BY <1>4, <4>1, <4>2
    <3>2. (c - 1) % N = c - 1
      BY <3>1, SmallModulus
    <3> QED
      BY <1>0, <2>2, <3>1, <3>2
  <2>3. CASE c = 0
    <3>1. M = 0 /\ z = (0 - 1) % N
      BY <1>1, <1>4, <2>3
    <3>2. (0 - 1) % N \in 0 .. N - 1
      OBVIOUS
    <3> QED
      BY <2>3, <3>1, <3>2
  <2> QED
    BY <2>1, <2>2, <2>3
<1>6. Stores(<<NUL>>, z) = {i \in z .. z + 1 - 1 : i < M}
  BY <1>1 DEF Stores
<1>7. {i \in z .. z + 1 - 1 : i < M} = {i \in 0 .. c - 1 : i = end}
  <2>1. CASE c = 0
    BY <1>5, <2>1
  <2>2. CASE c > 0
    <3>1. z = end /\ end \in 0 .. c - 1 /\ end < M
      BY <1>0, <1>1, <1>5, <2>2
    <3> QED
      BY <3>1
  <2> QED
    BY <2>1, <2>2
<1> QED
  BY <1>0, <1>2, <1>3, <1>5, <1>6, <1>7

(* Every step keeps what the buffer holds of the output. *)
LEMMA OutNext ==
  ASSUME ParseInv, OutInv, ArgumentsFit, [Next]_vars
  PROVE  OutInv'
<1>0. /\ call.format \in Format /\ pos \in Nat \ {0} /\ width \in Nat /\ precision \in Nat
      /\ pc # "astray" => pos <= Len(call.format) + 1
  BY DEF ParseInv, OutInv
<1>1. PICK c \in Char : c = ch
  BY <1>0, CharInside DEF ch
<1>2. PICK t \in Text : t = <<ch>>
  BY <1>1, Single
<1>3. CASE Literal
  <2>1. /\ call' = call /\ pc # "done" /\ pc' # "done" /\ Emit(t)
        /\ width' \in Nat /\ precision' \in Nat
    BY <1>0, <1>2, <1>3 DEF Literal, parsed
  <2> QED
    BY <2>1, Emits
<1>4. CASE ConvertOther
  <2>1. /\ call' = call /\ pc # "done" /\ pc' # "done" /\ Emit(t)
        /\ width' \in Nat /\ precision' \in Nat
    BY <1>0, <1>2, <1>4 DEF ConvertOther, parsed
  <2> QED
    BY <2>1, Emits
<1>5. CASE ConvertArgument
  <2>1. PICK fl : fl = SpecFlags(ch, flags)
    OBVIOUS
  <2>2. PICK e, text :
          /\ ch \in FixedSpecs \union ExpSpecs => e \in Exponents(va[1])
          /\ text = TextOf(ch, va[1], e, precision, width, fl)
          /\ Emit(text)
    BY <1>5, <2>1 DEF ConvertArgument
  <2>3. ch \in Specs /\ Fits(ch, va[1])
    BY <1>5 DEF ConvertArgument, ArgumentsFit, Specs
  <2>a. PICK spec \in Specs : spec = ch
    BY <2>3
  <2>4. PICK arg : spec = ch /\ arg = va[1]
    BY <2>a
  <2>5. TextOf(spec, arg, e, precision, width, fl) \in Text
    BY <1>0, <2>2, <2>3, <2>4, TextIs
  <2>6. text \in Text
    BY <2>2, <2>4, <2>5
  <2>7. /\ call' = call /\ pc # "done" /\ pc' # "done"
        /\ width' \in Nat /\ precision' \in Nat
    BY <1>0, <1>5 DEF ConvertArgument, parsed
  <2> QED
    BY <2>2, <2>6, <2>7, Emits
<1>6. CASE Percent
  <2>1. /\ call' = call /\ out' = out /\ buffer' = buffer /\ pc # "done" /\ pc' # "done"
        /\ width' \in Nat /\ precision' \in Nat
    BY <1>6 DEF Percent
  <2> QED
    BY <2>1, Silent
<1>7. CASE EvaluateFlags
  <2>1. /\ call' = call /\ out' = out /\ buffer' = buffer /\ pc # "done" /\ pc' # "done"
        /\ width' \in Nat /\ precision' \in Nat
    BY <1>0, <1>7 DEF EvaluateFlags
  <2> QED
    BY <2>1, Silent
<1>8. CASE EvaluateWidth
  <2>1. /\ call' = call /\ out' = out /\ buffer' = buffer /\ pc # "done" /\ pc' # "done"
        /\ precision' \in Nat /\ pc = "width"
    BY <1>0, <1>8 DEF EvaluateWidth
  <2>2. width' \in Nat
    <3>1. CASE is_digit(ch)
      <4>1. width' = atoi(pos).value
        BY <1>8, <3>1, WidthDigits
      <4>2. atoi(pos).value \in Nat
        BY <1>0, <2>1, AtoiValue
      <4> QED
        BY <4>1, <4>2
    <3>2. CASE ~is_digit(ch) /\ ch = "*"
      <4>1. va[1] \in Int
        BY <2>1, <3>2 DEF ArgumentsFit
      <4>2. width' = IF va[1] < 0 THEN -va[1] ELSE va[1]
        BY <1>8, <3>2 DEF EvaluateWidth
      <4> QED
        BY <4>1, <4>2
    <3>3. CASE ~is_digit(ch) /\ ch # "*"
      BY <1>0, <1>8, <3>3 DEF EvaluateWidth
    <3> QED
      BY <3>1, <3>2, <3>3
  <2> QED
    BY <2>1, <2>2, Silent
<1>9. CASE EvaluatePrecision
  <2>1. /\ call' = call /\ out' = out /\ buffer' = buffer /\ pc # "done" /\ pc' # "done"
        /\ width' \in Nat /\ pc = "precision"
    BY <1>0, <1>9 DEF EvaluatePrecision
  <2>2. precision' \in Nat
    <3>1. CASE ch # "."
      BY <1>0, <1>9, <3>1 DEF EvaluatePrecision
    <3>2. CASE ch = "." /\ CharAt(pos + 1) = "*"
      <4>1. va[1] \in Int
        BY <2>1, <3>2 DEF ArgumentsFit
      <4>2. precision' = Max({va[1], 0})
        BY <1>9, <3>2 DEF EvaluatePrecision
      <4> QED
        BY <4>1, <4>2, MaxOfTwo
    <3>3. CASE ch = "." /\ CharAt(pos + 1) # "*"
      <4>1. precision' = atoi(pos + 1).value
        BY <1>9, <3>3 DEF EvaluatePrecision
      <4>2. CharAt(pos) # NUL
        BY <3>3 DEF ch, NUL
      <4>3. pos <= Len(call.format) /\ Len(call.format) \in Nat
        BY <1>0, <4>2, Inside DEF Format
      <4>4. pos + 1 \in Nat \ {0} /\ pos + 1 <= Len(call.format) + 1
        BY <1>0, <4>3
      <4>5. atoi(pos + 1).value \in Nat
        BY <1>0, <4>4, AtoiValue
      <4> QED
        BY <4>1, <4>5
    <3> QED
      BY <3>1, <3>2, <3>3
  <2> QED
    BY <2>1, <2>2, Silent
<1>10. CASE EvaluateLength
  <2>1. /\ call' = call /\ out' = out /\ buffer' = buffer /\ pc # "done" /\ pc' # "done"
        /\ width' \in Nat /\ precision' \in Nat
    BY <1>0, <1>10 DEF EvaluateLength
  <2> QED
    BY <2>1, Silent
<1>11. CASE Terminate
  <2>1. /\ call' = call /\ out' = out /\ pc = "text" /\ pc' = "done"
        /\ width' \in Nat /\ precision' \in Nat /\ Output' = Output
    BY <1>0, <1>11 DEF Terminate, parsed, Output
  <2>2. CutAndTerminated'
    <3> SUFFICES ASSUME Output = "_out_buffer",
                        call.entry = "sprintf_" => Len(out) < call.count
                 PROVE  buffer' = [i \in 0 .. call.count - 1 |->
                          IF i < Min({Len(out), call.count - 1}) THEN out[i + 1]
                          ELSE IF i = Min({Len(out), call.count - 1}) THEN NUL
                          ELSE Unwritten]
      BY <2>1 DEF CutAndTerminated
    <3>0. PICK n \in Nat, k \in Nat : n = Len(out) /\ k = call.count
      <4>1. Len(out) \in Nat
        BY DEF OutInv, Text
      <4>2. call.count \in Nat
        BY MaxlenIs DEF OutInv
      <4> QED
        BY <4>1, <4>2
    <3>1. PICK end \in Int : end = EndOf(n, k) /\ end = IF n <= k - 1 THEN n ELSE k - 1
      BY DEF EndOf
    <3>a. Min({Len(out), call.count - 1}) = end
      <4>1. k - 1 \in Int /\ n \in Int
        OBVIOUS
      <4> QED
        BY <3>0, <3>1, <4>1, MinOfTwo
    <3>2. /\ Reached = 0 .. k - 1
          /\ Stores(<<NUL>>, TerminatorIndex(n)) = {i \in 0 .. k - 1 : i = end}
          /\ TerminatorIndex(n) \in Nat
          /\ k > 0 => TerminatorIndex(n) = end
      <4>1. call.count \in 0 .. 2^TypeBits["long"] - 1 /\ call.entry \in DOMAIN OutFunction
        BY DEF OutInv
      <4>2. call.entry = "sprintf_" => n < call.count
        BY <3>0
      <4>3. /\ Reached = 0 .. k - 1
            /\ Stores(<<NUL>>, TerminatorIndex(n)) = {i \in 0 .. k - 1 : i = EndOf(n, k)}
            /\ TerminatorIndex(n) \in Nat
            /\ k > 0 => TerminatorIndex(n) = EndOf(n, k)
        BY <3>0, <4>1, <4>2, TerminatorPlace
      <4> QED
        BY <3>1, <4>3
    <3>3. PICK z \in Nat : z = TerminatorIndex(n)
      BY <3>2
    <3>4. buffer = [i \in 0 .. k - 1 |-> IF i < n THEN out[i + 1] ELSE Unwritten]
      BY <2>1, <3>0, <3>2 DEF OutInv
    <3>5. buffer' = [i \in DOMAIN buffer \union Stores(<<NUL>>, z) |->
                       IF i \in Stores(<<NUL>>, z) THEN <<NUL>>[i - z + 1] ELSE buffer[i]]
      BY <1>11, <3>0, <3>3 DEF Terminate, out_buffer
    <3>6. DOMAIN buffer \union Stores(<<NUL>>, z) = 0 .. k - 1
      BY <3>2, <3>3, <3>4
    <3>7. ASSUME NEW i \in 0 .. k - 1
          PROVE  (IF i \in Stores(<<NUL>>, z) THEN <<NUL>>[i - z + 1] ELSE buffer[i]) =
                   IF i < end THEN out[i + 1] ELSE IF i = end THEN NUL ELSE Unwritten
      <4>1. CASE i = end
        <5>0. z = i
          BY <3>2, <3>3, <4>1
        <5>1. i \in Stores(<<NUL>>, z) /\ i - z + 1 = 1
          BY <3>2, <3>3, <4>1, <5>0
        <5>2. ~(i < end)
          BY <4>1
        <5>3. <<NUL>>[1] = NUL
          OBVIOUS
        <5> QED
          BY <4>1, <5>1, <5>2, <5>3
      <4>2. CASE i < end
        <5>0. i # end /\ i < n
          BY <3>1, <4>2
        <5>1. i \notin Stores(<<NUL>>, z) /\ i < n
          BY <3>2, <3>3, <5>0
        <5> QED
          BY <3>4, <4>2, <5>1
      <4>3. CASE i > end
        <5>0. i # end /\ ~(i < n) /\ ~(i < end)
          BY <3>1, <4>3
        <5>1. i \notin Stores(<<NUL>>, z) /\ ~(i < n) /\ ~(i < end) /\ i # end
          BY <3>2, <3>3, <5>0
        <5> QED
          BY <3>4, <5>1
      <4> QED
        BY <3>1, <4>1, <4>2, <4>3
    <3> QED
      BY <3>0, <3>a, <3>5, <3>6, <3>7
  <2> QED
    BY <2>1, <2>2 DEF OutInv
<1>12. CASE UNCHANGED vars
  BY <1>12 DEF vars, OutInv, Output, CutAndTerminated, Reached, maxlen
<1> QED
  BY <1>3, <1>4, <1>5, <1>6, <1>7, <1>8, <1>9, <1>10, <1>11, <1>12 DEF Next

(* snprintf_ and vsnprintf_ store the first count - 1 characters of a text *)
(* that does not fit and terminate what they store; no other byte, inside  *)
(* or outside of the buffer, is touched, for every format, every size,     *)
(* zero included, and every list of arguments that fits the format.  For   *)
(* sprintf_, which is told no size, so it is if the text fits the buffer.  *)
THEOREM CutAndTerminatedHolds == Spec /\ []ArgumentsFit => []CutAndTerminated
<1>1. Init => OutInv
  BY OutInit
<1>2. ParseInv /\ OutInv /\ ArgumentsFit /\ [Next]_vars => OutInv'
  BY OutNext
<1>3. OutInv => CutAndTerminated
  BY DEF OutInv
<1> QED
  BY <1>1, <1>2, <1>3, Parses, PTL DEF Spec

-----------------------------------------------------------------------------
(* Integers as the C standard has them *)

(* The parts of an integer's text: sign, zeros of the precision and digits *)
(* (Precise), zeros of the field, spaces.                                  *)
SignOf(negative, fl) ==
  IF negative THEN <<"-">> ELSE IF "PLUS" \in fl THEN <<"+">>
  ELSE IF "SPACE" \in fl THEN <<" ">> ELSE <<>>
ZeroField(fl) == "ZEROPAD" \in fl /\ "LEFT" \notin fl
Precise(d, prec, fl) == IF "LEFT" \in fl THEN d ELSE Repeat("0", prec - Len(d)) \o d
FieldZeros(n, fl) == IF ZeroField(fl) THEN Repeat("0", n) ELSE <<>>
Target(prec, sw, fl) == Max({prec, IF "ZEROPAD" \in fl THEN sw ELSE 0})
Filled(d, target, fl) ==
  IF "LEFT" \in fl THEN d ELSE ZeroFill(d, target, NtoaBuffer)
ZerosAndDigits(d, prec, sw, fl) ==
  FieldZeros(sw - Len(Precise(d, prec, fl)), fl) \o Precise(d, prec, fl)
Padded(t, w, fl) == IF "LEFT" \in fl THEN t \o Repeat(" ", w - Len(t))
                    ELSE Repeat(" ", w - Len(t)) \o t

CText(before, p, w, fl) ==
  Padded((before \o FieldZeros(w - Len(p) - Len(before), fl)) \o p, w, fl)

(* The sign is one character or none. *)
LEMMA SignOfText ==
  ASSUME NEW negative \in BOOLEAN, NEW fl
  PROVE  /\ SignOf(negative, fl) \in Text
         /\ Len(SignOf(negative, fl)) = IF Signs(negative, fl) THEN 1 ELSE 0
<1>1. "-" \in Char /\ "+" \in Char /\ " " \in Char
  BY CharIs
<1>2. /\ <<"-">> \in Text /\ Len(<<"-">>) = 1 /\ <<"+">> \in Text /\ Len(<<"+">>) = 1
      /\ <<" ">> \in Text /\ Len(<<" ">>) = 1
  BY <1>1, Single
<1>3. CASE negative
  BY <1>2, <1>3 DEF SignOf, Signs
<1>4. CASE ~negative /\ "PLUS" \in fl
  BY <1>2, <1>4 DEF SignOf, Signs
<1>5. CASE ~negative /\ "PLUS" \notin fl /\ "SPACE" \in fl
  BY <1>2, <1>5 DEF SignOf, Signs
<1>6. CASE ~negative /\ "PLUS" \notin fl /\ "SPACE" \notin fl
  <2>1. ~Signs(negative, fl) /\ SignOf(negative, fl) = <<>>
    BY <1>6 DEF SignOf, Signs
  <2> QED
    BY <2>1, EmptyText
<1> QED
  BY <1>3, <1>4, <1>5, <1>6

(* Rows of zeros and rows of spaces. *)
LEMMA Rows ==
  ASSUME NEW n \in Int
  PROVE  /\ Repeat("0", n) \in Text /\ Repeat(" ", n) \in Text
         /\ Len(Repeat("0", n)) = IF n > 0 THEN n ELSE 0
         /\ Len(Repeat(" ", n)) = IF n > 0 THEN n ELSE 0
         /\ n <= 0 => Repeat("0", n) = <<>> /\ Repeat(" ", n) = <<>>
<1>1. "0" \in Char /\ " " \in Char
  BY CharIs
<1> QED
  BY <1>1, Repeats

(* The sign goes in front if there is room. *)
LEMMA SignIs ==
  ASSUME NEW t \in Text, NEW negative \in BOOLEAN, NEW fl, NEW n \in Nat,
         Len(SignOf(negative, fl)) + Len(t) <= n
  PROVE  Sign(t, negative, fl, n) = SignOf(negative, fl) \o t
<1>0. Len(t) \in Nat
  BY DEF Text
<1>1. CASE Signs(negative, fl)
  <2>1. Len(SignOf(negative, fl)) = 1
    BY <1>1, SignOfText
  <2>2. Len(t) < n
    BY <1>0, <2>1
  <2> QED
    BY <1>1, <2>2 DEF Sign, SignOf, Signs, Put
<1>2. CASE ~Signs(negative, fl)
  <2>1. SignOf(negative, fl) = <<>> /\ Sign(t, negative, fl, n) = t
    BY <1>2 DEF Sign, SignOf, Signs
  <2> QED
    BY <2>1, ConcatEmptySeq DEF Text
<1> QED
  BY <1>1, <1>2

(* The zeros of the precision make up for missing digits. *)
LEMMA PreciseText ==
  ASSUME NEW d \in Text, NEW prec \in Nat, NEW fl
  PROVE  /\ Precise(d, prec, fl) \in Text
         /\ Len(Precise(d, prec, fl)) =
              IF "LEFT" \notin fl /\ prec > Len(d) THEN prec ELSE Len(d)
         /\ prec = 0 => Precise(d, prec, fl) = d
<1>1. PICK l \in Nat : l = Len(d)
  BY DEF Text
<1>a. PICK n \in Int : n = prec - l
  OBVIOUS
<1>b. PICK z : z = Repeat("0", n)
  OBVIOUS
<1>2. z \in Text /\ Len(z) = (IF n > 0 THEN n ELSE 0) /\ (n <= 0 => z = <<>>)
  BY <1>b, Rows
<1>c. Len(z) \in Nat
  BY <1>2 DEF Text
<1>3. PICK lz \in Nat : lz = Len(z) /\ lz = IF n > 0 THEN n ELSE 0
  BY <1>2, <1>c
<1>d. PICK r : r = z \o d
  OBVIOUS
<1>e. r \in Text /\ Len(r) = Len(z) + Len(d)
  BY <1>2, <1>d, Joined
<1>4. r \in Text /\ r = z \o d /\ Len(r) = lz + l
  BY <1>1, <1>3, <1>d, <1>e
<1>5. <<>> \o d = d
  BY ConcatEmptySeq DEF Text
<1>6. prec = 0 => r = d
  <2>1. prec = 0 => z = <<>>
    BY <1>a, <1>2
  <2> QED
    BY <1>4, <1>5, <2>1, Zenon
<1>7. CASE "LEFT" \in fl
  <2>1. Precise(d, prec, fl) = d
    BY <1>7 DEF Precise
  <2> QED
    BY <1>7, <2>1
<1>8. CASE "LEFT" \notin fl
  <2>1. Precise(d, prec, fl) = r
    BY <1>1, <1>a, <1>b, <1>4, <1>8 DEF Precise
  <2>2. Len(r) = IF prec > l THEN prec ELSE l
    BY <1>a, <1>3, <1>4
  <2> QED
    BY <1>1, <1>4, <1>6, <1>8, <2>1, <2>2
<1> QED
  BY <1>7, <1>8

(* The zeros of the field. *)
LEMMA FieldZerosText ==
  ASSUME NEW n \in Int, NEW fl
  PROVE  /\ FieldZeros(n, fl) \in Text
         /\ Len(FieldZeros(n, fl)) = IF ZeroField(fl) /\ n > 0 THEN n ELSE 0
         /\ ~ZeroField(fl) \/ n <= 0 => FieldZeros(n, fl) = <<>>
<1>1. CASE ZeroField(fl)
  BY <1>1, Rows DEF FieldZeros
<1>2. CASE ~ZeroField(fl)
  BY <1>2, EmptyText DEF FieldZeros
<1> QED
  BY <1>1, <1>2

(* The digits with the zeros of the precision and of the field. *)
LEMMA FilledIs ==
  ASSUME NEW d \in Text, NEW prec \in Nat, NEW sw \in Nat, NEW fl,
         ZeroField(fl) => prec = 0 /\ sw <= NtoaBuffer,
         Len(Precise(d, prec, fl)) <= NtoaBuffer
  PROVE  Filled(d, Target(prec, sw, fl), fl) = ZerosAndDigits(d, prec, sw, fl)
<1>p. PICK p : p = Precise(d, prec, fl)
  OBVIOUS
<1>z. ZerosAndDigits(d, prec, sw, fl) = FieldZeros(sw - Len(p), fl) \o p
  BY <1>p DEF ZerosAndDigits
<1>t. PICK target : target = Target(prec, sw, fl)
  OBVIOUS
<1>0. Len(d) \in Nat /\ NtoaBuffer \in Nat
  BY Sizes DEF Text
<1>b. /\ p \in Text
      /\ Len(p) = IF "LEFT" \notin fl /\ prec > Len(d) THEN prec ELSE Len(d)
      /\ prec = 0 => p = d
  BY <1>p, PreciseText
<1>1. p \in Text /\ p = Precise(d, prec, fl)
  BY <1>p, <1>b
<1>2. <<>> \o p = p
  BY ConcatEmptySeq DEF Text
<1>3. CASE "LEFT" \in fl
  <2>1. p = d /\ FieldZeros(sw - Len(p), fl) = <<>>
    BY <1>1, <1>3 DEF Precise, FieldZeros, ZeroField
  <2> QED
    BY <1>z, <1>t, <1>1, <1>2, <1>3, <2>1 DEF Filled
<1>4. CASE "LEFT" \notin fl /\ "ZEROPAD" \in fl
  <2>1. prec = 0 /\ p = d /\ sw <= NtoaBuffer
    BY <1>b, <1>4 DEF ZeroField
  <2>2. target = sw
    BY <1>z, <1>t, <1>4, <2>1, MaxOfTwo DEF Target
  <2>3. Min({sw, NtoaBuffer}) = sw
    BY <1>0, <2>1, MinOfTwo
  <2>4. ZeroFill(d, target, NtoaBuffer) = Repeat("0", sw - Len(d)) \o d
    BY <2>2, <2>3 DEF ZeroFill
  <2> QED
    BY <1>z, <1>t, <1>1, <1>4, <2>1, <2>4 DEF FieldZeros, ZeroField, Filled
<1>5. CASE "LEFT" \notin fl /\ "ZEROPAD" \notin fl
  <2>1. target = prec
    BY <1>z, <1>t, <1>5, MaxOfTwo DEF Target
  <2>2. prec <= NtoaBuffer
    <3>1. PICK l \in Nat, lp \in Nat : l = Len(d) /\ lp = Len(p)
      BY <1>0, <1>1 DEF Text
    <3>2. lp = IF prec > l THEN prec ELSE l
      BY <1>b, <1>5, <3>1
    <3>3. lp <= NtoaBuffer
      BY <1>1, <3>1
    <3> QED
      BY <1>0, <3>2, <3>3
  <2>3. Min({prec, NtoaBuffer}) = prec
    BY <1>0, <2>2, MinOfTwo
  <2>4. ZeroFill(d, target, NtoaBuffer) = p
    BY <1>1, <1>5, <2>1, <2>3 DEF ZeroFill, Precise
  <2>5. FieldZeros(sw - Len(p), fl) = <<>>
    BY <1>5 DEF FieldZeros, ZeroField
  <2> QED
    BY <1>z, <1>t, <1>1, <1>2, <1>5, <2>4, <2>5 DEF Filled
<1> QED
  BY <1>3, <1>4, <1>5

(* The spaces are those of the C standard, if zeros left none to fill. *)
LEMMA PaddedIs ==
  ASSUME NEW t \in Text, NEW w \in Nat, NEW sw \in Nat, NEW fl,
         ZeroField(fl) => w <= Len(t), ~ZeroField(fl) => sw = w
  PROVE  out_rev(t, sw, fl) = Padded(t, w, fl)
<1>0. Len(t) \in Nat
  BY DEF Text
<1>1. CASE ZeroField(fl)
  <2>1. w - Len(t) \in Int /\ w - Len(t) <= 0
    BY <1>0, <1>1
  <2>2. Repeat(" ", w - Len(t)) = <<>>
    BY <2>1, Rows
  <2>3. <<>> \o t = t
    BY ConcatEmptySeq DEF Text
  <2> QED
    BY <1>1, <2>2, <2>3 DEF ZeroField, out_rev, Padded
<1>2. CASE ~ZeroField(fl)
  BY <1>2 DEF ZeroField, out_rev, Padded
<1> QED
  BY <1>1, <1>2

(* A number without prefix. *)
LEMMA PlainFormat ==
  ASSUME NEW d \in Text, NEW negative \in BOOLEAN, NEW base, NEW prec \in Nat,
         NEW w \in Nat, NEW fl, "HASH" \notin fl,
         ZeroField(fl) => prec = 0 /\ w <= NtoaBuffer,
         NEW s, s = SignOf(negative, fl), NEW p, p = Precise(d, prec, fl),
         Len(s) + Len(p) <= NtoaBuffer
  PROVE  ntoa_format(d, negative, base, prec, w, fl)
           = CText(s, p, w, fl)
<1>0. NtoaBuffer \in Nat
  BY Sizes
<1>s. s \in Text /\ Len(s) = IF Signs(negative, fl) THEN 1 ELSE 0
  BY SignOfText
<1>p. p \in Text
  BY PreciseText
<1>1. s \in Text /\ Len(s) \in Nat /\ p \in Text /\ Len(p) \in Nat
  BY <1>s, <1>p DEF Text
<1>2. PICK ls \in Nat, lp \in Nat : ls = Len(s) /\ lp = Len(p)
  BY <1>1
<1>x. /\ ls = IF Signs(negative, fl) THEN 1 ELSE 0
      /\ ls + lp <= NtoaBuffer
  BY <1>2, <1>s
<1>3. PICK sw \in Nat : /\ sw = SignWidth(w, negative, fl)
                       /\ sw = IF w > 0 /\ ZeroField(fl) /\ Signs(negative, fl)
                               THEN w - 1 ELSE w
  BY SignWidthInt DEF ZeroField
<1>4. PICK target : target = Target(prec, sw, fl)
  OBVIOUS
<1>5. PICK z \in Text : /\ z = FieldZeros(sw - lp, fl)
                       /\ Len(z) = IF ZeroField(fl) /\ sw - lp > 0 THEN sw - lp ELSE 0
  BY FieldZerosText
<1>6. FieldZeros(w - lp - ls, fl) = z
  <2>1. CASE ZeroField(fl) /\ Signs(negative, fl) /\ w = 0
    <3>1. sw - lp <= 0 /\ w - lp - ls <= 0 /\ sw - lp \in Int /\ w - lp - ls \in Int
      BY <1>3, <2>1
    <3> QED
      BY <1>5, <3>1, FieldZerosText
  <2>2. CASE ZeroField(fl) /\ ~(Signs(negative, fl) /\ w = 0)
    <3>1. sw - lp = w - lp - ls
      BY <1>x, <1>3, <2>2
    <3> QED
      BY <1>5, <3>1
  <2>3. CASE ~ZeroField(fl)
    BY <1>5, <2>3 DEF FieldZeros
  <2> QED
    BY <2>1, <2>2, <2>3
<1>7. PICK filled : filled = z \o p
  OBVIOUS
<1>8. filled \in Text /\ Len(filled) = Len(z) + lp
  BY <1>1, <1>2, <1>7, Joined
<1>9. Filled(d, target, fl) = filled
  <2>1. ZeroField(fl) => prec = 0 /\ sw <= NtoaBuffer
    BY <1>0, <1>3
  <2>2. Len(p) <= NtoaBuffer
    BY <1>0, <1>2, <1>x
  <2>3. z = FieldZeros(sw - Len(p), fl)
    BY <1>2, <1>5
  <2>4. Filled(d, Target(prec, sw, fl), fl) = ZerosAndDigits(d, prec, sw, fl)
    BY <2>1, <2>2, FilledIs
  <2> QED
    BY <1>4, <1>7, <2>3, <2>4 DEF ZerosAndDigits
<1>10. Prefix(filled, base, prec, sw, fl) = filled
  BY DEF Prefix
<1>y. PICK lz \in Nat : lz = Len(z) /\ lz = IF ZeroField(fl) /\ sw - lp > 0 THEN sw - lp ELSE 0
  BY <1>5
<1>z. PICK lf \in Nat : lf = Len(filled) /\ lf = lz + lp
  BY <1>8, <1>y
<1>11. ls + lf <= NtoaBuffer
  <2>1. CASE ZeroField(fl) /\ sw - lp > 0
    <3>1. w <= NtoaBuffer /\ ls + sw <= NtoaBuffer
      BY <1>0, <1>x, <1>3, <2>1
    <3> QED
      BY <1>0, <1>y, <1>z, <2>1, <3>1
  <2>2. CASE ~(ZeroField(fl) /\ sw - lp > 0)
    BY <1>0, <1>x, <1>y, <1>z, <2>2
  <2> QED
    BY <2>1, <2>2
<1>12. Sign(filled, negative, fl, NtoaBuffer) = s \o filled
  <2>1. Len(SignOf(negative, fl)) + Len(filled) <= NtoaBuffer
    BY <1>2, <1>z, <1>11
  <2> QED
    BY <1>0, <1>8, <2>1, SignIs
<1>13. PICK t : t = s \o filled
  OBVIOUS
<1>14. t \in Text /\ Len(t) = Len(s) + Len(filled)
  BY <1>1, <1>8, <1>13, Joined
<1>u. PICK lt \in Nat : lt = Len(t) /\ lt = ls + lf
  <2>1. Len(t) = ls + lf
    BY <1>2, <1>z, <1>14
  <2>2. ls + lf \in Nat
    OBVIOUS
  <2> QED
    BY <2>1, <2>2
<1>15. ntoa_format(d, negative, base, prec, w, fl) = out_rev(t, sw, fl)
  BY <1>3, <1>4, <1>9, <1>10, <1>12, <1>13 DEF ntoa_format, Filled, Target
<1>16. (ZeroField(fl) => w <= lt) /\ (~ZeroField(fl) => sw = w)
  BY <1>x, <1>3, <1>y, <1>z, <1>u
<1>17. out_rev(t, sw, fl) = Padded(t, w, fl)
  BY <1>14, <1>16, <1>u, PaddedIs
<1>18. t = (s \o z) \o p
  <2>1. s \in Seq(Char) /\ z \in Seq(Char) /\ p \in Seq(Char)
    BY <1>1, <1>5 DEF Text
  <2>2. s \o (z \o p) = (s \o z) \o p
    BY <2>1, ConcatAssociative
  <2> QED
    BY <1>7, <1>13, <2>2
<1> QED
  BY <1>2, <1>6, <1>15, <1>17, <1>18 DEF CText

(* What the hash flag puts in front of a number. *)
Letter(base, fl) ==
  IF base = 16 THEN IF "UPPERCASE" \in fl THEN <<"X">> ELSE <<"x">>
  ELSE IF base = 2 THEN <<"b">> ELSE <<>>
HashMark(base, fl) == <<"0">> \o Letter(base, fl)
Marked(t, base, fl) == HashMark(base, fl) \o t

(* The prefix has one or two characters. *)
LEMMA HashMarkText ==
  ASSUME NEW base \in {2, 8, 16}, NEW fl
  PROVE  /\ Letter(base, fl) \in Text /\ HashMark(base, fl) \in Text
         /\ Len(Letter(base, fl)) = IF base = 8 THEN 0 ELSE 1
         /\ Len(HashMark(base, fl)) = IF base = 8 THEN 1 ELSE 2
<1>1. "0" \in Char /\ "X" \in Char /\ "x" \in Char /\ "b" \in Char
  BY CharIs
<1>2. /\ <<"0">> \in Text /\ Len(<<"0">>) = 1 /\ <<"X">> \in Text /\ Len(<<"X">>) = 1
      /\ <<"x">> \in Text /\ Len(<<"x">>) = 1 /\ <<"b">> \in Text /\ Len(<<"b">>) = 1
  BY <1>1, Single
<1>3. Letter(base, fl) \in Text /\ Len(Letter(base, fl)) = IF base = 8 THEN 0 ELSE 1
  <2>1. CASE base = 16 /\ "UPPERCASE" \in fl
    BY <1>2, <2>1 DEF Letter
  <2>2. CASE base = 16 /\ "UPPERCASE" \notin fl
    BY <1>2, <2>2 DEF Letter
  <2>3. CASE base = 2
    BY <1>2, <2>3 DEF Letter
  <2>4. CASE base = 8
    <3>1. Letter(base, fl) = <<>>
      BY <2>4 DEF Letter
    <3> QED
      BY <2>4, <3>1, EmptyText
  <2> QED
    BY <2>1, <2>2, <2>3, <2>4
<1>4. PICK l : l = Letter(base, fl)
  OBVIOUS
<1>5. PICK z : z = <<"0">>
  OBVIOUS
<1>6. PICK m : m = z \o l
  OBVIOUS
<1>7. m \in Text /\ Len(m) = Len(z) + Len(l)
  BY <1>2, <1>3, <1>4, <1>5, <1>6, Joined
<1>8. Len(z) = 1 /\ Len(l) = IF base = 8 THEN 0 ELSE 1
  BY <1>2, <1>3, <1>4, <1>5
<1>9. Len(m) = IF base = 8 THEN 1 ELSE 2
  BY <1>7, <1>8
<1>10. HashMark(base, fl) = m
  BY <1>4, <1>5, <1>6 DEF HashMark
<1> QED
  BY <1>3, <1>7, <1>9, <1>10

(* The prefix goes in front if there is room. *)
LEMMA MarkedIs ==
  ASSUME NEW t \in Text, NEW base \in {2, 8, 16}, NEW fl,
         Len(HashMark(base, fl)) + Len(t) <= NtoaBuffer
  PROVE  Put("0", PutLetter(t, base, fl), NtoaBuffer) = Marked(t, base, fl)
<1>0. NtoaBuffer \in Nat
  BY Sizes
<1>1. PICK n \in Nat : n = Len(t)
  BY DEF Text
<1>2. PICK l : l = Letter(base, fl)
  OBVIOUS
<1>3. l \in Text /\ Len(l) = IF base = 8 THEN 0 ELSE 1
  BY <1>2, HashMarkText
<1>a. PICK m : m = Len(HashMark(base, fl))
  OBVIOUS
<1>b. m = IF base = 8 THEN 1 ELSE 2
  BY <1>a, HashMarkText
<1>m. m \in Nat /\ m = Len(HashMark(base, fl)) /\ m = IF base = 8 THEN 1 ELSE 2
  BY <1>a, <1>b
<1>4. n + (IF base = 8 THEN 1 ELSE 2) <= NtoaBuffer
  BY <1>0, <1>1, <1>m
<1>5. PICK u : u = l \o t
  OBVIOUS
<1>6. PutLetter(t, base, fl) = u
  <2>1. CASE base = 8
    <3>1. l = <<>> /\ PutLetter(t, base, fl) = t
      BY <1>2, <2>1 DEF Letter, PutLetter
    <3>2. <<>> \o t = t
      BY ConcatEmptySeq DEF Text
    <3> QED
      BY <1>5, <3>1, <3>2, Zenon
  <2>2. CASE base # 8
    <3>1. Len(t) < NtoaBuffer
      BY <1>0, <1>1, <1>4, <2>2
    <3>2. CASE base = 16 /\ "UPPERCASE" \in fl
      BY <1>2, <1>5, <3>1, <3>2 DEF Letter, PutLetter, Put
    <3>3. CASE base = 16 /\ "UPPERCASE" \notin fl
      BY <1>2, <1>5, <3>1, <3>3 DEF Letter, PutLetter, Put
    <3>4. CASE base = 2
      BY <1>2, <1>5, <3>1, <3>4 DEF Letter, PutLetter, Put
    <3> QED
      BY <2>2, <3>2, <3>3, <3>4
  <2> QED
    BY <2>1, <2>2
<1>7. u \in Text /\ Len(u) = Len(l) + Len(t)
  BY <1>3, <1>5, Joined
<1>8. Len(u) < NtoaBuffer
  BY <1>0, <1>1, <1>3, <1>4, <1>7
<1>9. Put("0", u, NtoaBuffer) = <<"0">> \o u
  BY <1>8 DEF Put
<1>10. PICK z \in Text : z = <<"0">>
  BY CharIs, Single
<1>11. z \o (l \o t) = (z \o l) \o t
  <2>1. z \in Seq(Char) /\ l \in Seq(Char) /\ t \in Seq(Char)
    BY <1>3, <1>10 DEF Text
  <2> QED
    BY <2>1, ConcatAssociative
<1>12. Marked(t, base, fl) = (z \o l) \o t
  BY <1>2, <1>10 DEF Marked, HashMark
<1> QED
  BY <1>5, <1>6, <1>9, <1>10, <1>11, <1>12

(* The first k zeros taken away. *)
LEMMA Stripped ==
  ASSUME NEW d \in Text, NEW n \in Nat, NEW k \in 0 .. n
  PROVE  SubSeq(Repeat("0", n) \o d, k + 1, n + Len(d)) = Repeat("0", n - k) \o d
<1>1. PICK l \in Nat : l = Len(d)
  BY DEF Text
<1>2. PICK z : z = Repeat("0", n)
  OBVIOUS
<1>3. PICK y : y = Repeat("0", n - k)
  OBVIOUS
<1>c. "0" \in Char
  BY CharIs
<1>4. "0" \in Char /\ n - k \in Nat /\ n - k \in Int /\ n \in Int
  BY <1>c
<1>5. z \in Text /\ Len(z) = n /\ \A i \in 1 .. n : z[i] = "0"
  BY <1>2, <1>4, Repeats
<1>6. y \in Text /\ Len(y) = n - k /\ \A i \in 1 .. n - k : y[i] = "0"
  BY <1>3, <1>4, Repeats
<1>7. PICK a : a = z \o d
  OBVIOUS
<1>8. PICK b : b = y \o d
  OBVIOUS
<1>9. /\ a \in Text /\ Len(a) = n + l /\ \A i \in 1 .. n : a[i] = "0"
      /\ \A i \in 1 .. l : a[n + i] = d[i]
  <2>1. /\ a \in Text /\ Len(a) = Len(z) + Len(d) /\ \A i \in 1 .. Len(z) : a[i] = z[i]
        /\ \A i \in 1 .. Len(d) : a[Len(z) + i] = d[i]
    BY <1>5, <1>7, Joined
  <2> QED
    BY <1>1, <1>5, <2>1
<1>10. /\ b \in Text /\ Len(b) = n - k + l /\ \A i \in 1 .. n - k : b[i] = "0"
       /\ \A i \in 1 .. l : b[n - k + i] = d[i]
  <2>1. /\ b \in Text /\ Len(b) = Len(y) + Len(d) /\ \A i \in 1 .. Len(y) : b[i] = y[i]
        /\ \A i \in 1 .. Len(d) : b[Len(y) + i] = d[i]
    BY <1>6, <1>8, Joined
  <2> QED
    BY <1>1, <1>6, <2>1
<1>11. PICK c : c = SubSeq(a, k + 1, n + l)
  OBVIOUS
<1>12. /\ c \in Seq(Char) /\ Len(c) = n + l - k
       /\ \A i \in 1 .. n + l - k : c[i] = a[k + i]
  <2>1. a \in Seq(Char) /\ k + 1 \in 1 .. Len(a) + 1 /\ n + l \in k .. Len(a)
    BY <1>9 DEF Text
  <2> QED
    BY <1>11, <2>1, SubSeqProperties
<1>13. \A i \in 1 .. n + l - k : c[i] = b[i]
  <2> SUFFICES ASSUME NEW i \in 1 .. n + l - k
               PROVE  c[i] = b[i]
    OBVIOUS
  <2>1. CASE i <= n - k
    BY <1>9, <1>10, <1>12, <2>1
  <2>2. CASE i > n - k
    <3>1. PICK j \in 1 .. l : i = n - k + j
      BY <2>2
    <3>2. c[i] = a[n + j]
      BY <1>12, <3>1
    <3> QED
      BY <1>9, <1>10, <3>1, <3>2
  <2> QED
    BY <2>1, <2>2
<1>14. c = b
  <2>1. c \in Seq(Char) /\ b \in Seq(Char) /\ Len(c) = Len(b)
    BY <1>10, <1>12 DEF Text
  <2>2. \A i \in 1 .. Len(c) : c[i] = b[i]
    BY <1>12, <1>13
  <2> QED
    BY <2>1, <2>2, SeqEqual
<1> QED
  BY <1>1, <1>2, <1>3, <1>7, <1>8, <1>11, <1>14

(* Texts can be joined in any order of steps. *)
LEMMA Regroup ==
  ASSUME NEW a \in Text, NEW b \in Text, NEW c \in Text
  PROVE  a \o (b \o c) = (a \o b) \o c
<1>1. a \in Seq(Char) /\ b \in Seq(Char) /\ c \in Seq(Char)
  BY DEF Text
<1> QED
  BY <1>1, ConcatAssociative

(* A number with prefix. *)
LEMMA HashFormat ==
  ASSUME NEW d \in Text, d # <<>>, NEW base \in {2, 8, 16}, NEW prec \in Nat,
         NEW w \in Nat, NEW fl, "HASH" \in fl, NEW negative \in BOOLEAN, ~negative,
         ~Signs(negative, fl),
         "PRECISION" \notin fl => prec = 0,
         ZeroField(fl) => /\ "PRECISION" \notin fl /\ w <= NtoaBuffer /\ base # 2,
         w - Len(Precise(d, prec, fl)) \notin 0 .. 1,
         Len(HashMark(base, fl)) + Len(Precise(d, prec, fl)) <= NtoaBuffer
  PROVE  ntoa_format(d, negative, base, prec, w, fl)
           = CText(HashMark(base, fl), Precise(d, prec, fl), w, fl)
<1>e. PICK m, p : m = HashMark(base, fl) /\ p = Precise(d, prec, fl)
  OBVIOUS
<1>0. NtoaBuffer \in Nat
  BY Sizes
<1>m. m \in Text /\ Len(m) = IF base = 8 THEN 1 ELSE 2
  BY <1>e, HashMarkText
<1>p. p \in Text /\ (prec = 0 => p = d)
  BY <1>e, PreciseText
<1>1. m \in Text /\ Len(m) \in Nat /\ p \in Text /\ Len(p) \in Nat
  BY <1>m, <1>p DEF Text
<1>2. PICK lm \in Nat, lp \in Nat : lm = Len(m) /\ lp = Len(p)
  BY <1>1
<1>x. /\ lm = IF base = 8 THEN 1 ELSE 2
      /\ lm + lp <= NtoaBuffer /\ w - lp \notin 0 .. 1
  BY <1>e, <1>2, <1>m
<1>3. SignWidth(w, negative, fl) = w
  BY SignWidthInt
<1>5. PICK n \in Nat : n = IF ZeroField(fl) /\ w > lp THEN w - lp ELSE 0
  <2>1. CASE ZeroField(fl) /\ w > lp
    <3>1. w - lp \in Nat
      BY <2>1
    <3> QED
      BY <2>1, <3>1
  <2>2. CASE ~(ZeroField(fl) /\ w > lp)
    BY <2>2
  <2> QED
    BY <2>1, <2>2
<1>6. PICK k \in 0 .. n : k = IF n = 0 THEN 0 ELSE lm
  BY <1>x, <1>5
<1>y. n > 0 => base # 2 /\ p = d /\ "PRECISION" \notin fl /\ n + lp = w
  BY <1>p, <1>5
<1>7. PICK z : z = Repeat("0", n)
  OBVIOUS
<1>8. z \in Text /\ Len(z) = n /\ (n = 0 => z = <<>>)
  <2>1. n \in Int /\ n >= 0
    OBVIOUS
  <2>3. /\ Repeat("0", n) \in Text /\ Len(Repeat("0", n)) = (IF n > 0 THEN n ELSE 0)
        /\ (n <= 0 => Repeat("0", n) = <<>>)
    BY <2>1, Rows
  <2> QED
    BY <1>7, <2>1, <2>3
<1>9. FieldZeros(w - lp, fl) = z
  <2>1. CASE ZeroField(fl) /\ w > lp
    BY <1>5, <1>7, <2>1 DEF FieldZeros
  <2>2. CASE ~(ZeroField(fl) /\ w > lp)
    <3>1. w - lp \in Int /\ (~ZeroField(fl) \/ w - lp <= 0) /\ n = 0
      BY <1>5, <2>2
    <3> QED
      BY <1>8, <3>1, FieldZerosText
  <2> QED
    BY <2>1, <2>2
<1>10. PICK filled : filled = z \o p
  OBVIOUS
<1>11. filled \in Text /\ Len(filled) = Len(z) + Len(p)
  BY <1>1, <1>8, <1>10, Joined
<1>12. PICK lf \in Nat : lf = Len(filled) /\ lf = n + lp
  <2>1. Len(filled) = n + lp /\ n + lp \in Nat
    BY <1>2, <1>8, <1>11
  <2> QED
    BY <2>1
<1>13. Filled(d, Target(prec, w, fl), fl) = filled
  <2>1. ZeroField(fl) => prec = 0 /\ w <= NtoaBuffer
    OBVIOUS
  <2>2. Len(Precise(d, prec, fl)) <= NtoaBuffer
    BY <1>e, <1>0, <1>2, <1>x
  <2>3. Filled(d, Target(prec, w, fl), fl) = ZerosAndDigits(d, prec, w, fl)
    BY <2>1, <2>2, FilledIs
  <2> QED
    BY <1>e, <1>2, <1>9, <1>10, <2>3 DEF ZerosAndDigits
<1>14. PICK y : y = Repeat("0", n - k)
  OBVIOUS
<1>15. y \in Text /\ Len(y) = n - k /\ (n - k = 0 => y = <<>>)
  <2>1. n - k \in Int /\ n - k >= 0
    OBVIOUS
  <2>2. PICK j \in Int : j = n - k /\ j >= 0
    BY <2>1
  <2>3. /\ Repeat("0", j) \in Text /\ Len(Repeat("0", j)) = (IF j > 0 THEN j ELSE 0)
        /\ (j <= 0 => Repeat("0", j) = <<>>)
    BY Rows
  <2> QED
    BY <1>14, <2>2, <2>3
<1>16. PICK room : room = y \o p
  OBVIOUS
<1>17. room \in Text /\ Len(room) = Len(y) + Len(p)
  BY <1>1, <1>15, <1>16, Joined
<1>18. PICK lr \in Nat : lr = Len(room) /\ lr = n - k + lp
  <2>1. Len(room) = n - k + lp /\ n - k + lp \in Nat
    BY <1>2, <1>15, <1>17
  <2> QED
    BY <2>1
<1>19. PrefixRoom(filled, base, prec, w, fl) = room
  <2>1. CASE n = 0
    <3>1. z = <<>> /\ y = <<>>
      BY <1>6, <1>8, <1>15, <2>1
    <3>2. filled = room
      BY <1>10, <1>16, <3>1, Zenon
    <3>3. "PRECISION" \notin fl => lf # w
      BY <1>x, <1>12, <2>1
    <3>4. "PRECISION" \notin fl => lf # prec
      <4>1. "PRECISION" \notin fl => p = d /\ prec = 0
        BY <1>p
      <4>2. d # <<>> => Len(d) # 0
        BY EmptySeq DEF Text
      <4> QED
        BY <1>2, <1>12, <2>1, <4>1, <4>2
    <3> QED
      BY <1>12, <3>2, <3>3, <3>4 DEF PrefixRoom
  <2>2. CASE n > 0
    <3>1. k = lm /\ base \in {8, 16} /\ lf = w /\ lf > 0 /\ p = d /\ "PRECISION" \notin fl
      BY <1>6, <1>y, <1>12, <2>2
    <3>2. filled # <<>>
      <4>1. Len(filled) # 0
        BY <1>12, <3>1
      <4> QED
        BY <4>1, EmptyText
    <3>3. (IF base = 16 THEN 3 ELSE 2) = k + 1
      BY <1>x, <3>1
    <3>4. PrefixRoom(filled, base, prec, w, fl) = SubSeq(filled, k + 1, lf)
      BY <1>12, <3>1, <3>2, <3>3 DEF PrefixRoom
    <3>5. SubSeq(filled, k + 1, lf) = room
      <4>1. SubSeq(Repeat("0", n) \o p, k + 1, n + Len(p)) = Repeat("0", n - k) \o p
        BY <1>1, Stripped
      <4> QED
        BY <1>2, <1>7, <1>10, <1>12, <1>14, <1>16, <4>1
    <3> QED
      BY <3>4, <3>5
  <2> QED
    BY <2>1, <2>2
<1>20. lm + lr <= NtoaBuffer
  BY <1>0, <1>x, <1>5, <1>6, <1>18
<1>21. PICK t : t = m \o room
  OBVIOUS
<1>22. Prefix(filled, base, prec, w, fl) = t
  <2>1. Len(HashMark(base, fl)) + Len(room) <= NtoaBuffer
    BY <1>e, <1>2, <1>18, <1>20
  <2>2. Put("0", PutLetter(room, base, fl), NtoaBuffer) = Marked(room, base, fl)
    BY <1>17, <2>1, MarkedIs
  <2>3. Marked(room, base, fl) = t
    BY <1>e, <1>21 DEF Marked
  <2> QED
    BY <1>19, <2>2, <2>3 DEF Prefix
<1>23. t \in Text /\ Len(t) = Len(m) + Len(room)
  BY <1>1, <1>17, <1>21, Joined
<1>24. PICK lt \in Nat : lt = Len(t) /\ lt = lm + lr
  <2>0. Len(t) = lm + lr
    BY <1>2, <1>18, <1>23
  <2>1. Len(t) = lm + lr /\ lm + lr \in Nat
    BY <2>0
  <2> QED
    BY <2>1
<1>25. Sign(t, negative, fl, NtoaBuffer) = t
  BY DEF Sign, Signs
<1>26. ntoa_format(d, negative, base, prec, w, fl) = out_rev(t, w, fl)
  BY <1>3, <1>13, <1>22, <1>25 DEF ntoa_format, Filled, Target
<1>27. ZeroField(fl) => w <= lt
  BY <1>5, <1>6, <1>x, <1>18, <1>24
<1>28. out_rev(t, w, fl) = Padded(t, w, fl)
  BY <1>23, <1>24, <1>27, PaddedIs
<1>29. FieldZeros(w - lp - lm, fl) = y
  <2>1. CASE n > 0
    <3>1. ZeroField(fl) /\ w - lp - lm = n - k
      BY <1>5, <1>6, <2>1
    <3> QED
      BY <1>14, <3>1 DEF FieldZeros
  <2>2. CASE n = 0
    <3>1. w - lp - lm \in Int /\ (~ZeroField(fl) \/ w - lp - lm <= 0) /\ y = <<>>
      BY <1>5, <1>6, <1>15, <2>2
    <3> QED
      BY <3>1, FieldZerosText
  <2> QED
    BY <2>1, <2>2
<1>30. t = (m \o y) \o p
  <2>2. m \o (y \o p) = (m \o y) \o p
    BY <1>1, <1>15, Regroup, Zenon
  <2> QED
    BY <1>16, <1>21, <2>2
<1> QED
  BY <1>e, <1>2, <1>26, <1>28, <1>29, <1>30 DEF CText

-----------------------------------------------------------------------------
(* The last conversion *)

(* The flags in front of a specifier. *)
PreFlags == {"ZEROPAD", "LEFT", "PLUS", "SPACE", "HASH", "PRECISION", "SHORT", "CHAR",
             "LONG", "LONG_LONG"}

(* What is kept of a conversion: its text is the one for its argument and  *)
(* for a directive that can be written in a format.                        *)
FieldIs(f) ==
  /\ f.spec \in Specs /\ Fits(f.spec, f.arg)
  /\ f.spec \in FixedSpecs \union ExpSpecs => f.exp \in Exponents(f.arg)
  /\ \E fl \in SUBSET PreFlags : f.flags = SpecFlags(f.spec, fl)
  /\ f.width \in Nat /\ f.precision \in Nat
  /\ "PRECISION" \notin f.flags => f.precision = 0
  /\ f.text = TextOf(f.spec, f.arg, f.exp, f.precision, f.width, f.flags)
FieldInv ==
  /\ flags \subseteq PreFlags /\ ("PRECISION" \notin flags => precision = 0)
  /\ field.spec = NUL \/ FieldIs(field)

(* What is left of the flags in an integer conversion. *)
LEMMA IntegerFlags ==
  ASSUME NEW spec \in IntegerSpecs, NEW pre \in SUBSET PreFlags,
         NEW fl, fl = SpecFlags(spec, pre)
  PROVE  /\ "ZEROPAD" \in fl => "PRECISION" \notin fl
         /\ "HASH" \in fl => /\ spec \in {"x", "X", "o", "b"}
                             /\ "PLUS" \notin fl /\ "SPACE" \notin fl
         /\ "UPPERCASE" \in fl <=> spec = "X"
<1>1. "UPPERCASE" \notin pre
  BY DEF PreFlags
<1>2. "ZEROPAD" \in fl => "PRECISION" \notin fl
  BY DEF SpecFlags, IntegerSpecs
<1>3. "HASH" \in fl => /\ spec \in {"x", "X", "o", "b"}
                       /\ "PLUS" \notin fl /\ "SPACE" \notin fl
  BY DEF SpecFlags, IntegerSpecs
<1>4. "UPPERCASE" \in fl <=> spec = "X"
  BY <1>1 DEF SpecFlags, IntegerSpecs
<1> QED
  BY <1>2, <1>3, <1>4

(* The flags that ntoa_format drops for a zero change nothing else. *)
LEMMA WithoutHash ==
  ASSUME NEW fl, NEW g, g = fl \ {"HASH"}
  PROVE  /\ \A negative \in BOOLEAN : SignOf(negative, g) = SignOf(negative, fl)
         /\ \A d, prec : Precise(d, prec, g) = Precise(d, prec, fl)
         /\ \A b, p, w : CText(b, p, w, g) = CText(b, p, w, fl)
         /\ ZeroField(g) <=> ZeroField(fl)
<1>1. /\ "PLUS" \in g <=> "PLUS" \in fl
      /\ "SPACE" \in g <=> "SPACE" \in fl
      /\ "LEFT" \in g <=> "LEFT" \in fl
      /\ "ZEROPAD" \in g <=> "ZEROPAD" \in fl
  OBVIOUS
<1>2. \A negative \in BOOLEAN : SignOf(negative, g) = SignOf(negative, fl)
  BY <1>1, Zenon DEF SignOf
<1>3. \A d, prec : Precise(d, prec, g) = Precise(d, prec, fl)
  BY <1>1, Zenon DEF Precise
<1>4. ZeroField(g) <=> ZeroField(fl)
  BY <1>1, Zenon DEF ZeroField
<1>5. \A n : FieldZeros(n, g) = FieldZeros(n, fl)
  BY <1>4, Zenon DEF FieldZeros
<1>6. \A t, w : Padded(t, w, g) = Padded(t, w, fl)
  BY <1>1, Zenon DEF Padded
<1>7. \A b, p, w : CText(b, p, w, g) = CText(b, p, w, fl)
  BY <1>5, <1>6, Zenon DEF CText
<1> QED
  BY <1>2, <1>3, <1>4, <1>7

DigitsPut(value, base, fl) ==
  IF "PRECISION" \in fl /\ value = 0 THEN <<>> ELSE DigitsOf(value, base, fl)

(* The digits and the zeros of the precision are those of the C standard. *)
LEMMA CDigitsIs ==
  ASSUME NEW f, NEW fl, fl = f.flags, NEW prec \in Nat, prec = f.precision,
         "PRECISION" \notin fl => prec = 0, ~PrecisionIgnored(f),
         NEW M \in Nat, M = Magnitude(f), NEW base \in Bases, base = Base(f.spec),
         NEW d, d = DigitsPut(M, base, fl)
  PROVE  CDigits(f) = Precise(d, prec, fl)
<1>a. PICK D : D = DigitsOf(M, base, fl)
  OBVIOUS
<1>b. d = IF "PRECISION" \in fl /\ M = 0 THEN <<>> ELSE D
  BY <1>a DEF DigitsPut
<1>1. D \in Text /\ Len(D) \in Nat
  BY <1>a, DigitsText DEF Text
<1>2. CASE "PRECISION" \notin fl
  <2>1. CDigits(f) = D /\ d = D /\ prec = 0
    BY <1>a, <1>b, <1>2 DEF CDigits
  <2>2. Precise(D, prec, fl) = D
    BY <1>1, <2>1, PreciseText
  <2> QED
    BY <2>1, <2>2
<1>3. CASE "PRECISION" \in fl /\ M # 0
  <2>1. "LEFT" \notin fl /\ d = D
    BY <1>b, <1>3 DEF PrecisionIgnored
  <2>2. CDigits(f) = Repeat("0", prec - Len(D)) \o D
    BY <1>a, <1>3 DEF CDigits
  <2> QED
    BY <2>1, <2>2 DEF Precise
<1>4. CASE "PRECISION" \in fl /\ M = 0
  <2>1. "LEFT" \notin fl /\ d = <<>>
    BY <1>b, <1>4 DEF PrecisionIgnored
  <2>2. PICK r : r = Repeat("0", prec)
    OBVIOUS
  <2>c. "0" \in Char
    BY CharIs
  <2>3. r \in Text /\ Len(r) = prec /\ (\A i \in 1 .. prec : r[i] = "0") /\ (prec = 0 => r = <<>>)
    BY <2>2, <2>c, Repeats
  <2>4. Precise(d, prec, fl) = r
    <3>1. Len(<<>>) = 0 /\ prec - 0 = prec
      OBVIOUS
    <3>2. r \o <<>> = r
      BY <2>3, ConcatEmptySeq DEF Text
    <3>3. Precise(d, prec, fl) = Repeat("0", prec - Len(<<>>)) \o <<>>
      BY <2>1 DEF Precise
    <3>4. Repeat("0", prec - Len(<<>>)) = r
      BY <2>2, <3>1
    <3> QED
      BY <3>2, <3>3, <3>4, Zenon
  <2>5. CASE prec = 0
    BY <1>4, <2>3, <2>4, <2>5 DEF CDigits
  <2>6. CASE prec # 0
    <3>1. D = <<"0">>
      <4>1. M < base
        BY <1>4 DEF Bases
      <4>2. DigitChar(M, fl) = "0"
        BY <1>4 DEF DigitChar
      <4> QED
        BY <1>a, <4>1, <4>2, DigitsText
    <3>2. CDigits(f) = Repeat("0", prec - Len(D)) \o D
      BY <1>a, <1>4, <2>6 DEF CDigits
    <3>3. Len(D) = 1
      BY <3>1
    <3>4. PICK q \in Nat : q = prec - 1
      BY <2>6
    <3>5. PICK z : z = Repeat("0", q)
      OBVIOUS
    <3>6. z \in Text /\ Len(z) = q /\ (\A i \in 1 .. q : z[i] = "0")
      BY <2>c, <3>5, Repeats
    <3>7. PICK y : y = z \o D
      OBVIOUS
    <3>8. /\ y \in Text /\ Len(y) = Len(z) + Len(D)
          /\ \A i \in 1 .. Len(z) : y[i] = z[i]
          /\ \A i \in 1 .. Len(D) : y[Len(z) + i] = D[i]
      <4>1. PICK one \in Text : one = D
        BY <1>1
      <4>2. /\ z \o one \in Text /\ Len(z \o one) = Len(z) + Len(one)
            /\ \A i \in 1 .. Len(z) : (z \o one)[i] = z[i]
            /\ \A i \in 1 .. Len(one) : (z \o one)[Len(z) + i] = one[i]
        BY <3>6, Joined
      <4> QED
        BY <3>7, <4>1, <4>2, Zenon
    <3>9. D[1] = "0"
      BY <3>1
    <3>10. Len(y) = prec /\ \A i \in 1 .. prec : y[i] = "0"
      <4>1. Len(y) = prec
        BY <3>3, <3>4, <3>6, <3>8
      <4>2. ASSUME NEW i \in 1 .. prec PROVE y[i] = "0"
        <5>1. CASE i <= q
          <6>1. i \in 1 .. q
            BY <5>1
          <6>2. y[i] = z[i] /\ z[i] = "0"
            BY <3>6, <3>8, <6>1
          <6> QED
            BY <6>2
        <5>2. CASE i > q
          <6>1. i = q + 1
            BY <3>4, <5>2
          <6>2. y[q + 1] = D[1]
            BY <3>3, <3>6, <3>8
          <6> QED
            BY <3>9, <6>1, <6>2
        <5> QED
          BY <3>4, <5>1, <5>2
      <4> QED
        BY <4>1, <4>2
    <3>11. y = r
      <4>1. y \in Seq(Char) /\ r \in Seq(Char) /\ Len(y) = Len(r)
        BY <2>3, <3>8, <3>10 DEF Text
      <4>2. \A i \in 1 .. Len(y) : y[i] = r[i]
        BY <2>3, <3>10
      <4> QED
        BY <4>1, <4>2, SeqEqual
    <3> QED
      BY <2>4, <3>2, <3>3, <3>4, <3>5, <3>7, <3>11
  <2> QED
    BY <2>5, <2>6
<1> QED
  BY <1>2, <1>3, <1>4

(* The sign, and the prefix in front of a number with the hash flag. *)
LEMMA CPrefixIs ==
  ASSUME NEW f, f.spec \in IntegerSpecs, NEW fl, fl = f.flags, NEW v \in Int, v = Value(f)
  PROVE  /\ "HASH" \notin fl \/ v = 0 => CPrefix(f) = SignOf(v < 0, fl)
         /\ /\ "HASH" \in fl /\ v # 0 /\ f.spec \in {"x", "X", "o", "b"}
            /\ "UPPERCASE" \in fl <=> f.spec = "X"
            /\ SignOf(v < 0, fl) = <<>>
            => CPrefix(f) = HashMark(Base(f.spec), fl)
<1>1. PICK s : s = SignOf(v < 0, fl)
  OBVIOUS
<1>2. s \in Text
  <2>1. (v < 0) \in BOOLEAN
    OBVIOUS
  <2> QED
    BY <1>1, <2>1, SignOfText
<1>3. (IF Value(f) < 0 THEN <<"-">> ELSE IF "PLUS" \in f.flags THEN <<"+">>
       ELSE IF "SPACE" \in f.flags THEN <<" ">> ELSE <<>>) = s
  BY <1>1 DEF SignOf
<1>4. ASSUME "HASH" \notin fl \/ v = 0 PROVE CPrefix(f) = s
  <2>1. CPrefix(f) = s \o <<>>
    BY <1>3, <1>4 DEF CPrefix
  <2>2. s \o <<>> = s
    BY <1>2, ConcatEmptySeq DEF Text
  <2> QED
    BY <2>1, <2>2, Zenon
<1>5. ASSUME "HASH" \in fl, v # 0, f.spec \in {"x", "X", "o", "b"},
             "UPPERCASE" \in fl <=> f.spec = "X", s = <<>>
      PROVE  CPrefix(f) = HashMark(Base(f.spec), fl)
  <2>1. PICK h : h = CASE f.spec = "x" -> <<"0", "x">> [] f.spec = "X" -> <<"0", "X">>
                       [] f.spec = "b" -> <<"0", "b">> [] OTHER -> <<"0">>
    OBVIOUS
  <2>2. CPrefix(f) = s \o h
    BY <1>3, <1>5, <2>1 DEF CPrefix
  <2>3. h = HashMark(Base(f.spec), fl)
    <3>1. CASE f.spec = "x"
      BY <1>5, <2>1, <3>1 DEF HashMark, Letter, Base
    <3>2. CASE f.spec = "X"
      BY <1>5, <2>1, <3>2 DEF HashMark, Letter, Base
    <3>3. CASE f.spec = "b"
      BY <1>5, <2>1, <3>3 DEF HashMark, Letter, Base
    <3>4. CASE f.spec = "o"
      BY <1>5, <2>1, <3>4 DEF HashMark, Letter, Base
    <3> QED
      BY <1>5, <3>1, <3>2, <3>3, <3>4
  <2>4. h \in Text
    <3>1. Base(f.spec) \in {2, 8, 16}
      BY <1>5 DEF Base
    <3> QED
      BY <2>3, <3>1, HashMarkText
  <2>5. <<>> \o h = h
    BY <2>4, ConcatEmptySeq DEF Text
  <2> QED
    BY <1>5, <2>2, <2>3, <2>5, Zenon
<1> QED
  BY <1>1, <1>4, <1>5

(* An integer conversion gives the text of the C standard, apart from the  *)
(* known cases.                                                            *)
LEMMA IntegerIsC ==
  ASSUME NEW f, FieldIs(f), f.spec \in IntegerSpecs,
         ~Truncated(f), ~PrecisionIgnored(f), ~PrefixOverDigits(f)
  PROVE  f.text = CInteger(f)
<1>c. PICK spec \in IntegerSpecs, n \in Int, prec \in Nat, w \in Nat :
        spec = f.spec /\ n = f.arg /\ prec = f.precision /\ w = f.width
  BY DEF FieldIs, Fits
<1>d. PICK fl : fl = f.flags
  OBVIOUS
<1>1. /\ spec = f.spec /\ n = f.arg /\ prec = f.precision /\ w = f.width /\ fl = f.flags
  BY <1>c, <1>d
<1>2. /\ "PRECISION" \notin fl => prec = 0
      /\ \E pre \in SUBSET PreFlags : fl = SpecFlags(spec, pre)
      /\ f.text = IntegerText(spec, n, prec, w, fl)
  <2>1. /\ "PRECISION" \notin fl => prec = 0
        /\ \E pre \in SUBSET PreFlags : fl = SpecFlags(spec, pre)
        /\ f.text = TextOf(spec, n, f.exp, prec, w, fl)
    BY <1>1 DEF FieldIs
  <2>2. spec \notin FixedSpecs \union ExpSpecs \union {"c", "s", "p"}
    BY DEF IntegerSpecs, FixedSpecs, ExpSpecs
  <2>3. TextOf(spec, n, f.exp, prec, w, fl) = IntegerText(spec, n, prec, w, fl)
    BY <2>2 DEF TextOf
  <2> QED
    BY <2>1, <2>3
<1>3. /\ "ZEROPAD" \in fl => "PRECISION" \notin fl
      /\ "HASH" \in fl => /\ spec \in {"x", "X", "o", "b"}
                          /\ "PLUS" \notin fl /\ "SPACE" \notin fl
      /\ "UPPERCASE" \in fl <=> spec = "X"
  BY <1>2, IntegerFlags
<1>4. PICK b \in Nat \ {0} : b = 2^BitsOf(fl)
  BY SizesAssumption, PowerAssumption DEF BitsOf
<1>5. PICK v \in Int : v = IF spec \in {"d", "i"} THEN Signed(n, BitsOf(fl))
                          ELSE Unsigned(n, BitsOf(fl))
  BY <1>4 DEF Signed, Unsigned
<1>a. spec \notin {"d", "i"} => v >= 0
  BY <1>4, <1>5 DEF Unsigned
<1>6. v = Value(f)
  BY <1>1, <1>5, Zenon DEF Value
<1>7. PICK M \in Nat : M = IF v < 0 THEN -v ELSE v
  OBVIOUS
<1>8. M = Magnitude(f)
  BY <1>6, <1>7 DEF Magnitude
<1>9. PICK base \in Bases : base = Base(spec)
  BY DEF Base, Bases
<1>10. PICK neg \in BOOLEAN : neg = (v < 0)
  <2>1. (v < 0) \in BOOLEAN
    OBVIOUS
  <2> QED
    BY <2>1
<1>11. f.text = ntoa_long(M, neg, base, prec, w, fl)
  BY <1>2, <1>5, <1>7, <1>9, <1>10 DEF IntegerText
<1>b. PICK d : d = DigitsPut(M, base, fl)
  OBVIOUS
<1>12. PICK D : D = DigitsOf(M, base, fl)
  OBVIOUS
<1>13. D \in Text /\ Len(D) \in Nat /\ Len(D) > 0
  BY <1>12, DigitsText DEF Text
<1>14. d = IF "PRECISION" \in fl /\ M = 0 THEN <<>> ELSE D
  BY <1>b, <1>12 DEF DigitsPut
<1>15. d \in Text
  BY <1>13, <1>14, EmptyText
<1>16. PICK p : p = Precise(d, prec, fl)
  OBVIOUS
<1>17. CDigits(f) = p
  <2>1. fl = f.flags /\ prec = f.precision /\ M = Magnitude(f) /\ base = Base(f.spec)
    BY <1>1, <1>8, <1>9
  <2>2. CDigits(f) = Precise(d, prec, fl)
    BY <1>b, <1>2, <2>1, CDigitsIs
  <2> QED
    BY <1>16, <2>2
<1>18. p \in Text /\ Len(p) = IF "LEFT" \notin fl /\ prec > Len(d) THEN prec ELSE Len(d)
  BY <1>15, <1>16, PreciseText
<1>19. PICK c : c = CPrefix(f)
  OBVIOUS
<1>21. ~("HASH" \in fl /\ v # 0) => c = SignOf(neg, fl)
  BY <1>1, <1>6, <1>10, <1>19, CPrefixIs
<1>22. "HASH" \in fl /\ v # 0 =>
            /\ c = HashMark(base, fl) /\ base \in {2, 8, 16} /\ ~neg /\ ~Signs(neg, fl)
            /\ spec \in {"x", "X", "o", "b"}
  <2>1. SUFFICES ASSUME "HASH" \in fl, v # 0
               PROVE /\ c = HashMark(base, fl) /\ base \in {2, 8, 16} /\ ~neg
                                /\ ~Signs(neg, fl) /\ spec \in {"x", "X", "o", "b"}
    OBVIOUS
  <2>2. spec \in {"x", "X", "o", "b"} /\ "PLUS" \notin fl /\ "SPACE" \notin fl
    BY <1>3, <2>1
  <2>a. base \in {2, 8, 16}
    BY <1>9, <2>2 DEF Base
  <2>b. ~(v < 0)
    BY <1>a, <2>2
  <2>3. base \in {2, 8, 16} /\ ~(v < 0) /\ ~neg
    BY <1>10, <2>a, <2>b
  <2>4. SignOf(v < 0, fl) = <<>>
    BY <2>2, <2>3 DEF SignOf
  <2>5. ~Signs(neg, fl)
    BY <2>2, <2>3 DEF Signs
  <2>6. CPrefix(f) = HashMark(Base(f.spec), fl)
    BY <1>1, <1>3, <1>6, <2>1, <2>2, <2>4, CPrefixIs
  <2> QED
    BY <1>1, <1>9, <1>19, <2>2, <2>3, <2>5, <2>6
<1>23. c \in Text
  BY <1>21, <1>22, SignOfText, HashMarkText
<1>24. PICK lp \in Nat, lc \in Nat : lp = Len(p) /\ lc = Len(c)
  BY <1>18, <1>23 DEF Text
<1>25. NtoaBuffer \in Nat
  BY Sizes
<1>26. lp + lc <= NtoaBuffer /\ ("ZEROPAD" \in fl => w <= NtoaBuffer)
  <2>1. PICK z \in Nat : z = IF "ZEROPAD" \in fl THEN w ELSE 0
    OBVIOUS
  <2>2. ~(Max({lp + lc, z}) > NtoaBuffer)
    BY <1>1, <1>17, <1>19, <1>24, <2>1 DEF Truncated
  <2>3. Max({lp + lc, z}) = IF lp + lc >= z THEN lp + lc ELSE z
    BY MaxOfTwo
  <2> QED
    BY <1>25, <2>1, <2>2, <2>3
<1>27. (IF "PRECISION" \in fl /\ M = 0 THEN <<>> ELSE LastN(D, NtoaBuffer)) = d
  <2>1. CASE "PRECISION" \in fl /\ M = 0
    BY <1>14, <2>1
  <2>2. CASE ~("PRECISION" \in fl /\ M = 0)
    <3>1. d = D
      BY <1>14, <2>2
    <3>2. PICK l \in Nat : l = Len(D)
      BY <1>13
    <3>3. lp >= l
      BY <1>18, <1>24, <3>1, <3>2
    <3>4. l <= NtoaBuffer
      BY <1>25, <1>26, <3>3
    <3>5. LastN(D, NtoaBuffer) = D
      BY <3>2, <3>4 DEF LastN
    <3> QED
      BY <2>2, <3>1, <3>5
  <2> QED
    BY <2>1, <2>2
<1>28. PICK g : g = IF M = 0 THEN fl \ {"HASH"} ELSE fl
  OBVIOUS
<1>29. f.text = ntoa_format(d, neg, base, prec, w, g)
  BY <1>11, <1>12, <1>27, <1>28 DEF ntoa_long
<1>30. CInteger(f) = CText(c, p, w, fl)
  BY <1>1, <1>17, <1>19 DEF CInteger, CText, Spaces, Padded, FieldZeros, ZeroField
<1>31. ZeroField(fl) => prec = 0 /\ w <= NtoaBuffer /\ "PRECISION" \notin fl
  BY <1>2, <1>3, <1>26 DEF ZeroField
<1>32. CASE ~("HASH" \in fl /\ v # 0)
  <2>1. "HASH" \notin g
    BY <1>7, <1>28, <1>32
  <2>2. /\ SignOf(neg, g) = SignOf(neg, fl) /\ Precise(d, prec, g) = Precise(d, prec, fl)
        /\ CText(c, p, w, g) = CText(c, p, w, fl) /\ (ZeroField(g) <=> ZeroField(fl))
    <3>1. CASE M = 0
      BY <1>28, <3>1, WithoutHash
    <3>2. CASE M # 0
      BY <1>28, <3>2
    <3> QED
      BY <3>1, <3>2
  <2>3. c = SignOf(neg, g) /\ p = Precise(d, prec, g)
    BY <1>16, <1>21, <1>32, <2>2
  <2>4. Len(c) + Len(p) <= NtoaBuffer
    BY <1>24, <1>25, <1>26
  <2>5. ZeroField(g) => prec = 0 /\ w <= NtoaBuffer
    BY <1>31, <2>2
  <2>6. ntoa_format(d, neg, base, prec, w, g) = CText(c, p, w, g)
    BY <1>15, <2>1, <2>3, <2>4, <2>5, PlainFormat
  <2> QED
    BY <1>29, <1>30, <2>2, <2>6
<1>33. CASE "HASH" \in fl /\ v # 0
  <2>1. /\ c = HashMark(base, fl) /\ base \in {2, 8, 16} /\ ~neg /\ ~Signs(neg, fl)
        /\ spec \in {"x", "X", "o", "b"}
    BY <1>22, <1>33
  <2>2. "HASH" \in fl /\ M # 0 /\ g = fl
    BY <1>7, <1>28, <1>33
  <2>3. d = D /\ d # <<>>
    BY <1>13, <1>14, <2>2, EmptyText
  <2>4. lp \in Int /\ w - lp \notin 0 .. 1
    BY <1>1, <1>17, <1>24, <2>2 DEF PrefixOverDigits
  <2>5. ZeroField(fl) => base # 2
    <3>1. base = 2 => spec = "b"
      BY <1>9, <2>1 DEF Base
    <3>2. spec = "b" => "ZEROPAD" \notin fl
      BY <1>1, <2>2 DEF PrefixOverDigits
    <3> QED
      BY <3>1, <3>2 DEF ZeroField
  <2>6. w - Len(p) \notin 0 .. 1 /\ Len(c) + Len(p) <= NtoaBuffer
    BY <1>24, <1>25, <1>26, <2>4
  <2>7. ZeroField(fl) => "PRECISION" \notin fl /\ w <= NtoaBuffer /\ base # 2
    BY <1>31, <2>5
  <2>8. ntoa_format(d, neg, base, prec, w, fl) = CText(c, p, w, fl)
    <3>1. /\ w - Len(Precise(d, prec, fl)) \notin 0 .. 1
          /\ Len(HashMark(base, fl)) + Len(Precise(d, prec, fl)) <= NtoaBuffer
      BY <1>16, <2>1, <2>6
    <3>2. ntoa_format(d, neg, base, prec, w, fl)
            = CText(HashMark(base, fl), Precise(d, prec, fl), w, fl)
      <4>1. /\ base \in {2, 8, 16} /\ ~neg /\ ~Signs(neg, fl) /\ "HASH" \in fl
            /\ d # <<>>
        BY <2>1, <2>2, <2>3
      <4>2. "PRECISION" \notin fl => prec = 0
        BY <1>2
      <4> QED
        BY <1>15, <2>7, <3>1, <4>1, <4>2, HashFormat
    <3> QED
      BY <1>16, <2>1, <3>2
  <2> QED
    BY <1>29, <1>30, <2>1, <2>2, <2>8
<1> QED
  BY <1>32, <1>33

-----------------------------------------------------------------------------
(* Widths *)

(* A text that is at least as long as the field, and no longer than the    *)
(* text alone if that is longer.                                           *)
Fills(t, alone, w) == Len(t) = IF Len(alone) > w THEN Len(alone) ELSE w

(* Characters and strings fill their field. *)
LEMMA StringFills ==
  ASSUME NEW s \in Text, NEW prec \in Nat, NEW w \in Nat, NEW fl
  PROVE  /\ Len(StringText(s, prec, 0, fl)) \in Nat
         /\ Fills(StringText(s, prec, w, fl), StringText(s, prec, 0, fl), w)
<1>1. PICK t \in Text : \A x \in Nat :
        StringText(s, prec, x, fl) = out_rev(t, x, fl \ {"ZEROPAD"})
  BY StringTextIs
<1>2. PICK l \in Nat : l = Len(t)
  BY DEF Text
<1>a. PICK g : g = fl \ {"ZEROPAD"}
  OBVIOUS
<1>3. g = fl \ {"ZEROPAD"} /\ "ZEROPAD" \notin g
  BY <1>a
<1>4. \A x \in Nat : Len(out_rev(t, x, g)) = IF x <= l THEN l ELSE x
  BY <1>2, <1>3, OutRevText
<1>5. \A x \in Nat : Len(StringText(s, prec, x, fl)) = IF x <= l THEN l ELSE x
  BY <1>1, <1>3, <1>4
<1>6. Len(StringText(s, prec, 0, fl)) = l
  BY <1>5
<1>7. Len(StringText(s, prec, w, fl)) = IF l > w THEN l ELSE w
  BY <1>5
<1> QED
  BY <1>6, <1>7 DEF Fills

(* Infinities and what is no number fill their field with spaces. *)
LEMMA SpecialFills ==
  ASSUME NEW x, NEW w \in Nat, NEW fl, "ZEROPAD" \notin fl
  PROVE  /\ Len(ftoa_special(x, 0, fl)) \in Nat
         /\ Fills(ftoa_special(x, w, fl), ftoa_special(x, 0, fl), w)
<1>1. PICK t : t = Special(x, fl)
  OBVIOUS
<1>2. /\ t \in Text /\ ftoa_special(x, w, fl) = out_rev(t, w, fl)
      /\ ftoa_special(x, 0, fl) = out_rev(t, 0, fl)
  BY <1>1, SpecialText
<1>3. PICK l \in Nat : l = Len(t)
  BY <1>2 DEF Text
<1>4. Len(out_rev(t, w, fl)) = IF w <= l THEN l ELSE w
  BY <1>2, <1>3, OutRevText
<1>5. Len(out_rev(t, 0, fl)) = IF 0 <= l THEN l ELSE 0
  BY <1>2, <1>3, OutRevText
<1>6. Len(ftoa_special(x, 0, fl)) = l /\ Len(ftoa_special(x, w, fl)) = IF l > w THEN l ELSE w
  BY <1>2, <1>4, <1>5
<1> QED
  BY <1>6 DEF Fills

(* Doubles with an exponent fill their field. *)
LEMMA EtoaFills ==
  ASSUME NtoaBuffer >= 4, NEW x \in Double, NEW e \in Exponents(x),
         NEW prec \in Nat, NEW w \in Nat, NEW fl,
         "ZEROPAD" \in fl => x.kind = "finite" /\ w < FtoaBuffer
  PROVE  /\ Len(etoa(x, e, prec, 0, fl)) \in Nat
         /\ Fills(etoa(x, e, prec, w, fl), etoa(x, e, prec, 0, fl), w)
<1>1. CASE x.kind = "finite"
  <2>1. /\ etoa(x, e, prec, w, fl) = etoa_finite(x, e, prec, w, fl)
        /\ etoa(x, e, prec, 0, fl) = etoa_finite(x, e, prec, 0, fl)
    BY <1>1 DEF etoa
  <2>2. /\ Len(etoa_finite(x, e, prec, 0, fl)) \in Nat
        /\ Fills(etoa_finite(x, e, prec, w, fl), etoa_finite(x, e, prec, 0, fl), w)
    BY <1>1, EtoaText DEF Fills
  <2> QED
    BY <2>1, <2>2
<1>2. CASE x.kind # "finite"
  <2>1. /\ etoa(x, e, prec, w, fl) = ftoa_special(x, w, fl)
        /\ etoa(x, e, prec, 0, fl) = ftoa_special(x, 0, fl)
    BY <1>2 DEF etoa
  <2>2. "ZEROPAD" \notin fl
    BY <1>2
  <2> QED
    BY <2>1, <2>2, SpecialFills
<1> QED
  BY <1>1, <1>2

(* Doubles fill their field. *)
LEMMA FtoaFills ==
  ASSUME NtoaBuffer >= 4, NEW x \in Double, NEW e \in Exponents(x),
         NEW prec \in Nat, NEW w \in Nat, NEW fl,
         "ZEROPAD" \in fl => x.kind = "finite" /\ w < FtoaBuffer
  PROVE  /\ Len(ftoa(x, e, prec, 0, fl)) \in Nat
         /\ Fills(ftoa(x, e, prec, w, fl), ftoa(x, e, prec, 0, fl), w)
<1>1. CASE x.kind = "finite" /\ x.num <= MaxFloat * x.den
  <2>1. /\ ftoa(x, e, prec, w, fl) = ftoa_finite(x, prec, w, fl)
        /\ ftoa(x, e, prec, 0, fl) = ftoa_finite(x, prec, 0, fl)
    BY <1>1 DEF ftoa
  <2>2. x.neg \in BOOLEAN /\ x.num \in Nat /\ x.den \in Nat \ {0}
    BY DEF Double
  <2>3. /\ Len(ftoa_finite(x, prec, 0, fl)) \in Nat
        /\ Fills(ftoa_finite(x, prec, w, fl), ftoa_finite(x, prec, 0, fl), w)
    BY <2>2, FtoaText DEF Fills
  <2> QED
    BY <2>1, <2>3
<1>2. CASE ~(x.kind = "finite" /\ x.num <= MaxFloat * x.den)
  <2>1. /\ ftoa(x, e, prec, w, fl) = etoa(x, e, prec, w, fl)
        /\ ftoa(x, e, prec, 0, fl) = etoa(x, e, prec, 0, fl)
    BY <1>2 DEF ftoa
  <2> QED
    BY <2>1, EtoaFills
<1> QED
  BY <1>1, <1>2

(* A conversion fills its field. *)
LEMMA ConversionFills ==
  ASSUME NtoaBuffer >= 4, NEW f, FieldIs(f),
         f.spec \in FixedSpecs \union ExpSpecs \union {"c", "s"},
         NEW alone, alone = TextOf(f.spec, f.arg, f.exp, f.precision, 0, f.flags),
         ~("ZEROPAD" \in f.flags /\ f.arg.kind # "finite"),
         ~("ZEROPAD" \in f.flags /\ f.width >= FtoaBuffer)
  PROVE  Len(f.text) = Max({f.width, Len(alone)})
<1>a. PICK prec \in Nat, w \in Nat : prec = f.precision /\ w = f.width
  BY DEF FieldIs
<1>b. PICK spec, x, fl, e : spec = f.spec /\ x = f.arg /\ fl = f.flags /\ e = f.exp
  OBVIOUS
<1>1. /\ spec = f.spec /\ x = f.arg /\ prec = f.precision /\ w = f.width /\ fl = f.flags
      /\ e = f.exp
  BY <1>a, <1>b
<1>2. /\ Fits(spec, x) /\ (spec \in FixedSpecs \union ExpSpecs => e \in Exponents(x))
      /\ f.text = TextOf(spec, x, e, prec, w, fl) /\ alone = TextOf(spec, x, e, prec, 0, fl)
  BY <1>1 DEF FieldIs
<1>3. FtoaBuffer \in Nat
  BY Sizes
<1>4. "ZEROPAD" \in fl => x.kind = "finite" /\ w < FtoaBuffer
  BY <1>1, <1>3
<1>5. Len(alone) \in Nat /\ Fills(f.text, alone, w)
  <2>1. CASE spec = "c"
    <3>1. /\ f.text = StringText(<<x>>, 1, w, fl) /\ alone = StringText(<<x>>, 1, 0, fl)
      BY <1>2, <2>1 DEF TextOf, IntegerSpecs, FixedSpecs, ExpSpecs
    <3>2. x \in Char
      BY <1>2, <2>1, CharIs DEF Fits
    <3>3. PICK s \in Text : s = <<x>>
      BY <3>2, Single
    <3>4. 1 \in Nat
      OBVIOUS
    <3> QED
      BY <3>1, <3>3, <3>4, StringFills
  <2>2. CASE spec = "s"
    <3>1. /\ f.text = StringText(x, prec, w, fl) /\ alone = StringText(x, prec, 0, fl)
      BY <1>2, <2>2 DEF TextOf, IntegerSpecs, FixedSpecs, ExpSpecs
    <3>2. x \in Text
      BY <1>2, <2>2, CharText DEF Fits
    <3> QED
      BY <3>1, <3>2, StringFills
  <2>3. CASE spec \in FixedSpecs
    <3>1. /\ f.text = ftoa(x, e, prec, w, fl) /\ alone = ftoa(x, e, prec, 0, fl)
      BY <1>2, <2>3 DEF TextOf, IntegerSpecs, FixedSpecs, ExpSpecs
    <3>2. x \in Double /\ e \in Exponents(x)
      BY <1>2, <2>3 DEF Fits
    <3> QED
      BY <1>4, <3>1, <3>2, FtoaFills
  <2>4. CASE spec \in ExpSpecs
    <3>1. /\ f.text = etoa(x, e, prec, w, fl) /\ alone = etoa(x, e, prec, 0, fl)
      BY <1>2, <2>4 DEF TextOf, IntegerSpecs, FixedSpecs, ExpSpecs
    <3>2. x \in Double /\ e \in Exponents(x)
      BY <1>2, <2>4 DEF Fits
    <3> QED
      BY <1>4, <3>1, <3>2, EtoaFills
  <2> QED
    BY <1>1, <2>1, <2>2, <2>3, <2>4
<1>6. PICK l \in Nat : l = Len(alone)
  BY <1>5
<1>7. Max({w, l}) = IF w >= l THEN w ELSE l
  BY MaxOfTwo
<1>8. Len(f.text) = IF l > w THEN l ELSE w
  BY <1>5, <1>6 DEF Fills
<1> QED
  BY <1>1, <1>6, <1>7, <1>8

-----------------------------------------------------------------------------
(* The conversions of a call *)

(* Before the first step there is no conversion. *)
LEMMA FieldInit == Init => FieldInv
BY DEF Init, FieldInv

(* A step that neither converts nor reads a part of a directive. *)
LEMMA FieldKept ==
  ASSUME FieldInv, field' = field, flags' \subseteq PreFlags,
         "PRECISION" \notin flags' => precision' = 0
  PROVE  FieldInv'
BY DEF FieldInv

(* Every step keeps what is known of the last conversion. *)
LEMMA FieldNext ==
  ASSUME OutInv, FieldInv, ArgumentsFit, [Next]_vars
  PROVE  FieldInv'
<1>1. /\ flags \subseteq PreFlags /\ ("PRECISION" \notin flags => precision = 0)
      /\ width \in Nat /\ precision \in Nat
  BY DEF FieldInv, OutInv
<1>2. CASE Literal \/ ConvertOther \/ Terminate \/ UNCHANGED vars
  <2>1. field' = field /\ flags' = flags /\ precision' = precision
    BY <1>2 DEF Literal, ConvertOther, Terminate, vars, parsed
  <2> QED
    BY <1>1, <2>1, FieldKept
<1>3. CASE Percent
  <2>1. field' = field /\ flags' = {} /\ precision' = 0
    BY <1>3 DEF Percent
  <2> QED
    BY <2>1, FieldKept
<1>4. CASE EvaluateFlags
  <2>1. field' = field /\ precision' = precision
    BY <1>4 DEF EvaluateFlags
  <2>2. \A c \in DOMAIN FlagChars : FlagChars[c] \in PreFlags
    BY DEF FlagChars, PreFlags
  <2>3. flags \subseteq flags' /\ flags' \subseteq PreFlags
    BY <1>1, <1>4, <2>2 DEF EvaluateFlags
  <2> QED
    BY <1>1, <2>1, <2>3, FieldKept
<1>5. CASE EvaluateWidth
  <2>1. field' = field /\ precision' = precision
    BY <1>5 DEF EvaluateWidth
  <2>2. flags' \in {flags, flags \union {"LEFT"}}
    <3>1. CASE is_digit(ch)
      BY <1>5, <3>1, DigitIsText DEF EvaluateWidth
    <3>2. CASE ~is_digit(ch) /\ ch = "*"
      BY <1>5, <3>2 DEF EvaluateWidth
    <3>3. CASE ~is_digit(ch) /\ ch # "*"
      BY <1>5, <3>3 DEF EvaluateWidth
    <3> QED
      BY <3>1, <3>2, <3>3
  <2>3. flags \subseteq flags' /\ flags' \subseteq PreFlags
    BY <1>1, <2>2 DEF PreFlags
  <2> QED
    BY <1>1, <2>1, <2>3, FieldKept
<1>6. CASE EvaluatePrecision
  <2>1. field' = field
    BY <1>6 DEF EvaluatePrecision
  <2>2. CASE ch # "."
    <3>1. flags' = flags /\ precision' = precision
      BY <1>6, <2>2 DEF EvaluatePrecision
    <3> QED
      BY <1>1, <2>1, <3>1, FieldKept
  <2>3. CASE ch = "."
    <3>1. flags' = flags \union {"PRECISION"}
      BY <1>6, <2>3 DEF EvaluatePrecision
    <3>2. flags' \subseteq PreFlags /\ "PRECISION" \in flags'
      BY <1>1, <3>1 DEF PreFlags
    <3> QED
      BY <2>1, <3>2, FieldKept
  <2> QED
    BY <2>2, <2>3
<1>7. CASE EvaluateLength
  <2>1. field' = field /\ precision' = precision
    BY <1>7 DEF EvaluateLength
  <2>2. PICK one, two : /\ one \subseteq PreFlags /\ two \subseteq PreFlags
                        /\ flags' = flags \union one \union two
    <3> DEFINE one == CASE ch = "h" -> {"SHORT"} [] ch \in {"l", "t", "j", "z"} -> {"LONG"}
                        [] OTHER -> {}
               two == IF LengthField(pos) = 2
                      THEN IF ch = "h" THEN {"CHAR"} ELSE {"LONG_LONG"} ELSE {}
    <3>1. one \subseteq PreFlags
      BY DEF PreFlags
    <3>2. two \subseteq PreFlags
      BY DEF PreFlags
    <3>3. flags' = flags \union one \union two
      BY <1>7 DEF EvaluateLength
    <3> HIDE DEF one, two
    <3> QED
      BY <3>1, <3>2, <3>3
  <2>3. flags \subseteq flags' /\ flags' \subseteq PreFlags
    BY <1>1, <2>2
  <2> QED
    BY <1>1, <2>1, <2>3, FieldKept
<1>8. CASE ConvertArgument
  <2>1. PICK fl : fl = SpecFlags(ch, flags)
    OBVIOUS
  <2>2. PICK e, text :
          /\ ch \in FixedSpecs \union ExpSpecs => e \in Exponents(va[1])
          /\ text = TextOf(ch, va[1], e, precision, width, fl)
          /\ field' = [spec |-> ch, arg |-> va[1], exp |-> e, flags |-> fl,
                       width |-> width, precision |-> precision, text |-> text]
    BY <1>8, <2>1 DEF ConvertArgument
  <2>3. ch \in Specs /\ Fits(ch, va[1])
    BY <1>8 DEF ConvertArgument, ArgumentsFit, Specs
  <2>4. flags' = flags /\ precision' = precision
    BY <1>8 DEF ConvertArgument, parsed
  <2>5. "PRECISION" \notin fl => precision = 0
    BY <1>1, <2>1 DEF SpecFlags
  <2>6. PICK f : f = [spec |-> ch, arg |-> va[1], exp |-> e, flags |-> fl,
                      width |-> width, precision |-> precision, text |-> text]
    OBVIOUS
  <2>7. FieldIs(f)
    BY <1>1, <2>1, <2>2, <2>3, <2>5, <2>6 DEF FieldIs
  <2>8. field' = f
    BY <2>2, <2>6
  <2>9. FieldIs(field)'
    BY <2>7, <2>8 DEF FieldIs
  <2> QED
    BY <1>1, <2>4, <2>9 DEF FieldInv
<1> QED
  BY <1>2, <1>3, <1>4, <1>5, <1>6, <1>7, <1>8 DEF Next

(* Every integer conversion of every call gives the text of the C          *)
(* standard, whatever the sizes of the types and of the buffer, apart from *)
(* the three cases where printf.c is known to write something else.        *)
THEOREM IntegerAsInCHolds == Spec /\ []ArgumentsFit => []IntegerAsInC
<1>1. Init => OutInv /\ FieldInv
  BY OutInit, FieldInit
<1>2. ParseInv /\ OutInv /\ FieldInv /\ ArgumentsFit /\ [Next]_vars => OutInv' /\ FieldInv'
  BY OutNext, FieldNext
<1>3. FieldInv => IntegerAsInC
  <2> SUFFICES ASSUME FieldInv, field.spec \in IntegerSpecs
               PROVE  \/ Truncated(field) \/ PrecisionIgnored(field) \/ PrefixOverDigits(field)
                      \/ field.text = CInteger(field)
    BY DEF IntegerAsInC
  <2>1. FieldIs(field)
    BY DEF FieldInv, IntegerSpecs, NUL
  <2> QED
    BY <2>1, IntegerIsC
<1> QED
  BY <1>1, <1>2, <1>3, Parses, PTL DEF Spec

(* Every conversion of a character, a string or any double, whatever       *)
(* exponent the approximation of _etoa comes to, is as long as its field,  *)
(* or as its text alone where that is longer, in every call; the buffer    *)
(* has room for the exponent.                                              *)
THEOREM FieldFilledHolds ==
  ASSUME NtoaBuffer >= 4
  PROVE  Spec /\ []ArgumentsFit => []FieldFilled
<1>1. Init => OutInv /\ FieldInv
  BY OutInit, FieldInit
<1>2. ParseInv /\ OutInv /\ FieldInv /\ ArgumentsFit /\ [Next]_vars => OutInv' /\ FieldInv'
  BY OutNext, FieldNext
<1>3. FieldInv => FieldFilled
  <2> SUFFICES ASSUME FieldInv,
                      field.spec \in FixedSpecs \union ExpSpecs \union {"c", "s"},
                      NEW alone, alone = TextOf(field.spec, field.arg, field.exp,
                                                field.precision, 0, field.flags),
                      ~("ZEROPAD" \in field.flags /\ field.arg.kind # "finite"),
                      ~("ZEROPAD" \in field.flags /\ field.width >= FtoaBuffer)
               PROVE  Len(field.text) = Max({field.width, Len(alone)})
    BY DEF FieldFilled
  <2>1. FieldIs(field)
    BY DEF FieldInv, FixedSpecs, ExpSpecs, NUL
  <2> QED
    BY <2>1, ConversionFills
<1> QED
  BY <1>1, <1>2, <1>3, Parses, PTL DEF Spec
=============================================================================
