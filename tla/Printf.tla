------------------------------- MODULE Printf -------------------------------
(***************************************************************************)
(* printf.c: the conversions as operators from an argument to the text it  *)
(* becomes, and _vsnprintf as a machine that walks over the format and     *)
(* hands one text after the other to the output function.                  *)
(*                                                                         *)
(* A character is a string of length one, NUL the empty string.  A double  *)
(* is a fraction num/den whose operations round to Mantissa bits.  Widths  *)
(* of types and buffers are parameters, so that small instances reach them.*)
(***************************************************************************)
EXTENDS Integers, Sequences, FiniteSets, FiniteSetsExt

CONSTANTS
  NtoaBuffer,        \* PRINTF_NTOA_BUFFER_SIZE
  FtoaBuffer,        \* PRINTF_FTOA_BUFFER_SIZE
  DefaultPrecision,  \* PRINTF_DEFAULT_FLOAT_PRECISION
  MaxFloat,          \* PRINTF_MAX_FLOAT
  MaxPower,          \* the last index of the table pow10 in _ftoa
  GLow, GHigh,       \* "%g" is "%f" from 10^-GLow up to below 10^GHigh
  Mantissa,          \* bits of the significand of a double
  MaxExp2,           \* the bias and the largest value of its exponent
  LongExponent,      \* "%e" sets a third digit aside from this exponent on
  PowerError,        \* 10^expval of _etoa is exact to one part in this
  TypeBits,          \* bits of "char", "short", "int" and "long"
  Calls              \* a tuple of sets of calls: entry, null, format, args, count

NUL == ""
Unwritten == "unwritten"        \* a byte of the caller's buffer not stored to

(* No decimal exponent of a double is further from zero. *)
MaxExponent == (30103 * MaxExp2) \div 100000 + 2

(* The output function each entry point hands to _vsnprintf. *)
OutFunction ==
  [logfn |-> "_out_char", printf_ |-> "_out_char", vprintf_ |-> "_out_char",
   sprintf_ |-> "_out_buffer", snprintf_ |-> "_out_buffer",
   vsnprintf_ |-> "_out_buffer", fctprintf |-> "_out_fct"]

ASSUME SizesAssumption ==
  /\ {NtoaBuffer, FtoaBuffer, DefaultPrecision, MaxFloat, MaxPower, GLow,
      GHigh, Mantissa, PowerError} \subseteq Nat \ {0}
  /\ MaxExp2 \in 2 .. 1023 /\ LongExponent \in 1 .. 100
  /\ TypeBits \in [{"char", "short", "int", "long"} -> Nat \ {0}]
(* The powers of two and of ten that the conversions use are numbers. *)
ASSUME PowerAssumption ==
  /\ \A t \in DOMAIN TypeBits : 2^TypeBits[t] \in Nat \ {0}
  /\ \A n \in 0 .. 2 * Mantissa : 2^n \in Nat \ {0}
  /\ 2^0 = 1
  /\ \A n \in 0 .. MaxExp2 : 2^n \in Nat \ {0} /\ 2^(n + 1) = 2 * 2^n
  /\ \A n \in 0 .. Max({MaxPower, MaxExponent}) : 10^n \in Nat \ {0}
ASSUME CallAssumption ==
  \A i \in DOMAIN Calls : \A c \in Calls[i] :
    /\ c.count \in 0 .. 2^TypeBits["long"] - 1
    /\ c.entry \in DOMAIN OutFunction /\ c.null \in BOOLEAN
    /\ c.format \in Seq(STRING \ {NUL})

VARIABLES
  call,       \* the arguments of the call, never changed
  pos,        \* format: index of *format, Len + 1 for the terminator
  va,         \* the arguments va_arg has not yet returned
  flags, width, precision,
  out,        \* every character handed to the output function; idx is its length
  buffer,     \* the caller's buffer, from index 0
  field,      \* history: the last conversion and its text
  pc

vars == <<call, pos, va, flags, width, precision, out, buffer, field, pc>>
parsed == <<flags, width, precision>>

-----------------------------------------------------------------------------
(* Output helpers *)

Repeat(c, n) == [i \in 1 .. Max({n, 0}) |-> c]
LastN(s, n) == IF Len(s) <= n THEN s ELSE SubSeq(s, Len(s) - n + 1, Len(s))

(* Conversion buffers are filled from the right end of the text: put one   *)
(* more character in front of it if there is room.                         *)
Put(c, text, size) == IF Len(text) < size THEN <<c>> \o text ELSE text
ZeroFill(text, n, size) == Repeat("0", Min({n, size}) - Len(text)) \o text

(* Faulty padding: the spaces go behind the text whatever the flags say. *)
PadBehind(text, w, fl) == text \o Repeat(" ", w - Len(text))

out_rev(text, w, fl) ==
  LET pad == Repeat(" ", w - Len(text))
  IN  IF "LEFT" \in fl THEN text \o pad
      ELSE IF "ZEROPAD" \in fl THEN text ELSE pad \o text

(* Faulty: the sign takes no column from the zeros. *)
FullWidth(w, negative, fl) == w

(* The width without the column of a sign in front of padded zeros. *)
SignWidth(w, negative, fl) ==
  IF /\ w > 0 /\ "ZEROPAD" \in fl /\ "LEFT" \notin fl
     /\ negative \/ fl \intersect {"PLUS", "SPACE"} # {}
  THEN w - 1 ELSE w

Sign(text, negative, fl, size) ==
  IF negative THEN Put("-", text, size)
  ELSE IF "PLUS" \in fl THEN Put("+", text, size)
  ELSE IF "SPACE" \in fl THEN Put(" ", text, size) ELSE text

-----------------------------------------------------------------------------
(* Integers *)

DigitChar(d, fl) ==
  IF d < 10 THEN <<"0", "1", "2", "3", "4", "5", "6", "7", "8", "9">>[d + 1]
  ELSE IF "UPPERCASE" \in fl THEN <<"A", "B", "C", "D", "E", "F">>[d - 9]
  ELSE <<"a", "b", "c", "d", "e", "f">>[d - 9]

DigitsOf(value, base, fl) ==
  LET digits[v \in 0 .. value] ==
        IF v < base THEN <<DigitChar(v, fl)>>
        ELSE digits[v \div base] \o <<DigitChar(v % base, fl)>>
  IN  digits[value]

(* The hash flag: 0x, 0X, 0b or 0 in front, in the place of padded zeros.  *)
(* That they are zeros is concluded from the length alone.                 *)
PrefixRoom(text, base, prec, w, fl) ==
  IF /\ "PRECISION" \notin fl /\ text # <<>> /\ Len(text) \in {prec, w}
  THEN SubSeq(text, IF base = 16 THEN 3 ELSE 2, Len(text)) ELSE text
PutLetter(text, base, fl) ==
  CASE base = 16 -> Put(IF "UPPERCASE" \in fl THEN "X" ELSE "x", text, NtoaBuffer)
    [] base = 2 -> Put("b", text, NtoaBuffer)
    [] OTHER -> text
Prefix(text, base, prec, w, fl) ==
  IF "HASH" \notin fl THEN text
  ELSE Put("0", PutLetter(PrefixRoom(text, base, prec, w, fl), base, fl), NtoaBuffer)

ntoa_format(digits, negative, base, prec, w, fl) ==
  LET sw == SignWidth(w, negative, fl)
      target == Max({prec, IF "ZEROPAD" \in fl THEN sw ELSE 0})
      filled == IF "LEFT" \in fl THEN digits
                ELSE ZeroFill(digits, target, NtoaBuffer)
      whole == Prefix(filled, base, prec, sw, fl)
  IN  out_rev(Sign(whole, negative, fl, NtoaBuffer), sw, fl)

(* _ntoa_long and _ntoa_long_long: digits from the right until the value   *)
(* or the buffer ends; none for a zero with a precision.                   *)
ntoa_long(value, negative, base, prec, w, fl) ==
  LET digits == IF "PRECISION" \in fl /\ value = 0 THEN <<>>
                ELSE LastN(DigitsOf(value, base, fl), NtoaBuffer)
  IN  ntoa_format(digits, negative, base, prec, w,
                  IF value = 0 THEN fl \ {"HASH"} ELSE fl)

-----------------------------------------------------------------------------
(* Doubles: records with kind "nan", "inf" or "finite", neg, num and den.  *)

(* n/d rounded to Mantissa bits, to nearest and to even: <<num, den>>. *)
ScaleOf(n, d) ==
  CHOOSE k \in 0 .. 2 * Mantissa :
    /\ n * 2^k >= 2^(Mantissa - 1) * d \/ k = 2 * Mantissa
    /\ \A i \in 0 .. k - 1 : n * 2^i < 2^(Mantissa - 1) * d
NearestEven(q, r, d) == IF 2 * r > d \/ (2 * r = d /\ q % 2 = 1) THEN q + 1 ELSE q
RoundedAt(n, d, scale) ==
  <<NearestEven((n * scale) \div d, (n * scale) % d, d), scale>>
Rounded(n, d) == RoundedAt(n, d, 2^ScaleOf(n, d))

(* Faulty: a fraction that rounds up is not carried into the whole part. *)
RoundUpOnly(whole, frac, diff, prec) ==
  <<whole, IF diff > 0 THEN frac + 1 ELSE frac>>

(* The fractional digits of _ftoa: the possibly incremented whole part and *)
(* frac, where diff is what is left over compared with one half.  Only the *)
(* first branch handles the rollover into the whole part.                  *)
RoundFraction(whole, frac, diff, prec) ==
  IF diff > 0 THEN IF frac + 1 >= 10^prec THEN <<whole + 1, 0>>
                   ELSE <<whole, frac + 1>>
  ELSE IF diff = 0 /\ (frac = 0 \/ frac % 2 = 1) THEN <<whole, frac + 1>>
  ELSE <<whole, frac>>
FractionOf(whole, tmp, prec) ==
  RoundFraction(whole, tmp[1] \div tmp[2], 2 * (tmp[1] % tmp[2]) - tmp[2], prec)
Fraction(n, d, prec) ==
  FractionOf(n \div d, Rounded((n % d) * 10^prec, d), prec)

(* With no digits asked for, half and more goes up from an odd number. *)
RoundWhole(n, d, whole) ==
  IF 2 * (n - whole * d) >= d /\ whole % 2 = 1 THEN whole + 1 ELSE whole

(* The digits of a number below MaxFloat.  Precision above MaxPower turns  *)
(* into zeros at the end as long as the buffer has room; if it is full     *)
(* before that, the table of powers is read behind its end and nothing     *)
(* else gets into the buffer.  More digits than prec make the count of     *)
(* missing zeros wrap, and zeros fill the buffer.                          *)
PowerIndex(prec) == prec - Min({Max({prec - MaxPower, 0}), FtoaBuffer})
Decimal(digits, p) ==
  <<".">> \o Repeat("0", IF Len(digits) > p THEN FtoaBuffer ELSE p - Len(digits))
    \o digits
FixedText(n, d, p, parts) ==
  IF p = 0 THEN DigitsOf(RoundWhole(n, d, parts[1]), 10, {})
  ELSE DigitsOf(parts[1], 10, {}) \o Decimal(DigitsOf(parts[2], 10, {}), p)
FixedDigitsAt(n, d, prec, p) ==
  IF p > MaxPower THEN Repeat("0", FtoaBuffer)
  ELSE LastN(FixedText(n, d, p, Fraction(n, d, p)) \o Repeat("0", prec - p), FtoaBuffer)
FixedDigits(n, d, prec) == FixedDigitsAt(n, d, prec, PowerIndex(prec))

ftoa_zeros(text, sw, fl) ==
  IF "ZEROPAD" \in fl /\ "LEFT" \notin fl THEN ZeroFill(text, sw, FtoaBuffer) ELSE text
ftoa_finite(x, prec, w, fl) ==
  LET sw == SignWidth(w, x.neg, fl)
      text == FixedDigits(x.num, x.den,
                IF "PRECISION" \in fl THEN prec ELSE DefaultPrecision)
  IN  out_rev(Sign(ftoa_zeros(text, sw, fl), x.neg, fl, FtoaBuffer), sw, fl)

ftoa_special(x, w, fl) ==
  LET sign == IF x.neg THEN <<"-">>
              ELSE IF "PLUS" \in fl THEN <<"+">> ELSE <<>>
  IN  out_rev(IF x.kind = "nan" THEN <<"n", "a", "n">>
              ELSE sign \o <<"i", "n", "f">>, w, fl)

(* Powers as fractions, and whether a double is at least such a fraction. *)
Pow10Fraction(e) == IF e >= 0 THEN <<10^e, 1>> ELSE <<1, 10^(-e)>>
Pow2Fraction(e) == IF e >= 0 THEN <<2^e, 1>> ELSE <<1, 2^(-e)>>
AtLeast(x, p) == p[1] * x.den <= x.num * p[2]

(* The exponent field of a double, and 1.significand: zero and the numbers *)
(* below 2^(1 - MaxExp2) share the smallest field and lack the leading one.*)
exp2(x) == Max({-MaxExp2} \union
  {k \in 1 - MaxExp2 .. MaxExp2 : AtLeast(x, Pow2Fraction(k))})
Significand(x, b) ==
  IF b = -MaxExp2 THEN <<x.den + x.num * 2^(MaxExp2 - 1), x.den>>
  ELSE <<x.num * Pow2Fraction(b)[2], x.den * Pow2Fraction(b)[1]>>

(* (int)(0.17609 + b * 0.30103 + (m - 1.5) * 0.28953): the conversion      *)
(* truncates towards zero, on either side of an integer that is nearer     *)
(* than the decimals left out here.                                        *)
Trunc(n, d) == IF n >= 0 THEN n \div d ELSE -((-n) \div d)
LogOf(m, b, c) ==
  2 * m[2] * (17609 + 30103 * b) + 28953 * (2 * m[1] - 3 * m[2]) + c * 2 * m[2]
Logs(m, b) == {Trunc(LogOf(m, b, c), 200000 * m[2]) : c \in {-1, 1}}

(* One less if the value is below the power of ten, and maybe one less if  *)
(* it is as near to it as the error of that power.  The approximation is   *)
(* above the logarithm, so that below a negative power of ten the exponent *)
(* stays one too large: 0.0999 prints as 0.999e-01.                        *)
NearPower(x, t, p) ==
  t # 0 /\ PowerError * (x.num * p[2] - p[1] * x.den) \in -(p[1] * x.den) .. p[1] * x.den
Corrected(x, t, p) ==
  (IF x.num > 0 /\ (NearPower(x, t, p) \/ AtLeast(x, p)) THEN {t} ELSE {}) \union
  (IF x.num = 0 \/ NearPower(x, t, p) \/ ~AtLeast(x, p) THEN {t - 1} ELSE {})
Exponents(x) ==
  IF x.kind # "finite" THEN {0}
  ELSE UNION {UNION {Corrected(x, t, Pow10Fraction(t)) :
                       t \in Logs(Significand(x, b), b)} : b \in {exp2(x)}}

(* _etoa for a finite value; fallBack is the "%f" mode of "%g". *)
EtoaFallBack(x, fl) == /\ "ADAPT_EXP" \in fl
                       /\ x.num * 10^GLow >= x.den /\ x.num < 10^GHigh * x.den
EtoaPrecision(expval, prec, fallBack, fl) ==
  IF fallBack THEN Max({prec - expval - 1, 0})
  ELSE IF {"ADAPT_EXP", "PRECISION"} \subseteq fl /\ prec > 0 THEN prec - 1 ELSE prec
EtoaWidth(w, minwidth, fl) ==
  IF w <= minwidth \/ ("LEFT" \in fl /\ minwidth > 0) THEN 0 ELSE w - minwidth
Scaled(x, p, fallBack) ==
  IF fallBack \/ x.num = 0 THEN <<x.num, x.den>> ELSE Rounded(x.num * p[2], x.den * p[1])
Mantissas(x, scaled) == [x EXCEPT !.num = scaled[1], !.den = scaled[2]]
EtoaExponent(expval, minwidth, fl) ==
  IF minwidth = 0 THEN <<>>
  ELSE <<IF "UPPERCASE" \in fl THEN "E" ELSE "e">>
         \o ntoa_long(IF expval < 0 THEN -expval ELSE expval, expval < 0, 10, 0,
                      minwidth - 1, {"ZEROPAD", "PLUS"})
PadLeftAligned(text, w, fl) ==
  IF "LEFT" \in fl THEN text \o Repeat(" ", w - Len(text)) ELSE text
etoa_digits(x, expval, prec, w, fl, fallBack, minwidth) ==
  PadLeftAligned(
    ftoa_finite(Mantissas(x, Scaled(x, Pow10Fraction(expval), fallBack)),
      EtoaPrecision(expval, prec, fallBack, fl), EtoaWidth(w, minwidth, fl),
      (fl \ {"ADAPT_EXP"}) \union (IF fallBack THEN {"PRECISION"} ELSE {}))
    \o EtoaExponent(expval, minwidth, fl), w, fl)
etoa_finite(x, expval, prec, w, fl) ==
  etoa_digits(x, expval, IF "PRECISION" \in fl THEN prec ELSE DefaultPrecision, w, fl,
    EtoaFallBack(x, fl), IF EtoaFallBack(x, fl) THEN 0
                         ELSE IF expval \in 1 - LongExponent .. LongExponent - 1
                         THEN 4 ELSE 5)

etoa(x, expval, prec, w, fl) ==
  IF x.kind = "finite" THEN etoa_finite(x, expval, prec, w, fl)
  ELSE ftoa_special(x, w, fl)

ftoa(x, expval, prec, w, fl) ==
  IF x.kind = "finite" /\ x.num <= MaxFloat * x.den
  THEN ftoa_finite(x, prec, w, fl) ELSE etoa(x, expval, prec, w, fl)

-----------------------------------------------------------------------------
(* _vsnprintf *)

Init ==
  /\ \E i \in DOMAIN Calls : call \in Calls[i]
  /\ pos = 1 /\ va = call.args
  /\ flags = {} /\ width = 0 /\ precision = 0
  /\ out = <<>> /\ buffer = [i \in 0 .. call.count - 1 |-> Unwritten]
  /\ field = [spec |-> NUL] /\ pc = "text"

CharAt(i) == IF i <= Len(call.format) THEN call.format[i] ELSE NUL
ch == CharAt(pos)

(* The unsigned number that starts at i, and the place behind it. *)
DigitValue(c) == CHOOSE d \in 0 .. 9 : DigitChar(d, {}) = c
is_digit(c) == c \in {DigitChar(d, {}) : d \in 0 .. 9}
atoi(i) ==
  LET last == Max({n \in i - 1 .. Len(call.format) :
                     \A k \in i .. n : is_digit(call.format[k])})
      value[n \in i - 1 .. last] ==
        IF n < i THEN 0
        ELSE (value[n - 1] * 10 + DigitValue(call.format[n])) % 2^TypeBits["int"]
  IN  [value |-> value[last], next |-> last + 1]

(* The size _vsnprintf is told, (size_t)-1 by the callers that have none:  *)
(* for sprintf_ call.count is the size of a buffer it does not know.       *)
maxlen == IF call.entry \in {"snprintf_", "vsnprintf_"} THEN call.count
          ELSE 2^TypeBits["long"] - 1

(* A text handed to out from index at on.  _out_buffer stores what is in   *)
(* front of maxlen, behind the end of the buffer as well; the other output *)
(* functions store nothing here.                                           *)
Stores(text, at) == {i \in at .. at + Len(text) - 1 : i < maxlen}
out_buffer(b, text, at) ==
  [i \in DOMAIN b \union Stores(text, at) |->
     IF i \in Stores(text, at) THEN text[i - at + 1] ELSE b[i]]

Output == IF call.null THEN "_out_null" ELSE OutFunction[call.entry]
Emit(text) ==
  /\ out' = out \o text
  /\ buffer' = IF Output = "_out_buffer" THEN out_buffer(buffer, text, Len(out))
               ELSE buffer

Literal ==
  /\ pc = "text" /\ ch \notin {NUL, "%"}
  /\ Emit(<<ch>>)
  /\ pos' = pos + 1
  /\ UNCHANGED <<call, va, parsed, field, pc>>

Percent ==
  /\ pc = "text" /\ ch = "%"
  /\ pc' = "flags" /\ pos' = pos + 1
  /\ flags' = {} /\ width' = 0 /\ precision' = 0
  /\ UNCHANGED <<call, va, out, buffer, field>>

FlagChars == [c \in {"0", "-", "+", " ", "#"} |->
  CASE c = "0" -> "ZEROPAD" [] c = "-" -> "LEFT" [] c = "+" -> "PLUS"
    [] c = " " -> "SPACE" [] c = "#" -> "HASH"]

(* Faulty: the loop over the flags forgets to go on. *)
StayAt(i) == i
AfterFlag(i) == i + 1

EvaluateFlags ==
  /\ pc = "flags"
  /\ IF ch \in DOMAIN FlagChars
     THEN /\ flags' = flags \union {FlagChars[ch]} /\ UNCHANGED pc
          /\ pos' = AfterFlag(pos)
     ELSE pc' = "width" /\ UNCHANGED <<flags, pos>>
  /\ UNCHANGED <<call, va, width, precision, out, buffer, field>>

EvaluateWidth ==
  /\ pc = "width" /\ pc' = "precision"
  /\ CASE is_digit(ch) -> /\ width' = atoi(pos).value /\ pos' = atoi(pos).next
                          /\ UNCHANGED <<flags, va>>
       [] ch = "*" -> /\ width' = IF va[1] < 0 THEN -va[1] ELSE va[1]
                      /\ flags' = IF va[1] < 0 THEN flags \union {"LEFT"} ELSE flags
                      /\ va' = Tail(va) /\ pos' = pos + 1
       [] OTHER -> UNCHANGED <<width, flags, va, pos>>
  /\ UNCHANGED <<call, precision, out, buffer, field>>

EvaluatePrecision ==
  /\ pc = "precision" /\ pc' = "length"
  /\ IF ch # "." THEN UNCHANGED <<flags, precision, va, pos>>
     ELSE /\ flags' = flags \union {"PRECISION"}
          /\ IF CharAt(pos + 1) = "*"
             THEN /\ precision' = Max({va[1], 0})
                  /\ va' = Tail(va) /\ pos' = pos + 2
             ELSE LET number == atoi(pos + 1)
                  IN  /\ precision' = number.value /\ pos' = number.next
                      /\ UNCHANGED va
  /\ UNCHANGED <<call, width, out, buffer, field>>

(* Faulty: every length field is taken to have two characters. *)
LengthFieldOfTwo(i) == IF CharAt(i) \in {"l", "h", "t", "j", "z"} THEN 2 ELSE 0

(* The characters of the length field. *)
LengthField(i) ==
  IF CharAt(i) \notin {"l", "h", "t", "j", "z"} THEN 0
  ELSE IF CharAt(i) \in {"l", "h"} /\ CharAt(i + 1) = CharAt(i) THEN 2 ELSE 1

(* On this machine t, j and z are long. *)
EvaluateLength ==
  LET one == CASE ch = "h" -> {"SHORT"} [] ch \in {"l", "t", "j", "z"} -> {"LONG"}
               [] OTHER -> {}
      two == IF ch = "h" THEN {"CHAR"} ELSE {"LONG_LONG"}
  IN  /\ pc = "length" /\ pc' = "specifier"
      /\ flags' = flags \union one \union (IF LengthField(pos) = 2 THEN two ELSE {})
      /\ pos' = pos + LengthField(pos)
      /\ UNCHANGED <<call, va, width, precision, out, buffer, field>>

(* The flags a specifier sets and the ones it ignores. *)
IntegerSpecs == {"d", "i", "u", "x", "X", "o", "b"}
FixedSpecs == {"f", "F"}
ExpSpecs == {"e", "E", "g", "G"}
SpecFlags(spec, fl) ==
  LET dropped == IF spec \notin IntegerSpecs THEN {} ELSE
        (IF spec \in {"d", "i"} THEN {"HASH"} ELSE {"PLUS", "SPACE"}) \union
        (IF spec = "u" THEN {"HASH"} ELSE {}) \union
        (IF "PRECISION" \in fl THEN {"ZEROPAD"} ELSE {})
      set == (IF spec \in {"X", "F", "E", "G", "p"} THEN {"UPPERCASE"} ELSE {})
        \union (IF spec \in {"g", "G"} THEN {"ADAPT_EXP"} ELSE {})
        \union (IF spec = "p" THEN {"ZEROPAD"} ELSE {})
  IN  (fl \ dropped) \union set

Base(spec) == CASE spec \in {"x", "X", "p"} -> 16 [] spec = "o" -> 8
                [] spec = "b" -> 2 [] OTHER -> 10

(* The argument as its type: char and short arrive as int and are cut. *)
BitsOf(fl) == TypeBits[IF "LONG" \in fl THEN "long" ELSE IF "CHAR" \in fl
                       THEN "char" ELSE IF "SHORT" \in fl THEN "short" ELSE "int"]
Unsigned(n, bits) == n % 2^bits
Signed(n, bits) == LET u == Unsigned(n, bits)
                   IN  IF u >= 2^(bits - 1) THEN u - 2^bits ELSE u

IntegerText(spec, n, prec, w, fl) ==
  LET v == IF spec \in {"d", "i"} THEN Signed(n, BitsOf(fl))
           ELSE Unsigned(n, BitsOf(fl))
  IN  ntoa_long(IF v < 0 THEN -v ELSE v, v < 0, Base(spec), prec, w, fl)

PointerText(n, prec, fl) ==
  ntoa_long(Unsigned(n, TypeBits["long"]), FALSE, 16, prec,
            TypeBits["long"] \div 4, fl)

(* %c and %s pad with spaces only; a precision cuts the string. *)
StringText(str, prec, w, fl) ==
  out_rev(IF "PRECISION" \in fl THEN SubSeq(str, 1, Min({prec, Len(str)}))
          ELSE str, w, fl \ {"ZEROPAD"})

TextOf(spec, arg, expval, prec, w, fl) ==
  CASE spec \in IntegerSpecs -> IntegerText(spec, arg, prec, w, fl)
    [] spec \in FixedSpecs -> ftoa(arg, expval, prec, w, fl)
    [] spec \in ExpSpecs -> etoa(arg, expval, prec, w, fl)
    [] spec = "c" -> StringText(<<arg>>, 1, w, fl)
    [] spec = "s" -> StringText(arg, prec, w, fl)
    [] spec = "p" -> PointerText(arg, prec, fl)

ConvertArgument ==
  LET fl == SpecFlags(ch, flags)
      exps == IF ch \in FixedSpecs \union ExpSpecs THEN Exponents(va[1]) ELSE {0}
  IN  /\ pc = "specifier" /\ pc' = "text" /\ pos' = pos + 1
      /\ ch \in IntegerSpecs \union FixedSpecs \union ExpSpecs \union {"c", "s", "p"}
      /\ \E e \in exps : \E text \in {TextOf(ch, va[1], e, precision, width, fl)} :
           /\ Emit(text)
           /\ field' = [spec |-> ch, arg |-> va[1], exp |-> e, flags |-> fl,
                width |-> width, precision |-> precision, text |-> text]
      /\ va' = Tail(va)
      /\ UNCHANGED <<call, parsed>>

(* "%%", and any character that is no specifier, stands for itself, also  *)
(* the terminator, behind which the loop then goes on.                     *)
ConvertOther ==
  /\ pc = "specifier"
  /\ ch \notin IntegerSpecs \union FixedSpecs \union ExpSpecs \union {"c", "s", "p"}
  /\ Emit(<<ch>>)
  /\ pos' = pos + 1
  /\ pc' = IF ch = NUL THEN "astray" ELSE "text"
  /\ UNCHANGED <<call, va, parsed, field>>

(* Faulty: the terminator goes behind the text even if that is cut off. *)
TerminatorBehindText(len) == len

(* Where the terminator goes.  For a size of zero the index wraps. *)
TerminatorIndex(len) ==
  IF len < maxlen THEN len ELSE (maxlen - 1) % 2^TypeBits["long"]

Terminate ==
  /\ pc = "text" /\ ch = NUL /\ pc' = "done"
  /\ buffer' = IF Output = "_out_buffer"
               THEN out_buffer(buffer, <<NUL>>, TerminatorIndex(Len(out)))
               ELSE buffer
  /\ UNCHANGED <<call, pos, va, parsed, out, field>>

Next ==
  \/ Literal \/ Percent \/ EvaluateFlags \/ EvaluateWidth \/ EvaluatePrecision
  \/ EvaluateLength \/ ConvertArgument \/ ConvertOther \/ Terminate

Spec == Init /\ [][Next]_vars

(* Nothing holds up a call between its steps.  The steps from a specifier  *)
(* with an argument back to the text are those of ConvertArgument.         *)
Walk ==
  \/ Literal \/ Percent \/ EvaluateFlags \/ EvaluateWidth \/ EvaluatePrecision
  \/ EvaluateLength \/ ConvertOther \/ Terminate
Converted ==
  /\ pc = "specifier" /\ pc' = "text"
  /\ ch \in IntegerSpecs \union FixedSpecs \union ExpSpecs \union {"c", "s", "p"}
FairSpec == Spec /\ WF_vars(Walk) /\ WF_pc(Converted)

-----------------------------------------------------------------------------
(* printf.h on snprintf: at most count characters are stored including the *)
(* terminator, a text that does not fit is cut to its first count - 1      *)
(* characters, it is always terminated if count is not zero, and nothing   *)
(* behind the terminator or outside of the buffer is touched, whatever the *)
(* format writes in pieces, a size of zero included (_out_buffer, the end  *)
(* of _vsnprintf).  sprintf does so for a buffer that is "big enough to    *)
(* store the output", as printf.h:68 asks of its caller.                   *)
CutAndTerminated ==
  /\ pc = "done" /\ Output = "_out_buffer"
  /\ call.entry = "sprintf_" => Len(out) < call.count
  => LET end == Min({Len(out), call.count - 1})
     IN  buffer = [i \in 0 .. call.count - 1 |->
                     IF i < end THEN out[i + 1] ELSE IF i = end THEN NUL ELSE Unwritten]

(* A directive at the end of a format that lacks its specifier is the only *)
(* way for the parser to get behind the terminator of the format: no other *)
(* combination of flags, width, precision and length loses its place       *)
(* (_vsnprintf, the default of the specifier switch).                      *)
DirectiveChar(c) == \/ c \in DOMAIN FlagChars \union {"*", ".", "l", "h", "t", "j", "z"}
                    \/ is_digit(c)
Unfinished(format) ==
  \E i \in DOMAIN format : /\ format[i] = "%"
                           /\ \A j \in i + 1 .. Len(format) : DirectiveChar(format[j])
InsideFormat ==
  pc = "astray" \/ pos > Len(call.format) + 1 => Unfinished(call.format)

(* A call whose last directive has its specifier comes back: no flag,      *)
(* width, precision or length keeps it at one place of the format, and     *)
(* nothing sends it back (the loops of _vsnprintf over the format and over *)
(* flags, _atoi).  A call with an unfinished directive may never do so.    *)
CallReturns == ~Unfinished(call.format) ~> pc = "done"

-----------------------------------------------------------------------------
(* The text the C standard asks of an integer conversion. *)
Spaces(text, f) == IF "LEFT" \in f.flags THEN text \o Repeat(" ", f.width - Len(text))
                   ELSE Repeat(" ", f.width - Len(text)) \o text
Value(f) == IF f.spec \in {"d", "i"} THEN Signed(f.arg, BitsOf(f.flags))
            ELSE Unsigned(f.arg, BitsOf(f.flags))
Magnitude(f) == IF Value(f) < 0 THEN -Value(f) ELSE Value(f)
CDigits(f) ==
  IF "PRECISION" \notin f.flags THEN DigitsOf(Magnitude(f), Base(f.spec), f.flags)
  ELSE IF f.precision = 0 /\ Magnitude(f) = 0 THEN <<>>
  ELSE LET d == DigitsOf(Magnitude(f), Base(f.spec), f.flags)
       IN  Repeat("0", f.precision - Len(d)) \o d
CPrefix(f) ==
  (IF Value(f) < 0 THEN <<"-">> ELSE IF "PLUS" \in f.flags THEN <<"+">>
   ELSE IF "SPACE" \in f.flags THEN <<" ">> ELSE <<>>) \o
  (IF "HASH" \notin f.flags \/ Value(f) = 0 THEN <<>>
   ELSE CASE f.spec = "x" -> <<"0", "x">> [] f.spec = "X" -> <<"0", "X">>
          [] f.spec = "b" -> <<"0", "b">> [] OTHER -> <<"0">>)
CInteger(f) ==
  LET zeros == IF "ZEROPAD" \in f.flags /\ "LEFT" \notin f.flags
               THEN Repeat("0", f.width - Len(CDigits(f)) - Len(CPrefix(f)))
               ELSE <<>>
  IN  Spaces(CPrefix(f) \o zeros \o CDigits(f), f)

(* Where printf.c is known to write something else: a number longer than   *)
(* its buffer (which printf.c:47-48 says "must be big enough"); a          *)
(* precision together with "-"; a hash whose prefix is put over digits     *)
(* because the number is as long as the field.                             *)
Truncated(f) == Max({Len(CDigits(f)) + Len(CPrefix(f)),
                     IF "ZEROPAD" \in f.flags THEN f.width ELSE 0}) > NtoaBuffer
PrecisionIgnored(f) == {"LEFT", "PRECISION"} \subseteq f.flags
PrefixOverDigits(f) ==
  /\ "HASH" \in f.flags
  /\ \/ f.width - Len(CDigits(f)) \in 0 .. 1
     \/ f.spec = "o" /\ "PRECISION" \in f.flags
     \/ f.spec = "b" /\ "ZEROPAD" \in f.flags

(* Apart from those cases every combination of flags, width, precision,    *)
(* length and value gives exactly the text of the C standard               *)
(* (_ntoa_format, _ntoa_long, _out_rev, the specifier switch).             *)
IntegerAsInC ==
  field.spec \in IntegerSpecs =>
    \/ Truncated(field) \/ PrecisionIgnored(field) \/ PrefixOverDigits(field)
    \/ field.text = CInteger(field)

(* A conversion never prints less than its field is wide, and if it prints *)
(* more, then because the text alone is that long: padding, sign columns,  *)
(* exponents and zeros are counted once (_out_rev, _ftoa, _etoa, %c, %s).  *)
(* Zeros end with the conversion buffer, and infinities get none.          *)
FieldFilled ==
  field.spec \in FixedSpecs \union ExpSpecs \union {"c", "s"} =>
    LET alone == TextOf(field.spec, field.arg, field.exp, field.precision, 0,
                        field.flags)
    IN  \/ Len(field.text) = Max({field.width, Len(alone)})
        \/ "ZEROPAD" \in field.flags /\ field.arg.kind # "finite"
        \/ "ZEROPAD" \in field.flags /\ field.width >= FtoaBuffer

-----------------------------------------------------------------------------
FloatPrecision(f) ==
  IF "PRECISION" \in f.flags THEN f.precision ELSE DefaultPrecision
FixedField(f) ==
  /\ f.spec \in FixedSpecs /\ f.arg.kind = "finite"
  /\ f.arg.num <= MaxFloat * f.arg.den
  /\ FloatPrecision(f) <= MaxPower

(* The digits of the text without its point, as a number. *)
Printed(f) ==
  LET digits == SelectSeq(f.text, is_digit)
      value[n \in Nat] == IF n = 0 THEN 0
                          ELSE value[n - 1] * 10 + DigitValue(digits[n])
  IN  value[Len(digits)]
Decimals(f) ==
  LET points == {i \in DOMAIN f.text : f.text[i] = "."}
  IN  IF points = {} THEN 0
      ELSE Cardinality({i \in Max(points) + 1 .. Len(f.text) : is_digit(f.text[i])})
Accurate(f) ==
  LET p == FloatPrecision(f)
      error == Printed(f) * f.arg.den - f.arg.num * 10^p
  IN  Decimals(f) = p /\ error \in -f.arg.den .. f.arg.den

(* The fraction is all nines and exactly a half more. *)
HalfBelowWhole(f) ==
  LET p == FloatPrecision(f)
      tmp == Rounded((f.arg.num % f.arg.den) * 10^p, f.arg.den)
  IN  p > 0 /\ 2 * tmp[1] = (2 * 10^p - 1) * tmp[2]

(* "%f" prints the number it is given to within one unit of the last       *)
(* digit, with exactly as many decimals as asked for; rounding up goes     *)
(* over into the whole part, unless the fraction is half below it: "handle *)
(* rollover" at printf.c:391 is only on the branch above a half (_ftoa).   *)
FloatAccurate == FixedField(field) => HalfBelowWhole(field) \/ Accurate(field)
=============================================================================
