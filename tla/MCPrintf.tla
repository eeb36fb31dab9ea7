------------------------------ MODULE MCPrintf ------------------------------
(* Calls of printf.c for model checking.  Types of 3 to 8 bits and buffers *)
(* of 6 to 8 characters bring their limits into reach.                     *)
EXTENDS Printf

MCTypeBits == [t \in {"char", "short", "int", "long"} |->
  CASE t = "char" -> 3 [] t = "short" -> 4 [] t = "int" -> 5 [] t = "long" -> 8]

(* Flags in one order; some of them twice or none at all. *)
FlagTexts ==
  {SelectSeq(<<"#", "+", " ", "-", "0">>, LAMBDA c : c \in S) :
     S \in SUBSET {"#", "+", " ", "-", "0"}}
Opt(S) == {<<>>} \union {<<c>> : c \in S}
Precisions == {<<>>, <<".">>, <<".", "2">>, <<".", "3">>}
Lengths == {<<>>, <<"l">>, <<"l", "l">>, <<"h">>, <<"h", "h">>, <<"z">>}

Directive(fl, w, p, l, spec) == <<"%">> \o fl \o w \o p \o l \o <<spec>>
Logged(format, args) ==
  [entry |-> "logfn", null |-> FALSE, format |-> format, args |-> args, count |-> 0]
Stored(format, args, count) ==
  [entry |-> "snprintf_", null |-> FALSE, format |-> format, args |-> args,
   count |-> count]

(* Every flag, width and precision, in every base. *)
PlainIntegers ==
  {Logged(Directive(fl, w, p, <<>>, spec), <<n>>) :
     fl \in FlagTexts, w \in Opt({"3", "4"}), p \in Precisions,
     spec \in {"d", "x", "o", "b"}, n \in {0, 1, 9, 31}}
(* Every length, with arguments that do not fit it; widths as arguments. *)
SizedIntegers ==
  {Logged(Directive(fl, <<"4">>, p, l, spec), <<n>>) :
     fl \in {<<>>, <<"0">>, <<"+">>}, p \in {<<>>, <<".", "2">>},
     l \in Lengths, spec \in {"d", "i", "u", "X"}, n \in {-16, -5, 7, 12, 15}}
StarIntegers ==
  {Logged(Directive(<<>>, <<"*">>, <<".", "*">>, <<>>, "d"), <<w, p, -3>>) :
     w \in -4 .. 4, p \in -1 .. 3}
(* Widths and precisions around and beyond the limit of an unsigned int. *)
WideIntegers ==
  {Logged(Directive(<<>>, w, p, <<>>, "d"), <<-3>>) :
     w \in {<<"3", "1">>, <<"3", "2">>, <<"3", "5">>}, p \in {<<>>, <<".", "3", "4">>}}
(* Numbers that fill the conversion buffer, and one that does not fit. *)
LongBinary ==
  {Logged(Directive(<<>>, w, <<>>, <<"l">>, "b"), <<n>>) :
     w \in Opt({"3"}), n \in {2, 63, 64}}
MCIntegers == <<PlainIntegers, SizedIntegers, StarIntegers, WideIntegers,
                LongBinary>>

(* Doubles of 9 bits: 0 to 1 in 256ths, to 16 in 16ths, to 256 and beyond; *)
(* 409/4096 is just below 0.1, 1/512 has no leading one; infinities.       *)
Finite(n, d) == [kind |-> "finite", neg |-> FALSE, num |-> n, den |-> d]
Doubles == {Finite(n, 256) : n \in {0, 1, 2, 12, 25, 26, 127, 128, 243, 255}}
  \union {Finite(1, 512), Finite(409, 4096)}
  \union {Finite(n, 16) : n \in {8, 15, 16, 24, 40, 56, 144, 152, 155, 159, 160}}
  \union {Finite(n, 1) : n \in {20, 99, 100, 255, 992, 1000, 1020}}
  \union {[kind |-> k, neg |-> FALSE, num |-> 0, den |-> 1] : k \in {"nan", "inf"}}
Negated == {[x EXCEPT !.neg = TRUE] : x \in {y \in Doubles : y.kind # "nan" /\ y.num # 0}}
MCFloats == <<
  {Logged(Directive(fl, w, p, <<>>, spec), <<x>>) :
     fl \in {f \in FlagTexts : \A i \in DOMAIN f : f[i] # "#"},
     w \in {<<>>, <<"4">>, <<"7">>}, p \in {<<>>, <<".">>, <<".", "1">>, <<".", "3">>},
     spec \in {"f", "e", "g"}, x \in {Finite(243, 256), Finite(155, 16), Finite(100, 1)}},
  {Logged(Directive(<<>>, w, p, <<>>, spec), <<x>>) :
     w \in {<<>>, <<"9">>}, p \in {<<>>, <<".">>, <<".", "1">>, <<".", "2">>},
     spec \in {"F", "E", "G"}, x \in Doubles \union Negated}>>

(* Texts in pieces, into buffers of every size around theirs. *)
Strings == {<<>>, <<"a">>, <<"a", "b", "c">>}
MCStrings == <<
  {Stored(<<"<">> \o Directive(fl, w, p, <<>>, "s") \o <<"%", "%", ">">>, <<str>>, n) :
     fl \in {<<>>, <<"-">>, <<"0">>}, w \in Opt({"2", "4"}),
     p \in {<<>>, <<".">>, <<".", "2">>}, str \in Strings, n \in 0 .. 8},
  {Stored(Directive(fl, w, <<>>, <<>>, "c") \o <<"!">>, <<c>>, n) :
     fl \in {<<>>, <<"-">>}, w \in Opt({"2"}), c \in {"a", NUL}, n \in 0 .. 4},
  {Stored(Directive(fl, <<>>, p, <<>>, "p"), <<n>>, 4) :
     fl \in {<<>>, <<"-">>, <<"#">>}, p \in {<<>>, <<".", "3">>}, n \in {0, 10, 255}},
  {[entry |-> "sprintf_", null |-> null, format |-> <<"%", "4", "c", "!">>,
    args |-> <<"a">>, count |-> n] : null \in BOOLEAN, n \in {0, 3, 5, 6, 7}},
  {[entry |-> e, null |-> e = "vsnprintf_", format |-> <<"a", "%", "z", "q">> \o f,
    args |-> <<>>, count |-> 0] :
     e \in {"fctprintf", "vsnprintf_", "printf_", "vprintf_"},
     f \in {<<>>, <<"%">>, <<"%", "0", "-", "3">>, <<"%", ".", "2", "l">>}}>>

MCCalls == MCIntegers \o MCFloats \o MCStrings
=============================================================================
