---------------------------- MODULE MCAlgorithms ----------------------------
(***************************************************************************)
(* Inputs for Algorithms.  Numbers are int of 4 and long of 9 bits.        *)
(***************************************************************************)
EXTENDS Algorithms

\* Five bytes: all contents over NUL and two characters.
MCMemories == [1..5 -> 0..2]

Digits(max, k) == UNION {[1..n -> {0, 1, 9, max}] : n \in 0..k}

MCNumbers ==
  [spaces : 0..1, prefix : {<<>>}, digits : Digits(9, 4), base : {10},
   upper : {FALSE}, rest : {<<>>, <<45, 49>>, <<97>>, <<120, 49>>}]
  \cup [spaces : 0..1, prefix : {<<48, 120>>, <<48, 88>>}, digits : Digits(15, 3),
        base : {0}, upper : BOOLEAN, rest : {<<>>, <<103>>}]
  \cup [spaces : {0}, prefix : {<<>>}, digits : Digits(9, 2), base : {0},
        upper : {FALSE}, rest : {<<>>, <<97>>}]
  \cup [spaces : {0}, prefix : {<<>>}, digits : Digits(15, 3), base : {16},
        upper : BOOLEAN, rest : {<<>>, <<120>>}]

MCArrays == UNION {[1..n -> 1..3] : n \in 1..5}

\* Every byte alone, which uses every entry of the table; bytes in a row.
MCBuffers ==
  {<<b>> : b \in 0..255} \cup [1..3 -> {0, 1, 128, 255}]
    \cup {<<>>, <<49, 50, 51, 52, 53, 54, 55, 56, 57>>}

None == [opt |-> "NONE", n |-> 0]
Lit(n) == [opt |-> "LITERAL", n |-> n]
Star(n) == [opt |-> "STAR", n |-> n]

Flags == {<<>>, <<"-">>, <<"0">>, <<"+">>, <<" ">>, <<" ", "+">>, <<"+", " ">>,
          <<"-", "0">>, <<"0", "+">>}
Widths == {None, Lit(1), Lit(12), Star(5), Star(-5)}
Precs == {None, Lit(0), Lit(4), Star(2), Star(-1)}

Long == {<<"l">>, <<"l", "l">>}

\* Modifier, conversion and value: the ends of every range and zero.
Values ==
  {<<>>} \X {"d"} \X {-8, -1, 0, 7}
    \cup {<<>>} \X {"u", "x", "o", "b"} \X {0, 15}
    \cup Long \X {"i"} \X {-256, 0, 255}
    \cup {<<"l">>} \X {"u", "o", "X", "B"} \X {0, 8, 511}
    \cup {<<"j">>, <<"z">>, <<"t">>} \X {"x"} \X {300}
    \cup {<<>>} \X {"p"} \X {0, 300}

HasZero(f) == "0" \in {f[i] : i \in DOMAIN f}

NumberDirectives ==
  {Directive(f, w, p, v[1], v[2], v[3]) :
     f \in Flags, w \in Widths, p \in Precs, v \in Values}

\* %b and %p keep the flag 0 when a precision is given; C leaves that undefined.
Defined(d) == ~(d.conv \in {"b", "B", "p"} /\ HasZero(d.flags) /\ d.prec # None)

TextDirectives ==
  {Directive(f, w, p, <<>>, "s", s) : f \in {<<>>, <<"-">>}, w \in Widths,
     p \in Precs, s \in {<<>>, <<"k">>, <<"k", "v", "=">>}}
  \cup {Directive(f, w, None, <<>>, "c", "k") : f \in {<<>>, <<"-">>}, w \in Widths}
  \cup {Directive(<<>>, None, None, <<>>, "%", NULL)}

Marker == Directive(<<>>, None, None, <<>>, "s", <<"z", "z">>)

Unfinished == {<<"%">>, <<"%", "-">>, <<"%", "5">>, <<"%", "*">>, <<"%", ".">>,
               <<"%", ".", "*">>, <<"%", "l">>, <<"%", "l", "l">>, <<"%", "q">>}

ItemLists ==
  {<<Literal(<<"a">>), d, Marker>> :
     d \in {e \in NumberDirectives : Defined(e)} \cup TextDirectives}
  \cup {<<Literal(<<"a">>), Literal(u)>> : u \in Unfinished}

MCPrinted == [items : ItemLists, bufsz : {NULL}]
               \cup [items : {<<Literal(<<"a">>), d, Marker>> : d \in TextDirectives},
                     bufsz : 0..8]

MCMessages == {<<>>, <<Literal(<<"a", "b">>)>>,
               <<Literal(<<"v">>), Directive(<<>>, None, None, <<>>, "d", -8)>>}
=============================================================================
