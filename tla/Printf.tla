------------------------------- MODULE Printf -------------------------------
(***************************************************************************)
(* nanoprintf.h as util.c configures it: field widths, precisions, large   *)
(* and binary conversions; no floating point, no h modifiers, no %n and no *)
(* '#' flag.  info and fatal print through it, character by character, and *)
(* npf_vsnprintf into a buffer.                                            *)
(*                                                                         *)
(* A character is a string of length one; numbers are as wide as IntMod    *)
(* and LongMod say.  An argument is a register of LongMod values, a string *)
(* or NULL.                                                                *)
(***************************************************************************)
EXTENDS Integers, Sequences

CONSTANTS
  IntMod, LongMod,  \* 2^32, 2^64
  CbufSize,         \* NANOPRINTF_CONVERSION_BUFFER_SIZE: 23, for 64 bits
  PtrDigits,        \* hexadecimal digits of a pointer
  NULL

ASSUME WidthAssumption ==
  /\ {IntMod, LongMod, CbufSize, PtrDigits} \subseteq Nat \ {0}
  /\ LongMod % IntMod = 0

NUL == "NUL"

-----------------------------------------------------------------------------
(***************************************************************************)
(* npf_parse_format_spec                                                   *)
(***************************************************************************)

DigitChars == <<"0", "1", "2", "3", "4", "5", "6", "7", "8", "9">>
Digit == {DigitChars[i] : i \in DOMAIN DigitChars}
ValueOf(c) == (CHOOSE i \in DOMAIN DigitChars : DigitChars[i] = c) - 1

\* The character at i; the NUL is the last one there is.
At(f, i) == IF i <= Len(f) THEN f[i] ELSE NUL

\* The first position from i on with a character outside S.
Skip(f, i, S) ==
  CHOOSE j \in i..(Len(f) + 1) :
    /\ At(f, j) \notin S
    /\ \A k \in i..(j - 1) : f[k] \in S

Decimal(f, from, to) ==
  LET value[k \in (from - 1)..to] ==
        IF k < from THEN 0 ELSE value[k - 1] * 10 + ValueOf(f[k])
  IN  value[to]

Conversion == {"%", "c", "s", "i", "d", "o", "u", "x", "X", "p", "b", "B"}

\* The specification as it is parsed: cur is the next character of the format.
ParseFlags(f, at) ==
  LET w == Skip(f, at + 1, {"-", "0", "+", " "})
      flags == {f[i] : i \in (at + 1)..(w - 1)}
  IN  [cur |-> w, len |-> 0, conv |-> NUL, wide |-> FALSE,
       left |-> "-" \in flags, zero |-> "0" \in flags,
       prepend |-> IF "+" \in flags THEN "+"
                   ELSE IF " " \in flags THEN " " ELSE NULL,
       width_opt |-> "NONE", width |-> 0, prec_opt |-> "NONE", prec |-> 0]

ParseWidth(f, fs) ==
  LET p == Skip(f, fs.cur, Digit)
  IN  IF At(f, fs.cur) = "*" THEN [fs EXCEPT !.cur = @ + 1, !.width_opt = "STAR"]
      ELSE IF p = fs.cur THEN fs
      ELSE [fs EXCEPT !.cur = p, !.width_opt = "LITERAL",
                      !.width = Decimal(f, fs.cur, p - 1)]

PrecisionDigits(f, fs) ==
  LET l == Skip(f, fs.cur, Digit)
  IN  [fs EXCEPT !.cur = l, !.prec = Decimal(f, fs.cur, l - 1)]

\* A negative precision is parsed and counts as none.
ParsePrecision(f, fs) ==
  IF At(f, fs.cur) # "." THEN fs
  ELSE IF At(f, fs.cur + 1) = "*" THEN [fs EXCEPT !.cur = @ + 2, !.prec_opt = "STAR"]
  ELSE IF At(f, fs.cur + 1) = "-" THEN PrecisionDigits(f, [fs EXCEPT !.cur = @ + 2])
  ELSE PrecisionDigits(f, [fs EXCEPT !.cur = @ + 1, !.prec_opt = "LITERAL"])

\* "wide" for every modifier: on this machine each means 64 bits.
ParseModifier(f, fs) ==
  IF At(f, fs.cur) = "l" /\ At(f, fs.cur + 1) = "l"
  THEN [fs EXCEPT !.cur = @ + 2, !.wide = TRUE]
  ELSE IF At(f, fs.cur) \in {"l", "j", "z", "t"}
  THEN [fs EXCEPT !.cur = @ + 1, !.wide = TRUE]
  ELSE fs

ParseConversion(f, at, fs) ==
  IF At(f, fs.cur) \in Conversion
  THEN [fs EXCEPT !.conv = At(f, fs.cur), !.len = fs.cur + 1 - at]
  ELSE fs

\* The directive whose '%' is at the given position; len is 0 if it is none.
npf_parse_format_spec(f, at) ==
  ParseConversion(f, at,
    ParseModifier(f, ParsePrecision(f, ParseWidth(f, ParseFlags(f, at)))))

-----------------------------------------------------------------------------
(***************************************************************************)
(* One directive.                                                          *)
(***************************************************************************)

Signed(v, mod) == LET u == v % mod IN IF u < mod \div 2 THEN u ELSE u - mod

\* va_arg of an integer, as the length modifier says.
Extract(fs, v) == v % (IF fs.wide THEN LongMod ELSE IntMod)
ExtractSigned(fs, v) == Signed(v, IF fs.wide THEN LongMod ELSE IntMod)

\* How many arguments the stars take, and the directive with them filled in.
Stars(fs) == (IF fs.width_opt = "STAR" THEN 1 ELSE 0)
               + IF fs.prec_opt = "STAR" THEN 1 ELSE 0

StarWidth(fs, v) ==
  LET n == Signed(v, IntMod)
  IN  IF fs.width_opt # "STAR" THEN fs
      ELSE IF n < 0 THEN [fs EXCEPT !.width = -n, !.left = TRUE]
      ELSE [fs EXCEPT !.width = n]

StarPrecision(fs, v) ==
  LET n == Signed(v, IntMod)
  IN  IF fs.prec_opt # "STAR" THEN fs
      ELSE IF n < 0 THEN [fs EXCEPT !.prec = 0, !.prec_opt = "NONE"]
      ELSE [fs EXCEPT !.prec = n]

\* A pointer has a default precision; a precision switches the '0' flag off.
Defaults(fs) ==
  [fs EXCEPT
     !.prec = IF fs.prec_opt = "NONE" /\ fs.conv = "p" THEN PtrDigits ELSE @,
     !.zero = @ /\ ~(/\ fs.prec_opt # "NONE"
                     /\ fs.conv \in {"d", "i", "o", "x", "X", "u"})]

\* Mutant of StarsFilled: the precision is taken before the width.
StarsFilledSwapped(fs, args, i) ==
  Defaults(StarWidth(StarPrecision(fs, args[i]), args[i + Stars(fs) - 1]))

StarsFilled(fs, args, i) ==
  IF Stars(fs) = 0 THEN Defaults(fs)
  ELSE Defaults(StarPrecision(StarWidth(fs, args[i]), args[i + Stars(fs) - 1]))

NumeralChar(d, upper) ==
  IF d < 10 THEN DigitChars[d + 1]
  ELSE (IF upper THEN <<"A", "B", "C", "D", "E", "F">>
        ELSE <<"a", "b", "c", "d", "e", "f">>)[d - 9]

\* npf_utoa_rev: the digits of val, the last one first.  val is divided at
\* most DivisionBound times, more than LongMod has digits in any base here.
DivisionBound == 12

npf_utoa_rev(val, base, upper) ==
  LET left[k \in 0..DivisionBound] == IF k = 0 THEN val ELSE left[k - 1] \div base
      n == CHOOSE k \in 1..DivisionBound :
             left[k] = 0 /\ \A j \in 1..(k - 1) : left[j] # 0
  IN  [k \in 1..n |-> NumeralChar(left[k - 1] % base, upper)]

npf_bin_len(u) ==
  IF u = 0 THEN 1
  ELSE CHOOSE n \in 1..LongMod : 2^(n - 1) <= u /\ u < 2^n

Reversed(s) == [i \in 1..Len(s) |-> s[Len(s) + 1 - i]]

\* The text of the argument, its sign, and how much of cbuf it takes.  A string
\* is printed from where it is, a binary number from the union's binval.
Payload(fs, v) ==
  LET s      == ExtractSigned(fs, v)
      u      == IF fs.conv = "p" THEN v ELSE Extract(fs, v)
      base   == IF fs.conv = "o" THEN 8
                ELSE IF fs.conv \in {"u", "d", "i"} THEN 10 ELSE 16
      mag    == IF s < 0 THEN -s ELSE s
      none   == fs.prec_opt # "NONE" /\ fs.prec = 0
      Text(t, sign, zero, used) ==
        [text |-> t, sign |-> sign, zero |-> zero, used |-> used]
      Number(n, sign) ==
        IF n = 0 /\ none THEN Text(<<>>, sign, TRUE, 0)
        ELSE LET t == npf_utoa_rev(n, base, fs.conv = "X")
             IN  Text(Reversed(t), sign, n = 0, Len(t))
  IN  IF fs.conv = "%" THEN Text(<<"%">>, NULL, FALSE, 1)
      ELSE IF fs.conv = "c"
      THEN Text(IF v = NUL THEN <<>> ELSE <<v>>, NULL, FALSE, 1)
      ELSE IF fs.conv = "s"
      THEN Text(IF v = NULL THEN <<>>
                ELSE IF fs.prec_opt # "NONE" /\ fs.prec < Len(v)
                THEN SubSeq(v, 1, fs.prec) ELSE v, NULL, FALSE, 0)
      ELSE IF fs.conv \in {"d", "i"}
      THEN Number(mag, IF s < 0 THEN "-" ELSE fs.prepend)
      ELSE IF fs.conv \in {"b", "B"}
      THEN Text(IF u = 0 /\ none THEN <<>>
                ELSE [i \in 1..npf_bin_len(u) |->
                        DigitChars[((u \div 2^(npf_bin_len(u) - i)) % 2) + 1]],
                NULL, u = 0, 0)
      ELSE Number(u, NULL)

Times(n, c) == [i \in 1..(IF n > 0 THEN n ELSE 0) |-> c]

\* Sign, padding and precision around the payload, in the order of the code.
Layout(fs, p) ==
  LET sign  == IF p.sign = NULL THEN <<>> ELSE <<p.sign>>
      zeros == IF fs.conv = "s" \/ fs.prec < Len(p.text) THEN 0
               ELSE fs.prec - Len(p.text)
      pad   == fs.width - Len(p.text) - Len(sign) - zeros
      pad_c == IF fs.width_opt = "NONE" THEN NULL
               ELSE IF /\ fs.zero /\ ~fs.left
                       /\ ~(fs.prec_opt # "NONE" /\ fs.prec = 0 /\ p.zero)
               THEN "0" ELSE " "
      body  == Times(zeros, "0") \o p.text
  IN  IF pad_c = NULL THEN sign \o body
      ELSE IF fs.left THEN sign \o body \o Times(pad, pad_c)
      ELSE IF pad_c = "0" THEN sign \o Times(pad, "0") \o body
      ELSE Times(pad, " ") \o sign \o body

-----------------------------------------------------------------------------
(***************************************************************************)
(* npf_vpprintf and npf_vsnprintf.  The loop's state: cur and next, the    *)
(* positions in format and arguments; out, what npf_putc_cnt passed on;    *)
(* dst, what npf_bufputc stored; cbuf, the most that was ever put into the *)
(* conversion buffer.  bufsz is NULL for info and fatal, which print.      *)
(***************************************************************************)

\* npf_bufputc for the characters of s: those that fit are stored.
npf_bufputc(d, bufsz, s) ==
  IF bufsz = NULL THEN d
  ELSE d \o SubSeq(s, 1, IF bufsz - Len(d) < Len(s)
                         THEN bufsz - Len(d) ELSE Len(s))

npf_putc_cnt(st, bufsz, s) ==
  [st EXCEPT !.out = @ \o s, !.dst = npf_bufputc(@, bufsz, s)]

PutPlain(st, bufsz, c) ==
  [npf_putc_cnt(st, bufsz, <<c>>) EXCEPT !.cur = @ + 1]

PutField(st, bufsz, fs, p) ==
  [npf_putc_cnt(st, bufsz, Layout(fs, p)) EXCEPT
     !.cur = @ + fs.len, !.cbuf = IF p.used > @ THEN p.used ELSE @]

PutDirective(st, bufsz, args, fs) ==
  IF fs.conv = "%" THEN PutField(st, bufsz, fs, Payload(fs, NULL))
  ELSE PutField([st EXCEPT !.next = @ + 1], bufsz, fs, Payload(fs, args[st.next]))

\* One turn: a character that begins no directive, or a directive with its
\* arguments, those for the stars first.
Turn(st, bufsz, args, c, spec) ==
  IF c # "%" \/ spec.len = 0 THEN PutPlain(st, bufsz, c)
  ELSE PutDirective([st EXCEPT !.next = @ + Stars(spec)], bufsz, args,
                    StarsFilled(spec, args, st.next))

\* Every turn takes at least one character of the format.
npf_vpprintf(format, args, bufsz) ==
  LET begin == [cur |-> 1, next |-> 1, out |-> <<>>, dst |-> <<>>, cbuf |-> 0]
      turn[k \in 0..Len(format)] ==
        IF k = 0 THEN begin
        ELSE LET st == turn[k - 1]
             IN  IF At(format, st.cur) = NUL THEN st
                 ELSE Turn(st, bufsz, args, format[st.cur],
                           npf_parse_format_spec(format, st.cur))
  IN  turn[Len(format)]

\* Mutant of npf_vsnprintf: terminated at the full length.
VsnprintfAtLength(format, args, bufsz) ==
  LET st == npf_vpprintf(format, args, bufsz)
  IN  [st EXCEPT !.dst = IF bufsz \in {NULL, 0} THEN @ ELSE Append(@, NUL)]

\* The buffer is terminated where the output ends, or in its last byte.
npf_vsnprintf(format, args, bufsz) ==
  LET st == npf_vpprintf(format, args, bufsz)
  IN  [st EXCEPT !.dst = IF bufsz \in {NULL, 0} THEN @
                         ELSE IF Len(st.out) < bufsz THEN Append(@, NUL)
                         ELSE [@ EXCEPT ![bufsz] = NUL]]

-----------------------------------------------------------------------------
(***************************************************************************)
(* What a format means: it is a sequence of items, literal text or         *)
(* directives, and each item has a text in the format, arguments, and a    *)
(* meaning defined by the C standard.  The code sees only texts and        *)
(* arguments.                                                              *)
(***************************************************************************)

Literal(t) == [kind |-> "literal", text |-> t]

\* width and prec are [opt, n] with opt as in the code; val is a number, a
\* character or a string.
Directive(flags, width, prec, mod, conv, val) ==
  [kind |-> "directive", flags |-> flags, width |-> width, prec |-> prec,
   mod |-> mod, conv |-> conv, val |-> val]

NumberText(n) == IF n < 10 THEN <<DigitChars[n + 1]>>
                 ELSE <<DigitChars[(n \div 10) + 1], DigitChars[(n % 10) + 1]>>

OptText(o) == IF o.opt = "NONE" THEN <<>>
              ELSE IF o.opt = "STAR" THEN <<"*">> ELSE NumberText(o.n)

ItemText(d) ==
  IF d.kind = "literal" THEN d.text
  ELSE <<"%">> \o d.flags \o OptText(d.width)
         \o (IF d.prec.opt = "NONE" THEN <<>> ELSE <<".">> \o OptText(d.prec))
         \o d.mod \o <<d.conv>>

StarArg(o) == IF o.opt = "STAR" THEN <<o.n % LongMod>> ELSE <<>>

\* An int is passed in a register whose upper half holds anything.
ItemArgs(d) ==
  IF d.kind = "literal" THEN <<>>
  ELSE StarArg(d.width) \o StarArg(d.prec)
         \o (IF d.conv = "%" THEN <<>>
             ELSE IF d.conv \in {"c", "s"} THEN <<d.val>>
             ELSE IF d.mod = <<>> /\ d.conv # "p"
             THEN <<(d.val % IntMod) + (LongMod - IntMod)>>
             ELSE <<d.val % LongMod>>)

\* The numeral of n >= 0: the only one without a leading zero.
Numeral(n, base, upper) ==
  LET k == CHOOSE k \in 1..LongMod :
             base^k > n /\ (k = 1 \/ base^(k - 1) <= n)
  IN  [i \in 1..k |-> NumeralChar((n \div base^(k - i)) % base, upper)]

ItemMeaning(d) ==
  LET Has(f)  == f \in {d.flags[i] : i \in DOMAIN d.flags}
      number  == d.conv \notin {"%", "c", "s"}
      left    == Has("-") \/ (d.width.opt = "STAR" /\ d.width.n < 0)
      width   == IF d.width.opt = "NONE" THEN 0
                 ELSE IF d.width.n < 0 THEN -d.width.n ELSE d.width.n
      precise == d.prec.opt # "NONE" /\ d.prec.n >= 0
      prec    == IF precise THEN d.prec.n ELSE IF d.conv = "p" THEN PtrDigits ELSE 1
      base    == IF d.conv \in {"d", "i", "u"} THEN 10 ELSE IF d.conv = "o" THEN 8
                 ELSE IF d.conv \in {"b", "B"} THEN 2 ELSE 16
      numeral == IF d.val = 0 /\ prec = 0 THEN <<>>
                 ELSE Numeral(IF d.val < 0 THEN -d.val ELSE d.val, base, d.conv = "X")
      text    == IF d.conv = "%" THEN <<"%">>
                 ELSE IF d.conv = "c" THEN <<d.val>>
                 ELSE IF d.conv = "s"
                 THEN IF precise /\ prec < Len(d.val) THEN SubSeq(d.val, 1, prec)
                      ELSE d.val
                 ELSE Times(prec - Len(numeral), "0") \o numeral
      sign    == IF d.conv \notin {"d", "i"} THEN <<>>
                 ELSE IF d.val < 0 THEN <<"-">>
                 ELSE IF Has("+") THEN <<"+">>
                 ELSE IF Has(" ") THEN <<" ">> ELSE <<>>
      fill    == width - Len(sign) - Len(text)
  IN  IF d.kind = "literal" THEN d.text
      ELSE IF left THEN sign \o text \o Times(fill, " ")
      ELSE IF Has("0") /\ number /\ ~precise THEN sign \o Times(fill, "0") \o text
      ELSE Times(fill, " ") \o sign \o text

Joined(seqs) ==
  LET upto[k \in 0..Len(seqs)] == IF k = 0 THEN <<>> ELSE upto[k - 1] \o seqs[k]
  IN  upto[Len(seqs)]

FormatOf(items) == Joined([i \in DOMAIN items |-> ItemText(items[i])])
ArgsOf(items) == Joined([i \in DOMAIN items |-> ItemArgs(items[i])])
Meaning(items) == Joined([i \in DOMAIN items |-> ItemMeaning(items[i])])

=============================================================================
