----------------------------- MODULE Algorithms -----------------------------
(***************************************************************************)
(* The loader's library functions, each called with every input of a small *)
(* set and compared with a definition of what it is for: memory and string *)
(* functions, strtoull_, qsort_ (util.c), crc32buf (crc32.c),              *)
(* npf_vsnprintf (nanoprintf.h), and info, which prints through Printf and *)
(* Uart.  A behaviour is one call.                                         *)
(***************************************************************************)
EXTENDS Printf, CMem, CSort, Uart

CONSTANTS
  ULLMod,       \* as in CLib
  Memories,     \* memories for the mem functions, functions on 1..n
  Numbers,      \* [spaces, prefix, digits, upper, rest, base] for strtoull_
  Arrays,       \* arrays for qsort_: sequences of keys
  Buffers,      \* byte strings for crc32buf
  Printed,      \* [items, bufsz] for npf_vsnprintf
  Messages      \* items for info

\* Memory holds bytes, and qsort_ has something to sort.
ASSUME InputsAssumption ==
  /\ \A m \in Memories : m \in Seq(Nat) /\ m # <<>>
  /\ \A keys \in Arrays : keys \in Seq(Int) /\ keys # <<>>

\* What info is given to print is text.
ASSUME MessagesAssumption ==
  \A m \in Messages :
    LET text == npf_vpprintf(FormatOf(m), ArgsOf(m), NULL).out \o <<"CR", "LF">>
    IN  text \in Seq(STRING) /\ text # NULL

C == INSTANCE CLib
K == INSTANCE Crc32

VARIABLES call, result

vars == <<call, result, uart>>

\* What strtoull_ is given: spaces, perhaps 0x, digits (values below the base,
\* so that the text says a number), and something that is no digit.
CodeOf(d, upper) == IF d < 10 THEN 48 + d ELSE IF upper THEN 55 + d ELSE 87 + d

NumberToRead(x) ==
  [i \in 1..x.spaces |-> 32] \o x.prefix
    \o [i \in 1..Len(x.digits) |-> CodeOf(x.digits[i], x.upper)] \o x.rest

\* strtoull_ with base 0 knows the prefix 0x only: a leading 0 is a decimal digit,
\* where the C function would read octal.
RadixOf(x) == IF x.base # 0 THEN x.base ELSE IF x.prefix # <<>> THEN 16 ELSE 10

\* The number such a text says.
NumberSaid(x) ==
  LET k == Len(x.digits)
      weight[i \in 0..k] == IF i = 0 THEN 1 ELSE RadixOf(x) * weight[i - 1]
      terms[i \in 0..k] ==
        IF i = 0 THEN 0 ELSE terms[i - 1] + x.digits[i] * weight[k - i]
  IN  terms[k]

\* What is behind the digits cannot be taken for one of them, for more spaces
\* or for the x of a prefix.
ASSUME NumbersAssumption ==
  /\ ULLMod \in Nat \ {0}
  /\ \A x \in Numbers :
       /\ x.spaces \in Nat /\ x.base \in {0} \cup 2..16
       /\ \/ x.prefix = <<>>
          \/ x.base = 0 /\ x.prefix \in {<<48, 120>>, <<48, 88>>}
       /\ x.digits \in Seq(0..(RadixOf(x) - 1)) /\ x.rest \in Seq(Nat)
       /\ x.rest # <<>> =>
            /\ C!char_to_digit(x.rest[1]) \notin 0..(RadixOf(x) - 1)
            /\ x.digits = <<>> => x.rest[1] # 32
            /\ x.base = 0 /\ x.prefix = <<>> /\ x.digits = <<0>> =>
                 x.rest[1] \notin {120, 88}

\* An array of pointers: keys to compare, and where each came from.
Elements(keys) == [i \in DOMAIN keys |-> [key |-> keys[i], from |-> i]]

Init ==
  /\ result = NULL
  /\ uart_init
  /\ \/ \E m \in Memories : \E d, s \in DOMAIN m : \E n \in 0..Top(m) :
          /\ d + n <= Top(m) + 1 /\ s + n <= Top(m) + 1
          /\ call = [fn |-> "mem", m |-> m, d |-> d, s |-> s, n |-> n]
     \/ \E m \in Memories : \E d, s \in DOMAIN m : \E c \in 1..2 :
          /\ \E i \in s..Top(m) : m[i] = 0
          /\ d + strlen_(m, s) < s
          /\ call = [fn |-> "str", m |-> m, d |-> d, s |-> s, c |-> c]
     \/ call \in [fn : {"strtoull_"}, number : Numbers]
     \/ call \in [fn : {"qsort_"}, keys : Arrays]
     \/ call \in [fn : {"crc32buf"}, buf : Buffers]
     \/ \E p \in Printed :
          call = [fn |-> "npf_vsnprintf", items |-> p.items, bufsz |-> p.bufsz]
     \/ call \in [fn : {"info"}, items : Messages]

Computes(r) == result = NULL /\ result' = r /\ UNCHANGED call
Returns(r) == Computes(r) /\ UNCHANGED uart

Mem ==
  /\ call.fn = "mem"
  /\ Returns([move |-> memmove_(call.m, call.d, call.s, call.n),
              set  |-> memset_(call.m, call.d, 7, call.n),
              cmp  |-> memcmp_(call.m, call.d, call.s, call.n),
              chr  |-> memchr_(call.m, call.s, call.m[call.d], call.n)])

Str ==
  /\ call.fn = "str"
  /\ Returns([len |-> strlen_(call.m, call.s),
              cpy |-> strcpy_(call.m, call.d, call.s),
              rchr |-> strrchr_(call.m, call.s, call.c)])

Strtoull ==
  /\ call.fn = "strtoull_"
  /\ Returns(C!strtoull_(NumberToRead(call.number), call.number.base))

Qsort ==
  /\ call.fn = "qsort_"
  /\ LET arr == Elements(call.keys)
         E   == {arr[i] : i \in DOMAIN arr}
     IN  Returns(qsort_(arr, [p \in E \X E |-> p[1].key - p[2].key]))

Crc == call.fn = "crc32buf" /\ Returns(K!crc32buf(call.buf))

Vsnprintf ==
  /\ call.fn = "npf_vsnprintf"
  /\ Returns(npf_vsnprintf(FormatOf(call.items), ArgsOf(call.items), call.bufsz))

\* info: npf_vpprintf with nano_putc, and then "\r\n".
Info ==
  /\ call.fn = "info"
  /\ LET st == npf_vpprintf(FormatOf(call.items), ArgsOf(call.items), NULL)
     IN  Computes(st.out \o <<"CR", "LF">>)
  /\ uart_puts(result')

Putc == (PutcWaits \/ PutcStores) /\ UNCHANGED <<call, result>>

Next ==
  \/ Mem \/ Str \/ Strtoull \/ Qsort \/ Crc \/ Vsnprintf \/ Info \/ Putc
  \/ Transmit /\ UNCHANGED <<call, result>>

\* The processor runs; whether anything drains the UART is not known.
Spec == Init /\ [][Next]_vars /\ WF_vars(Putc)

-----------------------------------------------------------------------------

Returned(fn) == result # NULL /\ call.fn = fn

\* memmove_ moves whole whatever the overlap, which libfdt's splices rely on;
\* memset_ stores n bytes; memchr_ and memcmp_ look at the first place that
\* matters and at no byte behind n; strlen_, strcpy_ and strrchr_ stop at the
\* NUL.
MemoryAsC ==
  /\ Returned("mem") =>
       LET In(x) == x \in call.d..(call.d + call.n - 1)
           Same(k) == \A i \in 0..(k - 1) :
                        call.m[call.d + i] = call.m[call.s + i]
           Found == {x \in call.s..(call.s + call.n - 1) :
                       call.m[x] = call.m[call.d]}
       IN  /\ result.move = [x \in DOMAIN call.m |->
                               IF In(x) THEN call.m[call.s + x - call.d] ELSE call.m[x]]
           /\ result.set = [x \in DOMAIN call.m |-> IF In(x) THEN 7 ELSE call.m[x]]
           /\ result.cmp = 0 <=> Same(call.n)
           /\ result.cmp < 0 <=>
                \E k \in 0..(call.n - 1) :
                  Same(k) /\ call.m[call.d + k] < call.m[call.s + k]
           /\ IF Found = {} THEN result.chr = 0
              ELSE result.chr \in Found /\ \A x \in Found : result.chr <= x
  /\ Returned("str") =>
       LET text == call.s..(call.s + result.len - 1)
           Found == {x \in text : call.m[x] = call.c}
       IN  /\ call.m[call.s + result.len] = 0
           /\ \A x \in text : call.m[x] # 0
           /\ result.cpy = [x \in DOMAIN call.m |->
                              IF x \in call.d..(call.d + result.len)
                              THEN call.m[call.s + x - call.d] ELSE call.m[x]]
           /\ IF Found = {} THEN result.rchr = 0
              ELSE result.rchr \in Found /\ \A x \in Found : x <= result.rchr

\* strtoull_ reads the number its text says: spaces before it and other
\* characters behind it do not matter, a text without digits is 0, and a number
\* too large is taken modulo 2^64.
NumbersRead ==
  Returned("strtoull_") => result = NumberSaid(call.number) % ULLMod

\* qsort_ loses no element, orders them, and keeps equal ones in order: the
\* environment written is the same on every boot.
SortsStable ==
  Returned("qsort_") =>
    /\ Len(result) = Len(call.keys)
    /\ {result[i].from : i \in DOMAIN result} = DOMAIN call.keys
    /\ \A i \in DOMAIN result : result[i].key = call.keys[result[i].from]
    /\ \A i, j \in DOMAIN result : i < j =>
         \/ result[i].key < result[j].key
         \/ result[i].key = result[j].key /\ result[i].from < result[j].from

\* Table and update loop compute the remainder of the polynomial the comment in
\* crc32.c names: a block that fwup or U-Boot wrote is accepted.
CrcByPolynomial == Returned("crc32buf") => result = K!Crc32Of(call.buf)

\* Every directive prints what the C standard says of it, with the arguments
\* that belong to it, and text that is no directive prints itself: parser,
\* conversion and padding agree about widths, signs, zero and the least number.
PrintsAsSpecified ==
  Returned("npf_vsnprintf") => result.out = Meaning(call.items)

\* npf_vsnprintf stores as much of the output as fits and a NUL, and nothing
\* behind the buffer; no numeral is longer than the conversion buffer; the
\* parser stops at the format's NUL, also in an unfinished directive.
PrintsInBounds ==
  Returned("npf_vsnprintf") =>
    LET size == call.bufsz
        kept == IF Len(result.out) < size THEN Len(result.out) ELSE size - 1
    IN  /\ result.cbuf <= CbufSize
        /\ result.cur = Len(FormatOf(call.items)) + 1
        /\ size # NULL /\ size # 0 =>
             result.dst = Append(SubSeq(result.out, 1, kept), NUL)
        /\ size = 0 => result.dst = <<>>

\* The characters of s at the positions in S, in order.
Kept(s, S) ==
  LET upto[k \in 0..Len(s)] ==
        IF k = 0 THEN <<>>
        ELSE IF k \in S THEN Append(upto[k - 1], s[k]) ELSE upto[k - 1]
  IN  upto[Len(s)]

\* What leaves the UART is the message in order, without what was lost, and a
\* character is lost only when a wait for room ran to its end.
ConsoleInOrder ==
  Returned("info") =>
    LET stored == Len(result) - Len(unsent)
    IN  /\ lost <= timeouts
        /\ \E S \in SUBSET (1..stored) :
             /\ line \o dr = Kept(result, S)
             /\ stored - Len(line \o dr) = lost

\* A message never stops the boot: info returns even if the UART never takes
\* another character.
InfoReturns == Returned("info") ~> unsent = <<>>

=============================================================================
