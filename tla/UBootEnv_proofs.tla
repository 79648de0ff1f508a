-------------------------- MODULE UBootEnv_proofs ---------------------------
(***************************************************************************)
(* Theorems about uboot_env.c, for every size of the block and every       *)
(* content.                                                                *)
(***************************************************************************)
EXTENDS UBootEnv, Util_proofs, SequenceTheorems, FiniteSetTheorems

\* The conversion of a small negative number to size_t.
LEMMA NegativeLength ==
  ASSUME NEW M \in Nat \ {0}, NEW len \in 0..(M - 1)
  PROVE  (-len) % M = IF len = 0 THEN 0 ELSE M - len
OBVIOUS

\* strndup_ with a bound that is exact, or too large while the string ends
\* before it, copies the string.
LEMMA CopyOfString ==
  ASSUME NEW s, NEW at \in Nat, NEW to \in Nat, NEW n \in Nat,
         at <= to, to <= at + n,
         to = at + n \/ s[to] = NUL,
         \A i \in at..(to - 1) : s[i] # NUL
  PROVE  strndup_(s, at, n) = Bytes(s, at, to)
<1> DEFINE Stops(q) == /\ q = at + n \/ s[q] = NUL
                       /\ \A r \in at..(q - 1) : s[r] # NUL
<1>1. to \in at..(at + n) /\ Stops(to)
  OBVIOUS
<1>2. ASSUME NEW q \in at..(at + n), Stops(q) PROVE q = to
  <2>1. CASE q < to
    BY <1>2, <2>1
  <2>2. CASE to < q
    BY <1>2, <2>2
  <2> QED
    BY <2>1, <2>2
<1>3. (CHOOSE q \in at..(at + n) : Stops(q)) = to
  <2> HIDE DEF Stops
  <2> QED
    BY <1>1, <1>2
<1>4. strnlen_(s, at, n) = to - at
  BY <1>3 DEF strnlen_
<1> QED
  BY <1>4 DEF strndup_, Bytes

-----------------------------------------------------------------------------
(***************************************************************************)
(* The inductive invariant: the cursors, and that no NUL lies between them.*)
(***************************************************************************)

Reading == {"name", "endname", "endvalue"}

ReadInv ==
  /\ ReadInBounds
  /\ pc \notin Reading => name = 4
  /\ pc \in {"endname", "endvalue"} =>
       \A i \in name..(endname - 1) : buffer.data[i] # NUL
  /\ pc = "endvalue" =>
       \A i \in value..(endvalue - 1) : buffer.data[i] # NUL

LEMMA InitRead == Init => ReadInv
BY DEF Init, ReadInv, ReadInBounds, Reading

LEMMA NextRead == ReadInv /\ [Next]_all => ReadInv'
<1> SUFFICES ASSUME ReadInv, [Next]_all PROVE ReadInv'
  OBVIOUS
<1> USE SizeAssumption DEF ReadInv, ReadInBounds, Reading, cursors, Offsets,
                           end, NUL, END
<1>1. CASE ReadBegin
  BY <1>1 DEF ReadBegin
<1>2. CASE ReadName
  <2>1. CASE At(name) \in {END, NUL}
    BY <1>2, <2>1 DEF ReadName, ReadReturns
  <2>2. CASE At(name) \notin {END, NUL}
    BY <1>2, <2>2 DEF ReadName, At
  <2> QED
    BY <2>1, <2>2
<1>3. CASE ReadEndname
  <2>1. CASE At(endname) \in {END, NUL} /\ ReadReturns("read_failed")
    BY <1>3, <2>1 DEF ReadReturns
  <2>2. CASE /\ At(endname) = EQUALS
             /\ value' = endname + 1
             /\ endvalue' = endname + 1
             /\ pc' = "endvalue"
             /\ UNCHANGED <<name, endname>>
    BY <1>3, <2>2 DEF ReadEndname, At, EQUALS
  <2>3. CASE /\ At(endname) \notin {END, NUL, EQUALS}
             /\ endname' = endname + 1
             /\ UNCHANGED <<pc, name, value, endvalue>>
    BY <1>3, <2>3 DEF ReadEndname, At
  <2> QED
    BY <1>3, <2>1, <2>2, <2>3 DEF ReadEndname
<1>4. CASE ReadEndvalue
  <2>1. CASE At(endvalue) = END /\ ReadReturns("read_failed")
    BY <1>4, <2>1 DEF ReadReturns
  <2>2. CASE At(endvalue) = NUL /\ name' = endvalue + 1 /\ pc' = "name"
    <3>1. pc = "endvalue"
      BY <1>4 DEF ReadEndvalue
    <3>2. endvalue # end
      BY <2>2 DEF At
    <3>3. name' \in 4..end
      BY <2>2, <3>1, <3>2
    <3> QED
      BY <2>2, <3>3
  <2>3. CASE /\ At(endvalue) \notin {END, NUL}
             /\ endvalue' = endvalue + 1
             /\ UNCHANGED <<pc, vars, name, endname, value>>
    <3>1. pc = "endvalue" /\ UNCHANGED buffer
      BY <1>4 DEF ReadEndvalue
    <3>2. endvalue # end /\ buffer.data[endvalue] # NUL
      BY <2>3 DEF At
    <3>3. \A i \in value'..(endvalue' - 1) : buffer'.data[i] # NUL
      BY <2>3, <3>1, <3>2
    <3> QED
      BY <2>3, <3>1, <3>2, <3>3
  <2> QED
    BY <1>4, <2>1, <2>2, <2>3 DEF ReadEndvalue
<1>5. ASSUME NEW n \in Name, NEW v \in Value, uboot_env_setenv(n, v)
      PROVE  ReadInv'
  BY <1>5 DEF uboot_env_setenv
<1>6. ASSUME NEW n \in Name, uboot_env_unsetenv(n) PROVE ReadInv'
  BY <1>6 DEF uboot_env_unsetenv
<1>7. CASE uboot_env_free
  BY <1>7 DEF uboot_env_free
<1>8. CASE WriteBegin
  BY <1>8 DEF WriteBegin
<1>9. CASE WriteNoRoom
  BY <1>9 DEF WriteNoRoom, WriteReturns
<1>10. CASE WritePair
  BY <1>10 DEF WritePair
<1>11. CASE WriteEnd
  BY <1>11 DEF WriteEnd, WriteReturns
<1>13. CASE UNCHANGED all
  BY <1>13 DEF all
<1> QED
  BY <1>1, <1>2, <1>3, <1>4, <1>5, <1>6, <1>7, <1>8, <1>9, <1>10, <1>11,
     <1>13 DEF Next

LEMMA ReadInvariance == Spec => []ReadInv
BY InitRead, NextRead, PTL DEF Spec

\* uboot_env_read never looks outside the block, whatever is on disk and
\* however large the block is.
THEOREM ReaderStaysInBounds == Spec => []ReadInBounds
<1>1. ReadInv => ReadInBounds
  BY DEF ReadInv
<1> QED
  BY ReadInvariance, <1>1, PTL

LEMMA CopiedWhole == ReadInv => CopiesWhole
<1> SUFFICES ASSUME ReadInv, pc = "endvalue", At(endvalue) = NUL
             PROVE  /\ strndup_(buffer.data, name, endname - name)
                         = Bytes(buffer.data, name, endname)
                    /\ strndup_(buffer.data, value,
                                (value - endvalue) % ULLMod)
                         = Bytes(buffer.data, value, endvalue)
  BY DEF CopiesWhole
<1>1. /\ name \in Nat /\ endname \in Nat /\ name < endname
      /\ value \in Nat /\ endvalue \in Nat /\ value <= endvalue
      /\ endvalue - value <= env_size /\ endvalue # end
      /\ buffer.data[endvalue] = NUL
      /\ \A i \in name..(endname - 1) : buffer.data[i] # NUL
      /\ \A i \in value..(endvalue - 1) : buffer.data[i] # NUL
  BY SizeAssumption
    DEF ReadInv, ReadInBounds, At, Offsets, end, NUL, END
<1>2. strndup_(buffer.data, name, endname - name)
        = Bytes(buffer.data, name, endname)
  <2>1. PICK n \in Nat : n = endname - name
    BY <1>1
  <2>2. name <= endname /\ endname = name + n /\ endname <= name + n
    BY <1>1, <2>1
  <2>3. \A i \in name..(endname - 1) : buffer.data[i] # 0
    BY <1>1 DEF NUL
  <2>4. strndup_(buffer.data, name, n) = Bytes(buffer.data, name, endname)
    BY <1>1, <2>2, <2>3, CopyOfString DEF NUL
  <2> QED
    BY <2>1, <2>4
<1> DEFINE len == endvalue - value
           n == (value - endvalue) % ULLMod
<1>3. len \in 0..(ULLMod - 1) /\ ULLMod \in Nat \ {0} /\ value - endvalue = -len
  BY <1>1, SizeAssumption, ULLModAssumption
<1>4. n = IF len = 0 THEN 0 ELSE ULLMod - len
  BY <1>3, NegativeLength
<1>5. n \in Nat /\ len <= n
  BY <1>1, <1>3, <1>4, SizeAssumption
<1>6. strndup_(buffer.data, value, n) = Bytes(buffer.data, value, endvalue)
  <2> HIDE DEF n
  <2>1. value <= endvalue /\ endvalue <= value + n
    BY <1>1, <1>5
  <2>2. endvalue = value + n \/ buffer.data[endvalue] = NUL
    BY <1>1
  <2>3. \A i \in value..(endvalue - 1) : buffer.data[i] # NUL
    BY <1>1
  <2>4. value \in Nat /\ endvalue \in Nat /\ n \in Nat
    BY <1>1, <1>5
  <2> QED
    BY ONLY <2>1, <2>2, <2>3, <2>4, CopyOfString
<1> QED
  BY <1>2, <1>6

\* The length with the wrong sign in uboot_env_read does no harm: name and
\* value are copied whole from any block.
THEOREM ReaderCopiesWhole == Spec => []CopiesWhole
BY ReadInvariance, CopiedWhole, PTL
-----------------------------------------------------------------------------
(***************************************************************************)
(* Types: the list holds strings, the blocks hold bytes.                   *)
(***************************************************************************)

StringPairs == [name : Seq(Byte), value : Seq(Byte)]

IsBlock(b) == b = [crc |-> b.crc, data |-> b.data] /\ b.data \in [Offsets -> Byte]

DataInv == IsBlock(disk) /\ IsBlock(buffer) /\ vars \in Seq(StringPairs)

\* The writer: p is behind the pairs that are stored, and two bytes are left at
\* the end of the block.
WriteInv ==
  /\ pc = "write" => /\ pair \in 1..(Len(vars) + 1)
                     /\ p \in 4..(end - 2)
                     /\ p = Space(vars)[pair - 1] + 3
  /\ pc = "write_failed" => Used > env_size - 5

LEMMA BytesType ==
  ASSUME NEW d \in [Offsets -> Byte], NEW from \in Offsets, NEW to \in Offsets,
         from <= to
  PROVE  Bytes(d, from, to) \in Seq(Byte)
<1>1. from \in Nat /\ to - from \in Nat
  BY SizeAssumption DEF Offsets
<1>2. \A i \in 1..(to - from) : from + i - 1 \in Offsets
  BY SizeAssumption DEF Offsets
<1>3. \A i \in 1..(to - from) : d[from + i - 1] \in Byte
  BY <1>2
<1> QED
  BY <1>1, <1>3, IsASeq DEF Bytes

LEMMA PairType ==
  ASSUME NEW n \in Seq(Byte), NEW v \in Seq(Byte)
  PROVE  Pair(n, v) \in StringPairs
BY DEF Pair, StringPairs

\* A pair put at the head of the list.
LEMMA PutType ==
  ASSUME NEW x \in StringPairs, NEW list \in Seq(StringPairs)
  PROVE  <<x>> \o list \in Seq(StringPairs)
<1> HIDE DEF StringPairs
<1> QED
  OBVIOUS

LEMMA ArgumentType == Name \subseteq Seq(Byte) /\ Value \subseteq Seq(Byte)
<1>1. Seq(Byte \ {NUL}) \subseteq Seq(Byte)
  OBVIOUS
<1> QED
  BY <1>1, ArgumentAssumption

LEMMA FirstType ==
  ASSUME NEW S, S \subseteq Nat, S # {}
  PROVE  First(S) \in S /\ \A j \in S : First(S) <= j
BY LeastNatural DEF First

LEMMA SortedType ==
  ASSUME NEW list \in Seq(StringPairs)
  PROVE  uboot_env_sort(list) \in Seq(StringPairs)
<1> DEFINE E == {list[i] : i \in DOMAIN list}
           compar == [x \in E \X E |-> env_name_compare(x[1], x[2])]
<1>1. CASE list = <<>>
  BY <1>1 DEF uboot_env_sort
<1>2. CASE list # <<>>
  <2>1. uboot_env_sort(list) = qsort_(list, compar)
    BY <1>2 DEF uboot_env_sort
  <2> HIDE DEF compar, StringPairs
  <2>2. qsort_(list, compar) \in [1..Len(list) -> StringPairs]
    BY <1>2, SortType
  <2>3. Len(list) \in Nat
    OBVIOUS
  <2> QED
    BY <2>1, <2>2, <2>3, SeqDef
<1> QED
  BY <1>1, <1>2

LEMMA TextType ==
  ASSUME NEW x \in StringPairs
  PROVE  /\ Text(x) \in Seq(Byte)
         /\ Size(x) \in Nat
         /\ Len(Text(x)) = Size(x)
         /\ p \in Int => (NoRoom(x) <=> p + Size(x) - 1 >= end - 2)
<1>1. PICK a \in Seq(Byte) : a = x.name
  BY DEF StringPairs
<1>2. PICK b \in Seq(Byte) : b = x.value
  BY DEF StringPairs
<1>3. EQUALS \in Byte /\ NUL \in Byte
  BY SizeAssumption
<1> DEFINE c == a \o <<EQUALS>>
<1>4. c \in Seq(Byte)
  BY <1>3
<1>5. Len(c) = Len(a) + 1
  OBVIOUS
<1> HIDE DEF c
<1> DEFINE e == c \o b
<1>6. e \in Seq(Byte)
  BY <1>4
<1>7. Len(e) = Len(c) + Len(b)
  BY <1>4
<1>8. Text(x) = e \o <<NUL>>
  BY <1>1, <1>2 DEF Text, c
<1> HIDE DEF e
<1>9. Text(x) \in Seq(Byte) /\ Len(Text(x)) = Len(e) + 1
  BY <1>3, <1>6, <1>8
<1>10. Len(a) \in Nat /\ Len(b) \in Nat
  OBVIOUS
<1>11. Size(x) = Len(a) + Len(b) + 2
  BY <1>1, <1>2 DEF Size
<1>12. Len(Text(x)) = Size(x)
  BY <1>5, <1>7, <1>9, <1>10, <1>11
<1>13. ASSUME p \in Int
       PROVE  NoRoom(x) <=> p + Size(x) - 1 >= end - 2
  <2>1. NoRoom(x) <=> p + Len(a) + 1 + Len(b) >= end - 2
    BY <1>1, <1>2 DEF NoRoom
  <2> QED
    BY <1>10, <1>11, <1>13, <2>1
<1> QED
  BY <1>9, <1>10, <1>11, <1>12, <1>13

LEMMA ItemType ==
  ASSUME DataInv, WriteInv, pc = "write", pair <= Len(vars)
  PROVE  vars[pair] \in StringPairs /\ pair \in 1..Len(vars)
<1>1. vars \in Seq(StringPairs) /\ Len(vars) \in Nat
  BY DEF DataInv
<1>2. pair \in 1..Len(vars)
  BY <1>1 DEF WriteInv
<1> HIDE DEF StringPairs
<1> QED
  BY <1>1, <1>2, ElementOfSeq

LEMMA InitData == Init => DataInv
<1> SUFFICES ASSUME Init PROVE DataInv
  OBVIOUS
<1>1. IsBlock(disk)
  BY SizeAssumption DEF Init, IsBlock
<1>2. vars \in Seq(StringPairs)
  BY DEF Init
<1> QED
  BY <1>1, <1>2 DEF Init, DataInv

LEMMA NextData == DataInv /\ ReadInv /\ WriteInv /\ [Next]_all => DataInv'
<1> SUFFICES ASSUME DataInv, ReadInv, WriteInv, [Next]_all PROVE DataInv'
  OBVIOUS
<1>1. CASE ReadBegin
  <2>1. vars' = <<>> /\ buffer' = disk /\ disk' = disk
    BY <1>1 DEF ReadBegin
  <2>2. <<>> \in Seq(StringPairs)
    OBVIOUS
  <2> QED
    BY <2>1, <2>2 DEF DataInv
<1>2. CASE ReadName
  BY <1>2 DEF ReadName, DataInv
<1>3. CASE ReadEndname
  BY <1>3 DEF ReadEndname, DataInv
<1>4. CASE ReadEndvalue
  <2>1. CASE UNCHANGED vars
    BY <1>4, <2>1 DEF ReadEndvalue, DataInv
  <2>2. CASE /\ At(endvalue) = NUL
             /\ vars' = <<Pair(strndup_(buffer.data, name, endname - name),
                               strndup_(buffer.data, value,
                                        (value - endvalue) % ULLMod))>> \o vars
    <3>1. pc = "endvalue" /\ UNCHANGED <<disk, buffer>>
      BY <1>4 DEF ReadEndvalue
    <3>2. vars' = <<Pair(Bytes(buffer.data, name, endname),
                         Bytes(buffer.data, value, endvalue))>> \o vars
      BY <2>2, <3>1, CopiedWhole DEF CopiesWhole
    <3>3. /\ name \in Offsets /\ endname \in Offsets /\ name <= endname
          /\ value \in Offsets /\ endvalue \in Offsets /\ value <= endvalue
      BY <2>2, <3>1, SizeAssumption
        DEF ReadInv, ReadInBounds, At, Offsets, end, NUL, END
    <3>4. buffer.data \in [Offsets -> Byte]
      BY DEF DataInv, IsBlock
    <3>5. Bytes(buffer.data, name, endname) \in Seq(Byte)
      BY <3>3, <3>4, BytesType
    <3>6. Bytes(buffer.data, value, endvalue) \in Seq(Byte)
      BY <3>3, <3>4, BytesType
    <3>7. vars' \in Seq(StringPairs)
      <4> DEFINE x == Pair(Bytes(buffer.data, name, endname),
                           Bytes(buffer.data, value, endvalue))
      <4>1. x \in StringPairs
        BY <3>5, <3>6, PairType
      <4> HIDE DEF x
      <4>2. <<x>> \o vars \in Seq(StringPairs)
        BY <4>1, PutType DEF DataInv
      <4> QED
        BY <3>2, <4>2 DEF x
    <3> QED
      BY <3>1, <3>7 DEF DataInv
  <2> QED
    BY <1>4, <2>1, <2>2 DEF ReadEndvalue
<1>5. ASSUME NEW n \in Name, NEW v \in Value, uboot_env_setenv(n, v)
      PROVE  DataInv'
  <2>1. n \in Seq(Byte) /\ v \in Seq(Byte)
    BY ArgumentType
  <2>2. vars' \in Seq(StringPairs)
    <3>1. CASE Matches(n) = {}
      <4>1. vars' = <<Pair(n, v)>> \o vars
        BY <1>5, <3>1 DEF uboot_env_setenv
      <4>2. Pair(n, v) \in StringPairs
        BY <2>1, PairType
      <4> QED
        BY <4>1, <4>2, PutType DEF DataInv
    <3>2. CASE Matches(n) # {}
      <4> DEFINE i == First(Matches(n))
      <4>1. vars' = [vars EXCEPT ![i].value = v]
        BY <1>5, <3>2 DEF uboot_env_setenv
      <4>2. Len(vars) \in Nat /\ vars \in Seq(StringPairs)
        BY DEF DataInv
      <4>3. i \in 1..Len(vars)
        <5>1. Matches(n) \subseteq 1..Len(vars)
          BY DEF Matches
        <5>2. Matches(n) \subseteq Nat
          BY <4>2, <5>1
        <5> QED
          BY <3>2, <5>1, <5>2, FirstType
      <4> HIDE DEF i
      <4>4. vars[i] \in StringPairs
        <5> HIDE DEF StringPairs
        <5> QED
          BY <4>2, <4>3, ElementOfSeq
      <4>5. [vars[i] EXCEPT !.value = v] \in StringPairs
        BY <2>1, <4>4 DEF StringPairs
      <4>6. vars' = [vars EXCEPT ![i] = [vars[i] EXCEPT !.value = v]]
        BY <4>1
      <4> HIDE DEF StringPairs
      <4> QED
        BY <4>2, <4>3, <4>5, <4>6, ExceptSeq
    <3> QED
      BY <3>1, <3>2
  <2> QED
    BY <1>5, <2>2 DEF uboot_env_setenv, DataInv
<1>6. ASSUME NEW n \in Name, uboot_env_unsetenv(n) PROVE DataInv'
  <2>1. CASE Matches(n) = {}
    BY <1>6, <2>1 DEF uboot_env_unsetenv, DataInv
  <2>2. CASE Matches(n) # {}
    <3> DEFINE i == First(Matches(n))
               before == SubSeq(vars, 1, i - 1)
               after == SubSeq(vars, i + 1, Len(vars))
    <3>1. vars' = before \o after
      BY <1>6, <2>2 DEF uboot_env_unsetenv
    <3>2. Len(vars) \in Nat /\ vars \in Seq(StringPairs)
      BY DEF DataInv
    <3>3. i \in 1..Len(vars)
      <4>1. Matches(n) \subseteq 1..Len(vars)
        BY DEF Matches
      <4>2. Matches(n) \subseteq Nat
        BY <3>2, <4>1
      <4> QED
        BY <2>2, <4>1, <4>2, FirstType
    <3> HIDE DEF i, StringPairs
    <3>4. before \in Seq(StringPairs)
      BY <3>2, <3>3, SubSeqProperties
    <3>5. after \in Seq(StringPairs)
      BY <3>2, <3>3, SubSeqProperties
    <3> HIDE DEF before, after
    <3>6. vars' \in Seq(StringPairs)
      BY <3>1, <3>4, <3>5, ConcatProperties
    <3> QED
      BY <1>6, <3>6 DEF uboot_env_unsetenv, DataInv
  <2> QED
    BY <2>1, <2>2
<1>7. CASE uboot_env_free
  <2>1. vars' = <<>> /\ UNCHANGED <<disk, buffer>>
    BY <1>7 DEF uboot_env_free
  <2>2. <<>> \in Seq(StringPairs)
    OBVIOUS
  <2> QED
    BY <2>1, <2>2 DEF DataInv
<1>8. CASE WriteBegin
  <2>1. IsBlock(buffer')
    <3>1. buffer' = [buffer EXCEPT !.data = [i \in Offsets |-> FILL]]
      BY <1>8 DEF WriteBegin
    <3>2. buffer' = [crc |-> buffer.crc, data |-> [i \in Offsets |-> FILL]]
      BY <3>1 DEF DataInv, IsBlock
    <3> QED
      BY <3>2, SizeAssumption DEF IsBlock
  <2>2. vars' \in Seq(StringPairs)
    BY <1>8, SortedType DEF WriteBegin, DataInv
  <2> QED
    BY <1>8, <2>1, <2>2 DEF WriteBegin, DataInv
<1>9. CASE WriteNoRoom
  BY <1>9 DEF WriteNoRoom, DataInv
<1>10. CASE WritePair
  <2> DEFINE t == Text(vars[pair])
             d == [i \in Offsets |-> IF i \in p..(p + Len(t) - 1)
                                    THEN t[i - p + 1] ELSE buffer.data[i]]
  <2>1. IsBlock(buffer')
    <3>1. buffer' = [buffer EXCEPT !.data = d]
      BY <1>10 DEF WritePair
    <3>2. vars[pair] \in StringPairs
      BY <1>10, ItemType DEF WritePair
    <3>3. t \in Seq(Byte) /\ Len(t) \in Nat
      BY <3>2, TextType
    <3> HIDE DEF t
    <3>4. ASSUME NEW i \in Offsets
          PROVE  d[i] \in Byte
      <4>1. CASE i \in p..(p + Len(t) - 1)
        <5>1. p \in Int /\ i \in Int
          BY <1>10, SizeAssumption DEF WritePair, WriteInv, Offsets
        <5>2. i - p + 1 \in 1..Len(t)
          BY <3>3, <4>1, <5>1
        <5> QED
          BY <3>3, <4>1, <5>2
      <4>2. CASE i \notin p..(p + Len(t) - 1)
        BY <4>2 DEF DataInv, IsBlock
      <4> QED
        BY <4>1, <4>2
    <3>5. d \in [Offsets -> Byte]
      BY <3>4
    <3> HIDE DEF d
    <3>6. buffer' = [crc |-> buffer.crc, data |-> d]
      BY <3>1 DEF DataInv, IsBlock
    <3> QED
      BY <3>5, <3>6 DEF IsBlock
  <2> QED
    BY <1>10, <2>1 DEF WritePair, DataInv
<1>11. CASE WriteEnd
  <2> DEFINE d == [buffer.data EXCEPT ![p] = NUL]
  <2>1. buffer' = [crc |-> Crc(d), data |-> d] /\ disk' = buffer' /\ vars' = vars
    BY <1>11 DEF WriteEnd
  <2>2. d \in [Offsets -> Byte]
    BY SizeAssumption DEF DataInv, IsBlock
  <2> HIDE DEF d
  <2>3. IsBlock(buffer')
    BY <2>1, <2>2 DEF IsBlock
  <2> QED
    BY <2>1, <2>3 DEF DataInv
<1>13. CASE UNCHANGED all
  BY <1>13 DEF all, DataInv
<1> QED
  BY <1>1, <1>2, <1>3, <1>4, <1>5, <1>6, <1>7, <1>8, <1>9, <1>10, <1>11,
     <1>13 DEF Next

-----------------------------------------------------------------------------
(***************************************************************************)
(* The writer.                                                             *)
(***************************************************************************)

\* sum holds the space that each number of pairs takes.
IsSpace(sum, list) ==
  /\ sum \in [0..Len(list) -> Nat]
  /\ sum[0] = 1
  /\ \A i \in 1..Len(list) : sum[i] = sum[i - 1] + Size(list[i])

LEMMA SpaceSteps ==
  ASSUME NEW list \in Seq(StringPairs)
  PROVE  IsSpace(Space(list), list)
<1> DEFINE n == Len(list)
           size == [i \in 1..n |-> Size(list[i])]
           F == [i \in 1..n |-> [v \in Nat |-> v + size[i]]]
<1>1. n \in Nat
  OBVIOUS
<1>2. size \in [1..n -> Nat]
  <2>1. ASSUME NEW i \in 1..n
        PROVE  Size(list[i]) \in Nat
    <3> HIDE DEF StringPairs
    <3>1. list[i] \in StringPairs
      BY ElementOfSeq
    <3> QED
      BY <3>1, TextType
  <2> QED
    BY <2>1
<1>3. \A i \in 1..n : size[i] = Size(list[i])
  OBVIOUS
<1> HIDE DEF n, size
<1>4. F \in [1..n -> [Nat -> Nat]]
  BY <1>2
<1>5. PICK g : IsLoop(g, n, Nat, 1, F)
  <2> HIDE DEF F
  <2> QED
    BY <1>1, <1>4, LoopDefined
<1>6. g \in [0..n -> Nat] /\ g[0] = 1 /\ \A i \in 1..n : g[i] = g[i - 1] + size[i]
  <2>1. g \in [0..n -> Nat] /\ g[0] = 1 /\ \A i \in 1..n : g[i] = F[i][g[i - 1]]
    <3> HIDE DEF F
    <3> QED
      BY <1>5 DEF IsLoop
  <2>2. ASSUME NEW i \in 1..n
        PROVE  F[i][g[i - 1]] = g[i - 1] + size[i]
    <3>1. g[i - 1] \in Nat
      BY <1>1, <2>1
    <3> QED
      BY <3>1
  <2> HIDE DEF F
  <2> QED
    BY <2>1, <2>2
<1> DEFINE Loop(x) == x = [i \in 0..n |-> IF i = 0 THEN 1
                                         ELSE x[i - 1] + Size(list[i])]
           sum == CHOOSE x : Loop(x)
<1>7. Loop(g)
  <2>1. g = [i \in 0..n |-> g[i]]
    BY <1>6
  <2>2. \A i \in 0..n : g[i] = IF i = 0 THEN 1 ELSE g[i - 1] + Size(list[i])
    BY <1>1, <1>3, <1>6
  <2> QED
    BY <2>1, <2>2
<1>8. Loop(sum)
  <2> HIDE DEF Loop
  <2> QED
    BY <1>7
<1>9. Space(list) = sum
  BY DEF Space, n
<1> HIDE DEF sum
<1>10. \A i \in 0..n : sum[i] = IF i = 0 THEN 1 ELSE sum[i - 1] + Size(list[i])
  BY <1>8
<1> DEFINE T == {i \in Nat : i <= n => sum[i] = g[i]}
<1>11. 0 \in T
  BY <1>1, <1>6, <1>10
<1>12. ASSUME NEW i \in Nat, i \in T
       PROVE  i + 1 \in T
  BY <1>1, <1>3, <1>6, <1>10, <1>12
<1>13. Nat \subseteq T
  <2> HIDE DEF T
  <2> QED
    BY <1>11, <1>12, NatSetInduction
<1>14. sum = [i \in 0..n |-> sum[i]]
  BY <1>8
<1>15. sum = g
  BY <1>1, <1>6, <1>13, <1>14
<1> QED
  BY <1>3, <1>6, <1>9, <1>15 DEF IsSpace, n

\* More pairs take more space.
LEMMA SpaceMonotone ==
  ASSUME NEW list \in Seq(StringPairs), NEW k \in 0..Len(list),
         NEW m \in 0..Len(list), k <= m
  PROVE  Space(list)[k] <= Space(list)[m]
<1> DEFINE n == Len(list)
           sum == Space(list)
           T == {j \in Nat : k + j <= n => sum[k] <= sum[k + j]}
<1>1. n \in Nat /\ k \in 0..n
  OBVIOUS
<1>2. IsSpace(sum, list)
  BY SpaceSteps
<1>3. ASSUME NEW i \in 1..n
      PROVE  sum[i - 1] \in Nat /\ sum[i] \in Nat /\ sum[i - 1] <= sum[i]
  <2> HIDE DEF sum, StringPairs
  <2>1. list[i] \in StringPairs
    BY ElementOfSeq
  <2>2. Size(list[i]) \in Nat
    BY <2>1, TextType
  <2>3. sum[i - 1] \in Nat /\ sum[i] \in Nat
    <3>1. sum \in [0..n -> Nat] /\ i - 1 \in 0..n /\ i \in 0..n
      BY <1>1, <1>2 DEF IsSpace
    <3> QED
      BY ONLY <3>1
  <2>4. sum[i] = sum[i - 1] + Size(list[i])
    BY <1>2 DEF IsSpace
  <2> QED
    BY <2>2, <2>3, <2>4
<1>4. sum[k] \in Nat
  BY <1>1, <1>2 DEF IsSpace
<1> HIDE DEF sum, n
<1>5. 0 \in T
  BY <1>1, <1>4
<1>6. ASSUME NEW j \in Nat, j \in T
      PROVE  j + 1 \in T
  <2> SUFFICES ASSUME k + (j + 1) <= n PROVE sum[k] <= sum[k + (j + 1)]
    OBVIOUS
  <2>1. sum[k] <= sum[k + j]
    BY <1>1, <1>6
  <2>2. k + j + 1 \in 1..n /\ (k + j + 1) - 1 = k + j /\ k + (j + 1) = k + j + 1
    BY <1>1
  <2>3. /\ sum[k + j] \in Nat /\ sum[k + j + 1] \in Nat
        /\ sum[k + j] <= sum[k + j + 1]
    BY <1>3, <2>2
  <2> QED
    BY <1>4, <2>1, <2>2, <2>3
<1>7. m - k \in T
  <2>1. m - k \in Nat
    BY <1>1
  <2> HIDE DEF T
  <2> QED
    BY <1>5, <1>6, <2>1, NatSetInduction
<1>8. k + (m - k) = m /\ m <= n
  BY <1>1 DEF n
<1> QED
  BY <1>1, <1>7, <1>8 DEF sum, n

LEMMA SpaceGrows ==
  ASSUME NEW list \in Seq(StringPairs), NEW k \in 0..Len(list)
  PROVE  Space(list)[k] <= Space(list)[Len(list)]
<1>1. Len(list) \in Nat
  OBVIOUS
<1>2. Len(list) \in 0..Len(list) /\ k <= Len(list)
  BY <1>1
<1> QED
  BY <1>2, SpaceMonotone

\* One pair more.
LEMMA SpaceOfNext ==
  ASSUME DataInv, WriteInv, pc = "write", pair <= Len(vars)
  PROVE  /\ Size(vars[pair]) \in Nat /\ p \in Nat
         /\ Space(vars)[pair] \in Nat
         /\ Space(vars)[pair] + 3 = p + Size(vars[pair])
<1> DEFINE sum == Space(vars)
<1>1. vars[pair] \in StringPairs /\ pair \in 1..Len(vars)
  BY ItemType
<1>2. Size(vars[pair]) \in Nat
  BY <1>1, TextType
<1>3. IsSpace(sum, vars)
  BY SpaceSteps DEF DataInv
<1>4. p = sum[pair - 1] + 3 /\ p \in Nat
  BY SizeAssumption DEF WriteInv, end
<1> HIDE DEF sum
<1>5. PICK n \in Nat : n = Len(vars)
  BY DEF DataInv
<1>6. sum \in [0..n -> Nat] /\ pair \in 1..n
  BY <1>1, <1>3, <1>5 DEF IsSpace
<1>7. sum[pair - 1] \in Nat /\ sum[pair] \in Nat
  BY ONLY <1>5, <1>6
<1>8. sum[pair] = sum[pair - 1] + Size(vars[pair])
  BY <1>1, <1>3 DEF IsSpace
<1> QED
  BY <1>2, <1>4, <1>7, <1>8 DEF sum

LEMMA InitWrite == Init => WriteInv
BY DEF Init, WriteInv

LEMMA NextWrite == DataInv /\ DataInv' /\ WriteInv /\ [Next]_all => WriteInv'
<1> SUFFICES ASSUME DataInv, DataInv', WriteInv, [Next]_all PROVE WriteInv'
  OBVIOUS
<1>1. CASE ReadBegin
  BY <1>1 DEF ReadBegin, WriteInv
<1>2. CASE ReadName
  BY <1>2 DEF ReadName, ReadReturns, WriteInv
<1>3. CASE ReadEndname
  BY <1>3 DEF ReadEndname, ReadReturns, WriteInv
<1>4. CASE ReadEndvalue
  BY <1>4 DEF ReadEndvalue, ReadReturns, WriteInv
<1>5. ASSUME NEW n \in Name, NEW v \in Value, uboot_env_setenv(n, v)
      PROVE  WriteInv'
  BY <1>5 DEF uboot_env_setenv, WriteInv
<1>6. ASSUME NEW n \in Name, uboot_env_unsetenv(n) PROVE WriteInv'
  BY <1>6 DEF uboot_env_unsetenv, WriteInv
<1>7. CASE uboot_env_free
  BY <1>7 DEF uboot_env_free, WriteInv
<1>8. CASE WriteBegin
  <2>1. pc' = "write" /\ p' = 4 /\ pair' = 1
    BY <1>8 DEF WriteBegin
  <2>2. vars' \in Seq(StringPairs) /\ Len(vars') \in Nat
    BY DEF DataInv
  <2>3. Space(vars')[0] = 1
    BY <2>2, SpaceSteps DEF IsSpace
  <2>4. Space(vars)' = Space(vars')
    BY DEF Space
  <2>5. pair' \in 1..(Len(vars') + 1)
    BY <2>1, <2>2
  <2>6. p' = Space(vars')[pair' - 1] + 3
    BY <2>1, <2>3
  <2>7. p' \in 4..(end - 2)
    BY <2>1, SizeAssumption DEF end
  <2> QED
    BY <2>1, <2>5, <2>6, <2>7 DEF WriteInv, end
<1>9. CASE WriteNoRoom
  <2> DEFINE sum == Space(vars)
             x == vars[pair]
  <2>1. pc = "write" /\ pair <= Len(vars) /\ NoRoom(x)
    BY <1>9 DEF WriteNoRoom
  <2>2. pc' = "write_failed" /\ vars' = vars
    BY <1>9 DEF WriteNoRoom, WriteReturns
  <2>3. /\ Size(x) \in Nat /\ p \in Nat /\ sum[pair] \in Nat
        /\ sum[pair] + 3 = p + Size(x)
    BY <2>1, SpaceOfNext
  <2>4. pair \in 0..Len(vars)
    BY <2>1, ItemType DEF DataInv
  <2>5. sum[pair] <= sum[Len(vars)]
    BY <2>4, SpaceGrows DEF DataInv
  <2>6. sum[Len(vars)] \in Nat
    BY SpaceSteps DEF DataInv, IsSpace
  <2>7. p + Size(x) - 1 >= env_size - 2
    <3>1. x \in StringPairs
      BY <2>1, ItemType
    <3> QED
      BY <2>1, <2>3, <3>1, TextType DEF end
  <2> HIDE DEF sum, x
  <2>8. sum[Len(vars)] > env_size - 5
    BY <2>3, <2>5, <2>6, <2>7, SizeAssumption
  <2>9. Used' = sum[Len(vars)]
    BY <2>2 DEF Used, Space, sum
  <2> QED
    BY <2>2, <2>8, <2>9 DEF WriteInv
<1>10. CASE WritePair
  <2> DEFINE sum == Space(vars)
             x == vars[pair]
  <2>1. /\ pc = "write" /\ pair <= Len(vars) /\ ~NoRoom(x)
        /\ p' = p + Len(Text(x)) /\ pair' = pair + 1
        /\ UNCHANGED <<pc, vars>>
    BY <1>10 DEF WritePair
  <2>2. /\ Size(x) \in Nat /\ p \in Nat /\ sum[pair] \in Nat
        /\ sum[pair] + 3 = p + Size(x)
    BY <2>1, SpaceOfNext
  <2>3. x \in StringPairs /\ pair \in 1..Len(vars) /\ Len(vars) \in Nat
    BY <2>1, ItemType DEF DataInv
  <2>4. Len(Text(x)) = Size(x)
    BY <2>3, TextType
  <2>5. ~(p + Size(x) - 1 >= env_size - 2) /\ p >= 4
    BY <2>1, <2>2, <2>3, TextType DEF end, WriteInv
  <2> HIDE DEF sum, x
  <2>6. p' = sum[pair] + 3 /\ p' \in 4..(env_size - 2)
    BY <2>1, <2>2, <2>4, <2>5, SizeAssumption
  <2>7. pair' \in 1..(Len(vars) + 1) /\ pair' - 1 = pair
    BY <2>1, <2>3
  <2>8. Space(vars)' = sum
    BY <2>1 DEF Space, sum
  <2> QED
    BY <2>1, <2>6, <2>7, <2>8 DEF WriteInv, end
<1>11. CASE WriteEnd
  BY <1>11 DEF WriteEnd, WriteReturns, WriteInv
<1>13. CASE UNCHANGED all
  BY <1>13 DEF all, WriteInv, Used, Space
<1> QED
  BY <1>1, <1>2, <1>3, <1>4, <1>5, <1>6, <1>7, <1>8, <1>9, <1>10, <1>11,
     <1>13 DEF Next

LEMMA Invariance == Spec => [](ReadInv /\ DataInv /\ WriteInv)
BY InitRead, InitData, InitWrite, NextRead, NextData, NextWrite, PTL DEF Spec

\* uboot_env_write stores no byte outside the block, whatever the variables
\* and however large the block is.
THEOREM WriterStaysInBounds == Spec => []WriteInBounds
<1>1. WriteInv => WriteInBounds
  BY SizeAssumption DEF WriteInv, WriteInBounds, Offsets, end
<1> QED
  BY Invariance, <1>1, PTL

\* uboot_env_write refuses a list exactly when it would fill the block: the
\* test before each pair, summed up over the list.
THEOREM WriterFailsOnlyWhenFull == Spec => []FailsOnlyWhenFull
<1>1. DataInv /\ WriteInv => FailsOnlyWhenFull
  <2> SUFFICES ASSUME DataInv, WriteInv, pc = "write", pair > Len(vars)
               PROVE  Used <= env_size - 5
    BY DEF FailsOnlyWhenFull, WriteInv
  <2>1. Len(vars) \in Nat
    BY DEF DataInv
  <2>2. pair - 1 = Len(vars)
    BY <2>1 DEF WriteInv
  <2>3. p = Used + 3 /\ p \in 4..(env_size - 2)
    BY <2>2 DEF WriteInv, Used, end
  <2>4. Used \in Nat
    BY <2>1, SpaceSteps DEF Used, DataInv, IsSpace
  <2> QED
    BY <2>3, <2>4, SizeAssumption
<1> QED
  BY Invariance, <1>1, PTL

-----------------------------------------------------------------------------
(***************************************************************************)
(* The parser and the format.                                              *)
(***************************************************************************)

\* The entries of d that start before offset n.
EntriesBefore(d, n) == {s \in Entries(d) : s < n}

\* The pair of the entry at s is at its place in a list of the entries in P.
InList(list, P, d, s) ==
  /\ WellFormed(d, s)
  /\ list[Cardinality({t \in P : t >= s})] = PairAt(d, s)

IsListOf(list, P, d) == /\ Len(list) = Cardinality(P)
                        /\ \A s \in P : InList(list, P, d, s)

\* An entry starts at n, and no entry before n is empty.
AtEntry(d, n) == /\ EntryStart(d, n)
                 /\ \A t \in 4..(n - 1) : EntryStart(d, t) => d[t] # NUL

\* Where the cursors are in the format: name is where an entry starts, the
\* entries before it are in the list, and the '=' found is the first one.
ParseInv ==
  LET d == buffer.data
  IN  /\ pc = "read_failed" /\ buffer.crc = Crc(d) =>
           \E s \in Entries(d) : ~WellFormed(d, s)
      /\ pc \in Reading => /\ AtEntry(d, name)
                           /\ IsListOf(vars, EntriesBefore(d, name), d)
      /\ pc \in {"endname", "endvalue"} =>
           \A i \in (name + 1)..(endname - 1) : d[i] # EQUALS
      /\ pc = "endvalue" => d[endname] = EQUALS

\* An entry that is not empty counts.
LEMMA EntryHere ==
  ASSUME NEW d, NEW n \in Offsets, AtEntry(d, n), d[n] # NUL
  PROVE  n \in Entries(d)
<1>1. n \in Nat /\ \A t \in 4..n : t = n \/ t \in 4..(n - 1)
  BY SizeAssumption DEF Offsets
<1> QED
  BY <1>1 DEF AtEntry, Entries

\* Behind the NUL at z that ends the entry at n, the next one starts, and there
\* is none between.
LEMMA NextEntry ==
  ASSUME NEW d, NEW n \in Offsets, AtEntry(d, n), NEW z \in (n + 1)..(end - 1),
         \A i \in n..(z - 1) : d[i] # NUL, d[z] = NUL
  PROVE  /\ AtEntry(d, z + 1)
         /\ EntriesBefore(d, z + 1) = EntriesBefore(d, n) \cup {n}
<1>1. n \in Nat /\ z \in Nat /\ end \in Nat /\ 4 <= n /\ n < z /\ z < end
  BY SizeAssumption DEF Offsets, end
<1>2. d[n] # NUL
  BY <1>1
<1>3. ASSUME NEW t \in n..z, EntryStart(d, t)
      PROVE  t = n
  <2>1. CASE t > n
    <3>1. t - 1 \in n..(z - 1) /\ t # 4
      BY <1>1, <2>1
    <3> QED
      BY <1>3, <3>1 DEF EntryStart
  <2> QED
    BY <1>1, <2>1
<1>4. ASSUME NEW t \in 4..z, EntryStart(d, t)
      PROVE  d[t] # NUL
  <2>1. CASE t < n
    BY <1>1, <1>4, <2>1 DEF AtEntry
  <2>2. CASE t >= n
    BY <1>1, <1>2, <1>3, <1>4, <2>2
  <2> QED
    BY <1>1, <2>1, <2>2
<1>5. AtEntry(d, z + 1)
  <2>1. (z + 1) - 1 = z
    BY <1>1
  <2> QED
    BY <1>4, <2>1 DEF AtEntry, EntryStart
<1>6. n \in Entries(d)
  BY <1>2, EntryHere
<1>7. ASSUME NEW s \in Entries(d)
      PROVE  s < z + 1 <=> s < n \/ s = n
  <2>1. s \in Nat /\ EntryStart(d, s)
    BY SizeAssumption DEF Entries, Offsets
  <2>2. CASE s >= n /\ s < z + 1
    BY <1>1, <1>3, <2>1, <2>2
  <2> QED
    BY <1>1, <2>1, <2>2
<1> QED
  BY <1>5, <1>6, <1>7 DEF EntriesBefore

\* What the cursors have found is the pair of the entry.
LEMMA PairFound ==
  ASSUME NEW d, NEW n \in Offsets, NEW e \in (n + 1)..(end - 1),
         NEW z \in (e + 1)..(end - 1),
         \A i \in n..(e - 1) : d[i] # NUL,
         \A i \in (n + 1)..(e - 1) : d[i] # EQUALS,
         d[e] = EQUALS,
         \A i \in (e + 1)..(z - 1) : d[i] # NUL,
         d[z] = NUL
  PROVE  /\ WellFormed(d, n)
         /\ PairAt(d, n) = Pair(Bytes(d, n, e), Bytes(d, e + 1, z))
<1>1. n \in Nat /\ e \in Nat /\ z \in Nat /\ end \in Nat /\ n < e /\ e < z /\ z < end
  BY SizeAssumption DEF Offsets, end
<1>2. EQUALS # NUL
  BY DEF EQUALS, NUL
<1>3. e \in EqualsOf(d, n)
  BY <1>1, <1>2 DEF EqualsOf
<1>4. ASSUME NEW x \in EqualsOf(d, n)
      PROVE  x = e
  <2>1. /\ x \in Nat /\ n < x /\ x < end /\ d[x] = EQUALS
        /\ \A i \in (n + 1)..(x - 1) : d[i] # EQUALS
    BY <1>1 DEF EqualsOf
  <2>2. CASE x < e
    BY <1>1, <2>1, <2>2
  <2>3. CASE e < x
    BY <1>1, <2>1, <2>3
  <2> QED
    BY <1>1, <2>1, <2>2, <2>3
<1>5. \A i \in n..(z - 1) : d[i] # NUL
  <2> SUFFICES ASSUME NEW i \in n..(z - 1) PROVE d[i] # NUL
    OBVIOUS
  <2>1. i \in n..(e - 1) \/ i = e \/ i \in (e + 1)..(z - 1)
    BY <1>1
  <2> QED
    BY <1>2, <2>1
<1>6. z \in EndOf(d, n)
  BY <1>1, <1>5 DEF EndOf
<1>7. ASSUME NEW x \in EndOf(d, n)
      PROVE  x = z
  <2>1. /\ x \in Nat /\ n <= x /\ x < end /\ d[x] = NUL
        /\ \A i \in n..(x - 1) : d[i] # NUL
    BY <1>1 DEF EndOf
  <2>2. CASE x < z
    BY <1>1, <1>5, <2>1, <2>2
  <2>3. CASE z < x
    BY <1>1, <2>1, <2>3
  <2> QED
    BY <1>1, <2>1, <2>2, <2>3
<1>8. (CHOOSE x \in EqualsOf(d, n) : TRUE) = e
  BY <1>3, <1>4
<1>9. (CHOOSE x \in EndOf(d, n) : TRUE) = z
  BY <1>6, <1>7
<1> QED
  BY <1>3, <1>6, <1>8, <1>9 DEF WellFormed, PairAt

\* The list with the pair of a later entry put at its head.
LEMMA ListGrows ==
  ASSUME NEW P \in SUBSET Nat, IsFiniteSet(P), NEW n \in Nat,
         \A s \in P : s < n,
         NEW d, NEW list \in Seq(StringPairs), IsListOf(list, P, d),
         NEW x \in StringPairs, WellFormed(d, n), PairAt(d, n) = x
  PROVE  IsListOf(<<x>> \o list, P \cup {n}, d)
<1> DEFINE Q == P \cup {n}
           longer == <<x>> \o list
           From(S, s) == {t \in S : t >= s}
<1>1. n \notin P
  OBVIOUS
<1>2. Cardinality(Q) = Cardinality(P) + 1 /\ Cardinality(P) = Len(list)
  BY <1>1, FS_AddElement DEF IsListOf
<1>3. /\ Len(longer) = Len(list) + 1
      /\ longer[1] = x
      /\ \A i \in 1..Len(list) : longer[i + 1] = list[i]
  <2> HIDE DEF StringPairs
  <2>1. <<x>> \in Seq(StringPairs) /\ Len(<<x>>) = 1 /\ <<x>>[1] = x
    OBVIOUS
  <2>2. Len(list) \in Nat
    OBVIOUS
  <2>3. \A i \in 1..(1 + Len(list)) :
          longer[i] = IF i <= 1 THEN <<x>>[i] ELSE list[i - 1]
    BY <2>1, ConcatProperties
  <2>4. Len(longer) = 1 + Len(list)
    BY <2>1, ConcatProperties
  <2> HIDE DEF longer
  <2> QED
    BY <2>1, <2>2, <2>3, <2>4
<1>4. Len(list) \in Nat
  OBVIOUS
<1> HIDE DEF longer
<1>5. InList(longer, Q, d, n)
  <2>1. \A t \in Q : t >= n <=> t = n
    OBVIOUS
  <2>2. From(Q, n) = {n}
    BY <2>1
  <2>3. Cardinality(From(Q, n)) = 1
    BY <2>2, FS_Singleton
  <2> QED
    BY <1>3, <2>3 DEF InList
<1>6. ASSUME NEW s \in P
      PROVE  InList(longer, Q, d, s)
  <2> DEFINE k == Cardinality(From(P, s))
  <2>1. WellFormed(d, s) /\ list[k] = PairAt(d, s)
    BY DEF IsListOf, InList
  <2>2. From(P, s) \in SUBSET P /\ s \in From(P, s)
    OBVIOUS
  <2>3. IsFiniteSet(From(P, s)) /\ k <= Len(list) /\ k \in Nat
    <3> HIDE DEF From
    <3> QED
      BY <1>2, <2>2, FS_Subset, FS_CardinalityType
  <2>4. k # 0
    <3> HIDE DEF From
    <3> QED
      BY <2>2, <2>3, FS_EmptySet
  <2>5. From(Q, s) = From(P, s) \cup {n} /\ n \notin From(P, s)
    BY <1>1
  <2>6. Cardinality(From(Q, s)) = k + 1
    <3> HIDE DEF From, Q
    <3> QED
      BY <2>3, <2>5, FS_AddElement
  <2> HIDE DEF k
  <2>7. longer[k + 1] = list[k]
    BY <1>3, <1>4, <2>3, <2>4
  <2> QED
    BY <2>1, <2>6, <2>7 DEF InList
<1> QED
  BY <1>2, <1>3, <1>5, <1>6 DEF IsListOf, longer

LEMMA EntriesFinite ==
  ASSUME NEW d, NEW n
  PROVE  EntriesBefore(d, n) \in SUBSET Nat /\ IsFiniteSet(EntriesBefore(d, n))
<1>1. EntriesBefore(d, n) \in SUBSET Offsets
  BY DEF EntriesBefore, Entries
<1>2. IsFiniteSet(Offsets) /\ Offsets \in SUBSET Nat
  <2>1. 4 \in Int /\ env_size - 1 \in Int
    BY SizeAssumption
  <2>2. IsFiniteSet(Offsets)
    BY <2>1, FS_Interval DEF Offsets
  <2> QED
    BY <2>1, <2>2 DEF Offsets
<1> QED
  BY <1>1, <1>2, FS_Subset

\* No entry can end if there is no '=' or no NUL left.
LEMMA NoEquals ==
  ASSUME NEW d, NEW n \in Offsets, NEW e \in (n + 1)..end,
         \A i \in (n + 1)..(e - 1) : d[i] # EQUALS,
         e = end \/ d[e] = NUL
  PROVE  ~WellFormed(d, n)
<1>1. n \in Nat /\ e \in Nat /\ end \in Nat /\ n < e /\ e <= end
  BY SizeAssumption DEF Offsets, end
<1>2. ASSUME NEW x \in EqualsOf(d, n)
      PROVE  FALSE
  <2>1. /\ x \in Nat /\ n < x /\ x < end /\ d[x] = EQUALS
        /\ \A i \in (n + 1)..(x - 1) : d[i] # NUL
    BY <1>1 DEF EqualsOf
  <2>2. CASE x < e
    BY <1>1, <2>1, <2>2
  <2>3. CASE x = e
    BY <1>1, <2>1, <2>3 DEF EQUALS, NUL
  <2>4. CASE e < x
    BY <1>1, <2>1, <2>4
  <2> QED
    BY <1>1, <2>1, <2>2, <2>3, <2>4
<1> QED
  BY <1>2 DEF WellFormed

LEMMA NoEnd ==
  ASSUME NEW d, NEW n \in Offsets, \A i \in n..(end - 1) : d[i] # NUL
  PROVE  ~WellFormed(d, n)
BY DEF WellFormed, EndOf

LEMMA InitParse == Init => ParseInv
BY DEF Init, ParseInv, Reading
LEMMA NextParse == ParseInv /\ ReadInv /\ DataInv /\ [Next]_all => ParseInv'
<1> SUFFICES ASSUME ParseInv, ReadInv, DataInv, [Next]_all PROVE ParseInv'
  OBVIOUS
<1> DEFINE d == buffer.data
<1>1. CASE ReadBegin
  <2>1. name = 4 /\ name' = name /\ vars' = <<>>
    BY <1>1 DEF ReadBegin, ReadInv, Reading, cursors
  <2>2. pc' \in {"name", "read_failed"}
    BY <1>1 DEF ReadBegin
  <2>3. pc' = "read_failed" => buffer'.crc # Crc(buffer'.data)
    BY <1>1 DEF ReadBegin
  <2>4. AtEntry(buffer'.data, 4)
    BY DEF AtEntry, EntryStart
  <2>5. EntriesBefore(buffer'.data, 4) = {}
    BY SizeAssumption DEF EntriesBefore, Entries, Offsets
  <2>6. IsListOf(<<>>, {}, buffer'.data)
    BY FS_EmptySet DEF IsListOf
  <2> QED
    BY <2>1, <2>2, <2>3, <2>4, <2>5, <2>6 DEF ParseInv, Reading
<1>2. CASE ReadName
  <2>1. CASE ReadReturns("idle")
    BY <1>2, <2>1 DEF ReadReturns, ParseInv, Reading
  <2>2. CASE /\ endname' = name + 1 /\ pc' = "endname"
             /\ UNCHANGED <<name, value, endvalue>>
    <3>1. UNCHANGED <<buffer, vars, name>> /\ pc = "name" /\ name \in Nat
      BY <1>2, <2>2, SizeAssumption DEF ReadName, ReadInv, ReadInBounds, end
    <3>2. \A i \in (name + 1)..((name + 1) - 1) : d[i] # EQUALS
      BY <3>1
    <3>3. AtEntry(d, name) /\ IsListOf(vars, EntriesBefore(d, name), d)
      BY <3>1 DEF ParseInv, Reading
    <3> QED
      BY <2>2, <3>1, <3>2, <3>3 DEF ParseInv, Reading
  <2> QED
    BY <1>2, <2>1, <2>2 DEF ReadName
<1>3. CASE ReadEndname
  <2>1. /\ pc = "endname" /\ UNCHANGED <<buffer, vars>>
        /\ AtEntry(d, name) /\ IsListOf(vars, EntriesBefore(d, name), d)
        /\ \A i \in (name + 1)..(endname - 1) : d[i] # EQUALS
    BY <1>3 DEF ReadEndname, ParseInv, Reading
  <2>2. name \in Offsets /\ endname \in (name + 1)..end /\ name \in Nat
    BY <2>1, SizeAssumption DEF ReadInv, ReadInBounds, Offsets
  <2>3. CASE At(endname) \in {END, NUL} /\ ReadReturns("read_failed")
    <3>1. endname = end \/ d[endname] = NUL
      <4>1. CASE endname # end
        <5>1. endname \in Offsets
          BY <2>2, <4>1, SizeAssumption DEF Offsets, end
        <5>2. d[endname] \in Byte
          BY <5>1 DEF DataInv, IsBlock
        <5> QED
          BY <2>3, <4>1, <5>2, SizeAssumption DEF At, END, NUL
      <4> QED
        BY <4>1
    <3>2. ~WellFormed(d, name)
      BY <2>1, <2>2, <3>1, NoEquals
    <3>3. d[name] # NUL
      <4>1. name \in name..(endname - 1)
        BY <2>2, SizeAssumption DEF end
      <4> QED
        BY <2>1, <4>1 DEF ReadInv
    <3>4. name \in Entries(d)
      BY <2>1, <2>2, <3>3, EntryHere
    <3>5. pc' = "read_failed"
      BY <2>3 DEF ReadReturns
    <3> QED
      BY <2>1, <3>2, <3>4, <3>5 DEF ParseInv, Reading
  <2>4. CASE /\ At(endname) = EQUALS
             /\ value' = endname + 1
             /\ endvalue' = endname + 1
             /\ pc' = "endvalue"
             /\ UNCHANGED <<name, endname>>
    <3>1. d[endname] = EQUALS
      BY <2>4 DEF At, END, EQUALS
    <3> QED
      BY <2>1, <2>4, <3>1 DEF ParseInv, Reading
  <2>5. CASE /\ At(endname) \notin {END, NUL, EQUALS}
             /\ endname' = endname + 1
             /\ UNCHANGED <<pc, name, value, endvalue>>
    <3>1. d[endname] # EQUALS
      BY <2>5 DEF At
    <3>2. \A i \in (name + 1)..((endname + 1) - 1) : d[i] # EQUALS
      BY <2>1, <2>2, <3>1, SizeAssumption DEF end
    <3> QED
      BY <2>1, <2>5, <3>2 DEF ParseInv, Reading
  <2> QED
    BY <1>3, <2>3, <2>4, <2>5 DEF ReadEndname
<1>4. CASE ReadEndvalue
  <2>1. /\ pc = "endvalue" /\ UNCHANGED buffer
        /\ AtEntry(d, name) /\ IsListOf(vars, EntriesBefore(d, name), d)
        /\ \A i \in (name + 1)..(endname - 1) : d[i] # EQUALS
        /\ d[endname] = EQUALS
    BY <1>4 DEF ReadEndvalue, ParseInv, Reading
  <2>2. /\ name \in Offsets /\ endname \in (name + 1)..(end - 1)
        /\ value = endname + 1 /\ endvalue \in value..end
        /\ \A i \in name..(endname - 1) : d[i] # NUL
        /\ \A i \in value..(endvalue - 1) : d[i] # NUL
    BY <2>1 DEF ReadInv, ReadInBounds
  <2>3. /\ name \in Nat /\ endname \in Nat /\ endvalue \in Nat /\ end \in Nat
        /\ name < endname /\ endname < endvalue /\ endvalue <= end
    BY <2>2, SizeAssumption DEF Offsets, end
  <2>4. ASSUME NEW i \in name..(endvalue - 1)
        PROVE  d[i] # NUL
    <3>1. i \in name..(endname - 1) \/ i = endname \/ i \in value..(endvalue - 1)
      BY <2>2, <2>3
    <3> QED
      BY <2>1, <2>2, <3>1 DEF EQUALS, NUL
  <2>5. CASE At(endvalue) = END /\ ReadReturns("read_failed")
    <3>1. endvalue = end
      <4>1. CASE endvalue # end
        <5>1. endvalue \in Offsets
          BY <2>2, <2>3, <4>1, SizeAssumption DEF Offsets, end
        <5>2. d[endvalue] \in Byte
          BY <5>1 DEF DataInv, IsBlock
        <5> QED
          BY <2>5, <4>1, <5>2, SizeAssumption DEF At, END, NUL
      <4> QED
        BY <4>1
    <3>2. ~WellFormed(d, name)
      BY <2>2, <2>4, <3>1, NoEnd
    <3>3. name \in Entries(d)
      <4>1. d[name] # NUL
        BY <2>3, <2>4
      <4> QED
        BY <2>1, <2>2, <4>1, EntryHere
    <3>4. pc' = "read_failed"
      BY <2>5 DEF ReadReturns
    <3> QED
      BY <2>1, <3>2, <3>3, <3>4 DEF ParseInv, Reading
  <2>6. CASE /\ At(endvalue) = NUL
             /\ vars' = <<Pair(strndup_(buffer.data, name, endname - name),
                               strndup_(buffer.data, value,
                                        (value - endvalue) % ULLMod))>> \o vars
             /\ name' = endvalue + 1
             /\ pc' = "name"
    <3> DEFINE P == EntriesBefore(d, name)
               x == Pair(Bytes(d, name, endname), Bytes(d, endname + 1, endvalue))
    <3>1. endvalue # end /\ d[endvalue] = NUL
      BY <2>6 DEF At, END, NUL
    <3>2. /\ endvalue \in (name + 1)..(end - 1)
          /\ endvalue \in (endname + 1)..(end - 1)
      BY <2>3, <3>1
    <3>3. vars' = <<x>> \o vars
      BY <2>1, <2>2, <2>6, CopiedWhole DEF CopiesWhole
    <3>4. /\ AtEntry(d, endvalue + 1)
          /\ EntriesBefore(d, endvalue + 1) = P \cup {name}
      BY <2>1, <2>2, <2>4, <3>1, <3>2, NextEntry
    <3>5. WellFormed(d, name) /\ PairAt(d, name) = x
      <4>1. \A i \in (endname + 1)..(endvalue - 1) : d[i] # NUL
        BY <2>2
      <4> QED
        BY <2>1, <2>2, <3>1, <3>2, <4>1, PairFound
    <3>6. x \in StringPairs
      <4>1. /\ name \in Offsets /\ endname \in Offsets /\ name <= endname
            /\ endname + 1 \in Offsets /\ endvalue \in Offsets
            /\ endname + 1 <= endvalue
        BY <2>2, <2>3, <3>2, SizeAssumption DEF Offsets, end
      <4>2. d \in [Offsets -> Byte]
        BY DEF DataInv, IsBlock
      <4>3. Bytes(d, name, endname) \in Seq(Byte)
        BY <4>1, <4>2, BytesType
      <4>4. Bytes(d, endname + 1, endvalue) \in Seq(Byte)
        BY <4>1, <4>2, BytesType
      <4> QED
        BY <4>3, <4>4, PairType
    <3>7. P \in SUBSET Nat /\ IsFiniteSet(P) /\ \A s \in P : s < name
      BY EntriesFinite DEF EntriesBefore
    <3>8. vars \in Seq(StringPairs) /\ IsListOf(vars, P, d)
      BY <2>1 DEF DataInv
    <3> HIDE DEF x, P
    <3>9. IsListOf(<<x>> \o vars, P \cup {name}, d)
      BY <2>3, <3>5, <3>6, <3>7, <3>8, ListGrows
    <3> QED
      BY <2>1, <2>6, <3>3, <3>4, <3>9 DEF ParseInv, Reading
  <2>7. CASE /\ At(endvalue) \notin {END, NUL}
             /\ endvalue' = endvalue + 1
             /\ UNCHANGED <<pc, vars, name, endname, value>>
    BY <2>1, <2>7 DEF ParseInv, Reading
  <2> QED
    BY <1>4, <2>5, <2>6, <2>7 DEF ReadEndvalue
<1>5. CASE pc' \notin Reading \cup {"read_failed"}
  BY <1>5 DEF ParseInv, Reading
<1>6. ASSUME NEW n \in Name, NEW v \in Value, uboot_env_setenv(n, v)
      PROVE  pc' \notin Reading \cup {"read_failed"}
  BY <1>6 DEF uboot_env_setenv, Reading
<1>7. ASSUME NEW n \in Name, uboot_env_unsetenv(n)
      PROVE  pc' \notin Reading \cup {"read_failed"}
  BY <1>7 DEF uboot_env_unsetenv, Reading
<1>8. CASE uboot_env_free
  BY <1>5, <1>8 DEF uboot_env_free, Reading
<1>9. CASE WriteBegin
  BY <1>5, <1>9 DEF WriteBegin, Reading
<1>10. CASE WriteNoRoom
  BY <1>5, <1>10 DEF WriteNoRoom, WriteReturns, Reading
<1>11. CASE WritePair
  BY <1>5, <1>11 DEF WritePair, Reading
<1>12. CASE WriteEnd
  BY <1>5, <1>12 DEF WriteEnd, WriteReturns, Reading
<1>13. CASE UNCHANGED all
  BY <1>13 DEF all, cursors, ParseInv
<1> QED
  BY <1>1, <1>2, <1>3, <1>4, <1>5, <1>6, <1>7, <1>8, <1>9, <1>10, <1>11,
     <1>12, <1>13 DEF Next

LEMMA ParseInvariance == Spec => []ParseInv
<1>1. Spec => []ReadInv /\ []DataInv
  BY Invariance, PTL
<1> QED
  BY <1>1, InitParse, NextParse, PTL DEF Spec

\* uboot_env_read accepts exactly the well formed blocks, whatever their size,
\* and what it puts in the list are their entries, each once, last one first.
THEOREM ReaderParsesFormat == Spec => []ParsesFormat
<1>1. ReadInv /\ ParseInv => ParsesFormat
  <2> DEFINE d == buffer.data
  <2> SUFFICES ASSUME ReadInv, ParseInv, pc = "name"
               PROVE  /\ IsListOf(vars, EntriesBefore(d, name), d)
                      /\ name = end \/ d[name] = NUL =>
                           EntriesBefore(d, name) = Entries(d)
    BY DEF ParsesFormat, ParseInv, IsListOf, InList, EntriesBefore
  <2>1. AtEntry(d, name) /\ IsListOf(vars, EntriesBefore(d, name), d)
    BY DEF ParseInv, Reading
  <2>2. name \in Nat /\ 4 <= name /\ end \in Nat
    BY SizeAssumption DEF ReadInv, ReadInBounds, end
  <2>3. ASSUME NEW s \in Entries(d), name = end \/ d[name] = NUL
        PROVE  s < name
    <3>1. /\ s \in Nat /\ 4 <= s /\ s < end
          /\ \A t \in 4..s : EntryStart(d, t) => d[t] # NUL
      BY SizeAssumption DEF Entries, Offsets, end
    <3>2. CASE name <= s
      <4>1. name \in 4..s /\ name # end
        BY <2>2, <3>1, <3>2
      <4> QED
        BY <2>1, <2>3, <3>1, <4>1 DEF AtEntry
    <3> QED
      BY <2>2, <3>1, <3>2
  <2> QED
    BY <2>1, <2>3 DEF EntriesBefore
<1>2. Spec => []ReadInv /\ []ParseInv
  BY ReadInvariance, ParseInvariance, PTL
<1> QED
  BY <1>1, <1>2, PTL

-----------------------------------------------------------------------------
(***************************************************************************)
(* The block as a map: what is in the list, on disk and in the block that  *)
(* is being written.                                                       *)
(***************************************************************************)

CString == Seq(Byte \ {NUL})

\* A name that is read back as it was written, and a pair.
GoodName(n) == /\ n \in CString /\ n # <<>>
               /\ \A i \in 2..Len(n) : n[i] # EQUALS

GoodPairs(list) ==
  \A i \in 1..Len(list) : GoodName(list[i].name) /\ list[i].value \in CString

\* No variable of the callers is twice in a list, or in a block.
ListedOnce(list) ==
  \A i, j \in 1..Len(list) :
    list[i].name = list[j].name /\ list[i].name \in Name => i = j

StoredOnce(d) ==
  \A s, t \in Entries(d) :
    PairAt(d, s).name = PairAt(d, t).name /\ PairAt(d, s).name \in Name => s = t

\* Where uboot_env_write puts pair i.
Start(list, i) == Space(list)[i - 1] + 3

\* The block d holds the text of the first n pairs.
Stored(d, list, n) ==
  \A i \in 1..n : \A k \in 1..Size(list[i]) :
    d[Start(list, i) + k - 1] = Text(list[i])[k]

MapInv ==
  /\ saved = IF Readable(disk) THEN ParsedMap(disk.data) ELSE NULL
  /\ Readable(disk) => StoredOnce(disk.data)
  /\ Loading => buffer = disk
  /\ pc \in Reading => buffer.crc = Crc(buffer.data)
  /\ GoodPairs(vars)
  /\ ~Loading => ListedOnce(vars)
  /\ pc = "write" => Stored(buffer.data, vars, pair - 1)

\* strcmp_ is 0 exactly for equal strings.
LEMMA StrcmpEqual ==
  ASSUME NEW a \in CString, NEW b \in CString
  PROVE  strcmp_(a, b) = 0 <=> a = b
<1> DEFINE Differ(i) == CharAt(a, i) = NUL \/ CharAt(a, i) # CharAt(b, i)
           Ends(i) == /\ Differ(i)
                      /\ \A j \in 1..(i - 1) : CharAt(a, j) = CharAt(b, j)
           n == Len(a)
           m == Len(b)
           T == {i \in 1..(n + 1) : Differ(i)}
           k == CHOOSE i \in 1..(n + 1) : Ends(i)
<1>1. n \in Nat /\ m \in Nat /\ a \in [1..n -> Byte] /\ b \in [1..m -> Byte]
  BY DEF CString
<1>2. (\A i \in 1..n : a[i] # NUL) /\ (\A i \in 1..m : b[i] # NUL)
  BY DEF CString
<1>3. \A i \in Nat \ {0} : CharAt(a, i) \in Int /\ CharAt(b, i) \in Int
  <2>1. Byte \subseteq Int /\ NUL \in Int
    BY SizeAssumption DEF NUL
  <2>2. \A i \in 1..n : a[i] \in Int
    BY <1>1, <2>1
  <2>3. \A i \in 1..m : b[i] \in Int
    BY <1>1, <2>1
  <2>4. \A i \in Nat \ {0} : (i <= n <=> i \in 1..n) /\ (i <= m <=> i \in 1..m)
    BY <1>1
  <2> QED
    BY <2>1, <2>2, <2>3, <2>4 DEF CharAt
<1>4. \A i \in 1..n : CharAt(a, i) = a[i]
  BY <1>1 DEF CharAt
<1>5. \A i \in 1..m : CharAt(b, i) = b[i]
  BY <1>1 DEF CharAt
<1>6. CharAt(a, n + 1) = NUL
  BY <1>1 DEF CharAt
<1>7. \A i \in Nat : i > m => CharAt(b, i) = NUL
  BY <1>1 DEF CharAt
<1> HIDE DEF n, m
<1>8. k \in 1..(n + 1) /\ Ends(k)
  <2>1. T \subseteq Nat /\ n + 1 \in T
    BY <1>1, <1>6
  <2>2. PICK x \in T : \A y \in T : x <= y
    <3> HIDE DEF T
    <3> QED
      BY <2>1, LeastNatural
  <2>3. Ends(x)
    BY <1>1, <2>2
  <2>4. x \in 1..(n + 1)
    BY <2>2
  <2> HIDE DEF Ends
  <2> QED
    BY <2>3, <2>4
<1>9. strcmp_(a, b) = CharAt(a, k) - CharAt(b, k)
  BY DEF strcmp_, n
<1> HIDE DEF k
<1>10. k \in Nat \ {0} /\ CharAt(a, k) \in Int /\ CharAt(b, k) \in Int
  BY <1>1, <1>3, <1>8
<1>11. ASSUME strcmp_(a, b) = 0
       PROVE  a = b
  <2>1. CharAt(a, k) = CharAt(b, k)
    BY <1>9, <1>10, <1>11
  <2>2. CharAt(a, k) = NUL
    BY <1>8, <2>1
  <2>3. k = n + 1
    BY <1>1, <1>2, <1>4, <1>8, <2>2
  <2>4. m <= n
    <3>1. CASE n < m
      <4>1. n + 1 \in 1..m
        BY <1>1, <3>1
      <4>2. b[n + 1] = NUL
        BY <1>5, <2>1, <2>2, <2>3, <4>1
      <4> QED
        BY <1>2, <4>1, <4>2
    <3> QED
      BY <1>1, <3>1
  <2>5. \A j \in 1..n : CharAt(b, j) = a[j]
    BY <1>1, <1>4, <1>8, <2>3
  <2>6. \A j \in 1..n : CharAt(b, j) # NUL
    BY <1>2, <2>5
  <2>7. n <= m
    BY <1>1, <1>7, <2>6
  <2>8. m = n /\ \A j \in 1..n : b[j] = a[j]
    BY <1>1, <1>5, <2>4, <2>5, <2>7
  <2> QED
    BY <1>1, <2>8
<1>12. ASSUME a = b
       PROVE  strcmp_(a, b) = 0
  <2>1. CharAt(a, k) = CharAt(b, k)
    BY <1>12
  <2> QED
    BY <1>9, <1>10, <2>1
<1> QED
  BY <1>11, <1>12

\* The names callers pass are good.
LEMMA CallersNames == \A n \in Name : GoodName(n)
<1> SUFFICES ASSUME NEW n \in Name PROVE GoodName(n)
  OBVIOUS
<1>1. n \in CString /\ n # <<>> /\ \A i \in 1..Len(n) : n[i] # EQUALS
  BY ArgumentAssumption DEF CString
<1>2. Len(n) \in Nat
  BY <1>1 DEF CString
<1>3. \A i \in 2..Len(n) : i \in 1..Len(n)
  BY <1>2
<1> QED
  BY <1>1, <1>3 DEF GoodName

\* The pairs that uboot_env_getenv stops at are those with the name.
LEMMA MatchesAre ==
  ASSUME GoodPairs(vars), NEW n \in Name
  PROVE  Matches(n) = {i \in 1..Len(vars) : vars[i].name = n}
<1>1. n \in CString
  BY CallersNames DEF GoodName
<1>2. ASSUME NEW i \in 1..Len(vars)
      PROVE  strcmp_(vars[i].name, n) = 0 <=> vars[i].name = n
  <2>1. vars[i].name \in CString
    BY DEF GoodPairs, GoodName
  <2> QED
    BY <1>1, <2>1, StrcmpEqual
<1> QED
  BY <1>2 DEF Matches

\* uboot_env_getenv looks a variable up in the map of the list.
LEMMA GetenvReadsMap ==
  ASSUME GoodPairs(vars), NEW n \in Name
  PROVE  uboot_env_getenv(n) = MapOf(vars)[n]
BY MatchesAre DEF uboot_env_getenv, MapOf

\* The map of a list that holds no variable twice.
LEMMA MapOfListed ==
  ASSUME NEW list, Len(list) \in Nat, ListedOnce(list),
         NEW i \in 1..Len(list), list[i].name \in Name
  PROVE  MapOf(list)[list[i].name] = list[i].value
<1> DEFINE M == {j \in 1..Len(list) : list[j].name = list[i].name}
<1>1. i \in M /\ M \subseteq Nat
  OBVIOUS
<1>2. First(M) \in M
  <2> HIDE DEF M
  <2> QED
    BY <1>1, FirstType
<1>3. First(M) = i
  BY <1>2 DEF ListedOnce
<1>4. MapOf(list)[list[i].name] = IF M = {} THEN NULL ELSE list[First(M)].value
  BY DEF MapOf
<1> HIDE DEF M
<1> QED
  BY <1>1, <1>3, <1>4

LEMMA MapOfAbsent ==
  ASSUME NEW list, NEW n \in Name, \A i \in 1..Len(list) : list[i].name # n
  PROVE  MapOf(list)[n] = NULL
BY DEF MapOf

\* Two lists with the same pairs have the same map.
LEMMA SameMap ==
  ASSUME NEW list, NEW other, Len(list) \in Nat, Len(other) \in Nat,
         ListedOnce(list), ListedOnce(other),
         \A i \in 1..Len(list) : \E j \in 1..Len(other) : other[j] = list[i],
         \A j \in 1..Len(other) : \E i \in 1..Len(list) : list[i] = other[j]
  PROVE  MapOf(list) = MapOf(other)
<1>1. ASSUME NEW n \in Name
      PROVE  MapOf(list)[n] = MapOf(other)[n]
  <2>1. CASE \E i \in 1..Len(list) : list[i].name = n
    <3>1. PICK i \in 1..Len(list) : list[i].name = n
      BY <2>1
    <3>2. PICK j \in 1..Len(other) : other[j] = list[i]
      OBVIOUS
    <3>3. MapOf(list)[n] = list[i].value
      BY <3>1, MapOfListed
    <3>4. other[j].name = n
      BY <3>1, <3>2
    <3>5. MapOf(other)[n] = other[j].value
      BY <3>4, MapOfListed
    <3> QED
      BY <3>2, <3>3, <3>5
  <2>2. CASE \A i \in 1..Len(list) : list[i].name # n
    <3>1. \A j \in 1..Len(other) : other[j].name # n
      BY <2>2
    <3> QED
      BY <2>2, <3>1, MapOfAbsent
  <2> QED
    BY <2>1, <2>2
<1>2. MapOf(list) = [n \in Name |-> MapOf(list)[n]]
  BY DEF MapOf
<1>3. MapOf(other) = [n \in Name |-> MapOf(other)[n]]
  BY DEF MapOf
<1> QED
  BY <1>1, <1>2, <1>3

\* A list in which every pair is one of another list, each at most once.
LEMMA FewerPairs ==
  ASSUME NEW list, NEW other, NEW f \in [1..Len(other) -> 1..Len(list)],
         \A i, j \in 1..Len(other) : f[i] = f[j] => i = j,
         \A i \in 1..Len(other) : other[i] = list[f[i]],
         GoodPairs(list)
  PROVE  GoodPairs(other) /\ (ListedOnce(list) => ListedOnce(other))
<1>1. GoodPairs(other)
  BY DEF GoodPairs
<1>2. ASSUME ListedOnce(list) PROVE ListedOnce(other)
  <2> SUFFICES ASSUME NEW i \in 1..Len(other), NEW j \in 1..Len(other),
                      other[i].name = other[j].name, other[i].name \in Name
               PROVE  i = j
    BY DEF ListedOnce
  <2>1. f[i] = f[j]
    BY <1>2 DEF ListedOnce
  <2> QED
    BY <2>1
<1> QED
  BY <1>1, <1>2

\* Sorting changes the order only.
LEMMA SortKeeps ==
  ASSUME NEW list \in Seq(StringPairs), GoodPairs(list), ListedOnce(list)
  PROVE  /\ GoodPairs(uboot_env_sort(list))
         /\ ListedOnce(uboot_env_sort(list))
         /\ MapOf(uboot_env_sort(list)) = MapOf(list)
<1> DEFINE E == {list[i] : i \in DOMAIN list}
           compar == [x \in E \X E |-> env_name_compare(x[1], x[2])]
           sorted == uboot_env_sort(list)
<1>1. CASE list = <<>>
  BY <1>1 DEF uboot_env_sort
<1>2. CASE list # <<>>
  <2>1. sorted = qsort_(list, compar)
    BY <1>2 DEF uboot_env_sort
  <2> HIDE DEF compar, StringPairs, sorted
  <2>2. PICK N \in Nat : N = Len(list)
    OBVIOUS
  <2>3. sorted \in [1..N -> StringPairs]
    BY <1>2, <2>1, <2>2, SortType
  <2>4. Len(sorted) = N
    BY <2>2, <2>3
  <2>5. PICK f : Arranged(N, list, sorted, f, compar)
    BY <1>2, <2>1, <2>2, SortArranges
  <2>6. /\ f \in [1..N -> 1..N]
        /\ \A i, j \in 1..N : f[i] = f[j] => i = j
        /\ \A k \in 1..N : \E i \in 1..N : f[i] = k
        /\ \A i \in 1..N : sorted[i] = list[f[i]]
    BY <2>5 DEF Arranged
  <2>7. GoodPairs(sorted) /\ ListedOnce(sorted)
    <3>1. /\ f \in [1..Len(sorted) -> 1..Len(list)]
          /\ \A i, j \in 1..Len(sorted) : f[i] = f[j] => i = j
          /\ \A i \in 1..Len(sorted) : sorted[i] = list[f[i]]
      BY <2>2, <2>4, <2>6
    <3> QED
      BY <3>1, FewerPairs
  <2>8. \A i \in 1..N : \E j \in 1..N : sorted[j] = list[i]
    BY <2>6
  <2>9. \A j \in 1..N : \E i \in 1..N : list[i] = sorted[j]
    BY <2>6
  <2>10. MapOf(list) = MapOf(sorted)
    BY <2>2, <2>4, <2>7, <2>8, <2>9, SameMap
  <2> QED
    BY <2>7, <2>10 DEF sorted
<1> QED
  BY <1>1, <1>2

\* The map of a list is that of another, with n changed to v.
Changes(list, g, n, v) ==
  \A k \in Name : MapOf(list)[k] = IF k = n THEN v ELSE MapOf(g)[k]

LEMMA MapsEqual ==
  ASSUME NEW list, NEW g, NEW n, NEW v, Changes(list, g, n, v)
  PROVE  MapOf(list) = [MapOf(g) EXCEPT ![n] = v]
<1>1. MapOf(list) = [k \in Name |-> MapOf(list)[k]]
  BY DEF MapOf
<1>2. MapOf(g) = [k \in Name |-> MapOf(g)[k]]
  BY DEF MapOf
<1>3. DOMAIN MapOf(g) = Name
  BY <1>2
<1>4. [MapOf(g) EXCEPT ![n] = v]
        = [k \in Name |-> IF k = n THEN v ELSE MapOf(g)[k]]
  BY <1>3
<1> QED
  BY <1>1, <1>4 DEF Changes

\* A variable that is not in the list is put at its head.
LEMMA PutKeeps ==
  ASSUME NEW list \in Seq(StringPairs), GoodPairs(list), ListedOnce(list),
         NEW n \in Name, NEW v \in Value,
         \A i \in 1..Len(list) : list[i].name # n
  PROVE  /\ GoodPairs(<<Pair(n, v)>> \o list)
         /\ ListedOnce(<<Pair(n, v)>> \o list)
         /\ MapOf(<<Pair(n, v)>> \o list) = [MapOf(list) EXCEPT ![n] = v]
<1> DEFINE x == Pair(n, v)
           new == <<x>> \o list
<1>1. PICK N \in Nat : N = Len(list)
  OBVIOUS
<1>2. x \in StringPairs /\ x.name = n /\ x.value = v
  BY ArgumentType DEF Pair, StringPairs
<1> HIDE DEF x, StringPairs
<1>3. Len(new) = N + 1 /\ \A i \in 1..(N + 1) : new[i] = IF i = 1 THEN x ELSE list[i - 1]
  BY <1>1, <1>2
<1> HIDE DEF new
<1>4. GoodName(n) /\ v \in CString
  BY CallersNames, ArgumentAssumption DEF CString
<1>5. \A i \in 1..(N + 1) : i = 1 \/ i - 1 \in 1..N
  BY <1>1
<1>6. GoodPairs(new)
  BY <1>1, <1>2, <1>3, <1>4, <1>5 DEF GoodPairs
<1>7. ListedOnce(new)
  <2> SUFFICES ASSUME NEW i \in 1..(N + 1), NEW j \in 1..(N + 1),
                      new[i].name = new[j].name, new[i].name \in Name
               PROVE  i = j
    BY <1>3 DEF ListedOnce
  <2>1. CASE i = 1 /\ j # 1
    BY <1>1, <1>2, <1>3, <1>5, <2>1
  <2>2. CASE j = 1 /\ i # 1
    BY <1>1, <1>2, <1>3, <1>5, <2>2
  <2>3. CASE i # 1 /\ j # 1
    <3>1. i - 1 = j - 1
      BY <1>1, <1>3, <1>5, <2>3 DEF ListedOnce
    <3> QED
      BY <3>1
  <2> QED
    BY <2>1, <2>2, <2>3
<1>8. ASSUME NEW k \in Name
      PROVE  MapOf(new)[k] = IF k = n THEN v ELSE MapOf(list)[k]
  <2>1. CASE k = n
    <3>1. 1 \in 1..Len(new) /\ new[1].name = k /\ new[1].value = v
      BY <1>1, <1>2, <1>3, <2>1
    <3>2. Len(new) \in Nat
      BY <1>1, <1>3
    <3> QED
      BY <1>7, <2>1, <3>1, <3>2, MapOfListed
  <2>2. CASE k # n /\ \E i \in 1..N : list[i].name = k
    <3>1. PICK i \in 1..N : list[i].name = k
      BY <2>2
    <3>2. MapOf(list)[k] = list[i].value
      BY <1>1, <3>1, MapOfListed
    <3>3. i + 1 \in 1..(N + 1) /\ i + 1 # 1 /\ (i + 1) - 1 = i
      BY <1>1
    <3>4. new[i + 1] = list[i]
      BY <1>3, <3>3
    <3>5. Len(new) \in Nat
      BY <1>1, <1>3
    <3>6. MapOf(new)[new[i + 1].name] = new[i + 1].value
      BY <1>3, <1>7, <3>1, <3>3, <3>4, <3>5, MapOfListed
    <3> QED
      BY <2>2, <3>1, <3>2, <3>4, <3>6
  <2>3. CASE k # n /\ \A i \in 1..N : list[i].name # k
    <3>1. MapOf(list)[k] = NULL
      BY <1>1, <2>3, MapOfAbsent
    <3>2. \A i \in 1..Len(new) : new[i].name # k
      BY <1>2, <1>3, <1>5, <2>3
    <3> QED
      BY <2>3, <3>1, <3>2, MapOfAbsent
  <2> QED
    BY <2>1, <2>2, <2>3
<1>9. MapOf(new) = [MapOf(list) EXCEPT ![n] = v]
  <2>1. Changes(new, list, n, v)
    BY <1>8 DEF Changes
  <2> QED
    BY <2>1, MapsEqual
<1> QED
  BY <1>6, <1>7, <1>9 DEF new, x

\* A variable that is in the list at i gets the value v.
LEMMA ReplaceKeeps ==
  ASSUME NEW list \in Seq(StringPairs), GoodPairs(list), ListedOnce(list),
         NEW n \in Name, NEW v \in Value,
         NEW i \in 1..Len(list), list[i].name = n
  PROVE  /\ GoodPairs([list EXCEPT ![i].value = v])
         /\ ListedOnce([list EXCEPT ![i].value = v])
         /\ MapOf([list EXCEPT ![i].value = v]) = [MapOf(list) EXCEPT ![n] = v]
<1> DEFINE x == [list[i] EXCEPT !.value = v]
           new == [list EXCEPT ![i].value = v]
<1>1. PICK N \in Nat : N = Len(list)
  OBVIOUS
<1>2. new = [list EXCEPT ![i] = x]
  OBVIOUS
<1>3. x \in StringPairs /\ x.name = n /\ x.value = v
  <2>1. list[i] \in StringPairs
    <3> HIDE DEF StringPairs
    <3> QED
      BY ElementOfSeq
  <2> QED
    BY <2>1, ArgumentType DEF StringPairs
<1> HIDE DEF x, new, StringPairs
<1>4. Len(new) = N /\ \A j \in 1..N : new[j] = IF j = i THEN x ELSE list[j]
  BY <1>1, <1>2, <1>3, ExceptSeq
<1>5. GoodName(n) /\ v \in CString
  BY CallersNames, ArgumentAssumption DEF CString
<1>6. \A j \in 1..N : new[j].name = list[j].name
  BY <1>3, <1>4
<1>7. GoodPairs(new)
  BY <1>1, <1>3, <1>4, <1>5 DEF GoodPairs
<1>8. ListedOnce(new)
  BY <1>1, <1>4, <1>6 DEF ListedOnce
<1>9. ASSUME NEW k \in Name
      PROVE  MapOf(new)[k] = IF k = n THEN v ELSE MapOf(list)[k]
  <2>1. CASE k = n
    <3>1. i \in 1..Len(new) /\ new[i].name = k /\ new[i].value = v
      BY <1>1, <1>3, <1>4, <2>1
    <3>2. Len(new) \in Nat
      BY <1>1, <1>4
    <3> QED
      BY <1>8, <2>1, <3>1, <3>2, MapOfListed
  <2>2. CASE k # n /\ \E j \in 1..N : list[j].name = k
    <3>1. PICK j \in 1..N : list[j].name = k
      BY <2>2
    <3>2. MapOf(list)[k] = list[j].value
      BY <1>1, <3>1, MapOfListed
    <3>3. new[j] = list[j]
      BY <1>4, <2>2, <3>1
    <3>4. Len(new) \in Nat /\ j \in 1..Len(new)
      BY <1>1, <1>4
    <3>5. MapOf(new)[new[j].name] = new[j].value
      BY <1>8, <3>1, <3>3, <3>4, MapOfListed
    <3> QED
      BY <2>2, <3>1, <3>2, <3>3, <3>5
  <2>3. CASE k # n /\ \A j \in 1..N : list[j].name # k
    <3>1. MapOf(list)[k] = NULL
      BY <1>1, <2>3, MapOfAbsent
    <3>2. \A j \in 1..Len(new) : new[j].name # k
      BY <1>4, <1>6, <2>3
    <3> QED
      BY <2>3, <3>1, <3>2, MapOfAbsent
  <2> QED
    BY <2>1, <2>2, <2>3
<1>10. Changes(new, list, n, v)
  BY <1>9 DEF Changes
<1> QED
  BY <1>7, <1>8, <1>10, MapsEqual DEF new

\* The list without its pair i.
Without(list, i) ==
  SubSeq(list, 1, i - 1) \o SubSeq(list, i + 1, Len(list))

\* The place in the list of pair j of the list without pair i.
Skip(i, j) == IF j < i THEN j ELSE j + 1

LEMMA WithoutItems ==
  ASSUME NEW S, NEW list \in Seq(S), NEW i \in 1..Len(list)
  PROVE  /\ Len(Without(list, i)) = Len(list) - 1
         /\ \A j \in 1..(Len(list) - 1) : Without(list, i)[j] = list[Skip(i, j)]
<1> DEFINE a == SubSeq(list, 1, i - 1)
           b == SubSeq(list, i + 1, Len(list))
<1>1. PICK N \in Nat : N = Len(list)
  OBVIOUS
<1>2. i \in 1..N /\ \A j \in 1..N : list[j] \in S
  BY <1>1
<1>3. /\ a \in Seq(S) /\ Len(a) = IF 1 <= i - 1 THEN (i - 1) - 1 + 1 ELSE 0
      /\ \A j \in 1..((i - 1) - 1 + 1) : a[j] = list[1 + j - 1]
  <2>1. \A j \in 1..(i - 1) : list[j] \in S
    BY <1>2
  <2>2. 1 \in Int /\ i - 1 \in Int
    BY <1>2
  <2> QED
    BY <2>1, <2>2, SubSeqProperties
<1>4. /\ b \in Seq(S) /\ Len(b) = IF i + 1 <= N THEN N - (i + 1) + 1 ELSE 0
      /\ \A j \in 1..(N - (i + 1) + 1) : b[j] = list[(i + 1) + j - 1]
  <2>1. \A j \in (i + 1)..N : list[j] \in S
    BY <1>2
  <2>2. i + 1 \in Int /\ N \in Int
    BY <1>2
  <2>3. b = SubSeq(list, i + 1, N)
    BY <1>1
  <2> QED
    BY <2>1, <2>2, <2>3, SubSeqProperties
<1> HIDE DEF a, b
<1>5. Len(a) = i - 1 /\ \A j \in 1..(i - 1) : a[j] = list[j]
  BY <1>2, <1>3
<1>6. Len(b) = N - i /\ \A j \in 1..(N - i) : b[j] = list[i + j]
  BY <1>2, <1>4
<1> DEFINE c == a \o b
<1>7. /\ Len(c) = Len(a) + Len(b)
      /\ \A j \in 1..(Len(a) + Len(b)) :
           c[j] = IF j <= Len(a) THEN a[j] ELSE b[j - Len(a)]
  BY <1>3, <1>4, ConcatProperties
<1> HIDE DEF c
<1>8. Len(c) = N - 1
  BY <1>1, <1>2, <1>5, <1>6, <1>7
<1>9. ASSUME NEW j \in 1..(N - 1)
      PROVE  c[j] = list[Skip(i, j)]
  <2>1. c[j] = IF j <= i - 1 THEN a[j] ELSE b[j - (i - 1)]
    BY <1>1, <1>2, <1>5, <1>6, <1>7
  <2>2. CASE j < i
    BY <1>1, <1>2, <1>5, <2>1, <2>2 DEF Skip
  <2>3. CASE ~(j < i)
    <3>1. j - (i - 1) \in 1..(N - i) /\ i + (j - (i - 1)) = j + 1
      BY <1>1, <1>2, <2>3
    <3>2. b[j - (i - 1)] = list[j + 1]
      BY <1>6, <3>1
    <3> QED
      BY <1>2, <2>1, <2>3, <3>2 DEF Skip
  <2> QED
    BY <2>2, <2>3
<1>10. Without(list, i) = c
  BY DEF Without, a, b, c
<1> QED
  BY <1>1, <1>8, <1>9, <1>10

\* A variable that is in the list at i is removed from it.
LEMMA RemoveKeeps ==
  ASSUME NEW list \in Seq(StringPairs), GoodPairs(list), ListedOnce(list),
         NEW n \in Name, NEW i \in 1..Len(list), list[i].name = n
  PROVE  /\ GoodPairs(Without(list, i))
         /\ ListedOnce(Without(list, i))
         /\ MapOf(Without(list, i)) = [MapOf(list) EXCEPT ![n] = NULL]
<1> DEFINE new == Without(list, i)
<1>1. PICK N \in Nat : N = Len(list)
  OBVIOUS
<1>2. Len(new) = N - 1 /\ \A j \in 1..(N - 1) : new[j] = list[Skip(i, j)]
  <2> HIDE DEF StringPairs
  <2> QED
    BY <1>1, WithoutItems
<1> HIDE DEF new
<1>3. N - 1 \in Nat /\ i \in 1..N
  BY <1>1
<1> DEFINE f == [j \in 1..(N - 1) |-> Skip(i, j)]
<1>4. /\ \A j \in 1..(N - 1) : Skip(i, j) \in 1..N /\ Skip(i, j) # i
      /\ \A j, k \in 1..(N - 1) : Skip(i, j) = Skip(i, k) => j = k
      /\ \A k \in 1..N : k # i => \E j \in 1..(N - 1) : Skip(i, j) = k
  <2>1. ASSUME NEW k \in 1..N, k # i
        PROVE  \E j \in 1..(N - 1) : Skip(i, j) = k
    <3>1. CASE k < i
      BY <1>1, <1>3, <3>1 DEF Skip
    <3>2. CASE k > i
      <4>1. k - 1 \in 1..(N - 1) /\ Skip(i, k - 1) = k
        BY <1>1, <1>3, <3>2 DEF Skip
      <4> QED
        BY <4>1
    <3> QED
      BY <1>1, <1>3, <2>1, <3>1, <3>2
  <2> QED
    BY <1>1, <1>3, <2>1 DEF Skip
<1>5. GoodPairs(new) /\ ListedOnce(new)
  <2>1. /\ f \in [1..Len(new) -> 1..Len(list)]
        /\ \A j \in 1..Len(new) : f[j] = Skip(i, j)
    BY <1>1, <1>2, <1>4
  <2> HIDE DEF f
  <2>2. /\ \A j, k \in 1..Len(new) : f[j] = f[k] => j = k
        /\ \A j \in 1..Len(new) : new[j] = list[f[j]]
    BY <1>2, <1>4, <2>1
  <2> QED
    BY <2>1, <2>2, FewerPairs
<1>6. ASSUME NEW k \in Name
      PROVE  MapOf(new)[k] = IF k = n THEN NULL ELSE MapOf(list)[k]
  <2>1. CASE k = n
    <3>1. \A j \in 1..Len(new) : new[j].name # k
      BY <1>1, <1>2, <1>3, <1>4, <2>1 DEF ListedOnce
    <3> QED
      BY <2>1, <3>1, MapOfAbsent
  <2>2. CASE k # n /\ \E j \in 1..N : list[j].name = k
    <3>1. PICK j \in 1..N : list[j].name = k
      BY <2>2
    <3>2. MapOf(list)[k] = list[j].value
      BY <1>1, <3>1, MapOfListed
    <3>3. PICK h \in 1..(N - 1) : Skip(i, h) = j
      BY <1>4, <2>2, <3>1
    <3>4. Len(new) \in Nat /\ h \in 1..Len(new) /\ new[h] = list[j]
      BY <1>2, <1>3, <3>3
    <3>5. MapOf(new)[new[h].name] = new[h].value
      BY <1>5, <3>1, <3>4, MapOfListed
    <3> QED
      BY <2>2, <3>1, <3>2, <3>4, <3>5
  <2>3. CASE k # n /\ \A j \in 1..N : list[j].name # k
    <3>1. MapOf(list)[k] = NULL
      BY <1>1, <2>3, MapOfAbsent
    <3>2. \A j \in 1..Len(new) : new[j].name # k
      BY <1>2, <1>4, <2>3
    <3> QED
      BY <2>3, <3>1, <3>2, MapOfAbsent
  <2> QED
    BY <2>1, <2>2, <2>3
<1>7. Changes(new, list, n, NULL)
  BY <1>6 DEF Changes
<1> QED
  BY <1>5, <1>7, MapsEqual DEF new

\* Behind the last entry there is none.
LEMMA EntriesEnd ==
  ASSUME NEW d, NEW n \in 4..end, AtEntry(d, n), n = end \/ d[n] = NUL
  PROVE  EntriesBefore(d, n) = Entries(d)
<1>1. n \in Nat /\ 4 <= n /\ end \in Nat
  BY SizeAssumption DEF end
<1>2. ASSUME NEW s \in Entries(d)
      PROVE  s < n
  <2>1. /\ s \in Nat /\ 4 <= s /\ s < end
        /\ \A t \in 4..s : EntryStart(d, t) => d[t] # NUL
    BY SizeAssumption DEF Entries, Offsets, end
  <2>2. CASE n <= s
    <3>1. n \in 4..s /\ n # end
      BY <1>1, <2>1, <2>2
    <3> QED
      BY <2>1, <3>1 DEF AtEntry
  <2> QED
    BY <1>1, <2>1, <2>2
<1> QED
  BY <1>2 DEF EntriesBefore

\* The map of a block that holds no variable twice.
LEMMA ParsedStored ==
  ASSUME NEW d, StoredOnce(d), NEW s \in Entries(d), PairAt(d, s).name \in Name
  PROVE  ParsedMap(d)[PairAt(d, s).name] = PairAt(d, s).value
<1> DEFINE n == PairAt(d, s).name
           L == {t \in Entries(d) : PairAt(d, t).name = n}
           z == CHOOSE t \in L : \A u \in L : u <= t
<1>1. s \in L /\ \A t \in L : t = s
  BY DEF StoredOnce
<1>2. s \in Nat
  BY SizeAssumption DEF Entries, Offsets
<1>3. \A u \in L : u <= s
  BY <1>1, <1>2
<1>4. ParsedMap(d)[n] = IF L = {} THEN NULL ELSE PairAt(d, z).value
  BY DEF ParsedMap
<1> HIDE DEF L
<1>5. z = s
  BY <1>1, <1>3
<1> QED
  BY <1>1, <1>4, <1>5

LEMMA ParsedAbsent ==
  ASSUME NEW d, NEW n \in Name, \A s \in Entries(d) : PairAt(d, s).name # n
  PROVE  ParsedMap(d)[n] = NULL
BY DEF ParsedMap

\* The pairs of a list are those of the entries of a block.
SamePairs(list, d) ==
  /\ \A i \in 1..Len(list) : \E s \in Entries(d) : list[i] = PairAt(d, s)
  /\ \A s \in Entries(d) : \E i \in 1..Len(list) : list[i] = PairAt(d, s)

LEMMA MapOfBlock ==
  ASSUME NEW list, NEW d, Len(list) \in Nat, ListedOnce(list), StoredOnce(d),
         SamePairs(list, d)
  PROVE  MapOf(list) = ParsedMap(d)
<1>1. ASSUME NEW n \in Name
      PROVE  MapOf(list)[n] = ParsedMap(d)[n]
  <2>1. CASE \E i \in 1..Len(list) : list[i].name = n
    <3>1. PICK i \in 1..Len(list) : list[i].name = n
      BY <2>1
    <3>2. PICK s \in Entries(d) : list[i] = PairAt(d, s)
      BY DEF SamePairs
    <3>3. MapOf(list)[n] = list[i].value
      BY <3>1, MapOfListed
    <3>4. PairAt(d, s).name = n
      BY <3>1, <3>2
    <3>5. ParsedMap(d)[n] = PairAt(d, s).value
      BY <3>4, ParsedStored
    <3> QED
      BY <3>2, <3>3, <3>5
  <2>2. CASE \A i \in 1..Len(list) : list[i].name # n
    <3>1. \A s \in Entries(d) : PairAt(d, s).name # n
      BY <2>2 DEF SamePairs
    <3> QED
      BY <2>2, <3>1, MapOfAbsent, ParsedAbsent
  <2> QED
    BY <2>1, <2>2
<1>2. MapOf(list) = [n \in Name |-> MapOf(list)[n]]
  BY DEF MapOf
<1>3. ParsedMap(d) = [n \in Name |-> ParsedMap(d)[n]]
  BY DEF ParsedMap
<1> QED
  BY <1>1, <1>2, <1>3

\* The numbers of elements not below each element of a finite set of numbers
\* are those from 1 to the number of elements.
NotBelow(P, s) == Cardinality({t \in P : t >= s})

LEMMA Ranks ==
  ASSUME NEW P \in SUBSET Nat, IsFiniteSet(P)
  PROVE  /\ \A s, t \in P : NotBelow(P, s) = NotBelow(P, t) => s = t
         /\ \A i \in 1..Cardinality(P) : \E s \in P : NotBelow(P, s) = i
<1> DEFINE From(s) == {t \in P : t >= s}
           n == Cardinality(P)
           f == [s \in P |-> NotBelow(P, s)]
<1>1. n \in Nat
  BY FS_CardinalityType
<1>2. ASSUME NEW s \in P
      PROVE  NotBelow(P, s) \in 1..n
  <2>1. From(s) \in SUBSET P /\ s \in From(s)
    OBVIOUS
  <2> HIDE DEF From
  <2>2. IsFiniteSet(From(s)) /\ Cardinality(From(s)) <= n
    BY <2>1, FS_Subset
  <2>3. Cardinality(From(s)) \in Nat /\ Cardinality(From(s)) # 0
    BY <2>1, <2>2, FS_CardinalityType, FS_EmptySet
  <2> QED
    BY <1>1, <2>2, <2>3 DEF NotBelow, From
<1>3. ASSUME NEW s \in P, NEW t \in P, s < t
      PROVE  NotBelow(P, s) # NotBelow(P, t)
  <2>1. From(t) \in SUBSET From(s) /\ s \in From(s) /\ s \notin From(t)
    <3>1. s \in Nat /\ t \in Nat /\ \A u \in P : u \in Nat
      OBVIOUS
    <3>2. \A u \in P : u >= t => u >= s
      BY <1>3, <3>1
    <3>3. s >= s /\ ~(s >= t)
      BY <1>3, <3>1
    <3> QED
      BY <3>2, <3>3
  <2>2. IsFiniteSet(From(s))
    <3>1. From(s) \in SUBSET P
      OBVIOUS
    <3> HIDE DEF From
    <3> QED
      BY <3>1, FS_Subset
  <2>3. NotBelow(P, s) = Cardinality(From(s)) /\ NotBelow(P, t) = Cardinality(From(t))
    BY DEF NotBelow
  <2> HIDE DEF From
  <2> QED
    BY <2>1, <2>2, <2>3, FS_Subset
<1>4. ASSUME NEW s \in P, NEW t \in P, NotBelow(P, s) = NotBelow(P, t)
      PROVE  s = t
  BY <1>3, <1>4
<1>5. f \in Injection(P, 1..n)
  <2>1. f \in [P -> 1..n]
    BY <1>2
  <2>2. \A s, t \in P : f[s] = f[t] => s = t
    BY <1>4
  <2> HIDE DEF f
  <2> QED
    BY <2>1, <2>2 DEF Injection, IsInjective
<1>6. IsFiniteSet(1..n) /\ Cardinality(1..n) = n
  BY <1>1, FS_Interval
<1>7. f \in Surjection(P, 1..n)
  <2> HIDE DEF f, n
  <2>1. Cardinality(P) = Cardinality(1..n)
    BY <1>6 DEF n
  <2> QED
    BY <1>5, <1>6, <2>1, FS_Injection
<1>8. \A i \in 1..n : \E s \in P : f[s] = i
  <2> HIDE DEF f
  <2> QED
    BY <1>7 DEF Surjection
<1> QED
  BY <1>4, <1>8

\* What uboot_env_read leaves in the list is the map of the block.
LEMMA LoadedMap ==
  ASSUME NEW list, NEW d, StoredOnce(d), Len(list) \in Nat,
         IsListOf(list, Entries(d), d)
  PROVE  ListedOnce(list) /\ MapOf(list) = ParsedMap(d)
<1> DEFINE P == Entries(d)
<1>1. P \in SUBSET Nat /\ IsFiniteSet(P)
  <2>1. P \in SUBSET Offsets
    BY DEF Entries
  <2>2. IsFiniteSet(Offsets) /\ Offsets \in SUBSET Nat
    <3>1. 4 \in Int /\ env_size - 1 \in Int
      BY SizeAssumption
    <3>2. IsFiniteSet(Offsets)
      BY <3>1, FS_Interval DEF Offsets
    <3> QED
      BY <3>1, <3>2 DEF Offsets
  <2> HIDE DEF P
  <2> QED
    BY <2>1, <2>2, FS_Subset
<1>2. /\ Len(list) = Cardinality(P)
      /\ \A s \in P : list[NotBelow(P, s)] = PairAt(d, s)
  BY DEF IsListOf, InList, NotBelow
<1> HIDE DEF P
<1>3. /\ \A s, t \in P : NotBelow(P, s) = NotBelow(P, t) => s = t
      /\ \A i \in 1..Len(list) : \E s \in P : NotBelow(P, s) = i
  BY <1>1, <1>2, Ranks
<1>4. \A i \in 1..Len(list) : \E s \in P : list[i] = PairAt(d, s)
  BY <1>2, <1>3
<1>5. ASSUME NEW s \in P
      PROVE  NotBelow(P, s) \in 1..Len(list)
  <2>1. {t \in P : t >= s} \in SUBSET P /\ s \in {t \in P : t >= s}
    BY <1>1
  <2>2. PICK F \in SUBSET P : F = {t \in P : t >= s}
    BY <2>1
  <2>3. s \in F /\ IsFiniteSet(F) /\ Cardinality(F) <= Cardinality(P)
    BY <1>1, <2>1, <2>2, FS_Subset
  <2>4. Cardinality(F) \in Nat /\ Cardinality(F) # 0
    BY <2>3, FS_CardinalityType, FS_EmptySet
  <2>5. NotBelow(P, s) = Cardinality(F)
    BY <2>2 DEF NotBelow
  <2> QED
    BY <1>2, <2>3, <2>4, <2>5
<1>6. SamePairs(list, d)
  BY <1>2, <1>4, <1>5 DEF SamePairs, P
<1>7. ListedOnce(list)
  <2> SUFFICES ASSUME NEW i \in 1..Len(list), NEW j \in 1..Len(list),
                      list[i].name = list[j].name, list[i].name \in Name
               PROVE  i = j
    BY DEF ListedOnce
  <2>1. PICK s \in P : NotBelow(P, s) = i
    BY <1>3
  <2>2. PICK t \in P : NotBelow(P, t) = j
    BY <1>3
  <2>3. list[i] = PairAt(d, s) /\ list[j] = PairAt(d, t)
    BY <1>2, <2>1, <2>2
  <2>4. s = t
    BY <2>3 DEF StoredOnce, P
  <2> QED
    BY <2>1, <2>2, <2>4
<1> QED
  BY <1>6, <1>7, MapOfBlock

\* The bytes of a pair's text.
LEMMA TextBytes ==
  ASSUME NEW x \in StringPairs
  PROVE  /\ Len(x.name) \in Nat /\ Len(x.value) \in Nat
         /\ \A k \in 1..Len(x.name) : Text(x)[k] = x.name[k]
         /\ Text(x)[Len(x.name) + 1] = EQUALS
         /\ \A k \in 1..Len(x.value) : Text(x)[Len(x.name) + 1 + k] = x.value[k]
         /\ Text(x)[Size(x)] = NUL
<1>1. PICK a \in Seq(Byte) : a = x.name
  BY DEF StringPairs
<1>2. PICK b \in Seq(Byte) : b = x.value
  BY DEF StringPairs
<1>3. PICK l \in Nat : l = Len(a)
  OBVIOUS
<1>4. PICK m \in Nat : m = Len(b)
  OBVIOUS
<1>5. EQUALS \in Byte /\ NUL \in Byte
  BY SizeAssumption
<1>6. PICK c \in Seq(Byte) : c = a \o <<EQUALS>>
  <2>1. a \o <<EQUALS>> \in Seq(Byte)
    BY <1>5
  <2> QED
    BY <2>1
<1>7. /\ Len(c) = l + 1 /\ c[l + 1] = EQUALS
      /\ \A k \in 1..l : c[k] = a[k]
  BY <1>3, <1>5, <1>6
<1>8. PICK e \in Seq(Byte) : e = c \o b
  <2>1. c \o b \in Seq(Byte)
    BY ConcatProperties
  <2> QED
    BY <2>1
<1>9. /\ Len(e) = l + 1 + m
      /\ \A k \in 1..(l + 1) : e[k] = c[k]
      /\ \A k \in 1..m : e[l + 1 + k] = b[k]
  <2>1. /\ Len(e) = Len(c) + Len(b)
        /\ \A i \in 1..(Len(c) + Len(b)) :
             e[i] = IF i <= Len(c) THEN c[i] ELSE b[i - Len(c)]
    BY <1>8, ConcatProperties
  <2>2. \A i \in 1..(l + 1 + m) : e[i] = IF i <= l + 1 THEN c[i] ELSE b[i - (l + 1)]
    BY <1>4, <1>7, <2>1
  <2>3. \A k \in 1..(l + 1) : k \in 1..(l + 1 + m) /\ k <= l + 1
    OBVIOUS
  <2>4. \A k \in 1..m : /\ l + 1 + k \in 1..(l + 1 + m) /\ ~(l + 1 + k <= l + 1)
                        /\ (l + 1 + k) - (l + 1) = k
    OBVIOUS
  <2> QED
    BY <1>4, <1>7, <2>1, <2>2, <2>3, <2>4
<1>10. Text(x) = e \o <<NUL>>
  BY <1>1, <1>2, <1>6, <1>8 DEF Text
<1>11. /\ Text(x)[l + 1 + m + 1] = NUL
       /\ \A k \in 1..(l + 1 + m) : Text(x)[k] = e[k]
  BY <1>5, <1>9, <1>10
<1>12. Size(x) = l + 1 + m + 1
  <2>1. Size(x) = Len(a) + Len(b) + 2
    BY <1>1, <1>2 DEF Size
  <2> QED
    BY <1>3, <1>4, <2>1
<1>13. \A k \in 1..l : Text(x)[k] = a[k]
  <2>1. \A k \in 1..l : k \in 1..(l + 1) /\ k \in 1..(l + 1 + m)
    OBVIOUS
  <2> QED
    BY <1>7, <1>9, <1>11, <2>1
<1>14. Text(x)[l + 1] = EQUALS
  <2>1. l + 1 \in 1..(l + 1) /\ l + 1 \in 1..(l + 1 + m)
    OBVIOUS
  <2> QED
    BY <1>7, <1>9, <1>11, <2>1
<1>15. \A k \in 1..m : Text(x)[l + 1 + k] = b[k]
  <2>1. \A k \in 1..m : l + 1 + k \in 1..(l + 1 + m)
    OBVIOUS
  <2> QED
    BY <1>9, <1>11, <2>1
<1> QED
  BY <1>1, <1>2, <1>3, <1>4, <1>11, <1>12, <1>13, <1>14, <1>15

\* A pair whose text is stored at n is the entry there.
LEMMA EntryWritten ==
  ASSUME NEW d, NEW n \in Offsets, NEW x \in StringPairs,
         GoodName(x.name), x.value \in CString, n + Size(x) <= end,
         \A k \in 1..Size(x) : d[n + k - 1] = Text(x)[k]
  PROVE  /\ WellFormed(d, n) /\ PairAt(d, n) = x
         /\ Size(x) \in Nat /\ Size(x) >= 3
         /\ d[n + Size(x) - 1] = NUL
         /\ \A i \in n..(n + Size(x) - 2) : d[i] # NUL
<1>1. PICK a \in CString : a = x.name
  BY DEF GoodName
<1>2. PICK b \in CString : b = x.value
  OBVIOUS
<1>3. PICK l \in Nat : l = Len(a)
  BY DEF CString
<1>4. PICK m \in Nat : m = Len(b)
  BY DEF CString
<1>5. l # 0
  BY <1>1, <1>3 DEF GoodName, CString
<1>6. Size(x) = l + m + 2
  BY <1>1, <1>2, <1>3, <1>4 DEF Size
<1>7. /\ \A k \in 1..l : Text(x)[k] = a[k]
      /\ Text(x)[l + 1] = EQUALS
      /\ \A k \in 1..m : Text(x)[l + 1 + k] = b[k]
      /\ Text(x)[l + m + 2] = NUL
  BY <1>1, <1>2, <1>3, <1>4, <1>6, TextBytes
<1>8. /\ \A k \in 1..l : a[k] # NUL
      /\ \A k \in 2..l : a[k] # EQUALS
      /\ \A k \in 1..m : b[k] # NUL
      /\ a = [k \in 1..l |-> a[k]]
      /\ b = [k \in 1..m |-> b[k]]
  BY <1>1, <1>2, <1>3, <1>4 DEF GoodName, CString
<1>9. PICK N \in Nat : N = n
  BY SizeAssumption DEF Offsets
<1>10. end \in Nat /\ N >= 4 /\ N + l + m + 2 <= end
  BY <1>6, <1>9, SizeAssumption DEF Offsets, end
<1>11. \A k \in 1..(l + m + 2) : d[N + k - 1] = Text(x)[k]
  BY <1>6, <1>9
<1>12. \A k \in 1..l : d[N + k - 1] = a[k]
  BY <1>7, <1>11
<1>13. d[N + l] = EQUALS
  <2>1. l + 1 \in 1..(l + m + 2) /\ N + (l + 1) - 1 = N + l
    OBVIOUS
  <2> QED
    BY <1>7, <1>11, <2>1
<1>14. \A k \in 1..m : d[N + l + k] = b[k]
  <2>1. \A k \in 1..m : /\ l + 1 + k \in 1..(l + m + 2)
                        /\ N + (l + 1 + k) - 1 = N + l + k
    OBVIOUS
  <2> QED
    BY <1>7, <1>11, <2>1
<1>15. d[N + l + m + 1] = NUL
  <2>1. l + m + 2 \in 1..(l + m + 2) /\ N + (l + m + 2) - 1 = N + l + m + 1
    OBVIOUS
  <2> QED
    BY <1>7, <1>11, <2>1
<1> DEFINE e == N + l
           z == N + l + m + 1
<1>16. \A i \in N..(e - 1) : d[i] # NUL
  <2>1. \A i \in N..(e - 1) : i - N + 1 \in 1..l /\ N + (i - N + 1) - 1 = i
    OBVIOUS
  <2> QED
    BY <1>8, <1>12, <2>1
<1>17. \A i \in (N + 1)..(e - 1) : d[i] # EQUALS
  <2> SUFFICES ASSUME NEW i \in (N + 1)..(e - 1) PROVE d[i] # EQUALS
    OBVIOUS
  <2>1. PICK k \in 2..l : k = i - N + 1
    OBVIOUS
  <2>2. k \in 1..l /\ N + k - 1 = i
    BY <2>1
  <2>3. d[i] = a[k]
    BY <1>12, <2>2
  <2> QED
    BY <1>8, <2>3
<1>18. \A i \in (e + 1)..(z - 1) : d[i] # NUL
  <2>1. \A i \in (e + 1)..(z - 1) : i - (N + l) \in 1..m /\ N + l + (i - (N + l)) = i
    OBVIOUS
  <2> QED
    BY <1>8, <1>14, <2>1
<1>19. e \in (N + 1)..(end - 1) /\ z \in (e + 1)..(end - 1)
  BY <1>5, <1>10
<1>20. d[e] = EQUALS /\ d[z] = NUL
  BY <1>13, <1>15
<1>21. Bytes(d, N, e) = a
  <2>1. Bytes(d, N, e) = [i \in 1..l |-> d[N + i - 1]]
    BY DEF Bytes
  <2> QED
    BY <1>8, <1>12, <2>1
<1>22. Bytes(d, e + 1, z) = b
  <2>1. z - (e + 1) = m /\ \A i \in 1..m : (e + 1) + i - 1 = N + l + i
    OBVIOUS
  <2>2. Bytes(d, e + 1, z) = [i \in 1..m |-> d[(e + 1) + i - 1]]
    BY <2>1 DEF Bytes
  <2>3. \A i \in 1..m : d[(e + 1) + i - 1] = b[i]
    BY <1>14, <2>1
  <2> QED
    BY <1>8, <2>2, <2>3
<1>23. Pair(a, b) = x
  BY <1>1, <1>2 DEF Pair, StringPairs
<1>24. \A i \in N..(z - 1) : d[i] # NUL
  <2>1. \A i \in N..(z - 1) : i \in N..(e - 1) \/ i = e \/ i \in (e + 1)..(z - 1)
    OBVIOUS
  <2>2. EQUALS # NUL
    BY DEF EQUALS, NUL
  <2> HIDE DEF e, z
  <2> QED
    BY <1>16, <1>18, <1>20, <2>1, <2>2
<1>25. N + Size(x) - 1 = z /\ N + Size(x) - 2 = z - 1 /\ Size(x) \in Nat /\ Size(x) >= 3
  BY <1>5, <1>6
<1> HIDE DEF e, z
<1>26. WellFormed(d, n) /\ PairAt(d, n) = Pair(Bytes(d, n, e), Bytes(d, e + 1, z))
  BY <1>9, <1>16, <1>17, <1>18, <1>19, <1>20, PairFound
<1> QED
  BY <1>9, <1>20, <1>21, <1>22, <1>23, <1>24, <1>25, <1>26

\* The texts of the first n pairs lie between offset 4 and the next text.
LEMMA StoredWithin ==
  ASSUME NEW list \in Seq(StringPairs), NEW n \in 0..Len(list), NEW i \in 1..n,
         NEW k \in 1..Size(list[i])
  PROVE  Start(list, i) + k - 1 \in 4..(Space(list)[n] + 2)
<1> DEFINE sum == Space(list)
<1>1. PICK N \in Nat : N = Len(list)
  OBVIOUS
<1>2. IsSpace(sum, list)
  BY SpaceSteps
<1>3. i \in 1..N /\ i - 1 \in 0..N /\ i \in 0..N /\ n \in 0..N /\ i <= n /\ 0 <= i - 1
  BY <1>1
<1>4. list[i] \in StringPairs
  <2> HIDE DEF StringPairs
  <2> QED
    BY <1>1, <1>3, ElementOfSeq
<1>5. Size(list[i]) \in Nat
  BY <1>4, TextType
<1>6. sum[i] <= sum[n]
  BY <1>1, <1>3, SpaceMonotone
<1>7. sum[0] <= sum[i - 1]
  BY <1>1, <1>3, SpaceMonotone
<1> HIDE DEF sum
<1>8. /\ sum[0] = 1 /\ sum[i] = sum[i - 1] + Size(list[i])
      /\ sum[i - 1] \in Nat /\ sum[n] \in Nat
  BY <1>1, <1>2, <1>3 DEF IsSpace
<1>9. Start(list, i) = sum[i - 1] + 3
  BY DEF Start, sum
<1>10. Start(list, i) + k - 1 \in 4..(sum[n] + 2)
  <2>1. PICK a \in Nat : a = sum[i - 1]
    BY <1>8
  <2>2. PICK b \in Nat : b = sum[n]
    BY <1>8
  <2>3. PICK c \in Nat : c = Size(list[i])
    BY <1>5
  <2>4. a + c <= b /\ 1 <= a /\ k \in 1..c
    BY <1>6, <1>7, <1>8, <2>1, <2>2, <2>3
  <2>5. a + 3 + k - 1 \in 4..(b + 2)
    BY <2>4
  <2> QED
    BY <1>9, <2>1, <2>2, <2>5
<1> QED
  BY <1>10 DEF sum

\* Stores behind the texts leave them alone.
LEMMA StoredKept ==
  ASSUME NEW list \in Seq(StringPairs), NEW n \in 0..Len(list), NEW d, NEW e,
         Stored(d, list, n), \A o \in 4..(Space(list)[n] + 2) : e[o] = d[o]
  PROVE  Stored(e, list, n)
<1> SUFFICES ASSUME NEW i \in 1..n, NEW k \in 1..Size(list[i])
             PROVE  e[Start(list, i) + k - 1] = Text(list[i])[k]
  BY DEF Stored
<1>1. Start(list, i) + k - 1 \in 4..(Space(list)[n] + 2)
  BY StoredWithin
<1>2. d[Start(list, i) + k - 1] = Text(list[i])[k]
  BY DEF Stored
<1> QED
  BY <1>1, <1>2

\* The block that uboot_env_write has filled holds exactly the pairs.
LEMMA BlockWritten ==
  ASSUME NEW list \in Seq(StringPairs), GoodPairs(list), ListedOnce(list), NEW d,
         Stored(d, list, Len(list)),
         Space(list)[Len(list)] + 3 \in 4..(end - 2),
         d[Space(list)[Len(list)] + 3] = NUL
  PROVE  /\ \A s \in Entries(d) : WellFormed(d, s)
         /\ StoredOnce(d)
         /\ ParsedMap(d) = MapOf(list)
<1> DEFINE sum == Space(list)
           At0(i) == sum[i] + 3
           Starts(i) == {Start(list, j) : j \in 1..i}
           T == {i \in Nat : i <= Len(list) =>
                   AtEntry(d, At0(i)) /\ EntriesBefore(d, At0(i)) = Starts(i)}
<1>1. PICK N \in Nat : N = Len(list)
  OBVIOUS
<1>2. /\ sum \in [0..N -> Nat] /\ sum[0] = 1
      /\ \A i \in 1..N : sum[i] = sum[i - 1] + Size(list[i])
  BY <1>1, SpaceSteps DEF IsSpace
<1>3. \A i \in 0..N : sum[i] <= sum[N]
  BY <1>1, SpaceGrows
<1>4. \A i \in 0..N : sum[0] <= sum[i]
  BY <1>1, SpaceMonotone
<1>5. end \in Nat /\ sum[N] + 3 <= end - 2
  BY <1>1, SizeAssumption DEF end
<1>6. \A i \in Nat : Start(list, i + 1) = sum[i] + 3
  BY DEF Start
<1> HIDE DEF sum
<1>7. ASSUME NEW i \in Nat, i + 1 <= N
      PROVE  /\ At0(i) \in Offsets /\ At0(i) = Start(list, i + 1)
             /\ WellFormed(d, At0(i)) /\ PairAt(d, At0(i)) = list[i + 1]
             /\ \E z \in (At0(i) + 1)..(end - 1) :
                  /\ z + 1 = At0(i + 1) /\ d[z] = NUL
                  /\ \A o \in At0(i)..(z - 1) : d[o] # NUL
  <2>1. /\ i \in 0..N /\ i + 1 \in 1..N /\ i + 1 \in 0..N /\ (i + 1) - 1 = i
        /\ i + 1 \in 1..Len(list)
    BY <1>1, <1>7
  <2>2. PICK n \in Nat : n = sum[i] + 3
    BY <1>2, <2>1
  <2>3. PICK x \in StringPairs : x = list[i + 1]
    <3> HIDE DEF StringPairs
    <3>1. list[i + 1] \in StringPairs
      BY <2>1, ElementOfSeq
    <3> QED
      BY <3>1
  <2>4. PICK k \in Nat : k = Size(x)
    BY TextType
  <2>5. sum[i + 1] + 3 = n + k /\ n + k <= end - 2 /\ n >= 4
    <3>1. sum[i] \in Nat /\ sum[i + 1] \in Nat /\ sum[N] \in Nat
      BY <1>1, <1>2, <2>1
    <3>2. sum[i + 1] = sum[i] + k
      BY <1>2, <2>1, <2>3, <2>4
    <3>3. sum[i + 1] <= sum[N] /\ 1 <= sum[i]
      BY <1>2, <1>3, <1>4, <2>1
    <3>4. PICK a \in Nat : a = sum[i]
      BY <3>1
    <3>5. PICK b \in Nat : b = sum[i + 1]
      BY <3>1
    <3>6. PICK c \in Nat : c = sum[N]
      BY <3>1
    <3>7. n = a + 3 /\ b = a + k /\ b <= c /\ 1 <= a /\ c + 3 <= end - 2
      BY <1>5, <2>2, <3>2, <3>3, <3>4, <3>5, <3>6
    <3>8. b + 3 = n + k /\ n + k <= end - 2 /\ n >= 4
      BY <1>5, <3>7
    <3> QED
      BY <3>5, <3>8
  <2>6. n \in Offsets
    BY <1>5, <2>5, SizeAssumption DEF Offsets, end
  <2>7. GoodName(x.name) /\ x.value \in CString
    BY <2>1, <2>3 DEF GoodPairs
  <2>8. \A o \in 1..Size(x) : d[n + o - 1] = Text(x)[o]
    <3>1. Start(list, i + 1) = n
      BY <1>6, <2>2
    <3>2. \A o \in 1..Size(list[i + 1]) :
            d[Start(list, i + 1) + o - 1] = Text(list[i + 1])[o]
      BY <2>1 DEF Stored
    <3> QED
      BY <2>3, <3>1, <3>2
  <2>9. n + Size(x) <= end
    BY <1>5, <2>4, <2>5
  <2>10. /\ WellFormed(d, n) /\ PairAt(d, n) = x /\ Size(x) >= 3
         /\ d[n + Size(x) - 1] = NUL
         /\ \A o \in n..(n + Size(x) - 2) : d[o] # NUL
    BY <2>6, <2>7, <2>8, <2>9, EntryWritten
  <2>11. PICK z \in Nat : z = n + k - 1
    BY <2>2, <2>4, <2>10
  <2>12. /\ z \in (n + 1)..(end - 1) /\ z + 1 = n + k /\ d[z] = NUL
         /\ \A o \in n..(z - 1) : d[o] # NUL
    <3>1. z - 1 = n + Size(x) - 2 /\ z = n + Size(x) - 1
      BY <2>4, <2>11
    <3>2. z \in (n + 1)..(end - 1) /\ z + 1 = n + k
      BY <1>5, <2>4, <2>5, <2>10, <2>11
    <3> QED
      BY <2>10, <3>1, <3>2
  <2>13. At0(i) = n /\ At0(i + 1) = n + k
    BY <2>2, <2>5
  <2> HIDE DEF At0
  <2> QED
    BY <1>6, <2>2, <2>3, <2>6, <2>10, <2>12, <2>13
<1>8. 0 \in T
  <2>1. At0(0) = 4
    BY <1>2
  <2>2. AtEntry(d, 4)
    BY DEF AtEntry, EntryStart
  <2>3. EntriesBefore(d, 4) = {}
    BY SizeAssumption DEF EntriesBefore, Entries, Offsets
  <2>4. Starts(0) = {}
    OBVIOUS
  <2> HIDE DEF At0, Starts
  <2> QED
    BY <2>1, <2>2, <2>3, <2>4
<1>9. ASSUME NEW i \in Nat, i \in T
      PROVE  i + 1 \in T
  <2> SUFFICES ASSUME i + 1 <= N
               PROVE  /\ AtEntry(d, At0(i + 1))
                      /\ EntriesBefore(d, At0(i + 1)) = Starts(i + 1)
    BY <1>1
  <2>1. AtEntry(d, At0(i)) /\ EntriesBefore(d, At0(i)) = Starts(i)
    BY <1>1, <1>9
  <2>2. Starts(i + 1) = Starts(i) \cup {Start(list, i + 1)}
    <3>1. \A j : j \in 1..(i + 1) <=> j \in 1..i \/ j = i + 1
      OBVIOUS
    <3> QED
      BY <3>1
  <2> HIDE DEF At0, Starts
  <2>3. At0(i) \in Offsets /\ At0(i) = Start(list, i + 1)
    BY <1>7
  <2>4. PICK z \in (At0(i) + 1)..(end - 1) :
          /\ z + 1 = At0(i + 1) /\ d[z] = NUL
          /\ \A o \in At0(i)..(z - 1) : d[o] # NUL
    BY <1>7
  <2>5. /\ AtEntry(d, z + 1)
        /\ EntriesBefore(d, z + 1) = EntriesBefore(d, At0(i)) \cup {At0(i)}
    BY <2>1, <2>3, <2>4, NextEntry
  <2> QED
    BY <2>1, <2>2, <2>3, <2>4, <2>5
<1>10. N \in T
  <2> HIDE DEF T
  <2> QED
    BY <1>1, <1>8, <1>9, NatSetInduction
<1>11. Entries(d) = Starts(N)
  <2>1. AtEntry(d, At0(N)) /\ EntriesBefore(d, At0(N)) = Starts(N)
    BY <1>1, <1>10
  <2>2. d[At0(N)] = NUL /\ At0(N) \in 4..end
    BY <1>1, <1>5 DEF sum
  <2> HIDE DEF At0, Starts
  <2> QED
    BY <2>1, <2>2, EntriesEnd
<1>12. ASSUME NEW j \in 1..N
       PROVE  /\ Start(list, j) \in Entries(d)
              /\ WellFormed(d, Start(list, j)) /\ PairAt(d, Start(list, j)) = list[j]
  <2>1. PICK i \in Nat : j = i + 1
    <3>1. j - 1 \in Nat /\ j = (j - 1) + 1
      BY <1>1
    <3> QED
      BY <3>1
  <2>2. i + 1 <= N
    BY <1>1, <2>1
  <2> HIDE DEF At0
  <2>3. /\ WellFormed(d, Start(list, j)) /\ PairAt(d, Start(list, j)) = list[j]
    BY <1>7, <2>1, <2>2
  <2> QED
    BY <1>11, <2>3
<1>13. \A s \in Entries(d) : \E j \in 1..N : s = Start(list, j)
  BY <1>11
<1>14. \A s \in Entries(d) : WellFormed(d, s)
  BY <1>12, <1>13
<1>15. StoredOnce(d)
  <2> SUFFICES ASSUME NEW s \in Entries(d), NEW t \in Entries(d),
                      PairAt(d, s).name = PairAt(d, t).name,
                      PairAt(d, s).name \in Name
               PROVE  s = t
    BY DEF StoredOnce
  <2>1. PICK i \in 1..N : s = Start(list, i)
    BY <1>13
  <2>2. PICK j \in 1..N : t = Start(list, j)
    BY <1>13
  <2>3. i = j
    BY <1>1, <1>12, <2>1, <2>2 DEF ListedOnce
  <2> QED
    BY <2>1, <2>2, <2>3
<1>16. SamePairs(list, d)
  BY <1>1, <1>12, <1>13 DEF SamePairs
<1>17. MapOf(list) = ParsedMap(d)
  BY <1>1, <1>15, <1>16, MapOfBlock
<1> QED
  BY <1>14, <1>15, <1>17

-----------------------------------------------------------------------------
(***************************************************************************)
(* The steps that change the list or the block.                            *)
(***************************************************************************)

\* uboot_env_read returns without an error: the block is readable and the list
\* is its map.
LEMMA LoadStep ==
  ASSUME MapInv, ReadInv, DataInv, ParseInv, pc = "name", At(name) \in {END, NUL}
  PROVE  /\ Readable(disk) /\ ListedOnce(vars)
         /\ MapOf(vars) = ParsedMap(disk.data)
<1> DEFINE d == buffer.data
<1>1. buffer = disk /\ buffer.crc = Crc(d)
  BY DEF MapInv, Loading, Reading
<1>2. name \in 4..end
  BY DEF ReadInv, ReadInBounds
<1>3. AtEntry(d, name) /\ IsListOf(vars, EntriesBefore(d, name), d)
  BY DEF ParseInv, Reading
<1>4. name = end \/ d[name] = NUL
  <2>1. CASE name # end
    <3>1. name \in Offsets
      BY <1>2, <2>1, SizeAssumption DEF Offsets, end
    <3>2. d[name] \in Byte
      BY <3>1 DEF DataInv, IsBlock
    <3> QED
      BY <2>1, <3>2, SizeAssumption DEF At, END, NUL
  <2> QED
    BY <2>1
<1>5. EntriesBefore(d, name) = Entries(d)
  BY <1>2, <1>3, <1>4, EntriesEnd
<1>6. IsListOf(vars, Entries(d), d)
  BY <1>3, <1>5
<1>7. Readable(disk)
  BY <1>1, <1>6 DEF Readable, IsListOf, InList
<1>8. StoredOnce(d)
  BY <1>1, <1>7 DEF MapInv
<1>9. Len(vars) \in Nat
  BY DEF DataInv
<1> QED
  BY <1>1, <1>6, <1>7, <1>8, <1>9, LoadedMap

\* The pair uboot_env_read has found is good.
LEMMA FoundPair ==
  ASSUME ReadInv, DataInv, ParseInv, pc = "endvalue", At(endvalue) = NUL
  PROVE  /\ GoodName(Bytes(buffer.data, name, endname))
         /\ Bytes(buffer.data, value, endvalue) \in CString
<1> DEFINE d == buffer.data
<1>1. /\ d[endname] = EQUALS
      /\ \A i \in (name + 1)..(endname - 1) : d[i] # EQUALS
  BY DEF ParseInv
<1>2. /\ name \in Offsets /\ endname \in (name + 1)..(end - 1)
      /\ value = endname + 1 /\ endvalue \in value..end
      /\ \A i \in name..(endname - 1) : d[i] # NUL
      /\ \A i \in value..(endvalue - 1) : d[i] # NUL
  BY DEF ReadInv, ReadInBounds
<1>3. endvalue # end
  BY DEF At, END, NUL
<1>4. /\ name \in Nat /\ endname \in Nat /\ value \in Nat /\ endvalue \in Nat
      /\ name >= 4 /\ name < endname /\ value <= endvalue /\ endname < value
      /\ endvalue < env_size /\ env_size \in Nat
  BY <1>2, <1>3, SizeAssumption DEF Offsets, end
<1>5. \A i \in name..(endvalue - 1) : d[i] \in Byte
  <2>1. \A i \in name..(endvalue - 1) : i \in Offsets
    BY <1>4 DEF Offsets
  <2> QED
    BY <2>1 DEF DataInv, IsBlock
<1> DEFINE a == Bytes(d, name, endname)
           b == Bytes(d, value, endvalue)
<1>6. /\ a = [i \in 1..(endname - name) |-> d[name + i - 1]]
      /\ b = [i \in 1..(endvalue - value) |-> d[value + i - 1]]
  BY DEF Bytes
<1> HIDE DEF a, b, d
<1>7. a \in CString
  <2>1. ASSUME NEW i \in 1..(endname - name)
        PROVE  d[name + i - 1] \in Byte \ {NUL}
    <3>1. name + i - 1 \in name..(endname - 1) /\ name + i - 1 \in name..(endvalue - 1)
      BY <1>4
    <3> QED
      BY <1>2, <1>5, <3>1
  <2>2. endname - name \in Nat
    BY <1>4
  <2> QED
    BY <1>6, <2>1, <2>2, IsASeq DEF CString
<1>8. b \in CString
  <2>1. ASSUME NEW i \in 1..(endvalue - value)
        PROVE  d[value + i - 1] \in Byte \ {NUL}
    <3>1. value + i - 1 \in value..(endvalue - 1) /\ value + i - 1 \in name..(endvalue - 1)
      BY <1>4
    <3> QED
      BY <1>2, <1>5, <3>1
  <2>2. endvalue - value \in Nat
    BY <1>4
  <2> QED
    BY <1>6, <2>1, <2>2, IsASeq DEF CString
<1>9. PICK n \in Nat : n = endname - name /\ n # 0
  BY <1>4
<1>10. a = [i \in 1..n |-> d[name + i - 1]]
  BY <1>6, <1>9
<1>11. Len(a) = n
  BY <1>9, <1>10
<1>12. a # <<>>
  BY <1>9, <1>11
<1>13. ASSUME NEW i \in 2..n
       PROVE  a[i] # EQUALS
  <2>1. i \in 1..n /\ name + i - 1 \in (name + 1)..(endname - 1)
    BY <1>4, <1>9
  <2>2. a[i] = d[name + i - 1]
    BY <1>10, <2>1
  <2> QED
    BY <1>1, <2>1, <2>2
<1> QED
  BY <1>7, <1>8, <1>11, <1>12, <1>13 DEF GoodName, a, b, d

\* uboot_env_setenv and uboot_env_unsetenv change one variable.
LEMMA SetStep ==
  ASSUME MapInv, DataInv, NEW n \in Name, NEW v \in Value, uboot_env_setenv(n, v)
  PROVE  /\ GoodPairs(vars') /\ ListedOnce(vars')
         /\ MapOf(vars') = [MapOf(vars) EXCEPT ![n] = v]
<1>1. GoodPairs(vars) /\ ListedOnce(vars) /\ vars \in Seq(StringPairs)
  BY DEF MapInv, DataInv, uboot_env_setenv, Loading
<1>2. Matches(n) = {i \in 1..Len(vars) : vars[i].name = n}
  BY <1>1, MatchesAre
<1>3. CASE Matches(n) = {}
  <2>1. vars' = <<Pair(n, v)>> \o vars
    BY <1>3 DEF uboot_env_setenv
  <2>2. \A i \in 1..Len(vars) : vars[i].name # n
    BY <1>2, <1>3
  <2> QED
    BY <1>1, <2>1, <2>2, PutKeeps
<1>4. CASE Matches(n) # {}
  <2>1. PICK i : i = First(Matches(n))
    OBVIOUS
  <2>2. vars' = [vars EXCEPT ![i].value = v]
    BY <1>4, <2>1 DEF uboot_env_setenv
  <2>3. Len(vars) \in Nat
    BY <1>1
  <2>4. Matches(n) \subseteq Nat
    BY <1>2, <2>3
  <2>5. i \in Matches(n)
    BY <1>4, <2>1, <2>4, FirstType
  <2>6. i \in 1..Len(vars) /\ vars[i].name = n
    BY <1>2, <2>5
  <2>7. /\ GoodPairs([vars EXCEPT ![i].value = v])
        /\ ListedOnce([vars EXCEPT ![i].value = v])
        /\ MapOf([vars EXCEPT ![i].value = v]) = [MapOf(vars) EXCEPT ![n] = v]
    BY <1>1, <2>6, ReplaceKeeps
  <2> QED
    BY ONLY <2>2, <2>7, Zenon
<1> QED
  BY <1>3, <1>4

LEMMA UnsetStep ==
  ASSUME MapInv, DataInv, NEW n \in Name, uboot_env_unsetenv(n)
  PROVE  /\ GoodPairs(vars') /\ ListedOnce(vars')
         /\ MapOf(vars') = [MapOf(vars) EXCEPT ![n] = NULL]
<1>1. GoodPairs(vars) /\ ListedOnce(vars) /\ vars \in Seq(StringPairs)
  BY DEF MapInv, DataInv, uboot_env_unsetenv, Loading
<1>2. Matches(n) = {i \in 1..Len(vars) : vars[i].name = n}
  BY <1>1, MatchesAre
<1>3. CASE Matches(n) = {}
  <2>1. vars' = vars
    BY <1>3 DEF uboot_env_unsetenv
  <2>2. \A i \in 1..Len(vars) : vars[i].name # n
    BY <1>2, <1>3
  <2>3. MapOf(vars)[n] = NULL
    BY <2>2, MapOfAbsent
  <2>4. Changes(vars, vars, n, NULL)
    BY <2>3 DEF Changes
  <2> QED
    BY <1>1, <2>1, <2>4, MapsEqual
<1>4. CASE Matches(n) # {}
  <2>1. PICK i : i = First(Matches(n))
    OBVIOUS
  <2>2. vars' = Without(vars, i)
    BY <1>4, <2>1 DEF uboot_env_unsetenv, Without
  <2>3. Len(vars) \in Nat
    BY <1>1
  <2>4. Matches(n) \subseteq Nat
    BY <1>2, <2>3
  <2>5. i \in Matches(n)
    BY <1>4, <2>1, <2>4, FirstType
  <2>6. i \in 1..Len(vars) /\ vars[i].name = n
    BY <1>2, <2>5
  <2> QED
    BY <1>1, <2>2, <2>6, RemoveKeeps
<1> QED
  BY <1>3, <1>4

\* The text of one more pair.
LEMMA StoreStep ==
  ASSUME MapInv, DataInv, WriteInv, WritePair
  PROVE  Stored(buffer'.data, vars, pair)
<1> DEFINE t == Text(vars[pair])
           d == buffer.data
           e == buffer'.data
<1>1. pc = "write" /\ pair <= Len(vars)
  BY DEF WritePair
<1>2. vars[pair] \in StringPairs /\ pair \in 1..Len(vars) /\ vars \in Seq(StringPairs)
  BY <1>1, ItemType DEF DataInv
<1>3. Stored(d, vars, pair - 1) /\ p = Space(vars)[pair - 1] + 3 /\ p \in 4..(end - 2)
  BY <1>1 DEF MapInv, WriteInv
<1>4. PICK k \in Nat : k = Size(vars[pair]) /\ k = Len(t)
  BY <1>2, TextType
<1>5. e = [i \in Offsets |-> IF i \in p..(p + Len(t) - 1) THEN t[i - p + 1] ELSE d[i]]
  BY DEF WritePair, DataInv, IsBlock
<1>6. p + k <= end - 2 /\ p \in Nat /\ end \in Nat /\ env_size \in Nat
  <2>1. ~NoRoom(vars[pair])
    BY DEF WritePair
  <2>2. p \in Int /\ end \in Nat
    BY <1>3, SizeAssumption DEF end
  <2>3. ~(p + Size(vars[pair]) - 1 >= end - 2)
    BY <1>2, <2>1, <2>2, TextType
  <2> QED
    BY <1>3, <1>4, <2>2, <2>3 DEF end
<1> HIDE DEF t, d, e
<1>7. \A i \in Offsets : e[i] = IF i \in p..(p + k - 1) THEN t[i - p + 1] ELSE d[i]
  BY <1>4, <1>5
<1>8. Stored(e, vars, pair - 1)
  <2>1. ASSUME NEW o \in 4..(Space(vars)[pair - 1] + 2)
        PROVE  e[o] = d[o]
    <3>1. Space(vars)[pair - 1] \in Nat
      <4>1. PICK N \in Nat : N = Len(vars)
        BY <1>2
      <4>2. Space(vars) \in [0..N -> Nat]
        BY <1>2, <4>1, SpaceSteps DEF IsSpace
      <4>3. pair - 1 \in 0..N
        BY <1>2, <4>1
      <4> QED
        BY ONLY <4>2, <4>3
    <3>2. PICK q \in Nat : q = Space(vars)[pair - 1]
      BY <3>1
    <3>3. p = q + 3 /\ o \in 4..(q + 2)
      BY <1>3, <3>2
    <3>4. o \in Offsets /\ o \notin p..(p + k - 1)
      BY <1>6, <3>3 DEF Offsets, end
    <3> QED
      BY <1>7, <3>4
  <2>2. pair - 1 \in 0..Len(vars)
    BY <1>2
  <2> QED
    BY <1>2, <1>3, <2>1, <2>2, StoredKept
<1>9. ASSUME NEW j \in 1..Size(vars[pair])
      PROVE  e[Start(vars, pair) + j - 1] = Text(vars[pair])[j]
  <2>1. Start(vars, pair) = p
    BY <1>3 DEF Start
  <2>2. /\ p + j - 1 \in Offsets /\ p + j - 1 \in p..(p + k - 1)
        /\ (p + j - 1) - p + 1 = j
    BY <1>3, <1>4, <1>6 DEF Offsets, end
  <2>3. e[p + j - 1] = t[j]
    BY <1>7, <2>2
  <2> QED
    BY <2>1, <2>3 DEF t
<1>10. \A i \in 1..pair : i \in 1..(pair - 1) \/ i = pair
  BY <1>2
<1> QED
  BY <1>8, <1>9, <1>10 DEF Stored, e

\* What uboot_env_write puts on disk is readable, and is the map of the list.
LEMMA WriteStep ==
  ASSUME MapInv, DataInv, WriteInv, WriteEnd
  PROVE  /\ Readable(disk') /\ StoredOnce(disk'.data)
         /\ ParsedMap(disk'.data) = MapOf(vars)
<1> DEFINE d == buffer.data
           e == [d EXCEPT ![p] = NUL]
<1>1. pc = "write" /\ pair > Len(vars) /\ disk' = [crc |-> Crc(e), data |-> e]
  BY DEF WriteEnd
<1>2. vars \in Seq(StringPairs) /\ Len(vars) \in Nat
  BY DEF DataInv
<1>3. pair - 1 = Len(vars)
  BY <1>1, <1>2 DEF WriteInv
<1>4. /\ Stored(d, vars, Len(vars)) /\ GoodPairs(vars) /\ ListedOnce(vars)
      /\ p = Space(vars)[Len(vars)] + 3 /\ p \in 4..(end - 2)
  BY <1>1, <1>3 DEF MapInv, WriteInv, Loading
<1>5. d \in [Offsets -> Byte] /\ p \in Offsets
  BY <1>4, SizeAssumption DEF DataInv, IsBlock, Offsets, end
<1>6. e[p] = NUL /\ \A o \in Offsets : o # p => e[o] = d[o]
  BY <1>5
<1> HIDE DEF d, e
<1>7. Stored(e, vars, Len(vars))
  <2>1. ASSUME NEW o \in 4..(Space(vars)[Len(vars)] + 2)
        PROVE  e[o] = d[o]
    <3>1. PICK q \in Nat : q = Space(vars)[Len(vars)]
      BY <1>2, SpaceSteps DEF IsSpace
    <3>2. p = q + 3 /\ o \in 4..(q + 2)
      BY <1>4, <3>1
    <3>3. o \in Offsets /\ o # p
      BY <1>4, <3>2, SizeAssumption DEF Offsets, end
    <3> QED
      BY <1>6, <3>3
  <2>2. Len(vars) \in 0..Len(vars)
    BY <1>2
  <2> QED
    BY <1>2, <1>4, <2>1, <2>2, StoredKept
<1>8. /\ \A s \in Entries(e) : WellFormed(e, s)
      /\ StoredOnce(e) /\ ParsedMap(e) = MapOf(vars)
  BY <1>2, <1>4, <1>6, <1>7, BlockWritten
<1>9. Readable(disk')
  BY <1>1, <1>8 DEF Readable
<1> QED
  BY <1>1, <1>8, <1>9


LEMMA InitMap == EachNameOnce /\ Init => MapInv
<1> SUFFICES ASSUME EachNameOnce, Init PROVE MapInv
  OBVIOUS
<1>1. Readable(disk) => StoredOnce(disk.data)
  BY DEF Init, EachNameOnce, StoredOnce
<1>2. GoodPairs(<<>>) /\ ListedOnce(<<>>)
  BY DEF GoodPairs, ListedOnce
<1> QED
  BY <1>1, <1>2 DEF Init, MapInv, Loading, Reading

LEMMA NextMap ==
  MapInv /\ ReadInv /\ DataInv /\ WriteInv /\ ParseInv /\ [Next]_all => MapInv'
<1> SUFFICES ASSUME MapInv, ReadInv, DataInv, WriteInv, ParseInv, [Next]_all
             PROVE  MapInv'
  OBVIOUS
<1> USE DEF Loading, Reading
<1>1. GoodPairs(<<>>) /\ ListedOnce(<<>>)
  BY DEF GoodPairs, ListedOnce
<1>2. CASE ReadBegin
  BY <1>1, <1>2 DEF ReadBegin, MapInv
<1>3. CASE ReadName
  <2>1. CASE At(name) \in {END, NUL} /\ ReadReturns("idle")
    <3>1. ListedOnce(vars)
      BY <1>3, <2>1, LoadStep DEF ReadName
    <3> QED
      BY <1>3, <2>1, <3>1 DEF ReadName, ReadReturns, MapInv
  <2>2. CASE pc' = "endname"
    BY <1>3, <2>2 DEF ReadName, MapInv
  <2> QED
    BY <1>3, <2>1, <2>2 DEF ReadName
<1>4. CASE ReadEndname
  BY <1>4 DEF ReadEndname, ReadReturns, MapInv
<1>5. CASE ReadEndvalue
  <2>1. CASE UNCHANGED vars
    BY <1>5, <2>1 DEF ReadEndvalue, ReadReturns, MapInv
  <2>2. CASE /\ At(endvalue) = NUL
             /\ vars' = <<Pair(strndup_(buffer.data, name, endname - name),
                               strndup_(buffer.data, value,
                                        (value - endvalue) % ULLMod))>> \o vars
             /\ pc' = "name"
    <3> DEFINE x == Pair(Bytes(buffer.data, name, endname),
                         Bytes(buffer.data, value, endvalue))
    <3>1. pc = "endvalue" /\ UNCHANGED <<disk, buffer, saved>>
      BY <1>5 DEF ReadEndvalue
    <3>2. vars' = <<x>> \o vars
      BY <2>2, <3>1, CopiedWhole DEF CopiesWhole
    <3>3. GoodName(x.name) /\ x.value \in CString
      BY <2>2, <3>1, FoundPair DEF Pair
    <3>4. GoodPairs(vars) /\ vars \in Seq(StringPairs)
      BY DEF MapInv, DataInv
    <3> HIDE DEF x, StringPairs
    <3>5. PICK N \in Nat : N = Len(vars)
      BY <3>4
    <3>6. PICK T : vars \in Seq(T) /\ x \in T
      <4>1. vars \in Seq(StringPairs \cup {x}) /\ x \in StringPairs \cup {x}
        BY <3>4, SeqMonotonic
      <4> QED
        BY <4>1
    <3>7. Len(vars') = N + 1 /\ \A i \in 1..(N + 1) :
            vars'[i] = IF i = 1 THEN x ELSE vars[i - 1]
      BY <3>2, <3>5, <3>6
    <3>8. \A i \in 1..(N + 1) : i = 1 \/ i - 1 \in 1..N
      BY <3>5
    <3>9. GoodPairs(vars')
      BY <3>3, <3>4, <3>5, <3>7, <3>8 DEF GoodPairs
    <3> QED
      BY <2>2, <3>1, <3>9 DEF MapInv
  <2> QED
    BY <1>5, <2>1, <2>2 DEF ReadEndvalue
<1>6. ASSUME NEW n \in Name, NEW v \in Value, uboot_env_setenv(n, v)
      PROVE  MapInv'
  <2>1. GoodPairs(vars') /\ ListedOnce(vars')
    BY <1>6, SetStep
  <2> QED
    BY <1>6, <2>1 DEF uboot_env_setenv, MapInv
<1>7. ASSUME NEW n \in Name, uboot_env_unsetenv(n) PROVE MapInv'
  <2>1. GoodPairs(vars') /\ ListedOnce(vars')
    BY <1>7, UnsetStep
  <2> QED
    BY <1>7, <2>1 DEF uboot_env_unsetenv, MapInv
<1>8. CASE uboot_env_free
  BY <1>1, <1>8 DEF uboot_env_free, MapInv
<1>9. CASE WriteBegin
  <2>1. GoodPairs(vars') /\ ListedOnce(vars')
    BY <1>9, SortKeeps DEF WriteBegin, MapInv, DataInv
  <2>2. Stored(buffer'.data, vars', pair' - 1)
    BY <1>9 DEF WriteBegin, Stored
  <2> QED
    BY <1>9, <2>1, <2>2 DEF WriteBegin, MapInv
<1>10. CASE WriteNoRoom
  BY <1>10 DEF WriteNoRoom, WriteReturns, MapInv
<1>11. CASE WritePair
  <2>1. Stored(buffer'.data, vars, pair)
    BY <1>11, StoreStep
  <2>2. pair' - 1 = pair /\ vars' = vars
    BY <1>11, ItemType DEF WritePair
  <2> QED
    BY <1>11, <2>1, <2>2 DEF WritePair, MapInv
<1>12. CASE WriteEnd
  <2>1. /\ Readable(disk') /\ StoredOnce(disk'.data)
        /\ saved' = ParsedMap(disk'.data)
    BY <1>12, WriteStep DEF WriteEnd
  <2> QED
    BY <1>12, <2>1 DEF WriteEnd, WriteReturns, MapInv
<1>14. CASE UNCHANGED all
  BY <1>14 DEF all, MapInv
<1> QED
  BY <1>2, <1>3, <1>4, <1>5, <1>6, <1>7, <1>8, <1>9, <1>10, <1>11, <1>12,
     <1>14 DEF Next

LEMMA MapInvariance ==
  ASSUME EachNameOnce
  PROVE  Spec => [](MapInv /\ ReadInv /\ DataInv /\ WriteInv /\ ParseInv)
<1>1. Spec => [](ReadInv /\ DataInv /\ WriteInv) /\ []ParseInv
  BY Invariance, ParseInvariance, PTL
<1>2. Init => MapInv
  BY InitMap
<1> QED
  BY <1>1, <1>2, NextMap, PTL DEF Spec

-----------------------------------------------------------------------------
(***************************************************************************)
(* The refinement.                                                         *)
(***************************************************************************)

\* The map that the list stands for in EnvMap.
MapBar == [n \in Name |-> IF Loading THEN NULL ELSE uboot_env_getenv(n)]

Nothing == [n \in Name |-> NULL]

LEMMA MapBarIs == MapInv => MapBar = IF Loading THEN Nothing ELSE MapOf(vars)
<1> SUFFICES ASSUME MapInv
             PROVE  MapBar = IF Loading THEN Nothing ELSE MapOf(vars)
  OBVIOUS
<1>1. CASE Loading
  BY <1>1 DEF MapBar, Nothing
<1>2. CASE ~Loading
  <2>1. \A n \in Name : uboot_env_getenv(n) = MapOf(vars)[n]
    BY GetenvReadsMap DEF MapInv
  <2>2. MapOf(vars) = [n \in Name |-> MapOf(vars)[n]]
    BY DEF MapOf
  <2>3. MapBar = [n \in Name |-> MapOf(vars)[n]]
    BY <1>2, <2>1 DEF MapBar
  <2> QED
    BY <1>2, <2>2, <2>3
<1> QED
  BY <1>1, <1>2

LEMMA MapOfNothing == MapOf(<<>>) = Nothing
BY DEF MapOf, Nothing

\* A map is not NULL.
LEMMA MapNotNull ==
  ASSUME NEW list \in Seq(StringPairs)
  PROVE  MapOf(list) # NULL
<1>1. ASSUME NEW n \in Name
      PROVE  MapOf(list)[n] \in Seq(Byte) \cup {NULL}
  <2> DEFINE M == {i \in 1..Len(list) : list[i].name = n}
  <2>1. MapOf(list)[n] = IF M = {} THEN NULL ELSE list[First(M)].value
    BY DEF MapOf
  <2>2. CASE M # {}
    <3>1. Len(list) \in Nat
      OBVIOUS
    <3>2. M \subseteq Nat /\ M \subseteq 1..Len(list)
      BY <3>1
    <3> HIDE DEF M
    <3>3. First(M) \in 1..Len(list)
      BY <2>2, <3>2, FirstType
    <3>4. list[First(M)] \in StringPairs
      <4> HIDE DEF StringPairs
      <4> QED
        BY <3>3, ElementOfSeq
    <3> QED
      BY <2>1, <2>2, <3>4 DEF StringPairs
  <2> QED
    BY <2>1, <2>2
<1>2. MapOf(list) = [n \in Name |-> MapOf(list)[n]]
  BY DEF MapOf
<1>3. MapOf(list) \in [Name -> Seq(Byte) \cup {NULL}]
  BY <1>1, <1>2
<1> QED
  BY <1>3, ArgumentAssumption

\* The block on disk at the start is a map, or cannot be read.
LEMMA InitRefines == EachNameOnce /\ Init => EM!Init
<1> SUFFICES ASSUME EachNameOnce, Init PROVE EM!Init
  OBVIOUS
<1>1. MapInv
  BY InitMap
<1>2. ~Loading /\ MapBar = Nothing
  BY <1>1, MapBarIs, MapOfNothing DEF Init, Loading
<1>3. ASSUME Readable(disk)
      PROVE  ParsedMap(disk.data) \in [Name -> Value \cup {NULL}]
  <2> DEFINE d == disk.data
  <2>1. StoredOnce(d)
    BY <1>1, <1>3 DEF MapInv
  <2>2. ASSUME NEW s \in Entries(d), PairAt(d, s).name \in Name
        PROVE  PairAt(d, s).value \in Value
    BY <1>3, <2>2 DEF EachNameOnce, Init
  <2>3. ASSUME NEW n \in Name
        PROVE  ParsedMap(d)[n] \in Value \cup {NULL}
    <3>1. CASE \E s \in Entries(d) : PairAt(d, s).name = n
      <4>1. PICK s \in Entries(d) : PairAt(d, s).name = n
        BY <3>1
      <4>2. ParsedMap(d)[n] = PairAt(d, s).value
        BY <2>1, <4>1, ParsedStored
      <4> QED
        BY <2>2, <4>1, <4>2
    <3>2. CASE \A s \in Entries(d) : PairAt(d, s).name # n
      BY <3>2, ParsedAbsent
    <3> QED
      BY <3>1, <3>2
  <2>4. ParsedMap(d) = [n \in Name |-> ParsedMap(d)[n]]
    BY DEF ParsedMap
  <2> QED
    BY <2>3, <2>4
<1>4. saved \in [Name -> Value \cup {NULL}] \cup {NULL}
  BY <1>3 DEF Init
<1> QED
  BY <1>2, <1>4 DEF EM!Init, EM!Empty, EM!Maps, MapBar, Nothing

\* Every step of the code is a step of the map or leaves it alone.
LEMMA StepRefines ==
  ASSUME MapInv, MapInv', ReadInv, DataInv, WriteInv, ParseInv, [Next]_all
  PROVE  [EM!Next]_<<MapBar, Loading, saved>>
<1>1. MapBar = IF Loading THEN Nothing ELSE MapOf(vars)
  BY MapBarIs
<1>2. MapBar' = IF Loading' THEN Nothing ELSE MapOf(vars')
  <2>1. (MapInv => MapBar = IF Loading THEN Nothing ELSE MapOf(vars))'
    BY MapBarIs, PTL
  <2> QED
    BY <2>1 DEF Nothing, MapOf
<1> DEFINE v == <<MapBar, Loading, saved>>
           Step == [EM!Next]_v
<1>3. ASSUME Loading, Loading', UNCHANGED saved
      PROVE  UNCHANGED v
  BY <1>1, <1>2, <1>3
<1>4. ASSUME UNCHANGED <<vars, pc, saved>>
      PROVE  UNCHANGED v
  BY <1>1, <1>2, <1>4 DEF Loading
<1>5. CASE ReadBegin
  <2>1. ~Loading /\ Loading' /\ saved' = saved
    BY <1>5 DEF ReadBegin, Loading
  <2>2. MapBar' = Nothing
    BY <1>2, <2>1
  <2>3. EM!Begin
    BY <2>1, <2>2 DEF EM!Begin, EM!Empty, MapBar, Nothing
  <2> QED
    BY <2>3 DEF EM!Next
<1>6. CASE ReadName
  <2>1. CASE At(name) \in {END, NUL} /\ ReadReturns("idle")
    <3>1. /\ Readable(disk) /\ MapOf(vars) = ParsedMap(disk.data)
          /\ vars \in Seq(StringPairs)
      BY <1>6, <2>1, LoadStep DEF ReadName, DataInv
    <3>2. saved = MapOf(vars) /\ saved # NULL
      BY <3>1, MapNotNull DEF MapInv
    <3>3. Loading /\ ~Loading' /\ UNCHANGED <<saved, vars>>
      BY <1>6, <2>1 DEF ReadName, ReadReturns, Loading
    <3>4. MapBar' = saved
      BY <1>2, <3>2, <3>3
    <3>5. EM!Load
      BY <3>2, <3>3, <3>4 DEF EM!Load, MapBar
    <3> QED
      BY <3>5 DEF EM!Next
  <2>2. CASE pc' = "endname"
    <3>1. Loading /\ Loading' /\ UNCHANGED saved
      BY <1>6, <2>2 DEF ReadName, Loading
    <3> QED
      BY <1>3, <3>1
  <2> QED
    BY <1>6, <2>1, <2>2 DEF ReadName
<1>7. CASE ReadEndname
  <2>1. Loading /\ Loading' /\ UNCHANGED saved
    BY <1>7 DEF ReadEndname, ReadReturns, Loading
  <2> QED
    BY <1>3, <2>1
<1>8. CASE ReadEndvalue
  <2>1. Loading /\ Loading' /\ UNCHANGED saved
    BY <1>8 DEF ReadEndvalue, ReadReturns, Loading
  <2> QED
    BY <1>3, <2>1
<1>9. ASSUME NEW n \in Name, NEW val \in Value, uboot_env_setenv(n, val)
      PROVE  Step
  <2>1. ~Loading /\ ~Loading' /\ UNCHANGED <<pc, saved>>
    BY <1>9 DEF uboot_env_setenv, Loading
  <2>2. MapOf(vars') = [MapOf(vars) EXCEPT ![n] = val]
    BY <1>9, SetStep
  <2>3. MapBar' = [MapBar EXCEPT ![n] = val]
    BY <1>1, <1>2, <2>1, <2>2
  <2>4. Loading' = Loading
    BY <2>1 DEF Loading
  <2>5. EM!Set
    BY <2>1, <2>3, <2>4 DEF EM!Set, MapBar
  <2> QED
    BY <2>5 DEF EM!Next
<1>10. ASSUME NEW n \in Name, uboot_env_unsetenv(n)
       PROVE  Step
  <2>1. ~Loading /\ ~Loading' /\ UNCHANGED <<pc, saved>>
    BY <1>10 DEF uboot_env_unsetenv, Loading
  <2>2. MapOf(vars') = [MapOf(vars) EXCEPT ![n] = NULL]
    BY <1>10, UnsetStep
  <2>3. MapBar' = [MapBar EXCEPT ![n] = NULL]
    BY <1>1, <1>2, <2>1, <2>2
  <2>4. Loading' = Loading
    BY <2>1 DEF Loading
  <2>5. EM!Unset
    BY <2>1, <2>3, <2>4 DEF EM!Unset, MapBar
  <2> QED
    BY <2>5 DEF EM!Next
<1>11. CASE uboot_env_free
  <2>1. ~Loading' /\ vars' = <<>> /\ saved' = saved
    BY <1>11 DEF uboot_env_free, Loading
  <2>2. MapBar' = Nothing
    BY <1>2, <2>1, MapOfNothing
  <2>3. CASE Loading
    <3>1. pc = "read_failed" /\ buffer = disk
      BY <1>11, <2>3 DEF uboot_env_free, Loading, MapInv
    <3>2. ~Readable(disk)
      BY <3>1 DEF ParseInv, Readable
    <3>3. saved = NULL
      BY <3>2 DEF MapInv
    <3>4. MapBar' = MapBar /\ Loading' = FALSE
      BY <1>1, <2>1, <2>2, <2>3 DEF Loading
    <3>5. EM!Fail
      BY <2>1, <2>3, <3>3, <3>4 DEF EM!Fail, MapBar
    <3> QED
      BY <3>5 DEF EM!Next
  <2>4. CASE ~Loading
    <3>1. Loading' = Loading
      BY <2>1, <2>4 DEF Loading
    <3>2. EM!Free
      BY <2>1, <2>2, <2>4, <3>1 DEF EM!Free, EM!Empty, MapBar, Nothing
    <3> QED
      BY <3>2 DEF EM!Next
  <2> QED
    BY <2>3, <2>4
<1>12. CASE WriteBegin
  <2>1. ~Loading /\ ~Loading' /\ saved' = saved /\ vars' = uboot_env_sort(vars)
    BY <1>12 DEF WriteBegin, Loading
  <2>2. MapOf(vars') = MapOf(vars)
    BY <2>1, SortKeeps DEF MapInv, DataInv
  <2>3. Loading' = Loading
    BY <2>1 DEF Loading
  <2> QED
    BY <1>1, <1>2, <2>1, <2>2, <2>3
<1>13. CASE WriteNoRoom
  <2>1. ~Loading /\ ~Loading' /\ UNCHANGED <<vars, saved>>
    BY <1>13 DEF WriteNoRoom, WriteReturns, Loading
  <2>2. Loading' = Loading
    BY <2>1 DEF Loading
  <2> QED
    BY <1>1, <1>2, <2>1, <2>2
<1>14. CASE WritePair
  BY <1>4, <1>14 DEF WritePair
<1>15. CASE WriteEnd
  <2>1. ~Loading /\ ~Loading' /\ saved' = MapOf(vars) /\ vars' = vars
    BY <1>15 DEF WriteEnd, WriteReturns, Loading
  <2>2. Loading' = Loading
    BY <2>1 DEF Loading
  <2>3. saved' = MapBar /\ MapBar' = MapBar
    BY <1>1, <1>2, <2>1
  <2>4. EM!Save
    BY <2>1, <2>2, <2>3 DEF EM!Save, MapBar
  <2> QED
    BY <2>4 DEF EM!Next
<1>17. CASE UNCHANGED all
  BY <1>4, <1>17 DEF all
<1> QED
  BY <1>5, <1>6, <1>7, <1>8, <1>9, <1>10, <1>11, <1>12, <1>13, <1>14, <1>15,
     <1>17 DEF Next

\* uboot_env.c implements the map it promises, whatever the size of the block
\* and the arguments of its callers, if no variable is set twice in the block
\* that it finds: what is read is what was written last, sorting loses nothing,
\* a block it has written is never refused, and a write that finds no room
\* leaves the old block.
THEOREM EnvMapImplemented ==
  ASSUME EachNameOnce
  PROVE  Spec => ImplementsEnvMap
<1>1. Init => EM!Init
  BY InitRefines
<1>2. /\ MapInv /\ ReadInv /\ DataInv /\ WriteInv /\ ParseInv
      /\ MapInv' /\ [Next]_all
      => [EM!Next]_<<MapBar, Loading, saved>>
  BY StepRefines
<1>3. Spec => [](MapInv /\ ReadInv /\ DataInv /\ WriteInv /\ ParseInv)
  BY MapInvariance
<1>4. EM!Init /\ [][EM!Next]_<<MapBar, Loading, saved>> => ImplementsEnvMap
  BY DEF ImplementsEnvMap, EM!Spec, MapBar
<1> QED
  BY <1>1, <1>2, <1>3, <1>4, PTL DEF Spec

=============================================================================
