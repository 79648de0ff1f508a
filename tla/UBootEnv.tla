------------------------------ MODULE UBootEnv ------------------------------
(***************************************************************************)
(* uboot_env.c: the parser of the environment block, byte by byte with its *)
(* four cursors, the linked list of variables with its operations, and the *)
(* writer with its cursor.  Offsets into the block are those of the code:  *)
(* the CRC is at 0..3, the variables at 4..env_size-1.                     *)
(*                                                                         *)
(* The caller reads the block from disk before uboot_env_read and writes   *)
(* it back after a uboot_env_write that succeeded, as main.c does.         *)
(***************************************************************************)
EXTENDS CLib, CSort, FiniteSets

CONSTANTS
  env_size,        \* 131072
  Byte,            \* the bytes that occur
  Crc(_),          \* crc32buf over the block from offset 4
  InitialBlocks,   \* blocks that may be on disk at the start
  Name, Value,     \* arguments callers pass to setenv and unsetenv
  NULL

end == env_size
Offsets == 4..(env_size - 1)

EQUALS == 61  \* '='
FILL == 255   \* 0xff
END == -1     \* no byte: a cursor is at end

ASSUME SizeAssumption ==
  /\ env_size \in Nat /\ env_size >= 8
  /\ ULLMod >= 2 * env_size
  /\ {NUL, EQUALS, FILL} \subseteq Byte /\ Byte \subseteq 0..255
  /\ \A b \in InitialBlocks : /\ b = [crc |-> b.crc, data |-> b.data]
                              /\ b.data \in [Offsets -> Byte]

\* Callers pass C strings; the names are literals of main.c, none of them empty
\* and none with a '='.  NULL is no map from names to strings.
ASSUME ArgumentAssumption ==
  /\ Name \subseteq Seq(Byte \ {NUL}) /\ Value \subseteq Seq(Byte \ {NUL})
  /\ \A n \in Name : n # <<>> /\ \A i \in 1..Len(n) : n[i] # EQUALS
  /\ NULL \notin [Name -> Seq(Byte) \cup {NULL}]

VARIABLES
  pc,       \* where the called function is; "idle" between calls
  disk,     \* the block on disk
  buffer,   \* the block in memory
  vars,     \* env->vars: the list of pairs, first one first
  name, endname, value, endvalue,  \* cursors of uboot_env_read
  p,        \* cursor of uboot_env_write
  pair,     \* index of the pair uboot_env_write is at
  saved     \* history: the map that the block on disk stands for

cursors == <<name, endname, value, endvalue>>
all == <<pc, disk, buffer, vars, cursors, p, pair, saved>>

Pair(n, v) == [name |-> n, value |-> v]

-----------------------------------------------------------------------------
(***************************************************************************)
(* The format of a block and the map it stands for, without cursors.       *)
(***************************************************************************)

Bytes(d, from, to) == [i \in 1..(to - from) |-> d[from + i - 1]]

\* An entry starts at 4 or after a NUL and is not empty; the first empty one
\* ends the list.
EntryStart(d, s) == s = 4 \/ d[s - 1] = NUL
Entries(d) ==
  {s \in Offsets : /\ EntryStart(d, s)
                   /\ \A t \in 4..s : EntryStart(d, t) => d[t] # NUL}

\* Where the entry at s has its first '=' and its terminator: at most one
\* offset each.  A '=' in the first place belongs to the name.
EqualsOf(d, s) ==
  {e \in (s + 1)..(end - 1) :
     d[e] = EQUALS /\ \A i \in (s + 1)..(e - 1) : d[i] \notin {EQUALS, NUL}}

EndOf(d, s) ==
  {z \in s..(end - 1) : d[z] = NUL /\ \A i \in s..(z - 1) : d[i] # NUL}

WellFormed(d, s) == EqualsOf(d, s) # {} /\ EndOf(d, s) # {}

PairAt(d, s) ==
  LET e == CHOOSE e \in EqualsOf(d, s) : TRUE
      z == CHOOSE z \in EndOf(d, s) : TRUE
  IN  Pair(Bytes(d, s, e), Bytes(d, e + 1, z))

First(S) == CHOOSE i \in S : \A j \in S : i <= j

MapOf(list) ==
  [n \in Name |->
     LET M == {i \in 1..Len(list) : list[i].name = n}
     IN  IF M = {} THEN NULL ELSE list[First(M)].value]

ParsedMap(d) ==
  LET last(n) == {s \in Entries(d) : PairAt(d, s).name = n}
  IN  [n \in Name |->
         IF last(n) = {} THEN NULL
         ELSE PairAt(d, CHOOSE s \in last(n) : \A t \in last(n) : t <= s).value]

Readable(b) ==
  /\ b.crc = Crc(b.data)
  /\ \A s \in Entries(b.data) : WellFormed(b.data, s)

-----------------------------------------------------------------------------

Init ==
  /\ pc = "idle"
  /\ disk \in InitialBlocks
  /\ buffer = disk
  /\ vars = <<>>
  /\ name = 4 /\ endname = 4 /\ value = 4 /\ endvalue = 4
  /\ p = 4 /\ pair = 1
  /\ saved = IF Readable(disk) THEN ParsedMap(disk.data) ELSE NULL

-----------------------------------------------------------------------------
(***************************************************************************)
(* uboot_env_read                                                          *)
(***************************************************************************)

\* The cursors are locals: nothing of them outlives the call.
ReadReturns(outcome) ==
  /\ pc' = outcome
  /\ name' = 4 /\ endname' = 4 /\ value' = 4 /\ endvalue' = 4

\* virtio_blk_read, then uboot_env_free and the CRC check.
ReadBegin ==
  /\ pc = "idle"
  /\ buffer' = disk
  /\ vars' = <<>>
  /\ pc' = IF disk.crc = Crc(disk.data) THEN "name" ELSE "read_failed"
  /\ UNCHANGED <<disk, cursors, p, pair, saved>>

\* *c, after the test against end that precedes every access.
At(c) == IF c = end THEN END ELSE buffer.data[c]

\* Mutant of ReadName: without the test against end.
ReadNamePastEnd ==
  /\ pc = "name"
  /\ \/ At(name) = NUL /\ ReadReturns("idle")
     \/ /\ At(name) # NUL
        /\ endname' = name + 1
        /\ pc' = "endname"
        /\ UNCHANGED <<name, value, endvalue>>
  /\ UNCHANGED <<disk, buffer, vars, p, pair, saved>>

\* while (name != end && *name != '\0')
ReadName ==
  /\ pc = "name"
  /\ \/ /\ At(name) \in {END, NUL}
        /\ ReadReturns("idle")
     \/ /\ At(name) \notin {END, NUL}
        /\ endname' = name + 1
        /\ pc' = "endname"
        /\ UNCHANGED <<name, value, endvalue>>
  /\ UNCHANGED <<disk, buffer, vars, p, pair, saved>>

\* Mutant of ReadEndname: a NUL does not stop the search for '='.
ReadEndnamePastNul ==
  /\ pc = "endname"
  /\ \/ At(endname) = END /\ ReadReturns("read_failed")
     \/ /\ At(endname) = EQUALS
        /\ value' = endname + 1
        /\ endvalue' = endname + 1
        /\ pc' = "endvalue"
        /\ UNCHANGED <<name, endname>>
     \/ /\ At(endname) \notin {END, EQUALS}
        /\ endname' = endname + 1
        /\ UNCHANGED <<pc, name, value, endvalue>>
  /\ UNCHANGED <<disk, buffer, vars, p, pair, saved>>

\* One turn of the loop that looks for '='.
ReadEndname ==
  /\ pc = "endname"
  /\ \/ /\ At(endname) \in {END, NUL}
        /\ ReadReturns("read_failed")
     \/ /\ At(endname) = EQUALS
        /\ value' = endname + 1
        /\ endvalue' = endname + 1
        /\ pc' = "endvalue"
        /\ UNCHANGED <<name, endname>>
     \/ /\ At(endname) \notin {END, NUL, EQUALS}
        /\ endname' = endname + 1
        /\ UNCHANGED <<pc, name, value, endvalue>>
  /\ UNCHANGED <<disk, buffer, vars, p, pair, saved>>

\* One turn of the loop that looks for the end of the value, and the pair.
\* The length passed for the value is value - endvalue, as a size_t.
ReadEndvalue ==
  /\ pc = "endvalue"
  /\ \/ /\ At(endvalue) = END
        /\ ReadReturns("read_failed")
        /\ UNCHANGED vars
     \/ /\ At(endvalue) = NUL
        /\ vars' = <<Pair(strndup_(buffer.data, name, endname - name),
                          strndup_(buffer.data, value,
                                   (value - endvalue) % ULLMod))>> \o vars
        /\ name' = endvalue + 1
        /\ pc' = "name"
        /\ UNCHANGED <<endname, value, endvalue>>
     \/ /\ At(endvalue) \notin {END, NUL}
        /\ endvalue' = endvalue + 1
        /\ UNCHANGED <<pc, vars, name, endname, value>>
  /\ UNCHANGED <<disk, buffer, p, pair, saved>>

-----------------------------------------------------------------------------
(***************************************************************************)
(* The list.                                                               *)
(***************************************************************************)

Matches(n) == {i \in 1..Len(vars) : strcmp_(vars[i].name, n) = 0}

\* uboot_env_getenv, NULL when the variable is not found.
uboot_env_getenv(n) ==
  IF Matches(n) = {} THEN NULL ELSE vars[First(Matches(n))].value

uboot_env_setenv(n, v) ==
  /\ pc = "idle"
  /\ vars' = IF Matches(n) = {}
             THEN <<Pair(n, v)>> \o vars
             ELSE [vars EXCEPT ![First(Matches(n))].value = v]
  /\ UNCHANGED <<pc, disk, buffer, cursors, p, pair, saved>>

\* Mutant of uboot_env_unsetenv: prev->next is not linked, the head moves.
UnsetenvDropsHead(n) ==
  /\ pc = "idle"
  /\ vars' = IF Matches(n) = {} THEN vars
             ELSE SubSeq(vars, First(Matches(n)) + 1, Len(vars))
  /\ UNCHANGED <<pc, disk, buffer, cursors, p, pair, saved>>

uboot_env_unsetenv(n) ==
  /\ pc = "idle"
  /\ vars' = IF Matches(n) = {} THEN vars
             ELSE LET i == First(Matches(n))
                  IN  SubSeq(vars, 1, i - 1) \o SubSeq(vars, i + 1, Len(vars))
  /\ UNCHANGED <<pc, disk, buffer, cursors, p, pair, saved>>

\* After an error, and at the end of process_uboot_env.
uboot_env_free ==
  /\ pc \in {"idle", "read_failed", "write_failed"}
  /\ vars' = <<>>
  /\ pc' = "idle"
  /\ UNCHANGED <<disk, buffer, cursors, p, pair, saved>>

env_name_compare(a, b) == strcmp_(a.name, b.name)

uboot_env_sort(list) ==
  LET Pairs == {list[i] : i \in DOMAIN list}
      compar == [x \in Pairs \X Pairs |-> env_name_compare(x[1], x[2])]
  IN  IF list = <<>> THEN list ELSE qsort_(list, compar)

-----------------------------------------------------------------------------
(***************************************************************************)
(* uboot_env_write                                                         *)
(***************************************************************************)

WriteBegin ==
  /\ pc = "idle"
  /\ buffer' = [buffer EXCEPT !.data = [i \in Offsets |-> FILL]]
  /\ vars' = uboot_env_sort(vars)
  /\ p' = 4
  /\ pair' = 1
  /\ pc' = "write"
  /\ UNCHANGED <<disk, cursors, saved>>

\* The pair's text, its '=' and its terminator.
Text(x) == x.name \o <<EQUALS>> \o x.value \o <<NUL>>

\* Mutant of NoRoom: the terminators are not counted.
NoRoomLate(x) == p + Len(x.name) + 1 + Len(x.value) >= end

NoRoom(x) == p + Len(x.name) + 1 + Len(x.value) >= end - 2

WriteReturns(outcome) == pc' = outcome /\ p' = 4 /\ pair' = 1

WriteNoRoom ==
  /\ pc = "write"
  /\ pair <= Len(vars)
  /\ NoRoom(vars[pair])
  /\ WriteReturns("write_failed")
  /\ UNCHANGED <<disk, buffer, vars, cursors, saved>>

WritePair ==
  /\ pc = "write"
  /\ pair <= Len(vars)
  /\ ~NoRoom(vars[pair])
  /\ LET t == Text(vars[pair])
     IN  /\ buffer' = [buffer EXCEPT !.data =
                         [i \in Offsets |-> IF i \in p..(p + Len(t) - 1)
                                            THEN t[i - p + 1] ELSE @[i]]]
         /\ p' = p + Len(t)
  /\ pair' = pair + 1
  /\ UNCHANGED <<pc, disk, vars, cursors, saved>>

\* The final NUL, the CRC, and virtio_blk_write.
WriteEnd ==
  /\ pc = "write"
  /\ pair > Len(vars)
  /\ LET d == [buffer.data EXCEPT ![p] = NUL]
     IN  buffer' = [crc |-> Crc(d), data |-> d]
  /\ disk' = buffer'
  /\ saved' = MapOf(vars)
  /\ WriteReturns("idle")
  /\ UNCHANGED <<vars, cursors>>

Next ==
  \/ ReadBegin \/ ReadName \/ ReadEndname \/ ReadEndvalue
  \/ \E n \in Name, v \in Value : uboot_env_setenv(n, v)
  \/ \E n \in Name : uboot_env_unsetenv(n)
  \/ uboot_env_free
  \/ WriteBegin \/ WriteNoRoom \/ WritePair \/ WriteEnd

Spec == Init /\ [][Next]_all

-----------------------------------------------------------------------------
(***************************************************************************)
(* Properties.                                                             *)
(***************************************************************************)

\* Every byte that uboot_env_read looks at lies inside the block, whatever the
\* block holds: a cursor stops at end at the latest, and is tested first.
ReadInBounds ==
  /\ pc = "name" => name \in 4..end
  /\ pc = "endname" => name \in Offsets /\ endname \in (name + 1)..end
  /\ pc = "endvalue" => /\ name \in Offsets
                        /\ endname \in (name + 1)..(end - 1)
                        /\ value = endname + 1
                        /\ endvalue \in value..end

\* strndup_ is given value - endvalue, the negated length, for the value; both
\* copies are nevertheless the whole name and the whole value, and no byte
\* after the value's terminator is read for them.
CopiesWhole ==
  pc = "endvalue" /\ At(endvalue) = NUL =>
    /\ strndup_(buffer.data, name, endname - name)
         = Bytes(buffer.data, name, endname)
    /\ strndup_(buffer.data, value, (value - endvalue) % ULLMod)
         = Bytes(buffer.data, value, endvalue)

\* Every byte uboot_env_write stores lies inside the block.
WriteInBounds == pc = "write" => p \in Offsets

\* When uboot_env_read returns, it has accepted exactly the blocks in which
\* every entry is well formed, and the list holds their names and values, last
\* entry first.
ParsesFormat ==
  LET d == buffer.data
      Parsed == {s \in Entries(d) : s < name}
  IN  /\ pc = "read_failed" /\ buffer.crc = Crc(d) =>
           \E s \in Entries(d) : ~WellFormed(d, s)
      /\ pc = "name" =>
           /\ Len(vars) = Cardinality(Parsed)
           /\ \A s \in Parsed :
                /\ WellFormed(d, s)
                /\ vars[Cardinality({t \in Parsed : t >= s})] = PairAt(d, s)
           /\ name = end \/ d[name] = NUL => Parsed = Entries(d)

\* Bytes that a pair takes in a block, and that the first pairs of a list take
\* with the NUL that ends it.
Size(x) == Len(x.name) + Len(x.value) + 2

Space(list) ==
  LET sum[i \in 0..Len(list)] ==
        IF i = 0 THEN 1 ELSE sum[i - 1] + Size(list[i])
  IN  sum

Used == Space(vars)[Len(vars)]

\* uboot_env_write gives up only when the variables would leave no spare byte
\* at the end of the block, and never stores a block without that byte.
FailsOnlyWhenFull ==
  /\ pc = "write_failed" => Used > env_size - 5
  /\ pc = "write" /\ pair > Len(vars) => Used <= env_size - 5

Loading == pc \in {"name", "endname", "endvalue", "read_failed"}

\* In memory and on disk the block is a map from names to values: what was
\* written is read back, sorted or not, a block that was written is never
\* refused, and a list that cannot be written leaves the old block on disk.
EM == INSTANCE EnvMap WITH
        Absent <- NULL, Unreadable <- NULL,
        map <- [n \in Name |-> IF Loading THEN NULL ELSE uboot_env_getenv(n)],
        loading <- Loading,
        store <- saved

ImplementsEnvMap == EM!Spec

\* No block that is on disk at the start sets a variable twice, and what it
\* sets callers' variables to are values.  uboot_env_write never stores a name
\* twice, but a block with two entries for one name is not a map: unsetenv
\* would remove one of them and uncover the other.
EachNameOnce ==
  \A b \in InitialBlocks : Readable(b) =>
    LET Known == {s \in Entries(b.data) : PairAt(b.data, s).name \in Name}
    IN  \A s \in Known :
          /\ PairAt(b.data, s).value \in Value
          /\ \A t \in Known :
               PairAt(b.data, s).name = PairAt(b.data, t).name => s = t

=============================================================================
