-------------------------------- MODULE Fdt ---------------------------------
(***************************************************************************)
(* load_dtb and fdt_add_bootargs (main.c) with the part of libfdt they     *)
(* call: the device tree is copied behind the kernel and the kernel's      *)
(* command line becomes the property bootargs of /chosen, inside the       *)
(* total size that the tree came with.                                     *)
(*                                                                         *)
(* The structure block is the sequence of its tags, the strings block the  *)
(* sequence of its bytes.  The header's offsets and sizes are variables of *)
(* their own, as in the blob: libfdt keeps them in step with the contents  *)
(* by hand.  An offset into the structure block is the index of a tag; its *)
(* bytes are counted with TagSize.  Trees are of version 16 or later, as   *)
(* QEMU's are, and small enough that no offset wraps.                      *)
(***************************************************************************)
EXTENDS Integers, Sequences

CONSTANTS
  Chosen, Bootargs,  \* "chosen" and "bootargs", as character codes
  Sources,           \* device trees QEMU may pass
  Args,              \* command lines, with their NUL
  NULL

NUL == 0
AT == 64             \* '@'

FDT_TAGSIZE == 4
FDT_V17_SIZE == 40
RSV_ENTRY == 16      \* sizeof(struct fdt_reserve_entry)

FDT_TAGALIGN(n) == ((n + 3) \div 4) * 4

BeginNode(n) == [tag |-> "FDT_BEGIN_NODE", name |-> n]
EndNode == [tag |-> "FDT_END_NODE"]
Prop(off, d) == [tag |-> "FDT_PROP", nameoff |-> off, data |-> d]
Nop == [tag |-> "FDT_NOP"]
End == [tag |-> "FDT_END"]

Tags ==
  [tag : {"FDT_BEGIN_NODE"}, name : Seq(Nat)]
    \cup [tag : {"FDT_PROP"}, nameoff : Nat, data : Seq(Nat)]
    \cup [tag : {"FDT_END_NODE", "FDT_NOP", "FDT_END"}]

Blobs ==
  [magic : BOOLEAN, version : Nat, last_comp_version : Nat, totalsize : Nat,
   off_mem_rsvmap : Nat, off_dt_struct : Nat, size_dt_struct : Nat,
   off_dt_strings : Nat, size_dt_strings : Nat,
   tags : Seq(Tags), strings : Seq(Nat)]

\* A field of the header can have any value, but the strings block is by
\* definition the bytes that the header counts.
ASSUME SourceAssumption ==
  /\ \A f \in Sources : f \in Blobs /\ f.size_dt_strings = Len(f.strings)
  /\ \A a \in Args : a \in Seq(Nat)
  /\ Chosen \in Seq(Nat) /\ Bootargs \in Seq(Nat)
  /\ \A i \in DOMAIN Bootargs : Bootargs[i] # NUL

VARIABLES
  pc,
  source,    \* the tree QEMU passed
  bootargs,  \* kernel_args, or NULL
  fdt,       \* the copy behind the kernel
  node,      \* chosen_offset
  name,      \* namestroff: offset in the strings block
  allocated, \* did fdt_find_add_string_ add the name
  err        \* the error that was fatal

vars == <<pc, source, bootargs, fdt, node, name, allocated, err>>

-----------------------------------------------------------------------------
(***************************************************************************)
(* Bytes.                                                                  *)
(***************************************************************************)

TagLen(t) ==
  FDT_TAGSIZE + IF t.tag = "FDT_BEGIN_NODE" THEN Len(t.name) + 1
                ELSE IF t.tag = "FDT_PROP" THEN 8 + Len(t.data)
                ELSE 0

TagSize(t) == FDT_TAGALIGN(TagLen(t))

\* Bytes in the first k tags of the structure block, for every k.
Offsets(tags) ==
  LET sum[k \in 0..Len(tags)] ==
        IF k = 0 THEN 0 ELSE sum[k - 1] + TagSize(tags[k])
  IN  sum

\* Bytes before tag i.
Offset(tags, i) == Offsets(tags)[i - 1]

SizeOf(tags) == Offset(tags, Len(tags) + 1)

fdt_data_size_(f) == f.off_dt_strings + f.size_dt_strings

\* fdt_offset_ptr: does the block reach to byte n?
Reaches(f, n) ==
  /\ f.off_dt_struct + n <= f.totalsize
  /\ f.version >= 17 => n <= f.size_dt_struct

\* fdt_next_tag: the tag at index i.  It must lie in the block, its word and
\* then the rest of it; otherwise libfdt returns FDT_END with an error.  A word
\* that is no tag ends it as one whose rest is missing does, and has no case of
\* its own.
Tag(f, i) ==
  IF i > Len(f.tags) \/ ~Reaches(f, Offset(f.tags, i) + FDT_TAGSIZE)
  THEN "TRUNCATED"
  ELSE IF ~Reaches(f, Offset(f.tags, i) + TagLen(f.tags[i]))
  THEN "BADSTRUCTURE"
  ELSE f.tags[i].tag

NoTag == {"TRUNCATED", "BADSTRUCTURE"}

\* fdt_get_string: the string at an offset of the strings block.  NULL if it
\* starts or ends outside.
fdt_get_string(f, off) ==
  LET Ends == {e \in (off + 1)..f.size_dt_strings : f.strings[e] = NUL}
  IN  IF Ends = {} THEN NULL
      ELSE SubSeq(f.strings, off + 1,
                  (CHOOSE e \in Ends : \A d \in Ends : e <= d) - 1)

-----------------------------------------------------------------------------
(***************************************************************************)
(* Header checks.                                                          *)
(***************************************************************************)

fdt_header_size(f) ==
  IF f.version <= 2 THEN 32 ELSE IF f.version <= 16 THEN 36 ELSE FDT_V17_SIZE

check_block_(f, base, size) ==
  fdt_header_size(f) <= base /\ base + size <= f.totalsize

HeaderError(f) ==
  IF f.version < 2 \/ f.last_comp_version > 17 \/ f.version < f.last_comp_version
  THEN "BADVERSION"
  ELSE IF /\ fdt_header_size(f) <= f.totalsize
          /\ check_block_(f, f.off_mem_rsvmap, 0)
          /\ check_block_(f, f.off_dt_struct,
                          IF f.version < 17 THEN 0 ELSE f.size_dt_struct)
          /\ check_block_(f, f.off_dt_strings, f.size_dt_strings)
       THEN "OK" ELSE "TRUNCATED"

fdt_blocks_misordered_(f) ==
  \/ f.off_mem_rsvmap < FDT_V17_SIZE
  \/ f.off_dt_struct < f.off_mem_rsvmap + RSV_ENTRY
  \/ f.off_dt_strings < f.off_dt_struct + f.size_dt_struct
  \/ f.totalsize < fdt_data_size_(f)

\* Every function that reads the tree begins with this test.  The copy is
\* aligned, and its magic number is that of a complete tree or none.
fdt_ro_probe_(f) ==
  IF ~f.magic THEN "BADMAGIC"
  ELSE IF f.version < 2 \/ f.last_comp_version > 17 THEN "BADVERSION" ELSE "OK"

\* Every function that edits the tree begins with this one.
fdt_rw_probe_(f) ==
  IF fdt_ro_probe_(f) # "OK" THEN fdt_ro_probe_(f)
  ELSE IF f.version < 17 THEN "BADVERSION"
  ELSE IF fdt_blocks_misordered_(f) THEN "BADLAYOUT" ELSE "OK"

\* ... and makes it version 17.
Writable(f) == [f EXCEPT !.version = 17]

-----------------------------------------------------------------------------
(***************************************************************************)
(* Finding nodes and properties.                                           *)
(***************************************************************************)

\* A name without '@' also finds a node that has a unit address behind it.
fdt_nodename_eq_(n, s) ==
  /\ Len(n) >= Len(s)
  /\ SubSeq(n, 1, Len(s)) = s
  /\ Len(n) = Len(s) \/ (AT \notin {s[i] : i \in DOMAIN s} /\ n[Len(s) + 1] = AT)

Earliest(S) == CHOOSE i \in S : \A j \in S : i <= j

\* Levels below the root after tag i, when the walk started at the root.
Depth(f, i) ==
  LET deep[j \in 1..i] ==
        IF j = 1 THEN 0
        ELSE deep[j - 1] + (IF f.tags[j].tag = "FDT_BEGIN_NODE" THEN 1
                            ELSE IF f.tags[j].tag = "FDT_END_NODE" THEN -1
                            ELSE 0)
  IN  deep[i]

\* fdt_subnode_offset_namelen(fdt, 0, s): where fdt_next_node stops, and the
\* first child of the root with this name before that.
WalkEnd(f) ==
  Earliest({i \in 2..(Len(f.tags) + 1) :
              \/ Tag(f, i) \in NoTag \cup {"FDT_END"}
              \/ Depth(f, i) < 0})

fdt_subnode_offset(f, s) ==
  LET Found == {i \in 2..(WalkEnd(f) - 1) :
                  /\ Tag(f, i) = "FDT_BEGIN_NODE"
                  /\ Depth(f, i) = 1
                  /\ fdt_nodename_eq_(f.tags[i].name, s)}
  IN  IF fdt_ro_probe_(f) # "OK" THEN [err |-> fdt_ro_probe_(f), at |-> 0]
      ELSE IF Tag(f, 1) # "FDT_BEGIN_NODE"
        THEN [err |-> "BADOFFSET", at |-> 0]
      ELSE IF Found # {} THEN [err |-> "OK", at |-> Earliest(Found)]
      ELSE IF Tag(f, WalkEnd(f)) \in NoTag
        THEN [err |-> Tag(f, WalkEnd(f)), at |-> 0]
      ELSE [err |-> "NOTFOUND", at |-> 0]

\* The tag behind a node's properties.
PropsEnd(f, n) ==
  Earliest({i \in (n + 1)..(Len(f.tags) + 1) :
              Tag(f, i) \notin {"FDT_PROP", "FDT_NOP"}})

\* Mutant of fdt_get_property: the first property, whatever its name.
GetFirstProperty(f, n, s) ==
  LET Found == {i \in (n + 1)..(PropsEnd(f, n) - 1) : Tag(f, i) = "FDT_PROP"}
  IN  IF Found # {} THEN [err |-> "OK", at |-> Earliest(Found)]
      ELSE [err |-> "NOTFOUND", at |-> 0]

\* fdt_get_property: the first property of the node with this name.
fdt_get_property(f, n, s) ==
  LET Found == {i \in (n + 1)..(PropsEnd(f, n) - 1) :
                  /\ Tag(f, i) = "FDT_PROP"
                  /\ fdt_get_string(f, f.tags[i].nameoff) = s}
      stop == Tag(f, PropsEnd(f, n))
  IN  IF Found # {} THEN [err |-> "OK", at |-> Earliest(Found)]
      ELSE IF stop = "FDT_END" THEN [err |-> "BADSTRUCTURE", at |-> 0]
      ELSE IF stop \in NoTag THEN [err |-> stop, at |-> 0]
      ELSE [err |-> "NOTFOUND", at |-> 0]

-----------------------------------------------------------------------------
(***************************************************************************)
(* Making room.                                                            *)
(***************************************************************************)

\* Mutant of fdt_splice_: a tree that would be exactly full is refused.
SpliceKeepsSlack(f, soff, oldlen, newlen) ==
  IF soff + oldlen > fdt_data_size_(f) THEN "BADOFFSET"
  ELSE IF fdt_data_size_(f) - oldlen + newlen >= f.totalsize THEN "NOSPACE"
  ELSE "OK"

fdt_splice_(f, soff, oldlen, newlen) ==
  IF soff + oldlen > fdt_data_size_(f) THEN "BADOFFSET"
  ELSE IF fdt_data_size_(f) - oldlen + newlen > f.totalsize THEN "NOSPACE"
  ELSE "OK"

\* Mutant of Resized: the strings block moves but its offset is not updated.
ResizedInPlace(f, tags, delta) ==
  [f EXCEPT !.tags = tags, !.size_dt_struct = @ + delta]

\* The header and the contents after fdt_splice_struct_.
Resized(f, tags, delta) ==
  [f EXCEPT !.tags = tags, !.size_dt_struct = @ + delta,
            !.off_dt_strings = @ + delta]

\* The structure block with new tags in front of tag at.
Inserted(tags, at, new) ==
  SubSeq(tags, 1, at - 1) \o new \o SubSeq(tags, at, Len(tags))

\* Mutant of fdt_find_string_: the NUL is not compared.
FindPrefix(f, s) ==
  {o \in 0..(f.size_dt_strings - Len(s)) :
     SubSeq(f.strings, o + 1, o + Len(s)) = s}

\* fdt_find_string_: any place where the bytes of s and a NUL stand, the tail
\* of a longer name included.
fdt_find_string_(f, s) ==
  {o \in 0..(f.size_dt_strings - Len(s) - 1) :
     SubSeq(f.strings, o + 1, o + Len(s) + 1) = Append(s, NUL)}

-----------------------------------------------------------------------------

Init ==
  /\ pc = "load_dtb"
  /\ source \in Sources
  /\ bootargs \in Args \cup {NULL}
  /\ fdt = NULL
  /\ node = 0 /\ name = 0 /\ allocated = FALSE
  /\ err = "OK"

Fatal(e) ==
  /\ pc' = "fatal"
  /\ err' = e
  /\ UNCHANGED <<source, bootargs, node, name, allocated>>

\* load_dtb: check the magic number and copy totalsize bytes.
LoadDtb ==
  /\ pc = "load_dtb"
  /\ IF source.magic
     THEN /\ fdt' = source
          /\ pc' = IF bootargs = NULL THEN "done" ELSE "check_header"
          /\ UNCHANGED <<source, bootargs, node, name, allocated, err>>
     ELSE Fatal("BADMAGIC") /\ UNCHANGED fdt

\* The copy is at a multiple of 8 (rom_main), and its magic number was tested.
fdt_check_header ==
  /\ pc = "check_header"
  /\ IF HeaderError(fdt) = "OK"
     THEN /\ pc' = "find_chosen"
          /\ UNCHANGED <<source, bootargs, fdt, node, name, allocated, err>>
     ELSE Fatal(HeaderError(fdt)) /\ UNCHANGED fdt

\* fdt_path_offset(dtb, "/chosen")
FindChosen ==
  /\ pc = "find_chosen"
  /\ LET r == fdt_subnode_offset(fdt, Chosen)
     IN  \/ /\ r.err = "OK"
            /\ node' = r.at
            /\ pc' = "resize_property"
            /\ UNCHANGED <<source, bootargs, name, allocated, err>>
         \/ /\ r.err = "NOTFOUND"
            /\ pc' = "add_subnode"
            /\ UNCHANGED <<source, bootargs, node, name, allocated, err>>
         \/ /\ r.err \notin {"OK", "NOTFOUND"}
            /\ Fatal(r.err)
  /\ UNCHANGED fdt

EmptyChosen == <<BeginNode(Chosen), EndNode>>

\* fdt_add_subnode(dtb, 0, "chosen"): behind the root's properties.
AddSubnode ==
  /\ pc = "add_subnode"
  /\ LET at    == PropsEnd(fdt, 1)
         new   == EmptyChosen
         probe == fdt_rw_probe_(fdt)
         e     == IF probe # "OK" THEN probe
                  ELSE fdt_splice_(fdt,
                                   fdt.off_dt_struct + Offset(fdt.tags, at),
                                   0, SizeOf(new))
     IN  IF e = "OK"
         THEN /\ fdt' = Resized(Writable(fdt), Inserted(fdt.tags, at, new),
                                SizeOf(new))
              /\ node' = at
              /\ pc' = "resize_property"
              /\ UNCHANGED <<source, bootargs, name, allocated, err>>
         ELSE /\ fdt' = IF probe = "OK" THEN Writable(fdt) ELSE fdt
              /\ Fatal(e)

\* fdt_setprop, when the property is there: change its length and copy.
ResizeProperty ==
  /\ pc = "resize_property"
  /\ LET probe  == fdt_rw_probe_(fdt)
         f      == Writable(fdt)
         r      == fdt_get_property(f, node, Bootargs)
         oldlen == FDT_TAGALIGN(Len(f.tags[r.at].data))
         newlen == FDT_TAGALIGN(Len(bootargs))
         e      == fdt_splice_(f, f.off_dt_struct + Offset(f.tags, r.at) + 12,
                               oldlen, newlen)
     IN  \/ /\ probe # "OK"
            /\ Fatal(probe) /\ UNCHANGED fdt
         \/ /\ probe = "OK" /\ r.err = "NOTFOUND"
            /\ fdt' = f
            /\ pc' = "add_string"
            /\ UNCHANGED <<source, bootargs, node, name, allocated, err>>
         \/ /\ probe = "OK" /\ r.err \notin {"OK", "NOTFOUND"}
            /\ fdt' = f
            /\ Fatal(r.err)
         \/ /\ probe = "OK" /\ r.err = "OK" /\ e # "OK"
            /\ fdt' = f
            /\ Fatal(e)
         \/ /\ probe = "OK" /\ r.err = "OK" /\ e = "OK"
            /\ fdt' = Resized(f, [f.tags EXCEPT ![r.at].data = bootargs],
                              newlen - oldlen)
            /\ pc' = "done"
            /\ UNCHANGED <<source, bootargs, node, name, allocated, err>>

\* fdt_add_property_: fdt_find_add_string_.  The node was just found or added,
\* so fdt_check_node_offset_ accepts it.
AddString ==
  /\ pc = "add_string"
  /\ LET Found == fdt_find_string_(fdt, Bootargs)
         s     == Append(Bootargs, NUL)
         e     == fdt_splice_(fdt, fdt_data_size_(fdt), 0, Len(s))
     IN  \/ /\ Found # {}
            /\ name' = Earliest(Found)
            /\ allocated' = FALSE
            /\ pc' = "add_property"
            /\ UNCHANGED <<source, bootargs, fdt, node, err>>
         \/ /\ Found = {} /\ e # "OK"
            /\ Fatal(e) /\ UNCHANGED fdt
         \/ /\ Found = {} /\ e = "OK"
            /\ name' = fdt.size_dt_strings
            /\ allocated' = TRUE
            /\ fdt' = [fdt EXCEPT
                         !.strings = SubSeq(@, 1, fdt.size_dt_strings) \o s,
                         !.size_dt_strings = @ + Len(s)]
            /\ pc' = "add_property"
            /\ UNCHANGED <<source, bootargs, node, err>>

\* Mutant of RollBack: the string stays.
KeepString(f) == f

\* fdt_del_last_string_, if the string was added.
RollBack(f) ==
  IF allocated THEN [f EXCEPT !.size_dt_strings = @ - Len(Bootargs) - 1] ELSE f

\* fdt_add_property_: the property, in front of the node's others, or roll
\* back.
AddProperty ==
  /\ pc = "add_property"
  /\ LET at  == node + 1
         new == Prop(name, bootargs)
         e   == fdt_splice_(fdt, fdt.off_dt_struct + Offset(fdt.tags, at), 0,
                            TagSize(new))
     IN  IF e = "OK"
         THEN /\ fdt' = Resized(fdt, Inserted(fdt.tags, at, <<new>>), TagSize(new))
              /\ pc' = "done"
              /\ UNCHANGED <<source, bootargs, node, name, allocated, err>>
         ELSE fdt' = RollBack(fdt) /\ Fatal(e)

fdt_setprop == ResizeProperty \/ AddString \/ AddProperty

fdt_add_bootargs == fdt_check_header \/ FindChosen \/ AddSubnode \/ fdt_setprop

Next == LoadDtb \/ fdt_add_bootargs

Spec == Init /\ [][Next]_vars

-----------------------------------------------------------------------------
(***************************************************************************)
(* The tree that the tags stand for.                                       *)
(***************************************************************************)

\* The names of the nodes around tag i, from the root down.
Path(f, i) ==
  LET Around == {j \in 1..i : /\ f.tags[j].tag = "FDT_BEGIN_NODE"
                              /\ \A k \in j..i : Depth(f, k) >= Depth(f, j)}
  IN  [d \in 0..Depth(f, i) |->
         f.tags[CHOOSE j \in Around : Depth(f, j) = d].name]

Tagged(f, t) == {i \in DOMAIN f.tags : f.tags[i].tag = t}

Nodes(f) == {Path(f, i) : i \in Tagged(f, "FDT_BEGIN_NODE")}

Props(f) ==
  {[path |-> Path(f, i), name |-> fdt_get_string(f, f.tags[i].nameoff),
    data |-> f.tags[i].data] : i \in Tagged(f, "FDT_PROP")}

\* A tree as the Devicetree Specification describes it: one root and no node
\* or property behind its end; names that end in the strings block; the
\* properties of a node right behind it and before its children, no two of one
\* name, and no second node with the path of one that has properties.
WellFormed(f) ==
  /\ \A i \in WalkEnd(f)..Len(f.tags) :
       f.tags[i].tag \notin {"FDT_BEGIN_NODE", "FDT_PROP"}
  /\ \A i \in Tagged(f, "FDT_PROP") :
       /\ \E e \in (f.tags[i].nameoff + 1)..f.size_dt_strings :
            f.strings[e] = NUL
       /\ \A n \in Tagged(f, "FDT_BEGIN_NODE") : Path(f, n) = Path(f, i) =>
            n < i /\ \A k \in (n + 1)..i : f.tags[k].tag \in {"FDT_PROP", "FDT_NOP"}
       /\ \A j \in Tagged(f, "FDT_PROP") :
            /\ Path(f, j) = Path(f, i)
            /\ fdt_get_string(f, f.tags[j].nameoff)
                 = fdt_get_string(f, f.tags[i].nameoff)
            => j = i

(***************************************************************************)
(* Properties.                                                             *)
(***************************************************************************)

\* The header follows the contents: after every splice, add and roll back the
\* offset of the strings block and the sizes differ from the source's by what
\* was really inserted, and the data never outgrows the total size, behind
\* which the blob owns no memory.
HeaderInStep ==
  fdt # NULL =>
    /\ fdt.totalsize = source.totalsize
    /\ fdt.size_dt_struct - source.size_dt_struct
         = SizeOf(fdt.tags) - SizeOf(source.tags)
    /\ fdt.off_dt_strings - source.off_dt_strings
         = SizeOf(fdt.tags) - SizeOf(source.tags)
    /\ bootargs # NULL /\ pc # "check_header" /\ HeaderError(source) = "OK" =>
         fdt_data_size_(fdt) <= fdt.totalsize

\* The kernel finds its command line: looking up /chosen and bootargs in the
\* finished tree, the way libfdt does, gives kernel_args.
BootargsReadBack ==
  pc = "done" /\ bootargs # NULL =>
    LET n == fdt_subnode_offset(fdt, Chosen)
        r == fdt_get_property(fdt, n.at, Bootargs)
    IN  /\ n.err = "OK" /\ r.err = "OK"
        /\ Depth(fdt, n.at) = 1
        /\ fdt.tags[r.at].data = bootargs

\* fdt_add_bootargs changes nothing else: no other node or property is lost,
\* moved or renamed, although names are offsets into a block that moves.
OnlyBootargsChanges ==
  pc = "done" /\ bootargs # NULL =>
    LET chosen == Path(fdt, node)
        IsBootargs(x) == x.path = chosen /\ x.name = Bootargs
    IN  /\ Nodes(fdt) = Nodes(source) \cup {chosen}
        /\ Props(fdt) = {x \in Props(source) : ~IsBootargs(x)}
             \cup {[path |-> chosen, name |-> Bootargs, data |-> bootargs]}

\* A step that fails takes back what it did: when the loader gives up, the
\* strings block is the source's, and so are the nodes and properties but for
\* an empty /chosen, which fdt_add_bootargs does not remove.
FailureRollsBack ==
  pc = "fatal" /\ fdt # NULL =>
    /\ SubSeq(fdt.strings, 1, fdt.size_dt_strings) = source.strings
    /\ \/ fdt.tags = source.tags
       \/ \E at \in 2..(Len(source.tags) + 1) :
            fdt.tags = Inserted(source.tags, at, EmptyChosen)

\* The room the command line needs in a tree, node and name included.
RoomNeeded(f) ==
  LET n == fdt_subnode_offset(f, Chosen)
      r == fdt_get_property(f, n.at, Bootargs)
      data == FDT_TAGALIGN(Len(bootargs))
      missing == 12 + data
                   + IF fdt_find_string_(f, Bootargs) = {}
                     THEN Len(Bootargs) + 1 ELSE 0
  IN  IF n.err # "OK" THEN 8 + FDT_TAGALIGN(Len(Chosen) + 1) + missing
      ELSE IF r.err # "OK" THEN missing
      ELSE data - FDT_TAGALIGN(Len(f.tags[r.at].data))

\* The tree has no room exactly when the total size QEMU gave it is too small:
\* a tree that fits to the last byte is accepted.
NoSpaceOnlyWhenFull ==
  LET full == fdt_data_size_(source) + RoomNeeded(source) > source.totalsize
  IN  /\ err = "NOSPACE" => full
      /\ pc = "done" /\ bootargs # NULL => ~full

=============================================================================
