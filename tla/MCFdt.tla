------------------------------- MODULE MCFdt --------------------------------
(***************************************************************************)
(* Device trees for TLC.  "ch" stands for chosen and "ba" for bootargs.    *)
(***************************************************************************)
EXTENDS Fdt, FiniteSets

MCChosen == <<99, 104>>
MCBootargs == <<98, 97>>
Unit == MCChosen \o <<AT, 49>>   \* "ch@1"
Cpu == <<99>>                    \* a prefix of "ch"

\* Command lines of 1 to 9 bytes with their NUL.
MCArgs == {[i \in 1..n |-> IF i = n THEN NUL ELSE 120] : n \in {1, 4, 5, 9}}

\* Strings blocks: "p"; "p" and "xba", whose tail is the name; "p" and "bax",
\* of which the name is only a prefix; "p" and "ba".
Plain == <<112, NUL>>
Strings == {Plain, Plain \o <<120, 98, 97, NUL>>, Plain \o <<98, 97, 120, NUL>>,
            Plain \o <<98, 97, NUL>>}

P == Prop(0, <<1, 2, 3>>)

\* What may be inside the root.
Bodies ==
  {<<>>,
   <<P>>,
   <<P, BeginNode(Cpu), P, EndNode>>,
   <<BeginNode(MCChosen), EndNode>>,
   <<Nop, P, BeginNode(Cpu), EndNode, BeginNode(MCChosen), P, Nop, EndNode>>,
   <<BeginNode(Cpu), BeginNode(MCChosen), P, EndNode, EndNode>>,
   <<BeginNode(Unit), P, EndNode, BeginNode(Cpu), EndNode>>}

\* /chosen with bootargs, for the strings blocks that hold the name.
WithBootargs(off) ==
  {<<BeginNode(MCChosen), P, Prop(off, d), EndNode>> :
     d \in {<<>>, <<7, 7, 7, 7, 7>>}}

Tree(body, strings, slack, gap) ==
  LET tags == <<BeginNode(<<>>)>> \o body \o <<EndNode, End>>
      size == SizeOf(tags)
  IN  [magic |-> TRUE, version |-> 17, last_comp_version |-> 16,
       off_mem_rsvmap |-> 40, off_dt_struct |-> 56, size_dt_struct |-> size,
       off_dt_strings |-> 56 + size + gap, size_dt_strings |-> Len(strings),
       totalsize |-> 56 + size + gap + Len(strings) + slack,
       tags |-> tags, strings |-> strings]

Slack == 0..48

Good ==
  {Tree(b, s, k, 0) : b \in Bodies, s \in Strings, k \in Slack}
    \cup {Tree(b, Plain \o <<120, 98, 97, NUL>>, k, 4) :
            b \in WithBootargs(3), k \in 0..12}

ASSUME GoodAssumption == \A f \in Good : WellFormed(f)

\* /chosen is found, but its properties are cut short or cannot be edited.
CutChosen ==
  LET t == Tree(<<BeginNode(MCChosen), P, EndNode>>, Plain, 60, 0)
  IN  {[t EXCEPT !.version = 16], [t EXCEPT !.off_mem_rsvmap = 48],
       [t EXCEPT !.tags = SubSeq(@, 1, 3) \o <<End>>]}
      \cup {[t EXCEPT !.size_dt_struct = n] : n \in {16, 20, 30}}

\* Trees whose header is wrong in one field or cuts the structure block short.
Bad ==
  LET t == Tree(<<P, BeginNode(Cpu), EndNode>>, Plain, 60, 0)
  IN  {[t EXCEPT !.magic = FALSE],
       [t EXCEPT !.version = 16], [t EXCEPT !.version = 18],
       [t EXCEPT !.last_comp_version = 18],
       [t EXCEPT !.totalsize = 20], [t EXCEPT !.off_mem_rsvmap = 8],
       [t EXCEPT !.off_mem_rsvmap = 48],
       [t EXCEPT !.off_dt_strings = 52], [t EXCEPT !.off_dt_struct = 400],
       [t EXCEPT !.tags = Tail(@)]}
      \cup {[t EXCEPT !.size_dt_struct = n] : n \in {0, 8, 22, 24, 36, 40}}
      \cup CutChosen

MCSources == Good \cup Bad
=============================================================================
