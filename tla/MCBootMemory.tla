---------------------------- MODULE MCBootMemory ----------------------------
(***************************************************************************)
(* A memory of 120 bytes: the loader below 8, the kernel at 72, sectors of *)
(* 4 bytes and kernels of at most 16.                                      *)
(***************************************************************************)
EXTENDS BootMemory

Var(n, v) == [name |-> n, value |-> v]

Env(pairs, pending) == [pairs |-> pairs, pending |-> pending, lba |-> 2, args |-> 4]

\* Two variables fit below the kernel, to the last byte in one case; with three
\* the heap runs into it.
MCEnvs ==
  {Env(<<Var(1, 1), Var(2, 4)>>, "no"), Env(<<Var(1, 1), Var(2, 4)>>, "revert"),
   Env(<<Var(1, 1)>>, "first"), Env(<<Var(1, 1), Var(2, 4), Var(3, 3)>>, "revert")}

\* In the heap, across the start of the kernel, inside it, in the padding of
\* its last sector, across the copy's destination, and far above.
MCDtbs == [at : {40, 70, 74, 78, 80, 82, 84, 86, 88, 90, 92, 108},
           totalsize : {3, 7}]
=============================================================================
