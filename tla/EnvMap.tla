------------------------------- MODULE EnvMap -------------------------------
(***************************************************************************)
(* What uboot_env.c promises: a map from names to values in memory, and    *)
(* the same map in a block that is read and written as a whole.            *)
(***************************************************************************)
CONSTANTS Name, Value, Absent, Unreadable

Maps == [Name -> Value \cup {Absent}]
Empty == [n \in Name |-> Absent]

VARIABLES map,      \* the variables in memory
          loading,  \* is a read in progress
          store     \* the block: a map, or Unreadable

Init == map = Empty /\ loading = FALSE /\ store \in Maps \cup {Unreadable}

\* A read starts from nothing, delivers the whole block if it is readable, and
\* fails only if it is not.
Begin ==
  /\ ~loading
  /\ map' = Empty /\ loading' = TRUE
  /\ UNCHANGED store

Load ==
  /\ loading /\ store # Unreadable
  /\ map' = store /\ loading' = FALSE
  /\ UNCHANGED store

Fail ==
  /\ loading /\ store = Unreadable
  /\ loading' = FALSE
  /\ UNCHANGED <<map, store>>

Set ==
  /\ ~loading
  /\ \E n \in Name, v \in Value : map' = [map EXCEPT ![n] = v]
  /\ UNCHANGED <<loading, store>>

Unset ==
  /\ ~loading
  /\ \E n \in Name : map' = [map EXCEPT ![n] = Absent]
  /\ UNCHANGED <<loading, store>>

Free ==
  /\ ~loading
  /\ map' = Empty
  /\ UNCHANGED <<loading, store>>

\* A write replaces the block, or leaves it alone.
Save ==
  /\ ~loading
  /\ store' = map
  /\ UNCHANGED <<map, loading>>

Next == Begin \/ Load \/ Fail \/ Set \/ Unset \/ Free \/ Save

Spec == Init /\ [][Next]_<<map, loading, store>>

=============================================================================
