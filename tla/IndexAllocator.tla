---------------------------- MODULE IndexAllocator ----------------------------
(***************************************************************************)
(* What the registry of render contexts promises: at any time each index   *)
(* in use belongs to one context, which keeps it until it is destroyed.    *)
(***************************************************************************)
EXTENDS Naturals

CONSTANTS Contexts, Limit

VARIABLE holder   \* pairs of an index in use and the context that has it

Init == holder = {}

\* A context that holds no index gets one that nobody holds.
Allocate(c, i) ==
  /\ \A h \in holder : h[1] # i /\ h[2] # c
  /\ holder' = holder \union {<<i, c>>}

\* A context gives its index back; all others keep theirs.
Release(c, i) ==
  /\ <<i, c>> \in holder
  /\ holder' = holder \ {<<i, c>>}

Next == \E i \in 0 .. Limit - 1, c \in Contexts :
          Allocate(c, i) \/ Release(c, i)

Spec == Init /\ [][Next]_holder
==============================================================================
