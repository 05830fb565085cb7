----------------------------- MODULE FrameBatches -----------------------------
(***************************************************************************)
(* What mge::render_context promises of recorded draw commands: frame()    *)
(* takes all waiting draws of all threads as one batch or, when an         *)
(* exception leaves it, none of them; a draw leaves the waiting ones only  *)
(* by being done in such a batch or by being wiped by its thread.          *)
(***************************************************************************)
EXTENDS Naturals

CONSTANT MaxDraws
DrawId == 1 .. MaxDraws

VARIABLES waiting, done, wiped
vars == <<waiting, done, wiped>>

Init == waiting = {} /\ done = {} /\ wiped = {}

Record(d) ==
  /\ d \notin waiting \union done \union wiped
  /\ waiting' = waiting \union {d}
  /\ UNCHANGED <<done, wiped>>

Wipe(S) ==
  /\ waiting' = waiting \ S
  /\ wiped' = wiped \union S
  /\ UNCHANGED done

CompleteBatch ==
  /\ done' = done \union waiting
  /\ waiting' = {}
  /\ UNCHANGED wiped

Next ==
  \/ \E d \in DrawId : Record(d)
  \/ \E S \in SUBSET waiting : Wipe(S)
  \/ CompleteBatch

Spec == Init /\ [][Next]_vars
==============================================================================
