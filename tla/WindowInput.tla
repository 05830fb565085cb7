----------------------------- MODULE WindowInput -----------------------------
(***************************************************************************)
(* A window and its input_handler: messages of the platform become calls   *)
(* that update the state of the keyboard and then the registered handlers  *)
(* in the order of their keys, until one returns TRUE.  GLFW reports every *)
(* key by name and releases keys itself when the window loses the focus;   *)
(* Windows reports either shift key as VK_SHIFT and releases nothing.      *)
(* Shift stands for all modifiers, a character also for the events of the  *)
(* mouse, which have handlers of their own kind and no part in the keys.   *)
(***************************************************************************)
EXTENDS Naturals, Sequences, FiniteSets, SequencesExt

CONSTANTS
  Platforms,     \* a subset of {"glfw", "win32"}
  MaxHandlers    \* bound: handlers added

ShiftKeys == {"LEFT_SHIFT", "RIGHT_SHIFT"}
Keys == ShiftKeys \cup {"ENTER", "A"}
Kinds == {"key", "character"}

VARIABLES
  platform,
  down,                     \* the keys held while the window has the focus
  m_pressed, m_modifier,    \* keyboard_state
  handlers, m_next_key,     \* kind -> keys in its map; the last key given
  calls,                    \* the calls the message has still to make
  running,                  \* the handler that runs, 0 if none
  called,                   \* history: handlers this call has called
  freed,                    \* a handler was destroyed while it ran
  lost,                     \* history: keys released without a message
  overlapped                \* history: both shift keys since the first press

keyVars == <<m_pressed, m_modifier, overlapped>>
handlerVars == <<handlers, m_next_key, freed>>
dispatchVars == <<calls, running, called>>
inputVars == <<platform, down, lost, keyVars, handlerVars, dispatchVars>>

Init ==
  /\ platform \in Platforms /\ down = {} /\ lost = {}
  /\ m_pressed = {} /\ m_modifier = FALSE /\ overlapped = FALSE
  /\ handlers = [k \in Kinds |-> {}] /\ m_next_key = 0 /\ freed = FALSE
  /\ calls = <<>> /\ running = 0 /\ called = {}

Idle == calls = <<>> /\ ~freed

KeyCall(k, action) == [kind |-> "key", key |-> k, action |-> action]
Character == [kind |-> "character", key |-> "A", action |-> "PRESS"]

------------------------------------------------------------------------------
(* Messages of the platform.                                               *)

\* The callback of GLFW; a letter is also a character.
GlfwCalls(k, action) ==
  <<KeyCall(k, action)>>
    \o (IF k = "A" /\ action # "RELEASE" THEN <<Character>> ELSE <<>>)

\* translate_key() knows no VK_SHIFT.  TranslateMessage() has WM_CHAR follow a
\* WM_KEYDOWN; that of a line end presses and releases the key once more.
Win32Calls(k, action) ==
  IF k \in ShiftKeys THEN <<>>
  ELSE IF action = "RELEASE" THEN <<KeyCall(k, "RELEASE")>>
  ELSE IF k = "ENTER" THEN <<KeyCall(k, "PRESS"), KeyCall(k, "PRESS"), Character,
                             KeyCall(k, "RELEASE")>>
  ELSE <<KeyCall(k, "PRESS"), Character>>

Calls(k, action) == IF platform = "glfw" THEN GlfwCalls(k, action)
                    ELSE Win32Calls(k, action)

PressKey(k) ==
  /\ Idle /\ k \notin down
  /\ down' = down \cup {k} /\ lost' = lost \ {k}
  /\ calls' = Calls(k, "PRESS")
  /\ UNCHANGED <<platform, keyVars, handlerVars, running, called>>

RepeatKey(k) ==
  /\ Idle /\ k \in down
  /\ calls' = Calls(k, "REPEAT")
  /\ UNCHANGED <<platform, down, lost, keyVars, handlerVars, running, called>>

ReleaseKey(k) ==
  /\ Idle /\ k \in down
  /\ down' = down \ {k}
  /\ calls' = Calls(k, "RELEASE")
  /\ UNCHANGED <<platform, lost, keyVars, handlerVars, running, called>>

\* Held keys are released for this window, by GLFW with a call for each.
LoseFocus ==
  /\ Idle /\ down # {}
  /\ calls' = IF platform = "glfw"
              THEN [i \in 1 .. Cardinality(down) |->
                      KeyCall(SetToSeq(down)[i], "RELEASE")]
              ELSE <<>>
  /\ lost' = IF platform = "win32" THEN lost \cup down ELSE lost
  /\ down' = {}
  /\ UNCHANGED <<platform, keyVars, handlerVars, running, called>>

------------------------------------------------------------------------------
(* One call: the state, then the handlers.                                 *)

\* Mutant: whatever is no press is a release, as for the mouse.
UpdateKeyStateElse(c) ==
  /\ m_pressed' = IF c.action = "PRESS" THEN m_pressed \cup {c.key}
                  ELSE m_pressed \ {c.key}
  /\ m_modifier' = IF c.key \notin ShiftKeys THEN m_modifier
                   ELSE c.action = "PRESS" \/ ~m_modifier

\* keyboard_state: pressing a shift key sets the modifier, releasing one turns
\* it over.
UpdateKeyState(c) ==
  /\ m_pressed' = CASE c.action = "PRESS"   -> m_pressed \cup {c.key}
                    [] c.action = "RELEASE" -> m_pressed \ {c.key}
                    [] OTHER                -> m_pressed
  /\ m_modifier' = IF c.key \notin ShiftKeys THEN m_modifier
                   ELSE CASE c.action = "PRESS"   -> TRUE
                          [] c.action = "RELEASE" -> ~m_modifier
                          [] OTHER                -> m_modifier

Least(S) == CHOOSE k \in S : \A j \in S : k <= j

\* Handlers of the kind behind key n: the next one is called, or the call ends.
GoOn(n) ==
  LET ahead == {k \in handlers[Head(calls).kind] : k > n}
  IN  IF ahead = {} THEN running' = 0 /\ called' = {} /\ calls' = Tail(calls)
      ELSE /\ running' = Least(ahead) /\ called' = called \cup {Least(ahead)}
           /\ UNCHANGED calls

Overlap(c) ==
  IF c.key \in ShiftKeys /\ c.action = "PRESS"
    THEN m_pressed \cap (ShiftKeys \ {c.key}) # {} ELSE overlapped

BeginCall ==
  /\ calls # <<>> /\ running = 0 /\ ~freed
  /\ LET c == Head(calls)
     IN IF c.kind = "key" THEN UpdateKeyState(c) /\ overlapped' = Overlap(c)
        ELSE UNCHANGED keyVars
  /\ GoOn(0)
  /\ UNCHANGED <<platform, down, lost, handlerVars>>

\* A handler that returns TRUE is the last one of the call.
HandlerReturns(result) ==
  /\ running # 0 /\ ~freed
  /\ IF result THEN running' = 0 /\ called' = {} /\ calls' = Tail(calls)
     ELSE GoOn(running)
  /\ UNCHANGED <<platform, down, lost, keyVars, handlerVars>>

------------------------------------------------------------------------------
(* Handlers come and go, between messages and inside handlers.             *)

Able == ~freed /\ (calls = <<>> \/ running # 0)

\* Mutant: the least free key.
NextKeyReused ==
  Least({n \in 1 .. MaxHandlers :
           \A k \in Kinds : n \notin handlers[k]})

\* One counter for all kinds.
NextKey == m_next_key + 1

AddHandler(kind) ==
  /\ Able /\ m_next_key < MaxHandlers
  /\ m_next_key' = m_next_key + 1
  /\ handlers' = [handlers EXCEPT ![kind] = @ \cup {NextKey}]
  /\ UNCHANGED <<platform, down, lost, keyVars, freed, dispatchVars>>

\* remove_..._handler() and clear_..._handler(): the loop stands on the handler
\* that runs.
RemoveHandlers(kind, removed) ==
  /\ Able /\ removed # {} /\ removed \subseteq handlers[kind]
  /\ handlers' = [handlers EXCEPT ![kind] = @ \ removed]
  /\ freed' = (running \in removed /\ Head(calls).kind = kind)
  /\ UNCHANGED <<platform, down, lost, keyVars, m_next_key, dispatchVars>>

Next ==
  \/ \E k \in Keys : PressKey(k) \/ RepeatKey(k) \/ ReleaseKey(k)
  \/ LoseFocus
  \/ BeginCall
  \/ \E result \in BOOLEAN : HandlerReturns(result)
  \/ \E kind \in Kinds : AddHandler(kind)
  \/ \E kind \in Kinds : \E removed \in SUBSET handlers[kind] :
       RemoveHandlers(kind, removed)

------------------------------------------------------------------------------
(* Properties.                                                             *)

\* Between messages the state of the keyboard is that of the keys.  For GLFW
\* exactly, and the modifier too, unless the other shift key was already down
\* when the last one was pressed.  For Windows a key lost with the focus stays
\* pressed, a line end does not, and no modifier is ever seen.
StateFollowsKeys ==
  Idle =>
    /\ platform = "glfw" =>
         /\ m_pressed = down
         /\ overlapped \/ m_modifier = (down \cap ShiftKeys # {})
    /\ platform = "win32" =>
         /\ down \ (ShiftKeys \cup {"ENTER"}) \subseteq m_pressed
         /\ m_pressed \subseteq down \cup lost
         /\ ~m_modifier

\* Whatever handlers are added and removed by other handlers meanwhile, a call
\* reaches a handler only after all present ones with lower keys.
HandlersInOrder ==
  running # 0 /\ ~freed =>
    \A k \in handlers[Head(calls).kind] : k < running => k \in called
==============================================================================
