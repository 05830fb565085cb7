---------------------------- MODULE ContextRegistry ----------------------------
(***************************************************************************)
(* render_context_registry and the handles that resolve through it.  A     *)
(* context registers at the end of m_contexts and its position becomes the *)
(* first half of every handle to its objects; a destroyed context leaves a *)
(* null entry, or, at the end, shortens the vector by itself and the nulls *)
(* before it.  Positions are therefore given out again.                    *)
(*                                                                         *)
(* Entry i of the C++ vector is m_contexts[i + 1] here; an object is named *)
(* by its context and its position in that context's vector.               *)
(***************************************************************************)
EXTENDS Naturals, Sequences, FiniteSets

CONSTANTS
  Contexts,     \* every context that may be constructed, each once
  Null,         \* nullptr
  Limit,        \* std::numeric_limits<uint16_t>::max()
  MaxObjects,   \* bound: objects created in one context
  DropHandles   \* clients drop all handles of a context they destroy

ASSUME RegistryAssumption ==
  /\ Null \notin Contexts
  /\ Limit \in Nat /\ MaxObjects \in Nat /\ DropHandles \in BOOLEAN

VARIABLES
  m_contexts,   \* the registry's vector
  m_index,      \* context -> its index while it lives
  objects,      \* context -> its object vector: "live" or "destroyed" each
  stage,        \* context -> "new", "live" or "gone"
  destroyed,    \* history: handles destroy() was called on
  crashed       \* mge::crash ended the program

vars == <<m_contexts, m_index, objects, stage, destroyed, crashed>>

Live   == {c \in Contexts : stage[c] = "live"}
Unborn == {c \in Contexts : stage[c] = "new"}

Init ==
  /\ m_contexts = <<>>
  /\ m_index = [c \in Contexts |-> 0]
  /\ objects = [c \in Contexts |-> <<>>]
  /\ stage = [c \in Contexts |-> "new"]
  /\ destroyed = {} /\ crashed = FALSE

\* Mutant: trimming goes on to the first null entry.
TrimsToFirstNull(s, n) ==
  /\ \A i \in 1 .. n : s[i] # Null
  /\ n < Len(s) => s[n + 1] = Null

\* gc(): the vector s without the null entries at its end is the first n.
TrimsTo(s, n) ==
  /\ n > 0 => s[n] # Null
  /\ \A i \in n + 1 .. Len(s) : s[i] = Null

------------------------------------------------------------------------------
\* Mutant: a new context takes the first index and cuts off the rest.
RoomInFirst(n) == n = 0

\* The place for a new entry: behind the last one, after gc() if m_contexts is
\* full.  Every unregistration has trimmed already, so gc() finds nothing.
Room(n) == IF Len(m_contexts) < Limit THEN n = Len(m_contexts)
                                      ELSE TrimsTo(m_contexts, n)

\* No index is left for the place.
Full(n) == n >= Limit

\* The constructor of a render context; without room the program crashes.
RegisterContext(c) ==
  /\ ~crashed /\ c \in Unborn
  /\ \E n \in 0 .. Len(m_contexts) :
       /\ Room(n)
       /\ IF Full(n)
            THEN crashed' = TRUE /\ UNCHANGED <<m_contexts, m_index, stage>>
            ELSE /\ m_contexts' = Append(SubSeq(m_contexts, 1, n), c)
                 /\ m_index' = [m_index EXCEPT ![c] = n]
                 /\ stage' = [stage EXCEPT ![c] = "live"]
                 /\ UNCHANGED crashed
  /\ UNCHANGED <<objects, destroyed>>

\* The destructor: the last entry is removed with the nulls before it, any
\* other entry becomes null.  An entry that is not the context's crashes.
UnregisterContext(c) ==
  /\ ~crashed /\ c \in Live
  /\ LET size == Len(m_contexts)
         i    == m_index[c]
     IN IF i >= size \/ m_contexts[i + 1] # c
          THEN crashed' = TRUE /\ UNCHANGED <<m_contexts, stage>>
          ELSE /\ IF i = size - 1
                    THEN \E n \in 0 .. i :
                           LET rest == SubSeq(m_contexts, 1, i)
                           IN /\ TrimsTo(rest, n)
                              /\ m_contexts' = SubSeq(m_contexts, 1, n)
                    ELSE m_contexts' = [m_contexts EXCEPT ![i + 1] = Null]
               /\ stage' = [stage EXCEPT ![c] = "gone"]
               /\ UNCHANGED crashed
  /\ UNCHANGED <<m_index, objects, destroyed>>

\* create_shader and its kind: the handle holds m_index and the position.
CreateObject(c) ==
  /\ ~crashed /\ c \in Live
  /\ Len(objects[c]) < MaxObjects
  /\ objects' = [objects EXCEPT ![c] = Append(@, "live")]
  /\ UNCHANGED <<m_contexts, m_index, stage, destroyed, crashed>>

\* The handles given out so far, with the context that gave them.
Issued ==
  {h \in [owner : Contexts, object : 1 .. MaxObjects] :
     h.object <= Len(objects[h.owner])}

\* render_context::get: the context registered at an index, or null.
Get(i) == IF i < Len(m_contexts) THEN m_contexts[i + 1] ELSE Null

\* render_context::object: where the object slot of a handle is found.
Found(h) ==
  LET c == Get(m_index[h.owner])
  IN c # Null /\ h.object <= Len(objects[c])

\* handle::get() # nullptr, the value of handle::operator bool.
Resolves(h) ==
  Found(h) /\ objects[Get(m_index[h.owner])][h.object] = "live"

\* The client still holds the handle.
Held(h) == DropHandles => stage[h.owner] = "live"

\* Mutant: the slot is removed, so that later objects move down.
DestroyRemovesSlot(h) ==
  /\ ~crashed
  /\ Held(h) /\ Found(h)
  /\ objects' = [objects EXCEPT ![Get(m_index[h.owner])] =
                   SubSeq(@, 1, h.object - 1) \o
                   SubSeq(@, h.object + 1, Len(@)) \o <<"destroyed">>]
  /\ destroyed' = destroyed \union {h}
  /\ UNCHANGED <<m_contexts, m_index, stage, crashed>>

\* handle::destroy on a copy of the handle: the slot becomes null and is not
\* used again.  Without a context at the index the call throws.
Destroy(h) ==
  /\ ~crashed
  /\ Held(h) /\ Found(h)
  /\ objects' = [objects EXCEPT ![Get(m_index[h.owner])][h.object] =
                   "destroyed"]
  /\ destroyed' = destroyed \union {h}
  /\ UNCHANGED <<m_contexts, m_index, stage, crashed>>

Next ==
  \/ \E c \in Contexts :
       RegisterContext(c) \/ UnregisterContext(c) \/ CreateObject(c)
  \/ \E h \in Issued : Destroy(h)

Spec == Init /\ [][Next]_vars

------------------------------------------------------------------------------
(* Properties.                                                             *)

\* Every variable has its type.
TypeOK ==
  /\ m_contexts \in Seq(Contexts \union {Null})
  /\ Len(m_contexts) <= Limit
  /\ m_index \in [Contexts -> Nat]
  /\ objects \in [Contexts -> Seq({"live", "destroyed"})]
  /\ stage \in [Contexts -> {"new", "live", "gone"}]
  /\ destroyed \subseteq Issued
  /\ crashed \in BOOLEAN

\* A live context is found at the index in its handles, whatever contexts are
\* destroyed around it and however the vector is trimmed; so the destructor's
\* "Inconsistent render context unregistering" is never reached.
RegisteredWhileLive == \A c \in Live : Get(m_index[c]) = c

\* As long as clients drop the handles of contexts they destroy, a handle of
\* a live context resolves exactly until destroy() is called on it.
HandleFollowsObject ==
  \A h \in Issued :
    h.owner \in Live => (Resolves(h) <=> h \notin destroyed)

\* The indices in use and who has them.
Holder == {<<m_index[c], c>> : c \in Live}

\* An index belongs to one context at a time, which keeps it until it is
\* destroyed: the registry implements IndexAllocator.
Allocator == INSTANCE IndexAllocator WITH holder <- Holder
AllocatorSpec == Allocator!Spec
==============================================================================
