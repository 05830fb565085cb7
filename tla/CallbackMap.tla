------------------------------ MODULE CallbackMap ------------------------------
(***************************************************************************)
(* mge::callback_map: listeners under ascending keys.  An invocation calls *)
(* them in key order while m_calling makes insert() throw and erase() wait *)
(* until the invocation ends, by return or by an exception.  Listeners run *)
(* in the middle of the loop over m_data and may use the map themselves,   *)
(* even invoke it again; the single flag m_calling then belongs to all     *)
(* invocations at once.                                                    *)
(***************************************************************************)
EXTENDS Naturals, Sequences

CONSTANTS
  MaxKeys,    \* bound: callbacks inserted in a behaviour
  MaxDepth    \* bound: invocations inside one another

ASSUME CallbackAssumption == MaxKeys \in Nat /\ MaxDepth \in Nat \ {0}

Key == 1 .. MaxKeys

VARIABLES
  m_data,           \* the keys in the map
  m_sequence,
  m_delayed_erase,  \* the keys to erase; their order makes no difference
  m_calling,
  stack,            \* running invocations, the innermost last
  erased,           \* history: inserted keys erase() was called with
  freed             \* a callback was destroyed while it was running

mapVars == <<m_data, m_sequence, m_delayed_erase, m_calling, stack, erased,
             freed>>

\* An invocation: the callback it is in, those it called, those at its start.
Invocation == [at : Key, called : SUBSET Key, start : SUBSET Key]

Depth == Len(stack)
Top   == stack[Depth]
\* The loop over m_data stands on these entries.
Standing == {stack[i].at : i \in 1 .. Depth}

MapInit ==
  /\ m_data = {} /\ m_sequence = 0 /\ m_delayed_erase = {}
  /\ m_calling = FALSE
  /\ stack = <<>>
  /\ erased = {} /\ freed = FALSE

\* Mutant: m_calling is not looked at.
InsertAnyTime ==
  /\ ~freed
  /\ m_sequence < MaxKeys
  /\ m_sequence' = m_sequence + 1
  /\ m_data' = m_data \union {m_sequence'}
  /\ UNCHANGED <<m_delayed_erase, m_calling, stack, erased, freed>>

\* insert(); while m_calling is set it throws and changes nothing.
Insert ==
  /\ ~freed
  /\ ~m_calling
  /\ m_sequence < MaxKeys
  /\ m_sequence' = m_sequence + 1
  /\ m_data' = m_data \union {m_sequence'}
  /\ UNCHANGED <<m_delayed_erase, m_calling, stack, erased, freed>>

\* Mutant: the entry goes at once, whoever stands on it.
EraseAtOnce(k) ==
  /\ ~freed
  /\ erased' = erased \union ({k} \cap 1 .. m_sequence)
  /\ m_data' = m_data \ {k}
  /\ freed' = (k \in Standing)
  /\ UNCHANGED <<m_sequence, m_delayed_erase, m_calling, stack>>

\* erase(): delayed while m_calling is set; otherwise the entry goes, even if
\* an invocation stands on it.
Erase(k) ==
  /\ ~freed
  /\ erased' = erased \union ({k} \cap 1 .. m_sequence)
  /\ IF m_calling
       THEN /\ m_delayed_erase' = m_delayed_erase \union {k}
            /\ UNCHANGED <<m_data, freed>>
       ELSE /\ m_data' = m_data \ {k}
            /\ freed' = (k \in Standing)
            /\ UNCHANGED m_delayed_erase
  /\ UNCHANGED <<m_sequence, m_calling, stack>>

\* operator() sets m_calling and enters the callback with the least key; it
\* returns at once if there is none and no erase is waiting.
Least(k, keys) == k \in keys /\ \A j \in keys : k <= j

Invoke ==
  /\ ~freed
  /\ Depth < MaxDepth
  /\ \E k \in Key :
       /\ Least(k, m_data)
       /\ stack' = Append(stack, [at |-> k, called |-> {k}, start |-> m_data])
  /\ m_calling' = TRUE
  /\ UNCHANGED <<m_data, m_sequence, m_delayed_erase, erased, freed>>

\* The end of an invocation: the flag is reset, then the erases happen.
EndInvocation ==
  /\ m_calling' = FALSE
  /\ m_data' = m_data \ m_delayed_erase
  /\ m_delayed_erase' = {}
  /\ stack' = SubSeq(stack, 1, Depth - 1)
  /\ freed' = \E i \in 1 .. Depth - 1 : stack[i].at \in m_delayed_erase
  /\ UNCHANGED <<m_sequence, erased>>

\* The keys the innermost loop has not reached.
Ahead == {k \in m_data : k > Top.at}

\* A callback returns and the loop goes on to the next key,
NextCallback ==
  /\ ~freed
  /\ stack # <<>>
  /\ \E k \in Key :
       /\ Least(k, Ahead)
       /\ stack' = [stack EXCEPT ![Depth] =
            [at |-> k, called |-> Top.called \union {k}, start |-> Top.start]]
  /\ UNCHANGED <<m_data, m_sequence, m_delayed_erase, m_calling, erased, freed>>

\* or the last one returns and the invocation ends.
LastCallback ==
  /\ ~freed
  /\ stack # <<>>
  /\ Ahead = {}
  /\ EndInvocation

\* Mutant: an exception skips the erases.
CallbackThrowsKeepsErases ==
  /\ ~freed
  /\ stack # <<>>
  /\ m_calling' = FALSE
  /\ stack' = SubSeq(stack, 1, Depth - 1)
  /\ UNCHANGED <<m_data, m_sequence, m_delayed_erase, erased, freed>>

\* A callback throws; after the clean-up the exception reaches the caller of
\* the invocation, a callback of the outer one or the user of the map.
CallbackThrows ==
  /\ ~freed
  /\ stack # <<>>
  /\ EndInvocation

\* clear() does not look at m_calling; the application calls it when no
\* listener runs.
Clear ==
  /\ ~freed
  /\ stack = <<>>
  /\ m_data # {}
  /\ m_data' = {}
  /\ UNCHANGED <<m_sequence, m_delayed_erase, m_calling, stack, erased, freed>>

MapNext ==
  \/ Insert \/ Clear
  \/ \E k \in Key : Erase(k)
  \/ Invoke \/ NextCallback \/ LastCallback \/ CallbackThrows

MapSpec == MapInit /\ [][MapNext]_mapVars

------------------------------------------------------------------------------
(* Properties.                                                             *)

\* Every variable has its type.
MapTypeOK ==
  /\ m_data \subseteq Key /\ m_delayed_erase \subseteq Key
  /\ m_sequence \in 0 .. MaxKeys
  /\ m_calling \in BOOLEAN /\ freed \in BOOLEAN
  /\ stack \in Seq(Invocation)
  /\ erased \subseteq Key

\* A callback is not destroyed while it runs, and the loop does not lose its
\* place, although callbacks erase themselves and each other.
NoRunningCallbackFreed == ~freed

\* When no invocation runs, no erase is waiting and no callback that was
\* erased is in the map, whether callbacks returned or threw.
ErasesTakeEffect ==
  stack = <<>> => m_delayed_erase = {} /\ erased \cap m_data = {}

\* An invocation that returns has called exactly the callbacks that were in
\* the map when it began.
CallsAllOfStart ==
  [][LastCallback => Top.called = Top.start]_mapVars

\* callback_map.hpp:49 throws "Cannot insert new callback during callback
\* processing": no insertion succeeds while an invocation runs.
InsertRefused == [][Insert => stack = <<>>]_mapVars
==============================================================================
