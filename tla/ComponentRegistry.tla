--------------------------- MODULE ComponentRegistry ---------------------------
(***************************************************************************)
(* The registry of components and their implementations.  The static       *)
(* objects of libraries register them in any order; dynamic entries of     *)
(* scripting contexts come and go.  An implementation may come before its  *)
(* component: it is then registered and also pending.                      *)
(***************************************************************************)
EXTENDS Naturals, Sequences, FiniteSets

CONSTANTS
  Component,
  Entry,          \* implementation_registry_entry objects
  ComponentOf,    \* entry -> its component
  NameOf,         \* entry -> name of the implementation
  AliasesOf,      \* entry -> its aliases, {""} if it names none
  DynamicEntry    \* the entries that are destroyed before the program ends

VARIABLES
  m_components,
  m_implementations,          \* component -> name -> entry
  m_aliases,                  \* component -> alias -> name
  m_pending_implementations,
  keyOf,         \* component -> the entry that owns the text of its key, if any
  constructed,                \* entries that were constructed and not destroyed
  m_registered                \* those that were not unregistered

registryVars == <<m_components, m_implementations, m_aliases,
                  m_pending_implementations, keyOf, constructed, m_registered>>

Init ==
  /\ m_components = {}
  /\ m_implementations = [c \in Component |-> <<>>]
  /\ m_aliases = [c \in Component |-> <<>>]
  /\ m_pending_implementations = <<>>
  /\ keyOf = [c \in Component |-> {}]
  /\ constructed = {} /\ m_registered = {}

\* The maps are keyed by string_views: the key of a component refers to the
\* component_name() of the first entry that was registered for it, and nothing
\* erases it.  Once that entry is destroyed, each search for a component may
\* compare with text that is gone.
KeysExist == \A c \in Component : keyOf[c] \subseteq constructed

\* The entries of S in a vector, in their order.
Only(vector, S) ==
  LET I == {i \in 1 .. Len(vector) : vector[i] \in S}
      Nth(n) == CHOOSE i \in I : Cardinality({j \in I : j <= i}) = n
  IN  [n \in 1 .. Cardinality(I) |-> vector[Nth(n)]]

\* operator[] of a map assigned for the keys of each entry in turn: the last
\* one of a key stays.
Put(map, entries, keys, value) ==
  LET With(k) == {i \in 1 .. Len(entries) : k \in keys[entries[i]]}
      Last(k) == CHOOSE i \in With(k) : \A j \in With(k) : j <= i
      all == UNION {keys[entries[i]] : i \in 1 .. Len(entries)}
  IN  [k \in DOMAIN map \cup all |->
         IF k \in all THEN value[entries[Last(k)]] ELSE map[k]]

Without(map, gone) ==
  [k \in {k \in DOMAIN map : ~gone[k]} |-> map[k]]

\* do_register_implementation() for some entries of component c in turn;
\* operator[] keeps the key it finds.
DoRegister(c, entries) ==
  /\ m_implementations' = [m_implementations EXCEPT ![c] =
       Put(@, entries, [e \in Entry |-> {NameOf[e]}], [e \in Entry |-> e])]
  /\ m_aliases' = [m_aliases EXCEPT ![c] = Put(@, entries, AliasesOf, NameOf)]
  /\ keyOf' = [keyOf EXCEPT ![c] =
       IF @ = {} /\ entries # <<>> THEN {entries[1]} ELSE @]

EntriesOf(c) == {e \in Entry : ComponentOf[e] = c}

\* A second component of the name throws.
RegisterComponent(c) ==
  /\ c \notin m_components
  /\ m_components' = m_components \cup {c}
  /\ DoRegister(c, Only(m_pending_implementations, EntriesOf(c)))
  /\ m_pending_implementations' =
       Only(m_pending_implementations, Entry \ EntriesOf(c))
  /\ UNCHANGED <<constructed, m_registered>>

\* The constructor of an entry.
RegisterImplementation(e) ==
  /\ e \notin constructed
  /\ constructed' = constructed \cup {e}
  /\ m_registered' = m_registered \cup {e}
  /\ m_pending_implementations' =
       IF ComponentOf[e] \in m_components THEN m_pending_implementations
       ELSE Append(m_pending_implementations, e)
  /\ DoRegister(ComponentOf[e], <<e>>)
  /\ UNCHANGED m_components

\* Mutant: the aliases the entry names go, not all that lead to its name.
UnregisterOwnAliases(e) ==
  LET c == ComponentOf[e]
      Named == [n \in DOMAIN m_implementations[c] |-> n = NameOf[e]]
      Own == [a \in DOMAIN m_aliases[c] |-> a \in AliasesOf[e]]
  IN  /\ m_implementations' =
           [m_implementations EXCEPT ![c] = Without(@, Named)]
      /\ m_aliases' = [m_aliases EXCEPT ![c] = Without(@, Own)]
      /\ m_pending_implementations' =
           Only(m_pending_implementations, Entry \ {e})

\* Whatever has the name of the entry goes, also the entry of another one that
\* has taken the name; the key of the component stays.
UnregisterImplementation(e) ==
  LET c == ComponentOf[e]
      Named == [n \in DOMAIN m_implementations[c] |-> n = NameOf[e]]
      Leading == [a \in DOMAIN m_aliases[c] |-> m_aliases[c][a] = NameOf[e]]
  IN  /\ m_implementations' =
           [m_implementations EXCEPT ![c] = Without(@, Named)]
      /\ m_aliases' = [m_aliases EXCEPT ![c] = Without(@, Leading)]
      /\ m_pending_implementations' =
           Only(m_pending_implementations, Entry \ {e})

\* unregister() of a dynamic entry: the object lives on.
Unregister(e) ==
  /\ e \in m_registered \cap DynamicEntry
  /\ UnregisterImplementation(e)
  /\ m_registered' = m_registered \ {e}
  /\ UNCHANGED <<m_components, keyOf, constructed>>

\* The destructor of a dynamic entry, unregister() included.
Destroy(e) ==
  /\ e \in constructed \cap DynamicEntry
  /\ IF e \in m_registered THEN UnregisterImplementation(e)
     ELSE UNCHANGED <<m_implementations, m_aliases, m_pending_implementations>>
  /\ m_registered' = m_registered \ {e}
  /\ constructed' = constructed \ {e}
  /\ UNCHANGED <<m_components, keyOf>>

\* What a search does once a key is gone is undefined: no step of the registry
\* is followed from there.
Next ==
  /\ KeysExist
  /\ \/ \E c \in Component : RegisterComponent(c)
     \/ \E e \in Entry :
          RegisterImplementation(e) \/ Unregister(e) \/ Destroy(e)

------------------------------------------------------------------------------
(* Properties.                                                             *)

\* create() of name n: the name, else the name its alias leads to.
Creates(c, n) ==
  LET named == IF n \in DOMAIN m_implementations[c] THEN n
               ELSE IF n \in DOMAIN m_aliases[c] THEN m_aliases[c][n] ELSE n
  IN  IF named \in DOMAIN m_implementations[c]
      THEN {m_implementations[c][named]} ELSE {}

\* The recursion of create() ends after one alias.
AliasesResolve ==
  \A c \in Component : \A a \in DOMAIN m_aliases[c] :
    m_aliases[c][a] \in DOMAIN m_implementations[c]

\* create() and the pending entries never use an entry that was unregistered or
\* destroyed.
EntriesExist ==
  \A c \in Component :
    /\ \A n \in DOMAIN m_implementations[c] :
         m_implementations[c][n] \in m_registered
    /\ \A i \in 1 .. Len(m_pending_implementations) :
         m_pending_implementations[i] \in m_registered

\* Whatever was registered first, an implementation whose name no other entry
\* has had is created by its name, and only for its component.
FoundByName ==
  \A e \in m_registered :
    (\A f \in Entry \ {e} : <<ComponentOf[f], NameOf[f]>> #
                              <<ComponentOf[e], NameOf[e]>>)
      => Creates(ComponentOf[e], NameOf[e]) = {e}

\* A component with implementations has a key, and only that of a dynamic entry
\* can be lost: where a static implementation came first it stays.
KeysOfFirst ==
  \A c \in Component :
    /\ DOMAIN m_implementations[c] # {} => keyOf[c] # {}
    /\ keyOf[c] \subseteq constructed \cup DynamicEntry

\* Names and aliases lead to implementations that are registered, in whatever
\* order libraries are loaded and scripting contexts closed, as long as the
\* first entry of each component exists; when it does not, that entry was a
\* dynamic one.
NamesLeadToEntries ==
  /\ KeysOfFirst
  /\ KeysExist => AliasesResolve /\ EntriesExist /\ FoundByName
==============================================================================
