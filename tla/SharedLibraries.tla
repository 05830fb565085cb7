---------------------------- MODULE SharedLibraries ----------------------------
(***************************************************************************)
(* Loading shared libraries from several threads.  The dictionary of the   *)
(* loaded libraries is a singleton, created by whoever needs it first; the *)
(* library is opened between a look into the dictionary and an attempt to  *)
(* put it there, and its dictionary entry is what keeps it open.  The      *)
(* loader of the system counts how often a file was opened.                *)
(***************************************************************************)
EXTENDS Naturals, FiniteSets

CONSTANTS
  Thread,
  LibraryName,    \* names a shared_library is constructed with
  Files,          \* what they are names of: name -> file
  NoObject        \* a null pointer

VARIABLES
  m_instance,     \* singleton: the thread whose dictionary it is, or NoObject
  m_destroyed,
  m_libraries,    \* the dictionaries: the names in that of each thread
  refs,           \* file -> how often it is open
  at,             \* thread -> where it is in ptr() and load()
  pointer,        \* thread -> the dictionary ptr() has given it
  wanted,         \* thread -> name it loads
  opened,         \* the threads with a handle that is not in a dictionary
  uses            \* name, file of the shared_library objects there are

libraryVars == <<m_instance, m_destroyed, m_libraries, refs, at, pointer,
                 wanted, opened, uses>>

File == {Files[n] : n \in LibraryName}

LibrariesInit ==
  /\ m_instance = NoObject /\ m_destroyed = FALSE
  /\ m_libraries = [t \in Thread |-> {}]
  /\ refs = [f \in File |-> 0]
  /\ at = [t \in Thread |-> "idle"] /\ opened = {}
  /\ pointer = [t \in Thread |-> NoObject]
  /\ wanted = [t \in Thread |-> NoObject] /\ uses = {}

Proceed(t, from, to) == at[t] = from /\ at' = [at EXCEPT ![t] = to]

\* shared_library(), with a canonical path or a name for the search path.
Construct(t, n) ==
  /\ Proceed(t, "idle", "ptr")
  /\ wanted' = [wanted EXCEPT ![t] = n]
  /\ UNCHANGED <<m_instance, m_destroyed, m_libraries, refs, pointer, opened,
                 uses>>

\* singleton::ptr(), before get() and again before try_put(): the instance,
HasInstance(t) ==
  /\ m_instance # NoObject
  /\ Proceed(t, "ptr", "call")
  /\ pointer' = [pointer EXCEPT ![t] = m_instance]
  /\ UNCHANGED <<m_instance, m_destroyed, m_libraries, refs, wanted, opened,
                 uses>>

\* or a new one, or a null pointer that load() does not expect.
NoInstance(t) ==
  /\ m_instance = NoObject
  /\ Proceed(t, "ptr", IF m_destroyed THEN "crashed" ELSE "exchange")
  /\ UNCHANGED <<m_instance, m_destroyed, m_libraries, refs, pointer, wanted,
                 opened, uses>>

\* Mutant: a store in the place of the exchange.
ExchangeStores(t) ==
  /\ Proceed(t, "exchange", "call")
  /\ m_instance' = t
  /\ pointer' = [pointer EXCEPT ![t] = t]
  /\ UNCHANGED <<m_destroyed, m_libraries, refs, wanted, opened, uses>>

\* compare_exchange_strong(): the dictionary of the loser is deleted.
Exchange(t) ==
  /\ IF m_instance = NoObject
     THEN /\ Proceed(t, "exchange", "call")
          /\ m_instance' = t /\ pointer' = [pointer EXCEPT ![t] = t]
     ELSE Proceed(t, "exchange", "ptr") /\ UNCHANGED <<m_instance, pointer>>
  /\ UNCHANGED <<m_destroyed, m_libraries, refs, wanted, opened, uses>>

Name(t) == wanted[t]
Has(t) == Name(t) \in m_libraries[pointer[t]]
Use(t) == uses' = uses \cup {<<wanted[t], Files[wanted[t]]>>}

\* load(): get() under the lock, nil if the name is not there.
Get(t) ==
  /\ t \notin opened
  /\ Proceed(t, "call", IF Has(t) THEN "idle" ELSE "open")
  /\ IF Has(t) THEN Use(t) ELSE UNCHANGED uses
  /\ UNCHANGED <<m_instance, m_destroyed, m_libraries, refs, pointer, wanted,
                 opened>>

Open(t) ==
  /\ Proceed(t, "open", "ptr")
  /\ refs' = [refs EXCEPT ![Files[Name(t)]] = @ + 1]
  /\ opened' = opened \cup {t}
  /\ UNCHANGED <<m_instance, m_destroyed, m_libraries, pointer, wanted, uses>>

\* The library cannot be loaded: the constructor throws.
OpenFails(t) ==
  /\ Proceed(t, "open", "idle")
  /\ UNCHANGED <<m_instance, m_destroyed, m_libraries, refs, pointer, wanted,
                 opened, uses>>

\* Mutant: the second handle is kept open.
TryPutKeepsOpen(t) ==
  /\ t \in opened
  /\ Proceed(t, "call", "idle")
  /\ opened' = opened \ {t}
  /\ m_libraries' = [m_libraries EXCEPT ![pointer[t]] = @ \cup {Name(t)}]
  /\ Use(t)
  /\ UNCHANGED <<m_instance, m_destroyed, refs, pointer, wanted>>

\* try_put() under the lock: a name that is there meanwhile closes the handle.
TryPut(t) ==
  /\ t \in opened
  /\ Proceed(t, "call", "idle")
  /\ opened' = opened \ {t}
  /\ m_libraries' = [m_libraries EXCEPT ![pointer[t]] = @ \cup {Name(t)}]
  /\ refs' = IF Has(t) THEN [refs EXCEPT ![Files[Name(t)]] = @ - 1] ELSE refs
  /\ Use(t)
  /\ UNCHANGED <<m_instance, m_destroyed, pointer, wanted>>

\* module::unload_all(): the objects go, no destructor closes a library.
UnloadAll ==
  /\ uses # {}
  /\ uses' = {}
  /\ UNCHANGED <<m_instance, m_destroyed, m_libraries, refs, at, pointer,
                 wanted, opened>>

\* The static destructor; the dictionary is not deleted.
DestroySingleton ==
  /\ ~m_destroyed
  /\ m_destroyed' = TRUE /\ m_instance' = NoObject
  /\ UNCHANGED <<m_libraries, refs, at, pointer, wanted, opened, uses>>

LibrariesNext ==
  \/ \E t \in Thread :
       \/ \E n \in LibraryName : Construct(t, n)
       \/ HasInstance(t) \/ NoInstance(t) \/ Exchange(t)
       \/ Get(t) \/ Open(t) \/ OpenFails(t) \/ TryPut(t)
  \/ UnloadAll \/ DestroySingleton

LibrariesSpec == LibrariesInit /\ [][LibrariesNext]_libraryVars

------------------------------------------------------------------------------
(* Properties.                                                             *)

\* How often file f should be open: once for each name of it in a dictionary
\* that is or was in use, and once for each thread about to put it there.
Owed(f) ==
  Cardinality({e \in Thread \X LibraryName :
                 e[2] \in m_libraries[e[1]] /\ Files[e[2]] = f})
    + Cardinality({t \in opened : Files[Name(t)] = f})

\* No handle is lost and none is closed too often, whichever threads load the
\* same library, under one name or two, and fail; every object's is open.
HandlesBalanced ==
  /\ \A f \in File : refs[f] = Owed(f)
  /\ \A u \in uses : refs[u[2]] > 0

\* A name is looked up in the one dictionary all threads share: a second one
\* is in use only after the first was destroyed.
OneDictionary ==
  ~m_destroyed =>
    Cardinality({t \in Thread : m_libraries[t] # {}} \cup
                ({m_instance} \ {NoObject})) <= 1

\* A library is loaded once and stays loaded, whoever loads it, by which name
\* and how often, until the program ends.
LoadedOnce == HandlesBalanced /\ OneDictionary
==============================================================================
