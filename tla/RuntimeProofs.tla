----------------------------- MODULE RuntimeProofs -----------------------------
(***************************************************************************)
(* For any number of threads and libraries, every handle is in the one     *)
(* dictionary or on its way there, or was closed.  Settings reach the      *)
(* parameters and outlive the process, in any order of events.  However    *)
(* C++ and the collector of Lua take turns, an application is destroyed    *)
(* with its last owner, and the registry balances.                         *)
(***************************************************************************)
EXTENDS SharedLibraries, Configuration, LuaApplications, FiniteSetTheorems,
        TLAPS

------------------------------------------------------------------------------
(* Shared libraries.                                                       *)

\* Finitely many threads and names, and the null pointer is none of them.
Assumed ==
  IsFiniteSet(Thread) /\ IsFiniteSet(LibraryName) /\ NoObject \notin Thread

Place == {"idle", "ptr", "exchange", "call", "open", "crashed"}
Loading == Place \ {"idle"}

LibrariesTyped ==
  /\ m_instance \in Thread \cup {NoObject}
  /\ m_destroyed \in BOOLEAN
  /\ m_libraries \in [Thread -> SUBSET LibraryName]
  /\ refs \in [File -> Int]
  /\ at \in [Thread -> Place]
  /\ pointer \in [Thread -> Thread \cup {NoObject}]
  /\ wanted \in [Thread -> LibraryName \cup {NoObject}]
  /\ opened \subseteq Thread

\* Where a thread is tells what it has.
InPlace ==
  \A t \in Thread :
    /\ at[t] \in Loading => wanted[t] \in LibraryName
    /\ at[t] = "call" => pointer[t] \in Thread
    /\ at[t] \in {"idle", "open"} => t \notin opened

\* Until the end, only the dictionary of the instance is used.
Shared ==
  ~m_destroyed => \A t \in Thread :
    /\ m_libraries[t] # {} => m_instance = t
    /\ at[t] = "call" => pointer[t] = m_instance

Entries(f) ==
  {e \in Thread \X LibraryName : e[2] \in m_libraries[e[1]] /\ Files[e[2]] = f}
Waiting(f) == {t \in opened : Files[wanted[t]] = f}

LibrariesBalanced ==
  \A f \in File : refs[f] = Cardinality(Entries(f)) + Cardinality(Waiting(f))

\* Who uses a library found it, or put it, in a dictionary.
Used ==
  \A u \in uses : \E t \in Thread, n \in LibraryName :
    n \in m_libraries[t] /\ u[2] = Files[n]

LibInv == LibrariesTyped /\ InPlace /\ Shared /\ LibrariesBalanced /\ Used

------------------------------------------------------------------------------
(* Counting.                                                               *)

LEMMA Finite ==
  ASSUME Assumed, LibrariesTyped, NEW f
  PROVE  /\ IsFiniteSet(Entries(f)) /\ Cardinality(Entries(f)) \in Nat
         /\ IsFiniteSet(Waiting(f)) /\ Cardinality(Waiting(f)) \in Nat
<1>1. IsFiniteSet(Thread \X LibraryName)
  BY FS_Product DEF Assumed
<1>2. Entries(f) \in SUBSET (Thread \X LibraryName)
  BY DEF Entries
<1>3. Waiting(f) \in SUBSET Thread
  BY DEF LibrariesTyped, Waiting
<1>4. IsFiniteSet(Entries(f)) /\ IsFiniteSet(Waiting(f))
  BY <1>1, <1>2, <1>3, FS_Subset DEF Assumed
<1> QED
  BY <1>4, FS_CardinalityType

\* No entry and no handle comes or goes.
LEMMA SameCounts ==
  ASSUME LibInv, NEW t \in Thread, t \notin opened,
         UNCHANGED <<m_libraries, refs, opened>>,
         \A s \in Thread \ {t} : wanted'[s] = wanted[s]
  PROVE  LibrariesBalanced'
<1>1. ASSUME NEW f \in File
      PROVE  Entries(f)' = Entries(f) /\ Waiting(f)' = Waiting(f)
  BY DEF LibInv, LibrariesTyped, Entries, Waiting
<1> QED
  BY <1>1 DEF LibInv, LibrariesBalanced

LEMMA SameCountsAll ==
  ASSUME LibInv, UNCHANGED <<m_libraries, refs, opened, wanted>>
  PROVE  LibrariesBalanced'
  BY DEF LibInv, LibrariesBalanced, Entries, Waiting

LEMMA OpenCounts ==
  ASSUME Assumed, LibInv, NEW t \in Thread, Open(t)
  PROVE  LibrariesBalanced'
<1>1. /\ t \notin opened /\ wanted[t] \in LibraryName
      /\ opened' = opened \cup {t} /\ UNCHANGED <<m_libraries, wanted>>
      /\ refs' = [refs EXCEPT ![Files[wanted[t]]] = @ + 1]
  BY DEF Open, Proceed, Name, LibInv, LibrariesTyped, InPlace, Loading, Place
<1>2. SUFFICES ASSUME NEW f \in File
               PROVE  refs'[f] = Cardinality(Entries(f)')
                                 + Cardinality(Waiting(f)')
  BY DEF LibrariesBalanced
<1>3. Entries(f)' = Entries(f)
  BY <1>1 DEF Entries
<1>4. refs[f] = Cardinality(Entries(f)) + Cardinality(Waiting(f))
  BY DEF LibInv, LibrariesBalanced
<1>5. CASE Files[wanted[t]] = f
  <2>1. Waiting(f)' = Waiting(f) \cup {t} /\ t \notin Waiting(f)
    BY <1>1, <1>5 DEF Waiting
  <2>2. Cardinality(Waiting(f)') = Cardinality(Waiting(f)) + 1
    BY <2>1, Finite, FS_AddElement DEF LibInv
  <2>3. refs'[f] = refs[f] + 1
    BY <1>1, <1>5 DEF LibInv, LibrariesTyped
  <2> QED
    BY <1>3, <1>4, <2>2, <2>3, Finite DEF LibInv
<1>6. CASE Files[wanted[t]] # f
  <2>1. Waiting(f)' = Waiting(f)
    BY <1>1, <1>6 DEF Waiting
  <2>2. refs'[f] = refs[f]
    BY <1>1, <1>6 DEF LibInv, LibrariesTyped
  <2> QED
    BY <1>3, <1>4, <2>1, <2>2
<1> QED
  BY <1>5, <1>6

LEMMA PutCounts ==
  ASSUME Assumed, LibInv, NEW t \in Thread, TryPut(t)
  PROVE  LibrariesBalanced'
<1> DEFINE p == pointer[t]  n == wanted[t]
<1>1. /\ t \in opened /\ n \in LibraryName /\ p \in Thread
      /\ opened' = opened \ {t} /\ wanted' = wanted
      /\ m_libraries' = [m_libraries EXCEPT ![p] = @ \cup {n}]
      /\ refs' = IF n \in m_libraries[p]
                   THEN [refs EXCEPT ![Files[n]] = @ - 1] ELSE refs
  BY DEF TryPut, Proceed, Name, Has, LibInv, LibrariesTyped, InPlace, Loading, Place
<1> HIDE DEF p, n
<1>2. SUFFICES ASSUME NEW f \in File
               PROVE  refs'[f] = Cardinality(Entries(f)')
                                 + Cardinality(Waiting(f)')
  BY DEF LibrariesBalanced
<1>3. refs[f] = Cardinality(Entries(f)) + Cardinality(Waiting(f))
  BY DEF LibInv, LibrariesBalanced
<1>4. wanted[t] = n
  BY DEF n
<1>5. CASE Files[n] # f
  <2>1. Waiting(f)' = Waiting(f)
    BY <1>1, <1>4, <1>5 DEF Waiting
  <2>2. Entries(f)' = Entries(f)
    BY <1>1, <1>5 DEF Entries, LibInv, LibrariesTyped
  <2>3. refs'[f] = refs[f]
    BY <1>1, <1>5 DEF LibInv, LibrariesTyped
  <2> QED
    BY <1>3, <2>1, <2>2, <2>3
<1>6. CASE Files[n] = f
  <2>1. Waiting(f)' = Waiting(f) \ {t} /\ t \in Waiting(f)
    BY <1>1, <1>4, <1>6 DEF Waiting
  <2>2. Cardinality(Waiting(f)') = Cardinality(Waiting(f)) - 1
    BY <2>1, Finite, FS_RemoveElement DEF LibInv
  <2>3. CASE n \in m_libraries[p]
    <3>1. Entries(f)' = Entries(f)
      BY <1>1, <2>3 DEF Entries, LibInv, LibrariesTyped
    <3>2. refs'[f] = refs[f] - 1
      BY <1>1, <1>6, <2>3 DEF LibInv, LibrariesTyped
    <3> QED
      BY <1>3, <2>2, <3>1, <3>2, Finite DEF LibInv
  <2>4. CASE n \notin m_libraries[p]
    <3>1. Entries(f)' = Entries(f) \cup {<<p, n>>} /\ <<p, n>> \notin Entries(f)
      BY <1>1, <1>6, <2>4 DEF Entries, LibInv, LibrariesTyped
    <3>2. Cardinality(Entries(f)') = Cardinality(Entries(f)) + 1
      BY <3>1, Finite, FS_AddElement DEF LibInv
    <3>3. refs'[f] = refs[f]
      BY <1>1, <2>4
    <3> QED
      BY <1>3, <2>2, <3>2, <3>3, Finite DEF LibInv
  <2> QED
    BY <2>3, <2>4
<1> QED
  BY <1>5, <1>6

------------------------------------------------------------------------------
(* The invariant.                                                          *)

LEMMA LibrariesInitially ==
  ASSUME Assumed, LibrariesInit
  PROVE  LibInv
<1>1. m_destroyed \in BOOLEAN /\ opened \subseteq Thread
  BY Zenon DEF LibrariesInit
<1>2. refs \in [File -> Int]
  BY DEF LibrariesInit
<1>3. LibrariesTyped
  BY <1>1, <1>2 DEF LibrariesInit, LibrariesTyped, Place
<1>4. InPlace /\ Shared /\ Used
  BY DEF LibrariesInit, InPlace, Shared, Used, Loading, Place
<1>5. ASSUME NEW f \in File
      PROVE  refs[f] = Cardinality(Entries(f)) + Cardinality(Waiting(f))
  <2>1. Entries(f) = {} /\ Waiting(f) = {} /\ refs[f] = 0
    BY <1>5 DEF LibrariesInit, Entries, Waiting
  <2> QED
    BY <2>1, FS_EmptySet
<1> QED
  BY <1>3, <1>4, <1>5 DEF LibInv, LibrariesBalanced

\* A step of thread t that touches neither dictionaries nor handles.
LEMMA MovesOn ==
  ASSUME LibInv, NEW t \in Thread, NEW from \in Place, NEW to \in Place,
         Proceed(t, from, to),
         UNCHANGED <<m_libraries, refs, opened, m_destroyed, wanted, uses>>,
         to \in {"idle", "open"} => t \notin opened,
         from \in Loading \/ to = "idle",
         \/ to # "call" /\ UNCHANGED <<m_instance, pointer>>
         \/ /\ pointer' = [pointer EXCEPT ![t] = m_instance']
            /\ m_instance' \in Thread
            /\ m_instance = NoObject \/ UNCHANGED m_instance,
         NoObject \notin Thread
  PROVE  LibInv'
<1>1. at[t] = from /\ at' = [at EXCEPT ![t] = to]
  BY DEF Proceed
<1>2. LibrariesTyped'
  BY <1>1 DEF LibInv, LibrariesTyped
<1>3. InPlace'
  BY <1>1 DEF LibInv, LibrariesTyped, InPlace, Loading
<1>4. Shared'
  BY <1>1 DEF LibInv, LibrariesTyped, InPlace, Shared
<1>5. LibrariesBalanced'
  BY SameCountsAll
<1>6. Used'
  BY DEF LibInv, Used
<1> QED
  BY <1>2, <1>3, <1>4, <1>5, <1>6 DEF LibInv

LEMMA LibrariesNextKeeps ==
  ASSUME Assumed, LibInv, [LibrariesNext]_libraryVars
  PROVE  LibInv'
<1>0. NoObject \notin Thread
  BY DEF Assumed
<1>1. ASSUME NEW t \in Thread, NEW n \in LibraryName, Construct(t, n)
      PROVE  LibInv'
  <2>1. /\ at[t] = "idle" /\ at' = [at EXCEPT ![t] = "ptr"] /\ t \notin opened
        /\ wanted' = [wanted EXCEPT ![t] = n]
        /\ UNCHANGED <<m_instance, m_destroyed, m_libraries, refs, pointer,
                       opened, uses>>
    BY <1>1 DEF Construct, Proceed, LibInv, InPlace
  <2>2. LibrariesTyped' /\ InPlace'
    BY <2>1 DEF LibInv, LibrariesTyped, InPlace, Loading, Place
  <2>3. Shared' /\ Used'
    BY <2>1 DEF LibInv, LibrariesTyped, Shared, Used
  <2>4. LibrariesBalanced'
    BY <2>1, SameCounts DEF LibInv, LibrariesTyped
  <2> QED
    BY <2>2, <2>3, <2>4 DEF LibInv
<1>2. ASSUME NEW t \in Thread, HasInstance(t) PROVE LibInv'
  <2>1. m_instance \in Thread
    BY <1>2 DEF HasInstance, LibInv, LibrariesTyped
  <2> QED
    BY <1>0, <1>2, <2>1, MovesOn DEF HasInstance, Loading, Place
<1>3. ASSUME NEW t \in Thread, NoInstance(t) PROVE LibInv'
  BY <1>0, <1>3, MovesOn DEF NoInstance, Loading, Place
<1>4. ASSUME NEW t \in Thread, Exchange(t) PROVE LibInv'
  <2>1. CASE m_instance = NoObject
    BY <1>0, <1>4, <2>1, MovesOn DEF Exchange, Loading, Place
  <2>2. CASE m_instance # NoObject
    BY <1>0, <1>4, <2>2, MovesOn DEF Exchange, Loading, Place
  <2> QED
    BY <2>1, <2>2
<1>5. ASSUME NEW t \in Thread, Get(t) PROVE LibInv'
  <2>1. CASE Has(t)
    <3>1. /\ t \notin opened
          /\ at[t] = "call" /\ at' = [at EXCEPT ![t] = "idle"]
          /\ uses' = uses \cup {<<wanted[t], Files[wanted[t]]>>}
          /\ wanted[t] \in m_libraries[pointer[t]]
          /\ UNCHANGED <<m_instance, m_destroyed, m_libraries, refs, pointer,
                         wanted, opened>>
      BY <1>5, <2>1 DEF Get, Proceed, Has, Name, Use
    <3>2. pointer[t] \in Thread /\ wanted[t] \in LibraryName
      BY <3>1 DEF LibInv, LibrariesTyped, InPlace, Loading, Place
    <3>3. LibrariesTyped' /\ InPlace' /\ Shared'
      BY <3>1 DEF LibInv, LibrariesTyped, InPlace, Shared, Loading, Place
    <3>4. Used'
      BY <3>1, <3>2 DEF LibInv, Used
    <3>5. LibrariesBalanced'
      BY <3>1, SameCountsAll
    <3> QED
      BY <3>3, <3>4, <3>5 DEF LibInv
  <2>2. CASE ~Has(t)
    BY <1>0, <1>5, <2>2, MovesOn DEF Get, Loading, Place
  <2> QED
    BY <2>1, <2>2
<1>6. ASSUME NEW t \in Thread, Open(t) PROVE LibInv'
  <2>1. /\ at[t] = "open" /\ at' = [at EXCEPT ![t] = "ptr"]
        /\ opened' = opened \cup {t}
        /\ refs' = [refs EXCEPT ![Files[wanted[t]]] = @ + 1]
        /\ wanted[t] \in LibraryName
        /\ UNCHANGED <<m_instance, m_destroyed, m_libraries, pointer, wanted,
                       uses>>
    BY <1>6 DEF Open, Proceed, Name, LibInv, InPlace, Loading, Place
  <2>2. LibrariesTyped' /\ InPlace' /\ Shared'
    BY <2>1 DEF LibInv, LibrariesTyped, InPlace, Shared, Loading, Place, File
  <2>3. Used'
    BY <2>1 DEF LibInv, Used
  <2>4. LibrariesBalanced'
    BY <1>6, OpenCounts
  <2> QED
    BY <2>2, <2>3, <2>4 DEF LibInv
<1>7. ASSUME NEW t \in Thread, OpenFails(t) PROVE LibInv'
  <2>1. t \notin opened
    BY <1>7 DEF OpenFails, Proceed, LibInv, InPlace
  <2> QED
    BY <1>0, <1>7, <2>1, MovesOn DEF OpenFails, Loading, Place
<1>8. ASSUME NEW t \in Thread, TryPut(t) PROVE LibInv'
  <2>1. /\ at[t] = "call" /\ at' = [at EXCEPT ![t] = "idle"]
        /\ opened' = opened \ {t}
        /\ m_libraries' = [m_libraries EXCEPT ![pointer[t]] =
                             @ \cup {wanted[t]}]
        /\ refs' = IF Has(t) THEN [refs EXCEPT ![Files[wanted[t]]] = @ - 1]
                             ELSE refs
        /\ uses' = uses \cup {<<wanted[t], Files[wanted[t]]>>}
        /\ UNCHANGED <<m_instance, m_destroyed, pointer, wanted>>
    BY <1>8 DEF TryPut, Proceed, Name, Use
  <2>2. pointer[t] \in Thread /\ wanted[t] \in LibraryName
    BY <2>1 DEF LibInv, InPlace, Loading, Place
  <2>3. LibrariesTyped'
    BY <2>1, <2>2 DEF LibInv, LibrariesTyped, Place, File
  <2>4. InPlace'
    BY <2>1 DEF LibInv, LibrariesTyped, InPlace, Loading, Place
  <2>5. Shared'
    BY <2>1, <2>2 DEF LibInv, LibrariesTyped, Shared
  <2>6. Used'
    BY <2>1, <2>2 DEF LibInv, LibrariesTyped, Used
  <2>7. LibrariesBalanced'
    BY <1>8, PutCounts
  <2> QED
    BY <2>3, <2>4, <2>5, <2>6, <2>7 DEF LibInv
<1>9. CASE UnloadAll
  <2>1. LibrariesBalanced'
    BY <1>9, SameCountsAll DEF UnloadAll
  <2> QED
    BY <1>9, <2>1 DEF UnloadAll, LibInv, LibrariesTyped, InPlace, Shared, Used
<1>10. CASE DestroySingleton
  <2>1. LibrariesBalanced'
    BY <1>10, SameCountsAll DEF DestroySingleton
  <2>2. m_destroyed' = TRUE
    BY <1>10 DEF DestroySingleton
  <2>3. LibrariesTyped' /\ Shared'
    BY <1>10, <2>2 DEF DestroySingleton, LibInv, LibrariesTyped, Shared
  <2>4. InPlace' /\ Used'
    BY <1>10 DEF DestroySingleton, LibInv, InPlace, Used
  <2> QED
    BY <2>1, <2>3, <2>4 DEF LibInv
<1>11. CASE UNCHANGED libraryVars
  <2>1. LibrariesBalanced'
    BY <1>11, SameCountsAll DEF libraryVars
  <2> QED
    BY <1>11, <2>1 DEF libraryVars, LibInv, LibrariesTyped, InPlace, Shared, Used
<1> QED
  BY <1>1, <1>2, <1>3, <1>4, <1>5, <1>6, <1>7, <1>8, <1>9, <1>10, <1>11
     DEF LibrariesNext

LEMMA Implied ==
  ASSUME Assumed, LibInv
  PROVE  LoadedOnce
<1>1. ASSUME NEW f \in File PROVE refs[f] = Owed(f)
  BY DEF LibInv, LibrariesBalanced, Entries, Waiting, Owed, Name
<1>2. ASSUME NEW u \in uses PROVE refs[u[2]] > 0
  <2>1. PICK t \in Thread, n \in LibraryName :
               n \in m_libraries[t] /\ u[2] = Files[n]
    BY <1>2 DEF LibInv, Used
  <2>2. <<t, n>> \in Entries(u[2]) /\ u[2] \in File
    BY <2>1 DEF Entries, File
  <2>3. Cardinality(Entries(u[2])) # 0
    BY <2>2, Finite, FS_EmptySet DEF LibInv
  <2> QED
    BY <2>2, <2>3, Finite DEF LibInv, LibrariesBalanced
<1>3. OneDictionary
  <2>1. SUFFICES ASSUME ~m_destroyed
                 PROVE  Cardinality({t \in Thread : m_libraries[t] # {}} \cup
                                    ({m_instance} \ {NoObject})) <= 1
    BY DEF OneDictionary
  <2>2. {t \in Thread : m_libraries[t] # {}} \cup ({m_instance} \ {NoObject})
          \in SUBSET {m_instance}
    BY <2>1 DEF LibInv, Shared
  <2>3. IsFiniteSet({m_instance}) /\ Cardinality({m_instance}) = 1
    BY FS_Singleton
  <2> QED
    BY <2>2, <2>3, FS_Subset
<1> QED
  BY <1>1, <1>2, <1>3 DEF LoadedOnce, HandlesBalanced

\* No handle of a library is lost or closed twice, and all threads share one
\* dictionary until it is destroyed, however many threads load at once.
THEOREM Loaded ==
  ASSUME Assumed
  PROVE  LibrariesSpec => []LoadedOnce
<1>1. LibrariesInit => LibInv
  BY LibrariesInitially
<1>2. LibInv /\ [LibrariesNext]_libraryVars => LibInv'
  BY LibrariesNextKeeps
<1>3. LibInv => LoadedOnce
  BY Implied
<1> QED
  BY <1>1, <1>2, <1>3, PTL DEF LibrariesSpec

------------------------------------------------------------------------------
(* The configuration.                                                      *)

ConfigurationTyped ==
  /\ registered \subseteq Parameter
  /\ value \in [Parameter -> Values \cup {"unset"}]
  /\ m_raw_settings \in [Parameter -> Setting]
  /\ m_loaded \in BOOLEAN /\ m_update_needed \in BOOLEAN /\ alive \in BOOLEAN
  /\ files \in [{"config", ".", "named"} ->
                 {NoFile, Broken} \cup [Parameter -> Setting]]

\* A parameter takes its value with it.
Forgotten ==
  \A p \in Parameter \ registered : value[p] = "unset" /\ p \notin changed

\* What a parameter got that the program left alone: nothing without a key,
Untouched ==
  alive => \A p \in registered \ changed :
               m_raw_settings[p] = "absent" => value[p] = "unset"

\* and its setting, but for those that came after the last fetch.
Settled ==
  alive /\ m_loaded => \A p \in registered \ (changed \cup late) :
    /\ m_raw_settings[p] \in Values => value[p] = m_raw_settings[p]
    /\ m_raw_settings[p] = "null" => value[p] = "unset"

\* A registration since the last fetch leaves a mark; there are no settings
\* before the file is read.
Marked ==
  /\ ~m_update_needed => late = {}
  /\ alive /\ ~m_loaded => m_raw_settings = NewProcess.raw

ConfigInv == ConfigurationTyped /\ Forgotten /\ Untouched /\ Settled /\ Marked

------------------------------------------------------------------------------
(* The settings reach the parameters.                                      *)

LEMMA ConfigurationInitially ==
  ASSUME ConfigurationInit
  PROVE  ConfigInv
<1>1. /\ value \in [Parameter -> Values \cup {"unset"}]
      /\ m_raw_settings \in [Parameter -> Setting]
  BY DEF ConfigurationInit, NewProcess, Setting
<1>2. registered \subseteq Parameter /\ m_loaded \in BOOLEAN
      /\ m_update_needed \in BOOLEAN /\ alive \in BOOLEAN
  BY Zenon DEF ConfigurationInit
<1>3. files \in [{"config", ".", "named"} ->
                    {NoFile, Broken} \cup [Parameter -> Setting]]
  <2>1. PICK others \in {NoFile, [p \in Parameter |-> "b"]},
             inDot \in {NoFile, Broken} \cup [Parameter -> Setting] :
          files = [l \in {"config", ".", "named"} |->
                     IF l = "." THEN inDot ELSE others]
    BY DEF ConfigurationInit
  <2>2. [p \in Parameter |-> "b"] \in [Parameter -> Setting]
    BY DEF Setting, Values
  <2> QED
    BY <2>1, <2>2
<1>4. ConfigurationTyped
  BY <1>1, <1>2, <1>3 DEF ConfigurationTyped
<1>5. Forgotten /\ Untouched /\ Settled /\ Marked
  BY DEF ConfigurationInit, Forgotten, Untouched, Settled, Marked, NewProcess
<1> QED
  BY <1>4, <1>5 DEF ConfigInv

\* A fetch that refuses nothing gives each of ps its setting.
LEMMA FetchGives ==
  ASSUME NEW raw \in [Parameter -> Setting], NEW ps \in SUBSET Parameter,
         value \in [Parameter -> Values \cup {"unset"}], Fetch(raw, ps)
  PROVE  /\ value' \in [Parameter -> Values \cup {"unset"}]
         /\ alive' \in BOOLEAN
         /\ \A p \in Parameter \ ps :
              value'[p] = value[p] /\ (p \in changed' => p \in changed)
         /\ alive' => \A p \in Parameter :
              /\ p \notin ps \/ raw[p] = "absent" =>
                   value'[p] = value[p] /\ (p \in changed' <=> p \in changed)
              /\ p \in ps /\ raw[p] # "absent" => p \notin changed'
              /\ p \in ps /\ raw[p] = "null" => value'[p] = "unset"
              /\ p \in ps /\ raw[p] \in Values => value'[p] = raw[p]
<1>1. Reached(raw, ps) \subseteq ps
  BY DEF Reached
<1>2. value' \in [Parameter -> Values \cup {"unset"}]
  <2>1. ASSUME NEW p \in Parameter, p \in Reached(raw, ps),
               raw[p] # "absent", raw[p] # "null"
        PROVE  raw[p] \in Values
    BY <1>1, <2>1 DEF Reached, Refused, Setting, Parameter
  <2> QED
    BY <2>1 DEF Fetch
<1>3. alive' \in BOOLEAN
  BY Zenon DEF Fetch
<1>4. ASSUME alive', NEW p \in Parameter
      PROVE  /\ p \notin ps \/ raw[p] = "absent" =>
                  value'[p] = value[p] /\ (p \in changed' <=> p \in changed)
             /\ p \in ps /\ raw[p] # "absent" => p \notin changed'
             /\ p \in ps /\ raw[p] = "null" => value'[p] = "unset"
             /\ p \in ps /\ raw[p] \in Values => value'[p] = raw[p]
  <2>1. Refused(raw, ps) = {}
    BY <1>4 DEF Fetch
  <2>2. Reached(raw, ps) = ps
    BY <2>1 DEF Reached
  <2>3. value'[p] = IF p \notin ps \/ raw[p] = "absent" THEN value[p]
                    ELSE IF raw[p] = "null" THEN "unset" ELSE raw[p]
    BY <2>2 DEF Fetch
  <2>4. p \in changed' <=> p \in changed /\ (p \notin ps \/ raw[p] = "absent")
    BY <2>2 DEF Fetch
  <2>5. raw[p] \in Values => raw[p] # "absent" /\ raw[p] # "null"
    BY DEF Values
  <2> QED
    BY <2>3, <2>4, <2>5
<1>5. \A p \in Parameter \ ps :
        value'[p] = value[p] /\ (p \in changed' => p \in changed)
  BY <1>1 DEF Fetch
<1> QED
  BY <1>2, <1>3, <1>4, <1>5

LEMMA LoadKeeps ==
  ASSUME ConfigInv, NEW named \in BOOLEAN, Load(named)
  PROVE  ConfigInv'
<1> DEFINE file == files[FileOf(named)]
<1>1. file \in {NoFile, Broken} \cup [Parameter -> Setting]
  <2>1. FileOf(named) \in {"config", ".", "named"}
    BY DEF FileOf
  <2> QED
    BY <2>1 DEF ConfigInv, ConfigurationTyped
<1> HIDE DEF file
<1>2. CASE file = Broken /\ LoadFails
  <2>1. /\ alive' = FALSE
        /\ UNCHANGED <<registered, value, m_raw_settings, m_loaded,
                       m_update_needed, files, changed, late, kept>>
    BY <1>2 DEF LoadFails
  <2> QED
    BY <2>1 DEF ConfigInv, ConfigurationTyped, Forgotten, Untouched, Settled,
       Marked
<1>3. CASE /\ file # Broken /\ Fetch(m_raw_settings', registered)
           /\ m_raw_settings' = IF file = NoFile THEN m_raw_settings ELSE file
           /\ m_loaded' = (Refused(m_raw_settings', registered) = {})
           /\ late' = {} /\ UNCHANGED <<registered, m_update_needed, files, kept>>
  <2>1. /\ m_raw_settings' \in [Parameter -> Setting]
        /\ alive' = (Refused(m_raw_settings', registered) = {})
    BY <1>1, <1>3 DEF Fetch, ConfigInv, ConfigurationTyped
  <2>2. /\ value' \in [Parameter -> Values \cup {"unset"}] /\ alive' \in BOOLEAN
        /\ \A p \in Parameter \ registered :
             value'[p] = value[p] /\ (p \in changed' => p \in changed)
        /\ alive' => \A p \in registered \ changed' :
             /\ m_raw_settings'[p] = "absent" =>
                  value'[p] = value[p] /\ p \notin changed
             /\ m_raw_settings'[p] \in Values => value'[p] = m_raw_settings'[p]
             /\ m_raw_settings'[p] = "null" => value'[p] = "unset"
    BY <1>3, <2>1, FetchGives DEF ConfigInv, ConfigurationTyped
  <2>3. \A p \in registered \ changed : value[p] = "unset"
    BY DEF Load, ConfigInv, ConfigurationTyped, Untouched, Marked, NewProcess
  <2>4. m_loaded' \in BOOLEAN
    BY <1>3, Zenon
  <2>5. ConfigurationTyped'
    BY <1>3, <2>1, <2>2, <2>4 DEF ConfigInv, ConfigurationTyped
  <2>6. Forgotten' /\ Untouched' /\ Settled'
    BY <1>3, <2>2, <2>3 DEF ConfigInv, Forgotten, Untouched, Settled
  <2>7. Marked'
    BY <1>3, <2>1 DEF ConfigInv, Marked
  <2> QED
    BY <2>5, <2>6, <2>7 DEF ConfigInv
<1> QED
  BY <1>2, <1>3 DEF Load, file

\* All are fetched, with the settings there are or after one was set.
LEMMA FetchAllKeeps ==
  ASSUME ConfigInv, alive, m_loaded, NEW raw \in [Parameter -> Setting],
         \A p \in registered : raw[p] = "absent" => m_raw_settings[p] = "absent",
         Fetch(raw, registered), m_raw_settings' = raw,
         m_update_needed' \in BOOLEAN, late' = {},
         UNCHANGED <<registered, m_loaded, files>>
  PROVE  ConfigInv'
<1>1. /\ value' \in [Parameter -> Values \cup {"unset"}] /\ alive' \in BOOLEAN
      /\ \A p \in Parameter \ registered :
           value'[p] = value[p] /\ (p \in changed' => p \in changed)
      /\ alive' => \A p \in registered \ changed' :
           /\ raw[p] = "absent" => value'[p] = value[p] /\ p \notin changed
           /\ raw[p] \in Values => value'[p] = raw[p]
           /\ raw[p] = "null" => value'[p] = "unset"
  BY FetchGives DEF ConfigInv, ConfigurationTyped
<1>2. \A p \in registered \ changed : raw[p] = "absent" => value[p] = "unset"
  BY DEF ConfigInv, Untouched
<1>3. ConfigurationTyped'
  BY <1>1 DEF ConfigInv, ConfigurationTyped
<1>4. Forgotten' /\ Untouched' /\ Settled'
  BY <1>1, <1>2 DEF ConfigInv, Forgotten, Untouched, Settled
<1>5. Marked'
  BY DEF Marked
<1> QED
  BY <1>3, <1>4, <1>5 DEF ConfigInv

LEMMA FindKeeps ==
  ASSUME ConfigInv, Find
  PROVE  ConfigInv'
<1>1. m_update_needed' \in BOOLEAN
  BY Zenon DEF Find
<1> QED
  BY <1>1, FetchAllKeeps DEF Find, UpdateDue, ConfigInv, ConfigurationTyped

LEMMA SetRawKeeps ==
  ASSUME ConfigInv, NEW p \in Parameter, NEW s \in Setting \ {"absent"},
         SetRaw(p, s)
  PROVE  ConfigInv'
<1> DEFINE raw == [m_raw_settings EXCEPT ![p] = s]
<1>1. /\ alive /\ m_loaded /\ m_raw_settings' = raw
      /\ raw \in [Parameter -> Setting]
      /\ raw[p] = s /\ \A q \in Parameter \ {p} : raw[q] = m_raw_settings[q]
      /\ UNCHANGED <<registered, m_loaded, files>>
  BY DEF SetRaw, ConfigInv, ConfigurationTyped
<1>2. CASE UpdateDue
  <2>1. Fetch(raw, registered) /\ late' = {}
    BY <1>2 DEF SetRaw
  <2>2. m_update_needed' \in BOOLEAN
    BY <1>2, Zenon DEF SetRaw
  <2>3. \A q \in registered : raw[q] = "absent" => m_raw_settings[q] = "absent"
    BY <1>1 DEF ConfigInv, ConfigurationTyped
  <2> HIDE DEF raw
  <2> QED
    BY <1>1, <2>1, <2>2, <2>3, FetchAllKeeps
<1>3. CASE ~UpdateDue
  <2>1. /\ Fetch(raw, registered \cap {p}) /\ late' = late /\ late = {}
        /\ m_update_needed = FALSE /\ m_update_needed' = FALSE
    BY <1>1, <1>3 DEF SetRaw, UpdateDue, ConfigInv, ConfigurationTyped, Marked
  <2> HIDE DEF raw
  <2>2. registered \cap {p} \in SUBSET Parameter
    BY DEF ConfigInv, ConfigurationTyped
  <2>3. /\ value' \in [Parameter -> Values \cup {"unset"}] /\ alive' \in BOOLEAN
        /\ \A q \in Parameter \ registered :
             value'[q] = value[q] /\ (q \in changed' => q \in changed)
        /\ alive' => \A q \in Parameter :
             /\ q # p => value'[q] = value[q] /\ (q \in changed' <=> q \in changed)
             /\ q = p /\ q \in registered /\ raw[q] = "null" => value'[q] = "unset"
             /\ q = p /\ q \in registered /\ raw[q] \in Values => value'[q] = raw[q]
    BY <1>1, <2>1, <2>2, FetchGives DEF ConfigInv, ConfigurationTyped
  <2>4. ConfigurationTyped'
    BY <1>1, <2>1, <2>3 DEF ConfigInv, ConfigurationTyped
  <2>5. Untouched'
    BY <1>1, <2>3 DEF ConfigInv, ConfigurationTyped, Untouched
  <2>6. Settled'
    BY <1>1, <2>1, <2>3 DEF ConfigInv, ConfigurationTyped, Settled
  <2>7. Marked' /\ Forgotten'
    BY <1>1, <2>1, <2>3 DEF ConfigInv, Marked, Forgotten
  <2> QED
    BY <2>4, <2>5, <2>6, <2>7 DEF ConfigInv
<1> QED
  BY <1>2, <1>3

\* A parameter that has a value has it from its setting, or was changed.
LEMMA StoreKeeps ==
  ASSUME ConfigInv, StoreBegins
  PROVE  ConfigInv'
<1>1. /\ m_raw_settings' = [p \in Parameter |-> Written(p)]
      /\ files' = files \/ files' = [files EXCEPT !["."] = Broken]
      /\ UNCHANGED <<registered, value, m_loaded, m_update_needed, alive,
                     changed, late>>
      /\ m_loaded
  BY DEF StoreBegins
<1>2. \A p \in Parameter : Written(p) \in Setting
  BY DEF Written, Setting, ConfigInv, ConfigurationTyped
<1>3. \A p \in registered : Written(p) =
        IF value[p] = "unset" THEN m_raw_settings[p]
        ELSE IF p \notin HasDefault THEN value[p]
        ELSE IF m_raw_settings[p] = "absent" THEN "null" ELSE m_raw_settings[p]
  BY DEF Written
<1>4. \A p \in registered : m_raw_settings'[p] = Written(p)
  BY <1>1 DEF ConfigInv, ConfigurationTyped
<1>5. ConfigurationTyped'
  BY <1>1, <1>2 DEF ConfigInv, ConfigurationTyped
<1>6. \A p \in registered : value[p] \in Values \cup {"unset"}
  BY DEF ConfigInv, ConfigurationTyped
<1>7. Untouched'
  <2>1. ASSUME NEW p \in registered \ changed, alive,
               Written(p) = "absent"
        PROVE  value[p] = "unset"
    BY <1>3, <1>6, <2>1 DEF Values, ConfigInv, Untouched
  <2> QED
    BY <1>1, <1>4, <2>1 DEF Untouched
<1>8. Settled'
  <2>1. ASSUME NEW p \in registered \ (changed \cup late), alive
        PROVE  /\ Written(p) \in Values => value[p] = Written(p)
               /\ Written(p) = "null" => value[p] = "unset"
    <3>1. /\ m_raw_settings[p] = "absent" => value[p] = "unset"
          /\ m_raw_settings[p] \in Values => value[p] = m_raw_settings[p]
          /\ m_raw_settings[p] = "null" => value[p] = "unset"
      BY <1>1, <2>1 DEF ConfigInv, Untouched, Settled
    <3> QED
      BY <1>3, <1>6, <2>1, <3>1 DEF Values
  <2> QED
    BY <1>1, <1>4, <2>1 DEF Settled
<1>9. Marked' /\ Forgotten'
  BY <1>1 DEF ConfigInv, Marked, Forgotten
<1> QED
  BY <1>5, <1>7, <1>8, <1>9 DEF ConfigInv

LEMMA StoreEndKeeps ==
  ASSUME ConfigInv, StoreEnds
  PROVE  ConfigInv'
<1>1. /\ UNCHANGED <<registered, value, m_raw_settings, m_loaded,
                     m_update_needed, changed, late>>
      /\ alive /\ alive' \in BOOLEAN
      /\ files' = files \/ files' = [files EXCEPT !["."] = m_raw_settings]
  BY DEF StoreEnds
<1>2. files' \in [{"config", ".", "named"} ->
                     {NoFile, Broken} \cup [Parameter -> Setting]]
  BY <1>1 DEF ConfigInv, ConfigurationTyped
<1>3. ConfigurationTyped'
  BY <1>1, <1>2 DEF ConfigInv, ConfigurationTyped
<1>4. Forgotten' /\ Untouched' /\ Settled' /\ Marked'
  BY <1>1 DEF ConfigInv, Forgotten, Untouched, Settled, Marked
<1> QED
  BY <1>3, <1>4 DEF ConfigInv

LEMMA ConfigurationNextKeeps ==
  ASSUME ConfigInv, [ConfigurationNext]_configVars
  PROVE  ConfigInv'
<1>1. ASSUME NEW p \in Parameter, RegisterParameter(p) PROVE ConfigInv'
  <2>1. /\ registered' = registered \cup {p} /\ m_update_needed' = TRUE
        /\ late' = late \cup {p} /\ p \notin registered
        /\ UNCHANGED <<value, m_raw_settings, m_loaded, alive, files, changed,
                       kept>>
    BY <1>1 DEF RegisterParameter
  <2>2. ConfigurationTyped'
    BY <2>1 DEF ConfigInv, ConfigurationTyped
  <2>3. Forgotten' /\ Untouched' /\ Settled' /\ Marked'
    BY <2>1 DEF ConfigInv, ConfigurationTyped, Forgotten, Untouched, Settled,
       Marked
  <2> QED
    BY <2>2, <2>3 DEF ConfigInv
<1>2. ASSUME NEW p \in Parameter, UnregisterParameter(p) PROVE ConfigInv'
  <2>1. /\ registered' = registered \ {p} /\ value' = [value EXCEPT ![p] = "unset"]
        /\ changed' = changed \ {p} /\ late' = late \ {p}
        /\ UNCHANGED <<m_raw_settings, m_loaded, m_update_needed, alive, files,
                       kept>>
    BY <1>2 DEF UnregisterParameter
  <2>2. ConfigurationTyped'
    BY <2>1 DEF ConfigInv, ConfigurationTyped
  <2>3. Forgotten' /\ Untouched' /\ Settled' /\ Marked'
    BY <2>1 DEF ConfigInv, ConfigurationTyped, Forgotten, Untouched, Settled,
       Marked
  <2> QED
    BY <2>2, <2>3 DEF ConfigInv
<1>3. ASSUME NEW p \in Parameter, NEW v \in Values \cup {"unset"},
             ChangeValue(p, v)
      PROVE  ConfigInv'
  <2>1. /\ value' = [value EXCEPT ![p] = v] /\ changed' = changed \cup {p}
        /\ p \in registered
        /\ UNCHANGED <<registered, m_raw_settings, m_loaded, m_update_needed,
                       alive, files, late, kept>>
    BY <1>3 DEF ChangeValue
  <2>2. ConfigurationTyped'
    BY <2>1 DEF ConfigInv, ConfigurationTyped
  <2>3. Forgotten' /\ Untouched' /\ Settled' /\ Marked'
    BY <2>1 DEF ConfigInv, ConfigurationTyped, Forgotten, Untouched, Settled,
       Marked
  <2> QED
    BY <2>2, <2>3 DEF ConfigInv
<1>4. ASSUME NEW p \in Parameter, NEW s \in CommandLine, SetRaw(p, s)
      PROVE  ConfigInv'
  BY <1>4, SetRawKeeps, ProgramAssumption
<1>5. ASSUME NEW named \in BOOLEAN, Load(named) PROVE ConfigInv'
  BY <1>5, LoadKeeps
<1>6. CASE Find
  BY <1>6, FindKeeps
<1>7. CASE StoreBegins \/ StoreEnds
  BY <1>7, StoreKeeps, StoreEndKeeps
<1>8. CASE Restart
  <2>1. /\ registered' = {} /\ value' = NewProcess.value
        /\ m_raw_settings' = NewProcess.raw /\ m_loaded' = FALSE
        /\ m_update_needed' = TRUE /\ alive' = TRUE /\ late' = {}
        /\ changed' = {}
        /\ UNCHANGED <<files, kept>>
    BY <1>8 DEF Restart
  <2>2. /\ value' \in [Parameter -> Values \cup {"unset"}]
        /\ m_raw_settings' \in [Parameter -> Setting]
    BY <2>1 DEF NewProcess, Setting
  <2>3. ConfigurationTyped'
    BY <2>1, <2>2 DEF ConfigInv, ConfigurationTyped
  <2>4. Forgotten' /\ Untouched' /\ Settled' /\ Marked'
    BY <2>1 DEF Forgotten, Untouched, Settled, Marked, NewProcess
  <2> QED
    BY <2>3, <2>4 DEF ConfigInv
<1>9. CASE UNCHANGED configVars
  BY <1>9 DEF configVars, memoryVars, ConfigInv, ConfigurationTyped, Forgotten,
     Untouched, Settled, Marked, NewProcess
<1> QED
  BY <1>1, <1>2, <1>3, <1>4, <1>5, <1>6, <1>7, <1>8, <1>9, ProgramAssumption
  DEF ConfigurationNext

\* Whenever a parameter registers and whatever is set, stored and started
\* again, it has its setting after the next search.
THEOREM SettingsReach == ConfigurationSpec => []SettingsReachParameters
<1>1. ConfigurationInit => ConfigInv
  BY ConfigurationInitially
<1>2. ConfigInv /\ [ConfigurationNext]_configVars => ConfigInv'
  BY ConfigurationNextKeeps
<1>3. ConfigInv => SettingsReachParameters
  BY DEF ConfigInv, Settled, Marked, SettingsReachParameters, Fetched
<1> QED
  BY <1>1, <1>2, <1>3, PTL DEF ConfigurationSpec

------------------------------------------------------------------------------
(* What was stored is restored.                                            *)

\* What the last store() should preserve is in its file, and in the settings
\* of a process that has read it, but for those it changed.
Preserved ==
  \A p \in Parameter : kept[p] \in Values =>
    /\ files["."][p] = kept[p]
    /\ m_loaded /\ loadedFrom = "." /\ p \notin overridden =>
         m_raw_settings[p] = kept[p]

\* Between its two steps, store() has collected what it should preserve.
Collected ==
  storing => \A p \in Parameter :
    keeping[p] \in Values => m_raw_settings[p] = keeping[p]

LEMMA CollectedByNext ==
  ASSUME ConfigInv, Collected, [ConfigurationNext]_configVars
  PROVE  Collected'
<1>1. CASE StoreBegins /\ ~storing
  <2>1. /\ m_raw_settings' = [p \in Parameter |-> Written(p)]
        /\ storing' => keeping' = [p \in Parameter |-> Stored(p)]
    BY <1>1 DEF StoreBegins, storeVars
  <2>2. \A p \in Parameter : Stored(p) \in Values => Written(p) = Stored(p)
    BY DEF Stored, Written, Values
  <2> QED
    BY <2>1, <2>2 DEF Collected
<1>2. CASE UNCHANGED configVars
  BY <1>2 DEF configVars, memoryVars, storeVars, Collected
<1>3. CASE StoreEnds \/ Restart
  BY <1>3 DEF StoreEnds, Restart, Collected
<1>4. CASE ~storing /\ UNCHANGED storeVars
  BY <1>4 DEF storeVars, Collected
<1>5. ASSUME ~storing,
             \/ \E p \in Parameter :
                  \/ RegisterParameter(p) \/ UnregisterParameter(p)
                  \/ \E v \in ProgramValues \cup {"unset"} : ChangeValue(p, v)
                  \/ \E s \in CommandLine : SetRaw(p, s)
             \/ \E named \in BOOLEAN : Load(named)
             \/ Find
      PROVE  UNCHANGED storeVars
  BY <1>5 DEF RegisterParameter, UnregisterParameter, ChangeValue, SetRaw, Load,
     LoadFails, Find
<1> QED
  BY <1>1, <1>2, <1>3, <1>4, <1>5 DEF ConfigurationNext

LEMMA PreservedByLoad ==
  ASSUME ConfigInv, Preserved, NEW named \in BOOLEAN, Load(named)
  PROVE  Preserved'
<1>1. UNCHANGED <<files, kept, overridden>> /\ ~m_loaded
        /\ loadedFrom' = FileOf(named)
  BY DEF Load, LoadFails
<1>2. SUFFICES ASSUME NEW p \in Parameter, kept[p] \in Values,
                      m_loaded', loadedFrom' = "."
               PROVE  m_raw_settings'[p] = kept[p]
  BY <1>1 DEF Preserved
<1>3. files["."][p] = kept[p]
  BY <1>2 DEF Preserved
<1>4. files["."] # NoFile /\ files["."] # Broken
  BY <1>2, <1>3 DEF NoFile, Broken, Values
<1>5. m_raw_settings' = files["."]
  BY <1>1, <1>2, <1>4 DEF Load
<1> QED
  BY <1>3, <1>5

\* An emptied file keeps nothing; one that could not be opened keeps what it
\* had.
LEMMA PreservedByStore ==
  ASSUME ConfigInv, Preserved, StoreBegins
  PROVE  Preserved'
<1>1. /\ m_raw_settings' = [p \in Parameter |-> Written(p)]
      /\ UNCHANGED <<m_loaded, loadedFrom>>
  BY DEF StoreBegins
<1>2. CASE kept' = NothingKept
  BY <1>2 DEF NothingKept, Values, Preserved
<1>3. CASE /\ overridden' = overridden \cup
                {p \in Parameter : Written(p) # m_raw_settings[p]}
           /\ UNCHANGED <<files, kept>>
  <2>1. \A p \in Parameter \ overridden' :
          p \notin overridden /\ m_raw_settings'[p] = m_raw_settings[p]
    BY <1>1, <1>3
  <2> QED
    BY <1>1, <1>3, <2>1 DEF Preserved
<1> QED
  BY <1>2, <1>3 DEF StoreBegins

LEMMA PreservedByStoreEnds ==
  ASSUME ConfigInv, Preserved, Collected, StoreEnds
  PROVE  Preserved'
<1>1. UNCHANGED <<m_raw_settings, m_loaded, loadedFrom, registered, value>>
  BY DEF StoreEnds
<1>2. CASE UNCHANGED <<files, kept, overridden>>
  BY <1>1, <1>2 DEF Preserved
<1>3. CASE ~ UNCHANGED <<files, kept, overridden>>
  <2>1. files' = [files EXCEPT !["."] = m_raw_settings]
    BY <1>3 DEF StoreEnds
  <2>2. files'["."] = m_raw_settings
    BY <2>1 DEF ConfigInv, ConfigurationTyped
  <2>3. kept' = keeping /\ storing
    BY <1>3 DEF StoreEnds
  <2> QED
    BY <1>1, <2>2, <2>3 DEF Preserved, Collected
<1> QED
  BY <1>2, <1>3

LEMMA PreservedByNext ==
  ASSUME ConfigInv, Preserved, Collected, [ConfigurationNext]_configVars
  PROVE  Preserved'
<1>1. ASSUME NEW p \in Parameter, RegisterParameter(p) PROVE Preserved'
  BY <1>1 DEF RegisterParameter, Preserved
<1>2. ASSUME NEW p \in Parameter, UnregisterParameter(p) PROVE Preserved'
  BY <1>2 DEF UnregisterParameter, Preserved
<1>3. ASSUME NEW p \in Parameter, NEW v \in Values \cup {"unset"},
             ChangeValue(p, v)
      PROVE  Preserved'
  BY <1>3 DEF ChangeValue, Preserved
<1>4. ASSUME NEW p \in Parameter, NEW s \in CommandLine, SetRaw(p, s)
      PROVE  Preserved'
  <2>1. /\ m_raw_settings' = [m_raw_settings EXCEPT ![p] = s]
        /\ overridden' = overridden \cup {p}
        /\ UNCHANGED <<m_loaded, loadedFrom, files, kept>>
    BY <1>4 DEF SetRaw
  <2> QED
    BY <2>1 DEF ConfigInv, ConfigurationTyped, Preserved
<1>5. CASE Find
  BY <1>5 DEF Find, Preserved
<1>6. CASE Restart
  BY <1>6 DEF Restart, Preserved
<1>7. CASE UNCHANGED configVars
  BY <1>7 DEF configVars, memoryVars, Preserved
<1> QED
  BY <1>1, <1>2, <1>3, <1>4, <1>5, <1>6, <1>7, PreservedByLoad,
     PreservedByStore, PreservedByStoreEnds, ProgramAssumption
  DEF ConfigurationNext

\* After any number of starts and crashes outside of store(), a parameter
\* without a default has the value that was stored and the program did not
\* change, if the process reads the file that store() writes.
THEOREM Restored == ConfigurationSpec => []StoredIsRestored
<1>1. ConfigurationInit => ConfigInv /\ Preserved /\ Collected
  BY ConfigurationInitially
  DEF ConfigurationInit, Preserved, Collected, NothingKept, Values
<1>2. ConfigInv /\ Preserved /\ Collected /\ [ConfigurationNext]_configVars
        => ConfigInv' /\ Preserved' /\ Collected'
  BY ConfigurationNextKeeps, PreservedByNext, CollectedByNext
<1>3. ConfigInv /\ Preserved => StoredIsRestored
  BY DEF ConfigInv, ConfigurationTyped, Settled, Marked, Preserved,
     StoredIsRestored, Fetched
<1> QED
  BY <1>1, <1>2, <1>3, PTL DEF ConfigurationSpec

------------------------------------------------------------------------------
(* Applications in Lua.                                                    *)

Stage == {"none", "setup", "run", "clear", "teardown", "return"}

LuaTyped ==
  /\ lua_state \in {"open", "closed"} /\ class_ref \in BOOLEAN
  /\ registry \in Int /\ made \in 0 .. MaxApps
  /\ s_instance \in App \cup {NoApp} /\ s_instance <= made
  /\ context \subseteq 1 .. made /\ userdata \subseteq App
  /\ listeners \in [App -> SUBSET Listener]
  /\ mainpc \in Stage /\ app \in App \cup {NoApp}

\* The one application there is has all the owners, ...
OneOwned ==
  /\ \A a \in App : a = s_instance <=> a = app \/ a \in userdata
  /\ script \subseteq userdata
  /\ mainpc = "none" <=> app = NoApp

\* and only it has listeners; without a state there is neither.
Silent ==
  /\ \A a \in App \ {s_instance} : listeners[a] = {}
  /\ lua_state = "closed" =>
       s_instance = NoApp /\ ~class_ref /\ mainpc = "none"

Held == IF s_instance = NoApp THEN 0 ELSE RefsOf(s_instance)
LuaBalanced ==
  lua_state = "open" => registry = (IF class_ref THEN 1 ELSE 0) + Held

OwnerInv == LuaTyped /\ OneOwned /\ Silent /\ LuaBalanced

------------------------------------------------------------------------------

LEMMA Sizes ==
  \A S \in SUBSET Listener : IsFiniteSet(S) /\ Cardinality(S) \in Nat
<1>1. IsFiniteSet({"plain"}) /\ IsFiniteSet({"self"})
  BY FS_Singleton
<1>2. IsFiniteSet({"plain"} \cup {"self"})
  BY <1>1, FS_Union
<1>3. IsFiniteSet(Listener)
  BY <1>2, Listener = {"plain"} \cup {"self"} DEF Listener
<1> QED
  BY <1>3, FS_Subset, FS_CardinalityType

LEMMA SizeOfMore ==
  ASSUME NEW S \in SUBSET Listener, NEW more \in SUBSET Listener
  PROVE  Cardinality(S \cup more) = Cardinality(S) + Cardinality(more \ S)
<1>1. S \cup more = S \cup (more \ S) /\ S \cap (more \ S) = {}
  OBVIOUS
<1>2. /\ IsFiniteSet(S) /\ IsFiniteSet(more \ S)
      /\ Cardinality(S) \in Nat /\ Cardinality(more \ S) \in Nat
  BY Sizes
<1>3. Cardinality(S \cup (more \ S))
        = Cardinality(S) + Cardinality(more \ S) - Cardinality(S \cap (more \ S))
  BY <1>2, FS_Union
<1>4. Cardinality(S \cap (more \ S)) = 0
  BY <1>1, FS_EmptySet
<1>5. Cardinality(S \cup more) = Cardinality(S \cup (more \ S))
  BY <1>1, Zenon
<1> QED
  BY <1>2, <1>3, <1>4, <1>5

LEMMA LuaInitially ==
  ASSUME MaxApps \in Nat
  PROVE  LuaInit => OwnerInv
<1> SUFFICES ASSUME LuaInit PROVE OwnerInv
  OBVIOUS
<1>1. \A a \in App : a # NoApp
  BY DEF App, NoApp
<1>2. LuaTyped
  <2>1. listeners \in [App -> SUBSET Listener]
    BY DEF LuaInit
  <2>2. class_ref \in BOOLEAN /\ userdata \subseteq App /\ mainpc \in Stage
    BY Zenon DEF LuaInit, Stage
  <2>3. made \in 0 .. MaxApps /\ s_instance <= made /\ context \subseteq 1 .. made
    BY DEF LuaInit, NoApp
  <2> QED
    BY <2>1, <2>2, <2>3 DEF LuaInit, LuaTyped
<1>3. OneOwned
  BY <1>1 DEF LuaInit, OneOwned
<1>4. Silent /\ LuaBalanced
  BY DEF LuaInit, Silent, LuaBalanced, Held
<1> QED
  BY <1>2, <1>3, <1>4 DEF OwnerInv

\* An application is made when there is none: nothing refers to its number.
LEMMA Constructed ==
  ASSUME MaxApps \in Nat, OwnerInv, NEW withContext \in BOOLEAN,
         ConstructApplication(withContext)
  PROVE  /\ made + 1 \in App /\ made + 1 # NoApp /\ s_instance' = made + 1
         /\ app = NoApp /\ userdata = {} /\ made' = made + 1
         /\ userdata' = {made + 1} /\ context' \subseteq 1 .. made + 1
         /\ listeners' = listeners /\ listeners[made + 1] = {}
         /\ RefsOf(s_instance)' = (IF withContext THEN 2 ELSE 0)
         /\ registry' = registry + (IF withContext THEN 2 ELSE 0)
         /\ lua_state' = "open" /\ lua_state = "open" /\ class_ref' = class_ref
         /\ Held = 0
<1>1. made + 1 \in App /\ made + 1 # NoApp /\ made \in Nat
  BY DEF OwnerInv, LuaTyped, ConstructApplication, App, NoApp
<1>2. \A a \in App : a # NoApp
  BY DEF App, NoApp
<1>3. app = NoApp /\ userdata = {} /\ listeners[made + 1] = {}
  BY <1>1, <1>2 DEF OwnerInv, LuaTyped, OneOwned, Silent, ConstructApplication
<1>4. made + 1 \notin context
  BY <1>1 DEF OwnerInv, LuaTyped
<1>5. Cardinality({}) = 0
  BY FS_EmptySet
<1>6. /\ context' = IF withContext THEN context \cup {made + 1} ELSE context
      /\ listeners' = listeners /\ userdata' = userdata \cup {made + 1}
      /\ made' = made + 1 /\ s_instance' = made + 1 /\ lua_state = "open"
      /\ lua_state' = lua_state /\ class_ref' = class_ref
      /\ registry' = IF withContext THEN registry + 2 ELSE registry
      /\ s_instance = NoApp
  BY DEF ConstructApplication
<1>7. RefsOf(s_instance)' = (IF withContext THEN 2 ELSE 0)
  <2>1. RefsOf(s_instance)' = (IF made + 1 \in context' THEN 2 ELSE 0)
                                + Cardinality(listeners[made + 1])
    BY <1>6 DEF RefsOf
  <2>2. made + 1 \in context' <=> withContext
    BY <1>4, <1>6
  <2> QED
    BY <2>1, <2>2, <1>3, <1>5
<1>8. context' \subseteq 1 .. made + 1
  BY <1>1, <1>6 DEF OwnerInv, LuaTyped
<1>9. registry' = registry + (IF withContext THEN 2 ELSE 0)
  BY <1>6 DEF OwnerInv, LuaTyped
<1> QED
  BY <1>1, <1>3, <1>6, <1>7, <1>8, <1>9 DEF Held

LEMMA ConstructKeeps ==
  ASSUME MaxApps \in Nat, OwnerInv, NEW withContext \in BOOLEAN,
         ConstructApplication(withContext),
         script' \subseteq script \cup {made + 1},
         mainpc' \in Stage,
         \/ app' = NoApp /\ mainpc' = "none"
         \/ app' = made + 1 /\ mainpc' # "none"
  PROVE  OwnerInv'
<1>1. \A a \in App : a # NoApp
  BY DEF App, NoApp
<1>2. LuaTyped'
  BY Constructed DEF OwnerInv, LuaTyped, App, NoApp
<1>3. OneOwned'
  BY Constructed, <1>1 DEF OwnerInv, OneOwned
<1>4. Silent'
  BY Constructed, <1>1 DEF OwnerInv, Silent, ConstructApplication
<1>5. LuaBalanced'
  BY Constructed DEF OwnerInv, LuaTyped, LuaBalanced, Held
<1> QED
  BY <1>2, <1>3, <1>4, <1>5 DEF OwnerInv

\* A method adds listeners to the application that there is.
LEMMA CallKeeps ==
  ASSUME MaxApps \in Nat, OwnerInv, NEW a \in App, a = s_instance, CallMethod(a),
         UNCHANGED <<lua_state, class_ref, made, context, s_instance, userdata,
                     app>>,
         mainpc' \in Stage, mainpc' = "none" <=> mainpc = "none"
  PROVE  OwnerInv'
<1>1. CASE a \notin context
  BY <1>1 DEF CallMethod, OwnerInv, LuaTyped, OneOwned, Silent, LuaBalanced, Held,
              RefsOf
<1>2. CASE a \in context
  <2>1. PICK stillHeld \in SUBSET (userdata \cap {a}),
             more \in SUBSET (IF a \in userdata THEN Listener ELSE {"plain"}) :
          /\ script' = script \cup stillHeld
          /\ listeners' = [listeners EXCEPT ![a] = @ \cup more]
          /\ registry' = registry + Cardinality(more \ listeners[a])
    BY <1>2 DEF CallMethod
  <2>2. listeners[a] \in SUBSET Listener /\ more \in SUBSET Listener
    BY DEF OwnerInv, LuaTyped, Listener
  <2>3. /\ Cardinality(listeners[a]) \in Nat
        /\ Cardinality(more \ listeners[a]) \in Nat
        /\ Cardinality(listeners[a] \cup more)
             = Cardinality(listeners[a]) + Cardinality(more \ listeners[a])
    BY <2>2, Sizes, SizeOfMore
  <2>4. listeners'[a] = listeners[a] \cup more
    BY <2>1 DEF OwnerInv, LuaTyped
  <2>5. RefsOf(a)' = RefsOf(a) + Cardinality(more \ listeners[a])
    BY <2>3, <2>4 DEF RefsOf
  <2>6. RefsOf(a) \in Int
    BY <2>3 DEF RefsOf
  <2>7. LuaTyped'
    BY <2>1, <2>2, <2>3 DEF OwnerInv, LuaTyped
  <2>8. OneOwned' /\ Silent'
    BY <2>1 DEF OwnerInv, LuaTyped, OneOwned, Silent
  <2>9. LuaBalanced'
    BY <2>1, <2>3, <2>5, <2>6 DEF OwnerInv, LuaTyped, LuaBalanced, Held, App, NoApp
  <2> QED
    BY <2>7, <2>8, <2>9 DEF OwnerInv
<1> QED
  BY <1>1, <1>2

\* A pointer is released: by main(), or with a userdata nobody can reach.
LEMMA OwnKeeps ==
  ASSUME MaxApps \in Nat, OwnerInv,
         NEW main \in {app, NoApp}, NEW heap \in SUBSET userdata, Own(main, heap),
         script \subseteq heap,
         UNCHANGED <<lua_state, class_ref, made, context, script>>,
         mainpc' \in Stage, mainpc' = "none" <=> main = NoApp
  PROVE  OwnerInv'
<1>0. \A a \in App : a # NoApp
  BY DEF App, NoApp
<1>1. CASE s_instance # NoApp /\ LastOwner(s_instance, main, heap)
  <2>1. /\ app' = main /\ userdata' = heap /\ s_instance' = NoApp
        /\ registry' = registry - RefsOf(s_instance)
        /\ listeners' = [listeners EXCEPT ![s_instance] = {}]
    BY <1>1 DEF Own, RefsReleased
  <2>2. RefsOf(s_instance) \in Int
    BY <1>1, Sizes DEF OwnerInv, LuaTyped, RefsOf
  <2>3. app' = NoApp /\ userdata' = {}
    BY <1>0, <1>1, <2>1 DEF LastOwner, OwnerInv, LuaTyped, OneOwned
  <2>4. LuaTyped'
    <3>1. listeners' \in [App -> SUBSET Listener]
      BY <2>1 DEF OwnerInv, LuaTyped
    <3> QED
      BY <2>1, <2>2, <2>3, <3>1 DEF OwnerInv, LuaTyped, NoApp
  <2>5. OneOwned' /\ Silent'
    BY <1>0, <2>1, <2>3 DEF OwnerInv, LuaTyped, OneOwned, Silent
  <2>6. LuaBalanced'
    BY <1>1, <2>1, <2>2 DEF OwnerInv, LuaTyped, LuaBalanced, Held
  <2> QED
    BY <2>4, <2>5, <2>6 DEF OwnerInv
<1>2. CASE ~(s_instance # NoApp /\ LastOwner(s_instance, main, heap))
  <2>1. /\ app' = main /\ userdata' = heap
        /\ UNCHANGED <<s_instance, registry, listeners>>
    BY <1>2 DEF Own
  <2>2. LuaTyped'
    BY <2>1 DEF OwnerInv, LuaTyped
  <2>3. OneOwned'
    BY <1>0, <1>2, <2>1 DEF LastOwner, OwnerInv, LuaTyped, OneOwned
  <2>4. Silent' /\ LuaBalanced'
    BY <1>0, <1>2, <2>1 DEF LastOwner, OwnerInv, LuaTyped, OneOwned, Silent,
                            LuaBalanced, Held, RefsOf
  <2> QED
    BY <2>2, <2>3, <2>4 DEF OwnerInv
<1> QED
  BY <1>1, <1>2

LEMMA LuaNextKeeps ==
  ASSUME MaxApps \in Nat, OwnerInv, [LuaNext]_luaVars
  PROVE  OwnerInv'
<1>0. \A a \in App : a # NoApp
  BY DEF App, NoApp
<1>1. CASE RegisterComponent
  BY <1>1, Sizes DEF RegisterComponent, OwnerInv, LuaTyped, OneOwned, Silent,
     LuaBalanced, Held, RefsOf
<1>2. CASE CreateComponent
  BY <1>2, ConstructKeeps DEF CreateComponent, OwnerInv, OneOwned, Stage
<1>3. CASE ClassCall
  BY <1>3, ConstructKeeps DEF ClassCall, OwnerInv, OneOwned, Stage
<1>4. CASE MainCreates
  BY <1>4, ConstructKeeps DEF MainCreates, Stage
<1>5. ASSUME NEW a \in App, ScriptCalls(a) PROVE OwnerInv'
  BY <1>5, CallKeeps DEF ScriptCalls, OwnerInv, OneOwned, Stage
<1>6. ASSUME NEW a \in App, ScriptDrops(a) PROVE OwnerInv'
  BY <1>6 DEF ScriptDrops, ownerVars, OwnerInv, LuaTyped, OneOwned, Silent,
     LuaBalanced, Held, RefsOf
<1>7. ASSUME NEW a \in App, Collect(a) PROVE OwnerInv'
  BY <1>7, OwnKeeps DEF Collect, Reachable, OwnerInv, LuaTyped, OneOwned
<1>8. CASE MainCalls
  <2>1. app \in App /\ app = s_instance
    BY <1>8 DEF MainCalls, MainGoesOn, OwnerInv, LuaTyped, OneOwned
  <2>2. mainpc' \in Stage /\ mainpc' # "none" /\ mainpc # "none"
    BY <1>8 DEF MainCalls, MainGoesOn, Stage
  <2> QED
    BY <1>8, <2>1, <2>2, CallKeeps DEF MainCalls
<1>9. CASE ClearCallbacks
  <2>1. app \in App /\ app = s_instance
    BY <1>9 DEF ClearCallbacks, OwnerInv, LuaTyped, OneOwned
  <2>2. Cardinality(listeners[app]) \in Nat /\ Cardinality({}) = 0
    BY <2>1, Sizes, FS_EmptySet DEF OwnerInv, LuaTyped
  <2>3. listeners'[app] = {}
    BY <1>9, <2>1 DEF ClearCallbacks, OwnerInv, LuaTyped
  <2>4. RefsOf(app)' = RefsOf(app) - Cardinality(listeners[app])
    BY <1>9, <2>2, <2>3 DEF ClearCallbacks, RefsOf
  <2>5. RefsOf(app) \in Int
    BY <2>2 DEF RefsOf
  <2>6. LuaTyped' /\ OneOwned' /\ Silent'
    BY <1>9, <2>1, <2>2 DEF ClearCallbacks, OwnerInv, LuaTyped, OneOwned, Silent,
       Stage
  <2>7. LuaBalanced'
    BY <1>9, <2>1, <2>2, <2>4, <2>5, <1>0 DEF ClearCallbacks, OwnerInv, LuaTyped,
       LuaBalanced, Held
  <2> QED
    BY <2>6, <2>7 DEF OwnerInv
<1>10. CASE MainReturns
  BY <1>10, OwnKeeps DEF MainReturns, OwnerInv, OneOwned, Stage
<1>11. CASE CloseState
  <2>1. listeners' \in [App -> SUBSET Listener]
    BY <1>11 DEF CloseState
  <2>2. LuaTyped'
    <3>1. class_ref' \in BOOLEAN /\ userdata' \subseteq App
      BY <1>11, Zenon DEF CloseState
    <3>2. s_instance' <= made' /\ registry' \in Int
      BY <1>11 DEF CloseState, OwnerInv, LuaTyped, NoApp
    <3> QED
      BY <1>11, <2>1, <3>1, <3>2 DEF CloseState, OwnerInv, LuaTyped
  <2>3. OneOwned'
    BY <1>0, <1>11 DEF CloseState, OwnerInv, OneOwned
  <2>4. Silent' /\ LuaBalanced'
    BY <1>11 DEF CloseState, OwnerInv, Silent, LuaBalanced
  <2> QED
    BY <2>2, <2>3, <2>4 DEF OwnerInv
<1>12. CASE UNCHANGED luaVars
  BY <1>12 DEF luaVars, ownerVars, OwnerInv, LuaTyped, OneOwned, Silent, LuaBalanced,
     Held, RefsOf
<1> QED
  BY <1>1, <1>2, <1>3, <1>4, <1>5, <1>6, <1>7, <1>8, <1>9, <1>10, <1>11, <1>12
     DEF LuaNext

\* The application that exists is the one somebody owns, and it gives back all
\* it holds in the registry when the last owner goes.
THEOREM Owned ==
  ASSUME MaxApps \in Nat
  PROVE  LuaSpec => []OwnedByHolders
<1>1. LuaInit => OwnerInv
  BY LuaInitially
<1>2. OwnerInv /\ [LuaNext]_luaVars => OwnerInv'
  BY LuaNextKeeps
<1>3. OwnerInv => OwnedByHolders
  BY DEF OwnerInv, OneOwned, LuaBalanced, Held, OwnedByHolders
<1> QED
  BY <1>1, <1>2, <1>3, PTL DEF LuaSpec
================================================================================
