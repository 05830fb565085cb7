------------------------------ MODULE AssetMounts ------------------------------
(***************************************************************************)
(* The mount table of the assets.  It is made by its first use and from    *)
(* then on configures itself whenever the parameter asset/repositories is  *)
(* notified; clients mount and unmount as well.  A path is resolved to the *)
(* source mounted before it in the order of paths.                         *)
(***************************************************************************)
EXTENDS Naturals, Sequences, SequencesExt, FiniteSets

CONSTANTS
  MountPoint,       \* paths, sequences of names; names are numbers
  AssetPath,        \* paths that are resolved
  SourceType,       \* types of sources that can be created, with their properties
  Repositories      \* values of the parameter: mount point -> [type, mode]

Modes == {"r", "w", "rw"}

VARIABLES
  created,          \* the table exists
  repositories,     \* {the value of the parameter}, {} if it has none
  m_mounts,         \* mount point -> [type, mode]
  raised,           \* the configuration threw: its caller ends the program
  applied,          \* history: the repositories of the last configure()
  retained,         \* history: points whose source it took over
  byClient          \* history: points clients mounted or unmounted since then

assetVars == <<created, repositories, m_mounts, raised, applied, retained,
               byClient>>

Init ==
  /\ created = FALSE /\ repositories = {} /\ m_mounts = <<>>
  /\ raised = FALSE /\ applied = <<>> /\ retained = {} /\ byClient = {}

\* The first use of the table sets the change handler, but configures nothing.
CreateTable ==
  /\ ~created
  /\ created' = TRUE
  /\ UNCHANGED <<repositories, m_mounts, raised, applied, retained, byClient>>

\* An entry with an invalid mode, and a type nobody has registered.
BadModes(r) == {p \in DOMAIN r : r[p].mode \notin Modes}
BadTypes(r) == {p \in DOMAIN r : r[p].type \notin SourceType}

Kept(p, r) == p \in DOMAIN m_mounts /\ m_mounts[p].type = r[p].type

Applied(r) ==
  /\ applied' = r /\ byClient' = {}
  /\ retained' = {p \in DOMAIN r : Kept(p, r)}

\* Mutant: entries are mounted one after the other in the order of the paths.
ConfigureInPlace(r) ==
  /\ raised' = (BadModes(r) \cup BadTypes(r) # {})
  /\ IF BadModes(r) # {} THEN UNCHANGED <<m_mounts, applied, retained, byClient>>
     ELSE /\ m_mounts' =
               [p \in (DOMAIN r \ BadTypes(r)) \cup
                      (IF raised' THEN DOMAIN m_mounts ELSE {}) |->
                  IF p \in DOMAIN r \ BadTypes(r) /\ ~Kept(p, r) THEN r[p]
                  ELSE m_mounts[p]]
          /\ IF raised' THEN UNCHANGED <<applied, retained, byClient>>
             ELSE Applied(r)

\* configure(): new mounts are made aside and swapped in if nothing threw.  A
\* point of the same type and properties keeps its entry, mode included.
Configure(r) ==
  /\ raised' = (BadModes(r) \cup BadTypes(r) # {})
  /\ IF raised' THEN UNCHANGED <<m_mounts, applied, retained, byClient>>
     ELSE /\ m_mounts' = [p \in DOMAIN r |->
                            IF Kept(p, r) THEN m_mounts[p] ELSE r[p]]
          /\ Applied(r)

\* get() of a parameter that has no value, and no default either, throws.
ConfigureUnset ==
  raised' = TRUE /\ UNCHANGED <<m_mounts, applied, retained, byClient>>

\* The parameter is fetched: its value stays without a key, goes with null, is
\* another otherwise; the handler is called in all cases, if there is one by
\* now.
Notify(value) ==
  /\ ~raised
  /\ repositories' = value
  /\ \/ ~created /\ UNCHANGED <<m_mounts, raised, applied, retained, byClient>>
     \/ created /\ value = {} /\ ConfigureUnset
     \/ created /\ \E r \in value : Configure(r)
  /\ UNCHANGED created

\* An unknown type throws and mounts nothing.
Mount(p, t, m) ==
  /\ created /\ ~raised
  /\ m_mounts' = [q \in DOMAIN m_mounts \cup {p} |->
                    IF q = p THEN [type |-> t, mode |-> m] ELSE m_mounts[q]]
  /\ byClient' = byClient \cup {p}
  /\ UNCHANGED <<created, repositories, raised, applied, retained>>

Umount(p) ==
  /\ created /\ ~raised
  /\ p \in DOMAIN m_mounts
  /\ m_mounts' = [q \in DOMAIN m_mounts \ {p} |-> m_mounts[q]]
  /\ byClient' = byClient \cup {p}
  /\ UNCHANGED <<created, repositories, raised, applied, retained>>

Next ==
  \/ CreateTable
  \/ \E value \in {repositories, {}} \cup {{r} : r \in Repositories} :
       Notify(value)
  \/ \E p \in MountPoint : Umount(p) \/
       \E t \in SourceType, m \in Modes : Mount(p, t, m)

------------------------------------------------------------------------------
(* Resolution of a path.                                                   *)

\* The order of paths, name by name.
Before(p, q) ==
  \/ IsStrictPrefix(p, q)
  \/ \E i \in 1 .. Len(p) :
       /\ i <= Len(q) /\ p[i] < q[i]
       /\ SubSeq(p, 1, i - 1) = SubSeq(q, 1, i - 1)

\* resolve(): the entry before lower_bound(), none if there is none or if its
\* mode does not suit the operation.
Resolve(path, op) ==
  LET before == {p \in DOMAIN m_mounts : Before(p, path)}
  IN  {p \in before :
         /\ \A q \in before : q = p \/ Before(q, p)
         /\ m_mounts[p].mode # (IF op = "LOAD" THEN "w" ELSE "r")}

------------------------------------------------------------------------------
(* Properties.                                                             *)

\* The table has the points and types of the last configuration that could be
\* mounted as a whole, but for what clients have mounted and unmounted since;
\* and its modes, but for sources that were there before and were taken over.
OneConfiguration ==
  \A p \in MountPoint \ byClient :
    /\ p \in DOMAIN m_mounts <=> p \in DOMAIN applied
    /\ p \in DOMAIN applied =>
         /\ m_mounts[p].type = applied[p].type
         /\ p \notin retained => m_mounts[p].mode = applied[p].mode

\* loadingstoring.rst:149: "Find the longest mount point that is a prefix of
\* the requested asset path".
ResolvesLongestPrefix ==
  \A path \in AssetPath, op \in {"LOAD", "STORE"} :
    \A p \in Resolve(path, op) :
      /\ IsPrefix(p, path)
      /\ \A q \in DOMAIN m_mounts : IsPrefix(q, path) => Len(q) <= Len(p)
==============================================================================
