----------------------------- MODULE Configuration -----------------------------
(***************************************************************************)
(* The configuration: settings of a JSON file and of the command line, and *)
(* the parameters of the libraries, which register before the file is read *)
(* or long after, when their module is loaded.  Values come late: all      *)
(* parameters are fetched again by the first search after a registration.  *)
(* An exception ends the program, as in application::main(), and so may a  *)
(* crash, also between the two steps of store(), which empties its file    *)
(* before it writes it; the files outlive the process.                     *)
(***************************************************************************)
EXTENDS Naturals, FiniteSets

CONSTANTS
  LastParameter,   \* parameters are 1 .. LastParameter, the order of their paths
  HasDefault,      \* parameters with a default: they have no write function
  ProgramValues,   \* bound on the values the program gives to a parameter
  CommandLine      \* bound on the settings that the command line gives

Parameter == 1 .. LastParameter
Values == {"a", "b"}

\* no key, null, and a value the type of the parameter refuses
Setting == {"absent", "null", "refused"} \cup Values

ASSUME ProgramAssumption ==
  ProgramValues \subseteq Values /\ CommandLine \subseteq Setting \ {"absent"}

\* No file, and one that is no JSON: empty, written in part, or edited so.
NoFile == [p \in Parameter |-> "no file"]
Broken == [p \in Parameter |-> "broken"]

VARIABLES
  registered,
  value,            \* parameter -> m_value, or "unset" without m_has_value
  m_raw_settings,
  m_loaded, m_update_needed,
  alive,
  files,            \* "config" -> the file of the executable's name in config/,
                    \* "." -> the one in the current directory, "named" -> the
                    \* one that --config-name leads to
  loadedFrom,       \* the file load() looked for in this process
  storing,          \* store() has emptied its file
  changed,          \* history: parameters the program changed since a fetch
  late,             \* history: parameters registered since the last fetch
  overridden,       \* history: parameters whose setting this process has
                    \* changed without storing it
  keeping,          \* history: what the store() that is running should preserve
  kept              \* history: what the last one that has written its file should

storeVars  == <<storing, keeping>>
memoryVars == <<registered, value, m_raw_settings, m_loaded, m_update_needed,
                alive, loadedFrom, storeVars, changed, late, overridden>>
configVars == <<memoryVars, files, kept>>

NewProcess ==
  [registered |-> {}, value |-> [p \in Parameter |-> "unset"],
   raw |-> [p \in Parameter |-> "absent"]]

NothingKept == [p \in Parameter |-> "absent"]

ConfigurationInit ==
  /\ registered = {} /\ value = NewProcess.value
  /\ m_raw_settings = NewProcess.raw
  /\ m_loaded = FALSE /\ m_update_needed = TRUE /\ alive = TRUE
  /\ loadedFrom = "none" /\ storing = FALSE
  /\ \E others \in {NoFile, [p \in Parameter |-> "b"]},
        inDot \in {NoFile, Broken} \cup [Parameter -> Setting] :
       files = [l \in {"config", ".", "named"} |->
                  IF l = "." THEN inDot ELSE others]
  /\ changed = {} /\ late = {} /\ overridden = {}
  /\ keeping = NothingKept /\ kept = NothingKept

\* set_registered_parameters() with settings raw, in the order of the paths:
\* a refused value throws and leaves those behind it alone.  Then handlers of
\* the parameter are notified.
Refused(raw, ps) == {p \in ps : raw[p] = "refused"}
Reached(raw, ps) == {p \in ps : \A q \in Refused(raw, ps) : p < q}
Fetch(raw, ps) ==
  /\ value' = [p \in Parameter |->
       IF p \notin Reached(raw, ps) \/ raw[p] = "absent" THEN value[p]
       ELSE IF raw[p] = "null" THEN "unset" ELSE raw[p]]
  /\ changed' = changed \ {p \in Reached(raw, ps) : raw[p] # "absent"}
  /\ alive' = (Refused(raw, ps) = {})

------------------------------------------------------------------------------
(* Parameters come and go with libraries and trace topics.                 *)

\* Mutant: a registration after load() goes unnoticed.
RegisterUnnoticed(p) ==
  /\ alive /\ p \notin registered
  /\ registered' = registered \cup {p}
  /\ late' = late \cup {p}
  /\ UNCHANGED <<value, m_raw_settings, m_loaded, m_update_needed, alive, files,
                 loadedFrom, storeVars, changed, overridden, kept>>

RegisterParameter(p) ==
  /\ alive /\ p \notin registered
  /\ registered' = registered \cup {p}
  /\ m_update_needed' = TRUE
  /\ late' = late \cup {p}
  /\ UNCHANGED <<value, m_raw_settings, m_loaded, alive, files, loadedFrom,
                 storeVars, changed, overridden, kept>>

\* The destructor of a parameter: its value goes with it.
UnregisterParameter(p) ==
  /\ alive /\ p \in registered
  /\ registered' = registered \ {p}
  /\ value' = [value EXCEPT ![p] = "unset"]
  /\ changed' = changed \ {p} /\ late' = late \ {p}
  /\ UNCHANGED <<m_raw_settings, m_loaded, m_update_needed, alive, files,
                 loadedFrom, storeVars, overridden, kept>>

\* value(), set_value() and reset() of the program notify nobody.
ChangeValue(p, v) ==
  /\ alive /\ p \in registered
  /\ value' = [value EXCEPT ![p] = v]
  /\ changed' = changed \cup {p}
  /\ UNCHANGED <<registered, m_raw_settings, m_loaded, m_update_needed, alive,
                 files, loadedFrom, storeVars, late, overridden, kept>>

------------------------------------------------------------------------------
(* configuration_instance                                                  *)

\* load() looks for the name given with --config-name or that of the
\* executable, in config/ before ".".
FileOf(named) ==
  IF named THEN "named" ELSE IF files["config"] # NoFile THEN "config" ELSE "."

\* The parser throws, and nothing is fetched.
LoadFails ==
  /\ alive' = FALSE
  /\ UNCHANGED <<registered, value, m_raw_settings, m_loaded, m_update_needed,
                 files, storeVars, changed, late, overridden, kept>>

\* All callers test loaded() first.
Load(named) ==
  LET file == files[FileOf(named)]
  IN  /\ alive /\ ~m_loaded
      /\ loadedFrom' = FileOf(named)
      /\ \/ file = Broken /\ LoadFails
         \/ /\ file # Broken
            /\ m_raw_settings' = IF file = NoFile THEN m_raw_settings ELSE file
            /\ Fetch(m_raw_settings', registered)
            /\ m_loaded' = (Refused(m_raw_settings', registered) = {})
            /\ late' = {}
            /\ UNCHANGED <<registered, m_update_needed, files, storeVars,
                           overridden, kept>>

UpdateDue == m_update_needed /\ m_loaded

\* find_parameter() of any parameter, and the search of set_raw().
Find ==
  /\ alive /\ UpdateDue
  /\ Fetch(m_raw_settings, registered)
  /\ m_update_needed' = (Refused(m_raw_settings, registered) # {})
  /\ late' = {}
  /\ UNCHANGED <<registered, m_raw_settings, m_loaded, files, loadedFrom,
                 storeVars, overridden, kept>>

\* evaluate_command_line(), after load(): the setting, then the search for its
\* parameter and a fetch of that one or of all.
SetRaw(p, s) ==
  LET due == IF UpdateDue THEN registered ELSE registered \cap {p}
  IN  /\ alive /\ m_loaded
      /\ m_raw_settings' = [m_raw_settings EXCEPT ![p] = s]
      /\ Fetch(m_raw_settings', due)
      /\ m_update_needed' =
           (m_update_needed /\ Refused(m_raw_settings', due) # {})
      /\ late' = IF UpdateDue THEN {} ELSE late
      /\ overridden' = overridden \cup {p}
      /\ UNCHANGED <<registered, m_loaded, files, loadedFrom, storeVars, kept>>

\* Mutant: only what the registered parameters have is written.
WrittenAnew(p) ==
  IF p \in registered /\ value[p] # "unset" THEN value[p] ELSE "absent"

\* What store() makes of a setting: a parameter with a default leaves a null
\* where there was none, one without a value cannot erase its setting, as
\* erase() looks for the whole path on the first level.
Written(p) ==
  IF p \notin registered \/ value[p] = "unset" THEN m_raw_settings[p]
  ELSE IF p \notin HasDefault THEN value[p]
  ELSE IF m_raw_settings[p] = "absent" THEN "null" ELSE m_raw_settings[p]

\* What store() should preserve of a parameter that it finds like this.
Stored(p) ==
  CASE p \notin registered /\ m_raw_settings[p] \in Values -> m_raw_settings[p]
    [] p \in registered \ HasDefault /\ value[p] # "unset" -> value[p]
    [] OTHER -> "absent"

\* store(), always to the current directory: the settings, and the file opened
\* and thereby emptied.  If it cannot be opened nobody notices.
StoreBegins ==
  /\ alive /\ m_loaded
  /\ m_raw_settings' = [p \in Parameter |-> Written(p)]
  /\ \/ /\ files' = [files EXCEPT !["."] = Broken] /\ kept' = NothingKept
        /\ storing' = TRUE /\ keeping' = [p \in Parameter |-> Stored(p)]
        /\ UNCHANGED overridden
     \/ /\ overridden' = overridden \cup
             {p \in Parameter : Written(p) # m_raw_settings[p]}
        /\ UNCHANGED <<files, kept, storeVars>>
  /\ UNCHANGED <<registered, value, m_loaded, m_update_needed, alive, loadedFrom,
                 changed, late>>

\* The settings are written, or in part, which nobody notices, or dump() throws
\* for a text that is no UTF-8.
StoreEnds ==
  /\ alive /\ storing /\ storing' = FALSE /\ keeping' = NothingKept
  /\ \/ /\ files' = [files EXCEPT !["."] = m_raw_settings]
        /\ kept' = keeping /\ overridden' = {} /\ alive' = TRUE
     \/ alive' \in BOOLEAN /\ UNCHANGED <<files, kept, overridden>>
  /\ UNCHANGED <<registered, value, m_raw_settings, m_loaded, m_update_needed,
                 loadedFrom, changed, late>>

\* The process ends, wherever it is, and the program is started again.
Restart ==
  /\ registered' = {} /\ value' = NewProcess.value
  /\ m_raw_settings' = NewProcess.raw
  /\ m_loaded' = FALSE /\ m_update_needed' = TRUE /\ alive' = TRUE
  /\ loadedFrom' = "none" /\ storing' = FALSE /\ keeping' = NothingKept
  /\ changed' = {} /\ late' = {} /\ overridden' = {}
  /\ UNCHANGED <<files, kept>>

\* Nothing comes between the two steps of store() but the end of the process.
ConfigurationNext ==
  \/ /\ ~storing
     /\ \/ \E p \in Parameter :
             \/ RegisterParameter(p) \/ UnregisterParameter(p)
             \/ \E v \in ProgramValues \cup {"unset"} : ChangeValue(p, v)
             \/ \E s \in CommandLine : SetRaw(p, s)
        \/ \E named \in BOOLEAN : Load(named)
        \/ Find \/ StoreBegins
  \/ StoreEnds \/ Restart

ConfigurationSpec == ConfigurationInit /\ [][ConfigurationNext]_configVars

------------------------------------------------------------------------------
(* Properties.                                                             *)

\* The parameters whose values nothing but settings has determined.
Fetched == {p \in registered \ changed : m_update_needed => p \notin late}

\* Whenever a parameter was registered, it has its setting as soon as one was
\* searched for after load(), unless the program changed it.
SettingsReachParameters ==
  alive /\ m_loaded =>
    \A p \in Fetched :
      /\ m_raw_settings[p] \in Values => value[p] = m_raw_settings[p]
      /\ m_raw_settings[p] = "null" => value[p] = "unset"

\* After a store() that wrote its file, and any number of starts and crashes
\* until the next store() empties it, a parameter without a default has the
\* value it had, and the settings of parameters that were not registered then
\* are still there, unless this process changed them: in each process that did
\* not load a file of another place, which the one of store() never replaces.
StoredIsRestored ==
  alive /\ m_loaded /\ loadedFrom = "." =>
    \A p \in Fetched \ overridden : kept[p] \in Values => value[p] = kept[p]
==============================================================================
