------------------------------ MODULE TraceTopics ------------------------------
(***************************************************************************)
(* Trace topics, the levels each has enabled, and the sinks of the global  *)
(* topic MGE.  Topics are configured by parameters, which are fetched one  *)
(* after the other; two switches, fetched after the levels of MGE, take    *)
(* effect when some other topic is asked the next time.                    *)
(***************************************************************************)
EXTENDS Naturals, Sequences, SequencesExt

CONSTANTS
  Topics,           \* other topics than MGE; their paths precede "global"
  MaxSinks          \* bound on the sinks of MGE

Levels == {"INFO", "ERROR"}
Topic == Topics \cup {"MGE"}
Switch == {"globally_enabled", "print_to_stdout"}
Parameters == Topic \cup Switch

\* No key, null, or a value: levels of a topic, a switch.
Absent == {"absent"}
Null == {"null"}
NoSettings == [p \in Parameters |-> Absent]
SettingOf(p) ==
  IF p \in Topic THEN {Null, {"INFO"}} ELSE {{"true"}, {"false"}}

VARIABLES
  environment,      \* the switches that have a variable of the environment
  settings,         \* m_raw_settings of the configuration
  configLoaded, updateNeeded,
  topics,           \* registered
  late,             \* history: topics constructed since the last fetch of all
  toPrint,          \* history: MGE was to print to stdout at some time
  tracing

traceVars == <<environment, settings, configLoaded, updateNeeded, topics, late,
               toPrint, tracing>>

On(value, switch) == value[switch] = {"true"} \/ switch \in environment

\* value: of the parameters.  configured: global_topic_configured, an atomic.
\* handled: the switches have their handlers.  changed, clients: history, the
\* topics whose levels the program set since they were configured, and
\* whether MGE ever had a sink of the program.
Init ==
  /\ environment \in {{}, Switch}
  /\ settings \in {NoSettings,
                   [p \in Parameters |-> IF p \in Switch THEN {"true"}
                                         ELSE {"INFO"}]}
  /\ configLoaded = FALSE /\ updateNeeded = TRUE
  /\ topics = {"MGE"} /\ late = {}
  /\ toPrint = On(settings, "print_to_stdout")
  /\ tracing = [value |-> [p \in Parameters |-> Null],
                levels |-> [t \in Topic |-> IF t = "MGE" THEN Levels ELSE {}],
                configured |-> FALSE, handled |-> FALSE,
                sinks |-> <<"memory">>, changed |-> {}, clients |-> FALSE]

------------------------------------------------------------------------------
(* update_configuration()                                                  *)

LevelsOf(value, t) ==
  (IF value[t] = Null THEN {} ELSE value[t]) \cup
  (IF t = "MGE" /\ On(value, "globally_enabled") THEN Levels ELSE {})

\* A sink that is alone is replaced, even the one that prints already.
SinksOf(s) ==
  IF s.configured \/ ~On(s.value, "print_to_stdout") THEN s.sinks
  ELSE IF Len(s.sinks) = 1 THEN <<"stdout">> ELSE Append(s.sinks, "stdout")

\* Mutant: the levels enabled before stay so.
UpdateKeepsLevels(s, t) ==
  LET new == [s EXCEPT !.levels[t] = @ \cup LevelsOf(s.value, t),
                       !.changed = @ \ {t}]
  IN  IF t # "MGE" THEN new
      ELSE [new EXCEPT !.handled = TRUE, !.configured = TRUE,
                       !.sinks = SinksOf(s)]

UpdateConfiguration(s, t) ==
  LET new == [s EXCEPT !.levels[t] = LevelsOf(s.value, t),
                       !.changed = @ \ {t}]
  IN  IF t # "MGE" THEN new
      ELSE [new EXCEPT !.handled = TRUE, !.configured = TRUE,
                       !.sinks = SinksOf(s)]

\* Mutant: only one switch has a handler.
NotifyOne(s, p) ==
  IF p \in Topic THEN UpdateConfiguration(s, p)
  ELSE IF s.handled /\ p = "print_to_stdout"
       THEN [s EXCEPT !.configured = FALSE] ELSE s

\* The change handlers: of a topic, and of a switch once it has one.
Notify(s, p) ==
  IF p \in Topic THEN UpdateConfiguration(s, p)
  ELSE IF s.handled THEN [s EXCEPT !.configured = FALSE] ELSE s

\* fetch_parameter() of p with settings raw.
Fetch(s, p, raw) ==
  Notify(IF raw[p] = Absent THEN s ELSE [s EXCEPT !.value[p] = raw[p]], p)

\* The others first: a fetch of one changes only what is its own.
FetchOthers(s, raw) ==
  LET after(t) == IF t \in topics \ {"MGE"} THEN Fetch(s, t, raw) ELSE s
  IN  [s EXCEPT !.value   = [p \in Parameters |-> after(p).value[p]],
                !.levels  = [t \in Topic |-> after(t).levels[t]],
                !.changed = {t \in Topic : t \in after(t).changed}]

FetchTopics(s, raw) == Fetch(FetchOthers(s, raw), "MGE", raw)

\* set_registered_parameters(), in the order of the paths.  The trace of
\* fetch_parameter() asks a topic, which after load() may configure MGE before
\* the last switch is read.
FetchAll(s, raw, asked) ==
  LET one == Fetch(FetchTopics(s, raw), "globally_enabled", raw)
  IN  Fetch(IF asked /\ raw["print_to_stdout"] # Absent
              THEN UpdateConfiguration(one, "MGE") ELSE one,
            "print_to_stdout", raw)

------------------------------------------------------------------------------
(* Topics, that come and go with libraries, and what the program does.     *)

\* No parameter of the topic has a value yet: configure() disables all.
ConstructTopic(t) ==
  /\ t \notin topics
  /\ topics' = topics \cup {t}
  /\ late' = late \cup {t}
  /\ updateNeeded' = TRUE
  /\ tracing' = [tracing EXCEPT !.value[t] = Null, !.levels[t] = {},
                                !.changed = @ \ {t}]
  /\ UNCHANGED <<environment, settings, configLoaded, toPrint>>

DestroyTopic(t) ==
  /\ t \in topics \ {"MGE"}
  /\ topics' = topics \ {t}
  /\ UNCHANGED <<environment, settings, configLoaded, updateNeeded, late,
                 toPrint, tracing>>

\* enable(), disable() and set_level().
SetLevel(t, ls) ==
  /\ t \in topics
  /\ tracing' = [tracing EXCEPT !.levels[t] = ls, !.changed = @ \cup {t}]
  /\ UNCHANGED <<environment, settings, configLoaded, updateNeeded, topics,
                 late, toPrint>>

\* add_sink() and remove_sink() of MGE.
OtherSinks ==
  {Append(tracing.sinks, "client")} \cup
  {RemoveAt(tracing.sinks, n) :
     n \in {i \in DOMAIN tracing.sinks : tracing.sinks[i] = "client"}}

ChangeSinks(sinks) ==
  /\ Len(sinks) <= MaxSinks
  /\ tracing' = [tracing EXCEPT !.sinks = sinks, !.clients = TRUE]
  /\ UNCHANGED <<environment, settings, configLoaded, updateNeeded, topics,
                 late, toPrint>>

\* enabled(l): a topic that does not have the level asks MGE, which has itself
\* configured before if the switches may have changed.
Asks(t, l) == t \in topics \ {"MGE"} /\ l \notin tracing.levels[t]

Configured ==
  IF ~tracing.configured /\ configLoaded
    THEN UpdateConfiguration(tracing, "MGE") ELSE tracing

Enabled(t, l) ==
  \/ l \in tracing.levels[t]
  \/ Asks(t, l) /\ l \in Configured.levels["MGE"]

Ask(t, l) ==
  /\ Asks(t, l)
  /\ Len(Configured.sinks) <= MaxSinks
  /\ tracing' = Configured
  /\ UNCHANGED <<environment, settings, configLoaded, updateNeeded, topics,
                 late, toPrint>>

------------------------------------------------------------------------------
(* The configuration                                                       *)

Load ==
  /\ ~configLoaded
  /\ tracing' = FetchAll(tracing, settings, FALSE)
  /\ Len(tracing'.sinks) <= MaxSinks
  /\ configLoaded' = TRUE
  /\ late' = {}
  /\ UNCHANGED <<environment, settings, updateNeeded, topics, toPrint>>

\* The search for a parameter.
Find ==
  /\ configLoaded /\ updateNeeded
  /\ \E asked \in BOOLEAN : tracing' = FetchAll(tracing, settings, asked)
  /\ Len(tracing'.sinks) <= MaxSinks
  /\ updateNeeded' = FALSE
  /\ late' = {}
  /\ UNCHANGED <<environment, settings, configLoaded, topics, toPrint>>

\* A setting of the command line, and the search for its parameter.
SetRaw(p, v) ==
  /\ configLoaded
  /\ settings' = [settings EXCEPT ![p] = v]
  /\ toPrint' = (toPrint \/ On(settings', "print_to_stdout"))
  /\ \E asked \in BOOLEAN :
       LET found == IF updateNeeded THEN FetchAll(tracing, settings', asked)
                    ELSE tracing
       IN  tracing' = IF p \in topics \cup Switch
                        THEN Fetch(found, p, settings') ELSE found
  /\ Len(tracing'.sinks) <= MaxSinks
  /\ updateNeeded' = FALSE
  /\ late' = IF updateNeeded THEN {} ELSE late
  /\ UNCHANGED <<environment, configLoaded, topics>>

Next ==
  \/ \E t \in Topic :
       \/ ConstructTopic(t) \/ DestroyTopic(t)
       \/ SetLevel(t, {"ERROR"})
       \/ \E l \in Levels : Ask(t, l)
  \/ \E sinks \in OtherSinks : ChangeSinks(sinks)
  \/ Load \/ Find
  \/ \E p \in Parameters : \E v \in SettingOf(p) : SetRaw(p, v)

------------------------------------------------------------------------------
(* Properties.                                                             *)

Setting(p) == IF settings[p] = Absent THEN Null ELSE settings[p]

\* After load(), whoever asks a topic first and whatever settings changed
\* since, a topic has the levels of its own setting, those of the global one,
\* and all if the switch is on, unless the program set them or the topic is
\* new.  Without sinks of the program MGE has exactly one: it prints if it
\* should, and prints only if it was to print at some time, for the sink stays
\* when the switch is turned off.
TraceFollowsConfiguration ==
  configLoaded =>
    /\ \A t \in topics \ ({"MGE"} \cup late), l \in Levels :
         {t, "MGE"} \cap Configured.changed = {} =>
           (Enabled(t, l) <=>
              l \in LevelsOf([p \in Parameters |-> Setting(p)], t) \cup
                    LevelsOf([p \in Parameters |-> Setting(p)], "MGE"))
    /\ ~tracing.clients =>
         /\ Configured.sinks \in {<<"memory">>, <<"stdout">>}
         /\ On(settings, "print_to_stdout") => Configured.sinks = <<"stdout">>
         /\ Configured.sinks = <<"stdout">> => toPrint
==============================================================================
