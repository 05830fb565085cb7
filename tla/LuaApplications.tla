---------------------------- MODULE LuaApplications ----------------------------
(***************************************************************************)
(* Applications whose class is written in Lua.  Their C++ objects, proxies *)
(* that call back into Lua, have two kinds of owners: application::main()  *)
(* and Lua userdata, which hold a shared pointer each.  Lua's collector    *)
(* knows only its own references: the context of a proxy refers to the     *)
(* userdata weakly, a listener that is a Lua function strongly.            *)
(*                                                                         *)
(* main() is called by a script, so the state of Lua outlives it.          *)
(***************************************************************************)
EXTENDS Naturals, FiniteSets

CONSTANT
  MaxApps     \* bound: applications made

App == 1 .. MaxApps
NoApp == 0
Listener == {"plain", "self"}   \* functions that capture self or do not

VARIABLES
  lua_state,      \* "open" or "closed"
  class_ref,      \* the class is registered as an implementation
  registry,       \* references held in the registry of Lua
  made,           \* number of applications made
  s_instance,     \* the application that exists, or NoApp
  context,        \* applications whose proxy has an invocation context
  userdata,       \* applications with a userdata that owns them
  script,         \* applications the script holds the userdata of
  listeners,      \* application -> the Lua functions that listen to it
  mainpc,         \* where main() is
  app,            \* the application main() owns, or NoApp
  nilSelf         \* history: a method was called with nil as self

ownerVars == <<s_instance, userdata, app, registry, listeners>>
luaVars == <<lua_state, class_ref, made, context, script, mainpc, nilSelf,
             ownerVars>>

LuaInit ==
  /\ lua_state = "open" /\ class_ref = FALSE /\ registry = 0 /\ made = 0
  /\ s_instance = NoApp /\ context = {} /\ userdata = {} /\ script = {}
  /\ listeners = [a \in App |-> {}]
  /\ mainpc = "none" /\ app = NoApp /\ nilSelf = FALSE

------------------------------------------------------------------------------
(* Ownership.                                                              *)

\* What the registry holds for the application a: the class and the weak
\* table of its context, and the functions of its listeners.
RefsOf(a) ==
  (IF a \in context THEN 2 ELSE 0) + Cardinality(listeners[a])

\* Mutant: the deleter of the proxy forgets the weak table.
RefsReleasedButTable(a) ==
  (IF a \in context THEN 1 ELSE 0) + Cardinality(listeners[a])

RefsReleased(a) == RefsOf(a)

\* Mutant: a userdata that goes takes the object along.
LastUserdata(a, main, heap) == a \notin heap

\* Nobody else owns a.
LastOwner(a, main, heap) == main # a /\ a \notin heap

\* The owners become main and heap: an application nobody owns any more is
\* destroyed, with its listeners and its invocation context.
Own(main, heap) ==
  /\ app' = main /\ userdata' = heap
  /\ IF s_instance # NoApp /\ LastOwner(s_instance, main, heap)
       THEN /\ s_instance' = NoApp
            /\ registry' = registry - RefsReleased(s_instance)
            /\ listeners' = [listeners EXCEPT ![s_instance] = {}]
       ELSE UNCHANGED <<s_instance, registry, listeners>>

\* class_call(), the factory: the constructor refuses a second application.
ConstructApplication(withContext) ==
  /\ lua_state = "open"
  /\ s_instance = NoApp /\ made < MaxApps
  /\ made' = made + 1 /\ s_instance' = made + 1
  /\ userdata' = userdata \cup {made + 1}
  /\ context' = IF withContext THEN context \cup {made + 1} ELSE context
  /\ registry' = IF withContext THEN registry + 2 ELSE registry
  /\ UNCHANGED <<lua_state, class_ref, listeners, nilSelf>>

\* register_component() of the script.
RegisterComponent ==
  /\ lua_state = "open" /\ ~class_ref
  /\ class_ref' = TRUE /\ registry' = registry + 1
  /\ UNCHANGED <<lua_state, made, context, script, mainpc, nilSelf, s_instance,
                 userdata, app, listeners>>

\* create_component() finds the userdata the factory made through the context.
CreateComponent ==
  /\ class_ref /\ mainpc = "none"
  /\ ConstructApplication(TRUE)
  /\ script' = script \cup {made + 1}
  /\ UNCHANGED <<mainpc, app>>

\* Calling the class itself makes a proxy that has no context.
ClassCall ==
  /\ mainpc = "none"
  /\ ConstructApplication(FALSE)
  /\ script' = script \cup {made + 1}
  /\ UNCHANGED <<mainpc, app>>

------------------------------------------------------------------------------
(* A method of the class is called by way of the proxy.                    *)

\* The method may keep self and add listeners, itself or by way of
\* application.instance(); whether it fails nobody learns.
CallMethod(a) ==
  IF a \notin context
  THEN UNCHANGED <<nilSelf, script, listeners, registry>>
  ELSE /\ nilSelf' = (nilSelf \/ a \notin userdata)
       /\ \E stillHeld \in SUBSET (userdata \cap {a}),
             more \in SUBSET (IF a \in userdata THEN Listener ELSE {"plain"}) :
            /\ script' = script \cup stillHeld
            /\ listeners' = [listeners EXCEPT ![a] = @ \cup more]
            /\ registry' = registry + Cardinality(more \ listeners[a])

\* The script calls a method of an application it holds.
ScriptCalls(a) ==
  /\ mainpc = "none" /\ a \in script
  /\ CallMethod(a)
  /\ UNCHANGED <<lua_state, class_ref, made, context, mainpc, s_instance,
                 userdata, app>>

ScriptDrops(a) ==
  /\ a \in script
  /\ script' = script \ {a}
  /\ UNCHANGED <<lua_state, class_ref, made, context, mainpc, nilSelf,
                 ownerVars>>

------------------------------------------------------------------------------
(* application::main(), called by the script with the name of the class.   *)

MainCreates ==
  /\ class_ref /\ mainpc = "none"
  /\ ConstructApplication(TRUE)
  /\ app' = made + 1 /\ mainpc' = "setup"
  /\ UNCHANGED script

MainGoesOn == [setup |-> "run", run |-> "clear", teardown |-> "return"]

\* setup(), run() and teardown() are methods of the class, if it has them; in
\* the loop of run() the listeners are called, which may keep self as well.
MainCalls ==
  /\ mainpc \in DOMAIN MainGoesOn
  /\ CallMethod(app)
  /\ mainpc' = MainGoesOn[mainpc]
  /\ UNCHANGED <<lua_state, class_ref, made, context, s_instance, userdata, app>>

\* Mutant: the map is emptied, the functions stay referenced.
ClearCallbacksOnly ==
  /\ mainpc = "clear"
  /\ listeners' = [listeners EXCEPT ![app] = {}]
  /\ mainpc' = "teardown"
  /\ UNCHANGED <<lua_state, class_ref, registry, made, context, script,
                 nilSelf, s_instance, userdata, app>>

ClearCallbacks ==
  /\ mainpc = "clear"
  /\ registry' = registry - Cardinality(listeners[app])
  /\ listeners' = [listeners EXCEPT ![app] = {}]
  /\ mainpc' = "teardown"
  /\ UNCHANGED <<lua_state, class_ref, made, context, script, nilSelf,
                 s_instance, userdata, app>>

\* main() returns, or initialize() or C++ code in the loop throws and main()
\* returns all the same.
MainReturns ==
  /\ mainpc \in {"setup", "run", "clear", "return"}
  /\ mainpc' = "none"
  /\ Own(NoApp, userdata)
  /\ UNCHANGED <<lua_state, class_ref, made, context, script, nilSelf>>

------------------------------------------------------------------------------
(* Lua.                                                                    *)

\* Reachable userdata: those the script holds, and those a listener captured.
Reachable == script \cup {a \in App : "self" \in listeners[a]}

\* Lua collects one userdata, and releases the pointer in it.
Collect(a) ==
  /\ lua_state = "open"
  /\ a \in userdata \ Reachable
  /\ Own(app, userdata \ {a})
  /\ UNCHANGED <<lua_state, class_ref, made, context, script, mainpc, nilSelf>>

\* lua_close(), at the end of main() of the context or by its destructor,
\* releases every userdata; the destructor also takes back the implementation.
CloseState ==
  /\ lua_state = "open" /\ mainpc = "none"
  /\ lua_state' = "closed" /\ class_ref' = FALSE /\ script' = {}
  /\ s_instance' = NoApp /\ userdata' = {} /\ registry' = 0
  /\ listeners' = [a \in App |-> {}]
  /\ UNCHANGED <<made, context, mainpc, nilSelf, app>>

LuaNext ==
  \/ RegisterComponent \/ CreateComponent \/ ClassCall
  \/ \E a \in App : ScriptCalls(a) \/ ScriptDrops(a) \/ Collect(a)
  \/ MainCreates \/ MainCalls \/ ClearCallbacks \/ MainReturns
  \/ CloseState

LuaSpec == LuaInit /\ [][LuaNext]_luaVars

------------------------------------------------------------------------------
(* Properties.                                                             *)

\* The application that exists is the one somebody owns: it is destroyed with
\* its last owner and never before, and then another one may be made.  With it
\* goes all it held in Lua: no reference is leaked and none released twice.
OwnedByHolders ==
  /\ \A a \in App : a = s_instance <=> a = app \/ a \in userdata
  /\ script \subseteq userdata
  /\ lua_state = "open" =>
       registry = (IF class_ref THEN 1 ELSE 0)
                  + (IF s_instance = NoApp THEN 0 ELSE RefsOf(s_instance))

\* lua_context.cpp:302 says of the userdata of a component that it is there
\* "so that the invocation context can push 'self' with C++ methods".
SelfPassed == ~nilSelf
==============================================================================
