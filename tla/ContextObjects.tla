---------------------------- MODULE ContextObjects ----------------------------
(***************************************************************************)
(* The objects of one render context - shaders, programs and vertex or     *)
(* index buffers - and the deferred work on them.  compile(), set_shader(),*)
(* link() and set_data() only register a prepare-frame action that holds   *)
(* raw pointers; frame() runs the actions in order, and the first that     *)
(* throws drops the rest.  An object is named by its slot, which is never  *)
(* used again, so a handle is its slot.                                    *)
(***************************************************************************)
EXTENDS Naturals, Sequences

CONSTANTS
  Shaders, Programs, Buffers,   \* slots of the three object vectors
  Linkable,                     \* the sets of shaders that link together
  MaxActions,                   \* bound: length of the action queue
  MaxVersion                    \* bound: set_data calls per buffer

Object == Shaders \union Programs \union Buffers

VARIABLES
  slot,                     \* "none", "live" or "destroyed", per object
  m_initialized,            \* shaders with executable code
  m_ready,                  \* shaders and programs with m_ready set
  m_needs_link,             \* programs that need the link step
  attached,                 \* program -> shaders on_set_shader attached
  linked,                   \* program -> {} or {the shaders it linked}
  contents,                 \* buffer -> version of the data it holds
  m_prepare_frame_actions,
  pc, at,                   \* "idle", or frame() in "prepare"; next action
  wanted,                   \* history: buffer -> last version given
  linkCalled,               \* history: link() followed the last set_shader()
  failedAgain,              \* history: programs whose second link in one frame failed
  named,                    \* history: objects named since the last frame()
  dropped,                  \* history: programs and buffers an action of which
                            \* threw or was dropped
  careless,                 \* history: an object still in use was destroyed
  freedUse                  \* history: an action used a destroyed object

objectVars == <<slot, m_initialized, m_ready, m_needs_link, attached, linked,
                contents>>
frameVars  == <<pc, at>>
linkVars   == <<linkCalled, failedAgain>>
vars == <<objectVars, frameVars, m_prepare_frame_actions, wanted, linkVars,
          named, dropped, careless, freedUse>>

Live(o) == slot[o] = "live"

Action ==
  [op : {"compile"}, obj : Shaders] \union
  [op : {"set_shader"}, obj : Programs, shader : Shaders] \union
  [op : {"link"}, obj : Programs] \union
  [op : {"set_data"}, obj : Buffers, version : 1 .. MaxVersion]

\* The objects an action holds a raw pointer to.
Captures(a) ==
  {a.obj} \union (IF a.op = "set_shader" THEN {a.shader} ELSE {})

Init ==
  /\ slot = [o \in Object |-> "none"]
  /\ m_initialized = {} /\ m_ready = {} /\ m_needs_link = {}
  /\ attached = [p \in Programs |-> {}]
  /\ linked = [p \in Programs |-> {}]
  /\ contents = [b \in Buffers |-> 0]
  /\ m_prepare_frame_actions = <<>>
  /\ pc = "idle" /\ at = 1
  /\ wanted = [b \in Buffers |-> 0]
  /\ linkCalled = {} /\ failedAgain = {} /\ named = {} /\ dropped = {}
  /\ careless = FALSE /\ freedUse = FALSE

------------------------------------------------------------------------------
(* Calls between frames.                                                   *)

PrepareFrame(a) ==
  /\ Len(m_prepare_frame_actions) < MaxActions
  /\ m_prepare_frame_actions' = Append(m_prepare_frame_actions, a)
  /\ named' = named \union Captures(a)

Create(o) ==
  /\ pc = "idle"
  /\ slot[o] = "none"
  /\ slot' = [slot EXCEPT ![o] = "live"]
  /\ m_needs_link' = IF o \in Programs THEN m_needs_link \union {o}
                                       ELSE m_needs_link
  /\ UNCHANGED <<m_initialized, m_ready, attached, linked, contents,
                 frameVars, m_prepare_frame_actions, wanted, linkVars,
                 named, dropped, careless, freedUse>>

\* Mutant: m_initialized keeps its old value until the action runs.
CompileKeepsInitialized(s) ==
  /\ pc = "idle"
  /\ Live(s)
  /\ PrepareFrame([op |-> "compile", obj |-> s])
  /\ UNCHANGED <<objectVars, frameVars, wanted, linkVars, dropped, careless,
                 freedUse>>

\* shader::compile and shader::set_code.
Compile(s) ==
  /\ pc = "idle"
  /\ Live(s)
  /\ m_initialized' = m_initialized \ {s}
  /\ PrepareFrame([op |-> "compile", obj |-> s])
  /\ UNCHANGED <<slot, m_ready, m_needs_link, attached, linked, contents,
                 frameVars, wanted, linkVars, dropped, careless, freedUse>>

\* program::set_shader; a null shader handle throws and changes nothing.
SetShader(p, s) ==
  /\ pc = "idle"
  /\ Live(p) /\ Live(s)
  /\ PrepareFrame([op |-> "set_shader", obj |-> p, shader |-> s])
  /\ linkCalled' = linkCalled \ {p}
  /\ UNCHANGED <<objectVars, frameVars, wanted, failedAgain, dropped, careless,
                 freedUse>>

\* program::link tests m_needs_link when it is called.
LinkNeeded(p) == p \in m_needs_link

Link(p) ==
  /\ pc = "idle"
  /\ Live(p)
  /\ IF LinkNeeded(p) THEN PrepareFrame([op |-> "link", obj |-> p])
                      ELSE UNCHANGED <<m_prepare_frame_actions, named>>
  /\ linkCalled' = linkCalled \union {p}
  /\ UNCHANGED <<objectVars, frameVars, wanted, failedAgain, dropped, careless,
                 freedUse>>

\* index_buffer::set_data and vertex_buffer::set_data, and the data given to
\* create_index_buffer and create_vertex_buffer.
SetData(b) ==
  /\ pc = "idle"
  /\ Live(b)
  /\ wanted[b] < MaxVersion
  /\ wanted' = [wanted EXCEPT ![b] = @ + 1]
  /\ PrepareFrame([op |-> "set_data", obj |-> b, version |-> wanted[b] + 1])
  /\ UNCHANGED <<objectVars, frameVars, linkVars, dropped, careless,
                 freedUse>>

\* A client that is careful destroys what no call named since frame()
\* returned or threw, and what no program keeps attached.
Unused(o) ==
  /\ o \notin named
  /\ \A p \in Programs : Live(p) => o \notin attached[p]

\* handle::destroy: destroy_object deletes the object and nulls the slot.  A
\* bound: clients are careless once.
Destroy(o) ==
  /\ pc = "idle"
  /\ Live(o)
  /\ ~careless
  /\ slot' = [slot EXCEPT ![o] = "destroyed"]
  /\ careless' = (careless \/ ~Unused(o))
  /\ UNCHANGED <<m_initialized, m_ready, m_needs_link, attached, linked,
                 contents, frameVars, m_prepare_frame_actions, wanted,
                 linkVars, named, dropped, freedUse>>

------------------------------------------------------------------------------
(* The prepare phase of frame().                                           *)

FrameBegin ==
  /\ pc = "idle"
  /\ m_prepare_frame_actions # <<>>
  /\ pc' = "prepare" /\ at' = 1
  /\ UNCHANGED <<objectVars, m_prepare_frame_actions, wanted, linkVars,
                 named, dropped, careless, freedUse>>

Current == m_prepare_frame_actions[at]
Running(op) ==
  /\ pc = "prepare"
  /\ at <= Len(m_prepare_frame_actions)
  /\ Current.op = op
  /\ \A o \in Captures(Current) : Live(o)

\* The action returns; frame() goes on to the next one.
ActionDone ==
  at' = at + 1 /\ UNCHANGED <<pc, m_prepare_frame_actions, named, dropped>>

\* What is lost when action number at throws: its own work, and all actions
\* behind it.
Remaining ==
  {m_prepare_frame_actions[i].obj :
     i \in {j \in at .. Len(m_prepare_frame_actions) :
              m_prepare_frame_actions[j].op # "compile"}}

\* Mutant: the handler rethrows without emptying the queue.
ActionThrowsKeepsQueue ==
  /\ dropped' = dropped \union Remaining
  /\ named' = {}
  /\ pc' = "idle" /\ at' = 1
  /\ UNCHANGED m_prepare_frame_actions

\* The action throws: frame() empties the queue and rethrows.
ActionThrows ==
  /\ named' = {}
  /\ dropped' = dropped \union Remaining
  /\ m_prepare_frame_actions' = <<>>
  /\ pc' = "idle" /\ at' = 1

RunCompile ==
  /\ Running("compile")
  /\ m_initialized' = m_initialized \union {Current.obj}
  /\ m_ready' = m_ready \union {Current.obj}
  /\ ActionDone
  /\ UNCHANGED <<slot, m_needs_link, attached, linked, contents, wanted,
                 linkVars, careless, freedUse>>

\* The source of this call does not compile.
RunCompileFails ==
  /\ Running("compile")
  /\ ActionThrows
  /\ UNCHANGED <<objectVars, wanted, linkVars, careless, freedUse>>

\* Mutant: attaching a shader does not ask for a new link.
RunSetShaderKeepsLink ==
  /\ Running("set_shader")
  /\ LET p == Current.obj
         s == Current.shader
     IN IF s \notin m_initialized
          THEN ActionThrows /\ UNCHANGED attached
          ELSE /\ attached' = [attached EXCEPT ![p] = @ \union {s}]
               /\ ActionDone
  /\ UNCHANGED <<slot, m_initialized, m_ready, m_needs_link, linked, contents,
                 wanted, linkVars, careless, freedUse>>

RunSetShader ==
  /\ Running("set_shader")
  /\ LET p == Current.obj
         s == Current.shader
     IN IF s \notin m_initialized
          THEN ActionThrows /\ UNCHANGED <<attached, m_needs_link>>
          ELSE /\ attached' = [attached EXCEPT ![p] = @ \union {s}]
               /\ m_needs_link' = m_needs_link \union {p}
               /\ ActionDone
  /\ UNCHANGED <<slot, m_initialized, m_ready, linked, contents, wanted,
                 linkVars, careless, freedUse>>

\* on_link forgets what it linked before and reads the attached shaders, each
\* of which is still there.
LinkRuns ==
  /\ Running("link")
  /\ \A s \in attached[Current.obj] : Live(s)

RunLink ==
  /\ LinkRuns
  /\ LET p == Current.obj
     IN /\ attached[p] \in Linkable
        /\ linked' = [linked EXCEPT ![p] = {attached[p]}]
        /\ m_needs_link' = m_needs_link \ {p}
        /\ m_ready' = m_ready \union {p}
  /\ ActionDone
  /\ UNCHANGED <<slot, m_initialized, attached, contents, wanted, linkVars,
                 careless, freedUse>>

\* An earlier action of this frame was a link of the same program.
LinkedBefore ==
  \E i \in 1 .. at - 1 :
    /\ m_prepare_frame_actions[i].op = "link"
    /\ m_prepare_frame_actions[i].obj = Current.obj

\* Mutant: the flag is reset before on_link is called.
RunLinkFailsLate ==
  /\ LinkRuns
  /\ linked' = [linked EXCEPT ![Current.obj] = {}]
  /\ m_needs_link' = m_needs_link \ {Current.obj}
  /\ ActionThrows
  /\ failedAgain' = IF LinkedBefore THEN failedAgain \union {Current.obj}
                                    ELSE failedAgain
  /\ UNCHANGED <<slot, m_initialized, m_ready, attached, contents, wanted,
                 linkCalled, careless, freedUse>>

\* The shaders do not link together, or the device or the reflection of a
\* shader fails, whatever was linked before: the program is left without
\* what it had, and its flags are as they were.
RunLinkFails ==
  /\ LinkRuns
  /\ linked' = [linked EXCEPT ![Current.obj] = {}]
  /\ ActionThrows
  /\ failedAgain' = IF LinkedBefore THEN failedAgain \union {Current.obj}
                                    ELSE failedAgain
  /\ UNCHANGED <<slot, m_initialized, m_ready, m_needs_link, attached, contents,
                 wanted, linkCalled, careless, freedUse>>

\* Mutant: only the first data given to a buffer are uploaded.
RunSetDataOnce ==
  /\ Running("set_data")
  /\ contents' = [contents EXCEPT
       ![Current.obj] = IF @ = 0 THEN Current.version ELSE @]
  /\ dropped' = dropped \ {Current.obj}
  /\ at' = at + 1
  /\ UNCHANGED <<slot, m_initialized, m_ready, m_needs_link, attached, linked,
                 pc, m_prepare_frame_actions, wanted, linkVars, named,
                 careless, freedUse>>

RunSetData ==
  /\ Running("set_data")
  /\ contents' = [contents EXCEPT ![Current.obj] = Current.version]
  /\ dropped' = dropped \ {Current.obj}
  /\ at' = at + 1
  /\ UNCHANGED <<slot, m_initialized, m_ready, m_needs_link, attached, linked,
                 pc, m_prepare_frame_actions, wanted, linkVars, named,
                 careless, freedUse>>

\* The buffer cannot be mapped or flushed, or the transfer takes too long: it
\* keeps what it has, or has the new data already.
RunSetDataFails ==
  /\ Running("set_data")
  /\ \E version \in {contents[Current.obj], Current.version} :
       contents' = [contents EXCEPT ![Current.obj] = version]
  /\ ActionThrows
  /\ UNCHANGED <<slot, m_initialized, m_ready, m_needs_link, attached, linked,
                 wanted, linkVars, careless, freedUse>>

\* What an action reads or writes: the objects it holds pointers to, and for
\* a link the shaders the program keeps pointers to.
Used(a) ==
  Captures(a) \union (IF a.op = "link" THEN attached[a.obj] ELSE {})

\* An action uses an object that was deleted meanwhile; what happens then is
\* undefined and the model ends.
RunOnFreedObject ==
  /\ pc = "prepare"
  /\ at <= Len(m_prepare_frame_actions)
  /\ \E o \in Used(Current) : ~Live(o)
  /\ freedUse' = TRUE
  /\ pc' = "undefined"
  /\ UNCHANGED <<objectVars, at, m_prepare_frame_actions, wanted, linkVars,
                 named, dropped, careless>>

\* All actions have returned: the queue is emptied, rendering begins.
PrepareDone ==
  /\ pc = "prepare"
  /\ at > Len(m_prepare_frame_actions)
  /\ m_prepare_frame_actions' = <<>>
  /\ named' = {}
  /\ pc' = "idle" /\ at' = 1
  /\ UNCHANGED <<objectVars, wanted, linkVars, dropped, careless, freedUse>>

Next ==
  \/ \E o \in Object : Create(o) \/ Destroy(o)
  \/ \E s \in Shaders : Compile(s)
  \/ \E p \in Programs, s \in Shaders : SetShader(p, s)
  \/ \E p \in Programs : Link(p)
  \/ \E b \in Buffers : SetData(b)
  \/ FrameBegin
  \/ RunCompile \/ RunCompileFails \/ RunSetShader \/ RunLink \/ RunLinkFails
  \/ RunSetData \/ RunSetDataFails
  \/ RunOnFreedObject
  \/ PrepareDone

Spec == Init /\ [][Next]_vars

------------------------------------------------------------------------------
(* Properties.                                                             *)

\* Clients that destroy an object only when no call since the last frame()
\* named it and no program keeps it never make an action use freed memory:
\* both exits of the prepare phase leave no action behind.
NoFreedUse == freedUse => careless

LinkedIsCurrent ==
  \A p \in Programs :
    Live(p) /\ p \notin m_needs_link =>
      linked[p] = {attached[p]} \/ (linked[p] = {} /\ p \in failedAgain)

InitializedIsSettled ==
  pc = "idle" =>
    \A s \in m_initialized, i \in DOMAIN m_prepare_frame_actions :
      ~ /\ m_prepare_frame_actions[i].op = "compile"
        /\ m_prepare_frame_actions[i].obj = s

\* A program that says it needs no link was linked with exactly the shaders
\* attached to it, whatever calls and failures came between; only where two
\* links of it waited for one frame, and the second one failed, it is not linked
\* at all and says that it is.  And between frames a shader that says it is
\* initialized has no compilation outstanding, so set_shader's check cannot pass
\* on code to be replaced.
FlagsAreCurrent == LinkedIsCurrent /\ InitializedIsSettled

\* After a frame a buffer holds the data last given to it, unless the upload
\* itself failed or frame() dropped it behind another action that failed; the
\* next upload that succeeds makes that good.
LastDataWins ==
  \A b \in Buffers :
    /\ pc = "idle" /\ m_prepare_frame_actions = <<>>
    /\ Live(b) /\ b \notin dropped
    => contents[b] = wanted[b]

\* program.hpp:104: "Links the program. A program must be linked after setting
\* all shader programs."  A program for which link() was called after its
\* last set_shader(), and whose actions all ran, needs no link.
LinkTakesEffect ==
  \A p \in linkCalled :
    pc = "idle" /\ m_prepare_frame_actions = <<>> /\ dropped = {}
    => p \notin m_needs_link
==============================================================================
