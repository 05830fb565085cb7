------------------------------- MODULE DrawLoops -------------------------------
(***************************************************************************)
(* How the four backends execute the draws of a pass: one loop over the    *)
(* draws for the opaque ones, a second one if a blended draw was seen.     *)
(* Vulkan and Direct3D 12 keep the state of a draw in a pipeline object    *)
(* and set only the scissor between draws; their second loop executes all  *)
(* draws.  Direct3D 11 and OpenGL switch the state of the device around    *)
(* each draw, and their second loop takes the blended draws only.  A draw  *)
(* may throw: the frame is left with the device as it is, and the draws    *)
(* stay for the next frame.                                                *)
(***************************************************************************)
EXTENDS Naturals, Sequences, FiniteSets

CONSTANTS
  Backends,    \* the backends the program may use
  MaxDraws,    \* bound: draws in a pass
  MaxFrames    \* bound: frames

\* What command_buffer::draw() keeps of the current state of the buffer; a
\* scissor of area 0 ("none") means that of the pass.
DrawState == [blend : BOOLEAN, scissor : {"none", "own"}, cull : BOOLEAN,
              write : BOOLEAN, func : {"LESS", "ALWAYS"}]

VARIABLES
  backend,
  draws,              \* the draws recorded for the pass
  loop, at,           \* the loop of the pass and the next draw in it
  blend_pass_needed,
  current_scissor,
  device,             \* the state the next draw call of the device will use
  executed,           \* history: the draw calls of this pass, with their state
  frames,             \* history: frames begun
  failed              \* history: a draw has thrown in some frame

loopVars == <<backend, draws, loop, at, blend_pass_needed, current_scissor,
              device, executed, frames, failed>>

Default == [blend |-> FALSE, scissor |-> "pass", cull |-> FALSE, write |-> TRUE,
            func |-> "LESS"]

Init ==
  /\ backend \in Backends /\ draws = <<>>
  /\ loop = "none" /\ at = 1 /\ blend_pass_needed = FALSE
  /\ current_scissor = "pass" /\ device = Default
  /\ executed = <<>> /\ frames = 0 /\ failed = FALSE

\* Setters of the command buffer, then draw().
Draw(s) ==
  /\ loop = "none" /\ Len(draws) < MaxDraws
  /\ draws' = Append(draws, s)
  /\ UNCHANGED <<backend, loop, at, blend_pass_needed, current_scissor, device,
                 executed, frames, failed>>

------------------------------------------------------------------------------
(* The state a draw is executed with, per backend: what is set before the  *)
(* draw call, and what is undone after it.                                 *)

Effective(d) == IF d.scissor = "own" THEN "own" ELSE "pass"

\* A pipeline object holds all of it: pipeline(), static_pipeline_state().
VulkanBefore(d, dev) ==
  [d EXCEPT !.scissor = dev.scissor]
Dx12Before(d, dev) ==
  [d EXCEPT !.scissor = dev.scissor]

\* The state objects of Direct3D 11; only a draw that does not write depth
\* sets a depth state, and then puts the default back.
Dx11Before(d, dev) ==
  [dev EXCEPT !.cull  = d.cull,
              !.write = @ /\ d.write,
              !.func  = IF d.write THEN @ ELSE d.func,
              !.blend = @ \/ loop = "second"]
Dx11After(d, dev) ==
  IF d.write THEN dev ELSE [dev EXCEPT !.write = TRUE, !.func = "LESS"]

\* The switches of OpenGL: on for a draw that needs them, off after it.  In
\* the second loop culling goes off before a draw that does not write depth,
\* and stays on after one that does.
OpenglBefore(d, dev) ==
  [dev EXCEPT !.cull  = (@ \/ d.cull)
                          /\ ~(loop = "second" /\ ~d.write /\ d.cull),
              !.write = @ /\ d.write,
              !.func  = d.func]
OpenglAfter(d, dev) ==
  [dev EXCEPT !.cull  = @ /\ ~(loop = "first" /\ d.cull),
              !.write = @ \/ ~d.write]

Before(d, dev) == CASE backend = "vulkan" -> VulkanBefore(d, dev)
                    [] backend = "dx12"   -> Dx12Before(d, dev)
                    [] backend = "dx11"   -> Dx11Before(d, dev)
                    [] backend = "opengl" -> OpenglBefore(d, dev)
After(d, dev) == CASE backend = "dx11"   -> Dx11After(d, dev)
                   [] backend = "opengl" -> OpenglAfter(d, dev)
                   [] OTHER              -> dev

\* Is a draw of this state executed in the loop?
TakenByVulkan(d) == loop = "second" \/ ~d.blend
TakenByDx12(d) == loop = "second" \/ ~d.blend
\* Mutant: the second loop of Direct3D 11 forgets the test.
TakenByDx11Always(d) == loop = "second" \/ ~d.blend
TakenByDx11(d) == d.blend = (loop = "second")
TakenByOpengl(d) == d.blend = (loop = "second")
Taken(d) == CASE backend = "vulkan" -> TakenByVulkan(d)
              [] backend = "dx12"   -> TakenByDx12(d)
              [] backend = "dx11"   -> TakenByDx11(d)
              [] backend = "opengl" -> TakenByOpengl(d)

\* Vulkan and Direct3D 12 set the scissor also for draws they leave out.
ScissorSet(d) == Taken(d) \/ backend \in {"vulkan", "dx12"}

------------------------------------------------------------------------------
(* render(p).                                                              *)

\* The device gets the scissor of the pass, current_scissor follows.
BeginPass ==
  /\ loop = "none" /\ draws # <<>> /\ frames < MaxFrames
  /\ loop' = "first" /\ at' = 1 /\ blend_pass_needed' = FALSE
  /\ current_scissor' = "pass" /\ device' = [device EXCEPT !.scissor = "pass"]
  /\ executed' = <<>> /\ frames' = frames + 1
  /\ UNCHANGED <<backend, draws, failed>>

\* Mutant: the draw's own scissor is remembered but not set again for the pass.
WithScissorOwn(d, dev) ==
  IF ScissorSet(d) /\ d.scissor = "own" THEN [dev EXCEPT !.scissor = "own"]
  ELSE dev
WithScissor(d, dev) ==
  IF ScissorSet(d) /\ Effective(d) # current_scissor
  THEN [dev EXCEPT !.scissor = Effective(d)] ELSE dev

Execute ==
  /\ loop # "none" /\ at <= Len(draws)
  /\ LET d   == draws[at]
         dev == WithScissor(d, device)
     IN /\ current_scissor' = IF ScissorSet(d) THEN Effective(d)
                              ELSE current_scissor
        /\ IF Taken(d)
           THEN /\ executed' = Append(executed,
                                      [draw |-> at, with |-> Before(d, dev)])
                /\ device' = After(d, Before(d, dev))
           ELSE device' = dev /\ UNCHANGED executed
        /\ blend_pass_needed' = (blend_pass_needed \/ d.blend)
  /\ at' = at + 1
  /\ UNCHANGED <<backend, draws, loop, frames, failed>>

\* draw_geometry() throws, behind the state it was given.
DrawThrows ==
  /\ loop # "none" /\ at <= Len(draws) /\ Taken(draws[at])
  /\ device' = Before(draws[at], WithScissor(draws[at], device))
  /\ loop' = "none" /\ failed' = TRUE /\ executed' = <<>>
  /\ UNCHANGED <<backend, draws, at, blend_pass_needed, current_scissor,
                 frames>>

\* OpenGL switches blending on for the second loop.
SecondLoop ==
  /\ loop = "first" /\ at > Len(draws) /\ blend_pass_needed
  /\ loop' = "second" /\ at' = 1
  /\ device' = [device EXCEPT !.blend = @ \/ backend = "opengl"]
  /\ UNCHANGED <<backend, draws, blend_pass_needed, current_scissor, executed,
                 frames, failed>>

\* The frame is presented, its draws are gone; blending is off again.
EndPass ==
  /\ loop # "none" /\ at > Len(draws) /\ (loop = "first" => ~blend_pass_needed)
  /\ loop' = "none" /\ draws' = <<>> /\ executed' = <<>>
  /\ device' = [device EXCEPT !.blend = loop = "first" /\ @]
  /\ UNCHANGED <<backend, at, blend_pass_needed, current_scissor, frames,
                 failed>>

Next ==
  \/ \E s \in DrawState : Draw(s)
  \/ BeginPass \/ Execute \/ DrawThrows \/ SecondLoop \/ EndPass

Spec == Init /\ [][Next]_loopVars

------------------------------------------------------------------------------
(* Properties.                                                             *)

InPass == loop # "none"
Calls(i) == {k \in 1 .. Len(executed) : executed[k].draw = i}
State(k) == draws[executed[k].draw]

\* These keep the state of a draw in a pipeline, and repeat all draws in the
\* second loop.
Pipelined == backend \in {"vulkan", "dx12"}

\* How often a draw has been executed when the loops are where they are.
Times(i) ==
  IF draws[i].blend
  THEN IF loop = "second" /\ i < at THEN 1 ELSE 0
  ELSE IF loop = "second" THEN (IF Pipelined /\ i < at THEN 2 ELSE 1)
  ELSE IF i < at THEN 1 ELSE 0

\* No draw of a pass is lost between the two loops.  A blended one is executed
\* once, when every opaque one has been; with Direct3D 11 and OpenGL opaque
\* ones are executed once and none follows a blended one.  The second loop of
\* Vulkan and Direct3D 12 executes all draws as they were recorded: there each
\* opaque draw comes twice, the second time over the blended ones recorded
\* before it.
BlendedOverOpaque ==
  InPass =>
    /\ \A i \in 1 .. Len(draws) : Cardinality(Calls(i)) = Times(i)
    /\ \A k \in 1 .. Len(executed) : State(k).blend =>
         /\ \A i \in 1 .. Len(draws) :
              ~draws[i].blend => \E j \in Calls(i) : j < k
         /\ Pipelined \/ \A j \in k .. Len(executed) : State(j).blend
    /\ at > Len(draws) /\ (loop = "first" => ~blend_pass_needed) =>
         \A i \in 1 .. Len(draws) : Calls(i) # {}

\* Whatever was drawn before it, in this loop, the other one or a frame that
\* failed, a draw call has the scissor of its draw or of the pass, and, where
\* pipelines hold the state, all of it.  Direct3D 11 and OpenGL rely on what
\* the draws before have put back: blending is that of the draw, and so is
\* writing depth if the draw does write it, unless an earlier frame was left
\* by an exception.  Two settings are not the draw's: culling in OpenGL, and
\* in Direct3D 11 the depth function of a draw that writes depth.
OwnState ==
  InPass => \A k \in 1 .. Len(executed) :
    LET recorded == State(k)
        with     == executed[k].with
    IN /\ with.scissor = Effective(recorded)
       /\ Pipelined \/ ~failed => with.blend = recorded.blend
       /\ Pipelined \/ ~failed \/ ~recorded.write => with.write = recorded.write
       /\ backend # "opengl" => with.cull = recorded.cull
       /\ backend # "dx11" \/ ~recorded.write => with.func = recorded.func

\* command_buffer.hpp:67 says of the culling mode that it is for "subsequent
\* draw commands": a draw is culled as it was recorded.
OwnCulling ==
  InPass /\ ~failed => \A k \in 1 .. Len(executed) :
                         executed[k].with.cull = State(k).cull
==============================================================================
