---------------------------- MODULE RenderContext ----------------------------
(***************************************************************************)
(* One mge::render_context: its passes, the command buffer each thread     *)
(* records into, and frame(), which runs the prepare-frame actions,        *)
(* renders the active passes, resets the passes, clears every command      *)
(* buffer and presents.                                                    *)
(*                                                                         *)
(* Threads record between frames ("recorded on multiple threads and then   *)
(* submitted to the GPU on a single thread", command_buffer.rst), so a     *)
(* recording call is one step.  frame() is split at every point where an   *)
(* exception can leave it: an action of the prepare phase, render(p) of    *)
(* one pass, the screenshot and on_frame_present().  What the actions do   *)
(* to context objects is in ContextObjects; here they succeed or throw.    *)
(***************************************************************************)
EXTENDS Naturals, FiniteSets

CONSTANTS
  Threads,      \* threads with a command buffer
  MaxPasses,    \* bound: passes 0 .. MaxPasses - 1 may be created
  MaxDraws,     \* bound: draw commands recorded in a behaviour
  MaxActions,   \* bound: prepare-frame actions registered in a behaviour
  MaxAborts,    \* bound: exceptions leaving render() or the present phase
  MaxFrame      \* bound: the frame counter is not counted beyond this value

ASSUME BoundsAssumption ==
  /\ MaxPasses \in Nat /\ MaxDraws \in Nat /\ MaxActions \in Nat
  /\ MaxAborts \in Nat /\ MaxFrame \in Nat \ {0}

VARIABLES
  m_passes,                 \* number of passes that exist
  m_active,                 \* pass index -> pass::m_active
  m_command_buffers,        \* thread -> draws recorded; ids give their order
  m_prepare_frame_actions,  \* number of actions waiting for the next frame
  m_frame_counter,
  m_screenshot_at_frame,
  shots,                    \* history: screenshots taken for that frame number
  pc,                       \* where frame() is; "idle" between two frames
  pass,                     \* the pass frame() looks at next
  rendered,                 \* the local variable of frame()
  recorded,                 \* history: number of draws recorded so far
  registered,               \* history: number of actions registered so far
  executed,                 \* history: draw id -> times render() executed it
  cleared,                  \* history: ids wiped by command_buffer(true)
  open,                     \* history: ids executed since the last present
  presented,                \* history: ids that reached a present
  renderAborts,             \* history: frames left by an exception in render()
  presentAborts             \* history: frames left by one while presenting

recordVars  == <<m_passes, m_active, m_command_buffers, recorded, cleared>>
frameVars   == <<pc, pass, rendered>>
backendVars == <<executed, open, presented, renderAborts, presentAborts>>
counterVars == <<m_frame_counter, m_screenshot_at_frame, shots>>
actionVars  == <<m_prepare_frame_actions, registered>>
vars == <<recordVars, frameVars, backendVars, counterVars, actionVars>>

PassIndex == 0 .. MaxPasses - 1
DrawId    == 1 .. MaxDraws
Draw      == [id : DrawId, pass : PassIndex]

\* The draws every thread has recorded and no frame has taken yet.
Recorded == UNION {m_command_buffers[t] : t \in Threads}
Ids(S)   == {d.id : d \in S}
Pending  == Ids(Recorded)

\* for_each_draw_in_pass: the draws of pass p over all command buffers.
DrawsInPass(p) == {d \in Recorded : d.pass = p}

Init ==
  /\ m_passes = 0
  /\ m_active = [p \in PassIndex |-> FALSE]
  /\ m_command_buffers = [t \in Threads |-> {}]
  /\ m_prepare_frame_actions = 0
  /\ m_frame_counter = 1
  /\ m_screenshot_at_frame = 0 /\ shots = 0
  /\ pc = "idle" /\ pass = 0 /\ rendered = FALSE
  /\ recorded = 0 /\ registered = 0
  /\ executed = [i \in DrawId |-> 0]
  /\ cleared = {} /\ open = {} /\ presented = {}
  /\ renderAborts = 0 /\ presentAborts = 0

------------------------------------------------------------------------------
(* The calls of the application between two frames.                        *)

\* pass(index): the vector grows until the index exists.
CreatePass(p) ==
  /\ pc = "idle"
  /\ p >= m_passes
  /\ m_passes' = p + 1
  /\ UNCHANGED <<m_active, m_command_buffers, recorded, cleared,
                 frameVars, backendVars, counterVars, actionVars>>

\* pass::touch, clear_color, clear_depth and clear_stencil activate the pass.
TouchPass(p) ==
  /\ pc = "idle"
  /\ p < m_passes
  /\ m_active' = [m_active EXCEPT ![p] = TRUE]
  /\ UNCHANGED <<m_passes, m_command_buffers, recorded, cleared,
                 frameVars, backendVars, counterVars, actionVars>>

\* Mutant: the clear flag of command_buffer(clear) is ignored.
IgnoreClearFlag(t) ==
  /\ pc = "idle"
  /\ cleared' = cleared \union Ids(m_command_buffers[t])
  /\ UNCHANGED <<m_passes, m_active, m_command_buffers, recorded,
                 frameVars, backendVars, counterVars, actionVars>>

\* command_buffer(true): the calling thread's buffer is emptied.
ClearCommandBuffer(t) ==
  /\ pc = "idle"
  /\ cleared' = cleared \union Ids(m_command_buffers[t])
  /\ m_command_buffers' = [m_command_buffers EXCEPT ![t] = {}]
  /\ UNCHANGED <<m_passes, m_active, recorded,
                 frameVars, backendVars, counterVars, actionVars>>

\* Mutant: draw() does not touch the pass.
RecordDrawUntouched(t, p) ==
  /\ pc = "idle"
  /\ p < m_passes
  /\ recorded < MaxDraws
  /\ recorded' = recorded + 1
  /\ m_command_buffers' = [m_command_buffers EXCEPT
       ![t] = @ \union {[id |-> recorded + 1, pass |-> p]}]
  /\ UNCHANGED <<m_passes, m_active, cleared,
                 frameVars, backendVars, counterVars, actionVars>>

\* command_buffer().draw(pass(p), ...): touches the pass, records the draw.
RecordDraw(t, p) ==
  /\ pc = "idle"
  /\ p < m_passes
  /\ recorded < MaxDraws
  /\ recorded' = recorded + 1
  /\ m_active' = [m_active EXCEPT ![p] = TRUE]
  /\ m_command_buffers' = [m_command_buffers EXCEPT
       ![t] = @ \union {[id |-> recorded + 1, pass |-> p]}]
  /\ UNCHANGED <<m_passes, cleared,
                 frameVars, backendVars, counterVars, actionVars>>

\* prepare_frame(action).
RegisterAction ==
  /\ pc = "idle"
  /\ registered < MaxActions
  /\ registered' = registered + 1
  /\ m_prepare_frame_actions' = m_prepare_frame_actions + 1
  /\ UNCHANGED <<recordVars, frameVars, backendVars, counterVars>>

SetScreenshotAtFrame(n) ==
  /\ pc = "idle"
  /\ m_screenshot_at_frame' = n /\ shots' = 0
  /\ UNCHANGED <<recordVars, frameVars, backendVars, m_frame_counter,
                 actionVars>>

------------------------------------------------------------------------------
(* frame().                                                                *)

FrameBegin ==
  /\ pc = "idle"
  /\ pc' = "prepare" /\ pass' = 0 /\ rendered' = FALSE
  /\ UNCHANGED <<recordVars, backendVars, counterVars, actionVars>>

\* reset_prepare_frame_actions(): the queue is emptied, run or not.
ResetPrepareFrameActions == m_prepare_frame_actions' = 0

PrepareDone ==
  /\ pc = "prepare"
  /\ ResetPrepareFrameActions
  /\ pc' = "render"
  /\ UNCHANGED <<recordVars, pass, rendered, backendVars, counterVars,
                 registered>>

\* Mutant: the handler rethrows without emptying the queue.
PrepareThrowsKeepsActions ==
  /\ pc = "prepare"
  /\ m_prepare_frame_actions > 0
  /\ pc' = "idle"
  /\ UNCHANGED <<recordVars, pass, rendered, backendVars, counterVars,
                 actionVars>>

\* Mutant: the handler also resets the passes.
PrepareThrowsResetsPasses ==
  /\ pc = "prepare"
  /\ m_prepare_frame_actions > 0
  /\ ResetPrepareFrameActions
  /\ m_active' = [p \in PassIndex |-> FALSE]
  /\ pc' = "idle"
  /\ UNCHANGED <<m_passes, m_command_buffers, recorded, cleared, pass,
                 rendered, backendVars, counterVars, registered>>

\* An action throws: the queue is emptied and frame() rethrows.
PrepareThrows ==
  /\ pc = "prepare"
  /\ m_prepare_frame_actions > 0
  /\ ResetPrepareFrameActions
  /\ pc' = "idle"
  /\ UNCHANGED <<recordVars, pass, rendered, backendVars, counterVars,
                 registered>>

\* The backend executes the draws S.
Execute(S) ==
  /\ executed' = [i \in DrawId |->
                    IF i \in Ids(S) THEN executed[i] + 1 ELSE executed[i]]
  /\ open' = open \union Ids(S)

RenderPass ==
  /\ pc = "render"
  /\ pass < m_passes
  /\ m_active[pass]
  /\ Execute(DrawsInPass(pass))
  /\ rendered' = TRUE
  /\ pass' = pass + 1
  /\ UNCHANGED <<recordVars, pc, presented, renderAborts, presentAborts,
                 counterVars, actionVars>>

SkipPass ==
  /\ pc = "render"
  /\ pass < m_passes
  /\ ~m_active[pass]
  /\ pass' = pass + 1
  /\ UNCHANGED <<recordVars, pc, rendered, backendVars, counterVars,
                 actionVars>>

\* Mutant: command buffers are cleared when an exception leaves render().
RenderThrowsClearsBuffers ==
  /\ pc = "render"
  /\ pass < m_passes
  /\ m_active[pass]
  /\ renderAborts < MaxAborts
  /\ \E S \in SUBSET DrawsInPass(pass) : Execute(S)
  /\ m_command_buffers' = [t \in Threads |-> {}]
  /\ renderAborts' = renderAborts + 1
  /\ pc' = "idle"
  /\ UNCHANGED <<m_passes, m_active, recorded, cleared, pass, rendered,
                 presented, presentAborts, counterVars, actionVars>>

\* render(p) throws after executing some of the draws of the pass; frame()
\* has no handler here, so passes and command buffers stay as they are.
RenderThrows ==
  /\ pc = "render"
  /\ pass < m_passes
  /\ m_active[pass]
  /\ renderAborts < MaxAborts
  /\ \E S \in SUBSET DrawsInPass(pass) : Execute(S)
  /\ renderAborts' = renderAborts + 1
  /\ pc' = "idle"
  /\ UNCHANGED <<recordVars, pass, rendered, presented, presentAborts,
                 counterVars, actionVars>>

CountFrame ==
  m_frame_counter' = IF m_frame_counter < MaxFrame THEN m_frame_counter + 1
                                                   ELSE m_frame_counter

\* Mutant: the command buffers are not cleared after the passes.
ResetPassesOnly ==
  /\ pc = "render"
  /\ pass = m_passes
  /\ m_active' = [p \in PassIndex |-> FALSE]
  /\ IF rendered
       THEN pc' = "present" /\ UNCHANGED m_frame_counter
       ELSE pc' = "idle" /\ CountFrame
  /\ UNCHANGED <<m_passes, m_command_buffers, recorded, cleared, pass,
                 rendered, backendVars, m_screenshot_at_frame, shots,
                 actionVars>>

\* After the last pass: p.reset() for every pass, clear() for every buffer;
\* a frame that rendered nothing is counted and is over.
ResetPassesAndBuffers ==
  /\ pc = "render"
  /\ pass = m_passes
  /\ m_active' = [p \in PassIndex |-> FALSE]
  /\ m_command_buffers' = [t \in Threads |-> {}]
  /\ IF rendered
       THEN pc' = "present" /\ UNCHANGED m_frame_counter
       ELSE pc' = "idle" /\ CountFrame
  /\ UNCHANGED <<m_passes, recorded, cleared, pass, rendered, backendVars,
                 m_screenshot_at_frame, shots, actionVars>>

\* Mutant: every frame from the requested one on is captured.
ScreenshotDueFrom ==
  m_screenshot_at_frame # 0 /\ m_frame_counter >= m_screenshot_at_frame

ScreenshotDue ==
  m_screenshot_at_frame # 0 /\ m_frame_counter = m_screenshot_at_frame

TakeScreenshot == shots' = IF ScreenshotDue THEN shots + 1 ELSE shots

\* The screenshot, if one is due, on_frame_present(), and the counter.
Present ==
  /\ pc = "present"
  /\ TakeScreenshot
  /\ presented' = presented \union open
  /\ open' = {}
  /\ CountFrame
  /\ pc' = "idle"
  /\ UNCHANGED <<recordVars, pass, rendered, executed, renderAborts,
                 presentAborts, m_screenshot_at_frame, actionVars>>

\* screenshot() throws, or on_frame_present() after it: nothing is counted.
PresentThrows ==
  /\ pc = "present"
  /\ presentAborts < MaxAborts
  /\ presentAborts' = presentAborts + 1
  /\ TakeScreenshot \/ UNCHANGED shots
  /\ pc' = "idle"
  /\ UNCHANGED <<recordVars, pass, rendered, executed, open, presented,
                 renderAborts, m_frame_counter, m_screenshot_at_frame,
                 actionVars>>

Frame ==
  \/ PrepareDone \/ PrepareThrows
  \/ RenderPass \/ SkipPass \/ RenderThrows
  \/ ResetPassesAndBuffers
  \/ Present \/ PresentThrows

Application ==
  \/ \E p \in PassIndex : CreatePass(p) \/ TouchPass(p)
  \/ \E t \in Threads : ClearCommandBuffer(t)
  \/ \E t \in Threads, p \in PassIndex : RecordDraw(t, p)
  \/ RegisterAction
  \/ \E n \in 0 .. MaxFrame - 1 : SetScreenshotAtFrame(n)

Next == Application \/ FrameBegin \/ Frame

Spec == Init /\ [][Next]_vars

\* The application's loop keeps calling frame(), and frame() runs to an end.
FairSpec == Spec /\ WF_vars(FrameBegin) /\ WF_vars(Frame)

------------------------------------------------------------------------------
(* Properties.                                                             *)

\* Every variable has its type.
TypeOK ==
  /\ m_passes \in 0 .. MaxPasses
  /\ m_active \in [PassIndex -> BOOLEAN]
  /\ m_command_buffers \in [Threads -> SUBSET Draw]
  /\ m_prepare_frame_actions \in Nat
  /\ m_frame_counter \in 1 .. MaxFrame
  /\ m_screenshot_at_frame \in 0 .. MaxFrame - 1
  /\ pc \in {"idle", "prepare", "render", "present"}
  /\ pass \in 0 .. MaxPasses
  /\ rendered \in BOOLEAN
  /\ recorded \in 0 .. MaxDraws
  /\ registered \in 0 .. MaxActions
  /\ executed \in [DrawId -> Nat]
  /\ cleared \subseteq DrawId /\ open \subseteq DrawId
  /\ presented \subseteq DrawId
  /\ renderAborts \in 0 .. MaxAborts /\ presentAborts \in 0 .. MaxAborts
  /\ shots \in Nat

\* A draw waiting in a command buffer targets a pass that exists and is
\* active, whatever frames were aborted since it was recorded: draw() touches
\* the pass, and only a frame that empties the buffers resets the passes.
PendingDrawHasActivePass ==
  \A d \in Recorded : d.pass < m_passes /\ m_active[d.pass]

\* No draw is lost: when frame() has emptied the buffers, or has been left by
\* an exception, each draw recorded so far is still waiting, was wiped by its
\* own thread, or was executed.
NoDrawLost ==
  \A i \in 1 .. recorded : i \in Pending \/ i \in cleared \/ executed[i] > 0

\* A draw is executed once, and once more at most for each frame an exception
\* in render() aborted: neither a failing prepare phase nor a failing present
\* makes a later frame repeat a draw.
ExecutedOncePerAttempt ==
  \A i \in DrawId : executed[i] <= 1 + renderAborts

\* The screenshot asked for one frame number is taken once, and once more at
\* most for each frame that was not counted because presenting it threw.
ScreenshotOnce == shots <= 1 + presentAborts

\* What a frame does is done once for each attempt at the frame.
NothingRepeated == ExecutedOncePerAttempt /\ ScreenshotOnce

\* Nothing is executed but what was recorded, and a draw its thread wiped
\* with command_buffer(true) is not presented unless an aborted frame had
\* already executed it.
WipedDrawNotPresented ==
  renderAborts = 0 => cleared \cap (presented \union open) = {}

\* Every draw is eventually executed or wiped, as long as frame() is called,
\* whatever prepare actions throw: a throwing action is not retried.
EveryDrawHandled ==
  \A i \in DrawId : i \in Pending ~> (executed[i] > 0 \/ i \in cleared)

------------------------------------------------------------------------------
(* What frame() promises of the recorded draws.                            *)

Executed == {i \in 1 .. recorded : executed[i] > 0}

\* The frame is the batch of FrameBatches: the draws executed and no longer
\* waiting are done; an aborted frame leaves the batch as it was.
Batches == INSTANCE FrameBatches WITH
  waiting <- Pending,
  done    <- Executed \ (Pending \union cleared),
  wiped   <- cleared
BatchesSpec == Batches!Spec
==============================================================================
