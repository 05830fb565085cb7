------------------------------- MODULE Dx12Frame -------------------------------
(***************************************************************************)
(* How the Direct3D 12 render context of a window reuses its two command   *)
(* allocators, one for the frames and one for transfers.  Before an        *)
(* allocator is reset wait_for_command_queue() signals the next fence      *)
(* value behind everything submitted and blocks on the one auto-reset      *)
(* event of the context, at most ten seconds.  Threads other than the one  *)
(* that renders come in through the transfers of buffers and textures.     *)
(***************************************************************************)
EXTENDS Naturals, Sequences, FiniteSets

CONSTANTS
  Loaders,    \* threads that create buffers and textures while others render
  Timeouts,   \* may WaitForSingleObject give up?
  MaxFence    \* bound: fence values signaled

ThreadIds == {"render"} \cup Loaders
BackBuffers == {0, 1}           \* buffer_count

VARIABLES
  m_draw_state,
  m_command_list,             \* the barriers recorded in the list of the frame
  m_command_queue_fence_value,
  back,          \* GetCurrentBackBufferIndex()
  m_data_lock,   \* who holds it, or "none"
  dxpc,          \* thread -> where it stands
  work,          \* thread -> what it waits for: "back" or "fbo" (the target of
                 \* a pass) or "xfer"
  fence,         \* thread -> the value it waits for
  rendered,      \* has this frame() rendered a pass?
  commands,      \* the command queue: lists, signals and presents to come
  completed,     \* the value of the fence
  event, armed,  \* the event, and the values that will set it
  bufferState,   \* back buffer -> its resource state
  gaveUp,        \* history: a wait has timed out
  tooEarly,      \* history: a wait returned with its fence not reached
  resetBusy,     \* history: an allocator was reset while its list was queued
  misplaced      \* history: a barrier or a present met the wrong state

cpuVars == <<m_draw_state, m_command_list, m_command_queue_fence_value, back,
             m_data_lock, dxpc, work, fence, rendered>>
gpuVars == <<commands, completed, bufferState, misplaced>>
dxVars  == <<cpuVars, gpuVars, event, armed, gaveUp, tooEarly, resetBusy>>

List(kind, barriers) == [what |-> kind, buffer |-> back, barriers |-> barriers]
Queued(kind) == \E i \in 1 .. Len(commands) : commands[i].what = kind

Init ==
  /\ m_draw_state = "NONE" /\ m_command_list = <<>>
  /\ m_command_queue_fence_value = 0 /\ back = 0 /\ m_data_lock = "none"
  /\ dxpc = [t \in ThreadIds |-> "idle"] /\ work = [t \in ThreadIds |-> "xfer"]
  /\ fence = [t \in ThreadIds |-> 0] /\ rendered = FALSE
  /\ commands = <<>> /\ completed = 0 /\ event = FALSE /\ armed = {}
  /\ bufferState = [b \in BackBuffers |-> "PRESENT"]
  /\ gaveUp = FALSE /\ tooEarly = FALSE /\ resetBusy = FALSE
  /\ misplaced = FALSE

Goto(t, label) == dxpc' = [dxpc EXCEPT ![t] = label]

------------------------------------------------------------------------------
(* The thread that renders.                                                *)

\* render(p): the first pass of a frame waits, a later one goes on recording.
RenderPass(target) ==
  /\ dxpc["render"] = "idle"
  /\ m_command_queue_fence_value < MaxFence
  /\ work' = [work EXCEPT !["render"] = target]
  /\ Goto("render", IF m_draw_state = "NONE" THEN "signal" ELSE "target")
  /\ UNCHANGED <<m_draw_state, m_command_list, m_command_queue_fence_value,
                 back, m_data_lock, fence, rendered, gpuVars, event, armed,
                 gaveUp, tooEarly, resetBusy>>

\* The pass gets its target; a back buffer first leaves the state PRESENT.
SetTarget ==
  /\ dxpc["render"] = "target"
  /\ IF work["render"] = "back" /\ m_draw_state # "DRAW"
     THEN /\ m_command_list' = Append(m_command_list, "RENDER_TARGET")
          /\ m_draw_state' = "DRAW"
     ELSE UNCHANGED <<m_command_list, m_draw_state>>
  /\ rendered' = TRUE /\ Goto("render", "idle")
  /\ UNCHANGED <<m_command_queue_fence_value, back, m_data_lock, work, fence,
                 gpuVars, event, armed, gaveUp, tooEarly, resetBusy>>

\* A draw throws: frame() is left, the list stays open and the state as it is.
PassThrows ==
  /\ dxpc["render"] = "idle" /\ rendered
  /\ rendered' = FALSE
  /\ UNCHANGED <<m_draw_state, m_command_list, m_command_queue_fence_value,
                 back, m_data_lock, dxpc, work, fence, gpuVars, event, armed,
                 gaveUp, tooEarly, resetBusy>>

\* Mutant: a frame that ends with a pass into a frame buffer forgets the
\* back buffer.
PresentBarriersOfLast ==
  IF work["render"] = "back" THEN <<"PRESENT">> ELSE <<>>
PresentBarriers == IF m_draw_state = "DRAW" THEN <<"PRESENT">> ELSE <<>>

OnFramePresent ==
  /\ dxpc["render"] = "idle" /\ rendered
  /\ commands' = commands
       \o <<List("frame", m_command_list \o PresentBarriers),
            List("present", <<>>)>>
  /\ m_draw_state' = "NONE" /\ rendered' = FALSE /\ m_command_list' = <<>>
  /\ back' = 1 - back
  /\ UNCHANGED <<m_command_queue_fence_value, m_data_lock, dxpc, work, fence,
                 completed, bufferState, misplaced, event, armed, gaveUp,
                 tooEarly, resetBusy>>

------------------------------------------------------------------------------
(* Any thread: copy_resource_sync(), copy_texture_sync().                  *)

Copy(t) ==
  /\ dxpc[t] = "idle" /\ m_data_lock = "none"
  /\ m_command_queue_fence_value < MaxFence
  /\ m_data_lock' = t /\ work' = [work EXCEPT ![t] = "xfer"]
  /\ commands' = Append(commands, List("xfer", <<>>))
  /\ Goto(t, "signal")
  /\ UNCHANGED <<m_draw_state, m_command_list, m_command_queue_fence_value,
                 back, fence, rendered, completed, bufferState, misplaced,
                 event, armed, gaveUp, tooEarly, resetBusy>>

------------------------------------------------------------------------------
(* wait_for_command_queue(), then the reset it was called for.  The        *)
(* increment of the fence value and the signal are one step here.          *)

Signal(t) ==
  /\ dxpc[t] = "signal"
  /\ m_command_queue_fence_value' = m_command_queue_fence_value + 1
  /\ fence' = [fence EXCEPT ![t] = m_command_queue_fence_value + 1]
  /\ commands' = Append(commands, [what |-> "signal",
                                   value |-> m_command_queue_fence_value + 1])
  /\ Goto(t, "check")
  /\ UNCHANGED <<m_draw_state, m_command_list, back, m_data_lock, work,
                 rendered, completed, bufferState, misplaced, event, armed,
                 gaveUp, tooEarly, resetBusy>>

\* Mutant: the comparison is off by one.
ReachedOrNext(t) == completed + 1 >= fence[t]
Reached(t) == completed >= fence[t]

\* GetCompletedValue(), and SetEventOnCompletion() for a value still to come.
Check(t) ==
  /\ dxpc[t] = "check"
  /\ \/ Reached(t) /\ Goto(t, "reset") /\ UNCHANGED armed
     \/ ~Reached(t) /\ Goto(t, "wait") /\ armed' = armed \cup {fence[t]}
  /\ UNCHANGED <<m_draw_state, m_command_list, m_command_queue_fence_value,
                 back, m_data_lock, work, fence, rendered, gpuVars, event,
                 gaveUp, tooEarly, resetBusy>>

\* The wait ends whenever the event is set, whichever value has set it.
Wake(t) ==
  /\ dxpc[t] = "wait" /\ event
  /\ event' = FALSE /\ Goto(t, "clear")
  /\ tooEarly' = (tooEarly \/ completed < fence[t])
  /\ UNCHANGED <<m_draw_state, m_command_list, m_command_queue_fence_value,
                 back, m_data_lock, work, fence, rendered, gpuVars, armed,
                 gaveUp, resetBusy>>

ResetEvent(t) ==
  /\ dxpc[t] = "clear"
  /\ event' = FALSE /\ Goto(t, "reset")
  /\ UNCHANGED <<m_draw_state, m_command_list, m_command_queue_fence_value,
                 back, m_data_lock, work, fence, rendered, gpuVars, armed,
                 gaveUp, tooEarly, resetBusy>>

\* WAIT_TIMEOUT throws: the frame or the transfer is abandoned, what was
\* signaled and armed is not.
TimeOut(t) ==
  /\ Timeouts /\ dxpc[t] = "wait" /\ ~event
  /\ gaveUp' = TRUE /\ Goto(t, "idle")
  /\ m_data_lock' = IF m_data_lock = t THEN "none" ELSE m_data_lock
  /\ rendered' = IF t = "render" THEN FALSE ELSE rendered
  /\ UNCHANGED <<m_draw_state, m_command_list, m_command_queue_fence_value,
                 back, work, fence, gpuVars, event, armed, tooEarly, resetBusy>>

\* Reset() of the allocator and of its list.
ResetAllocator(t) ==
  /\ dxpc[t] = "reset"
  /\ IF work[t] = "xfer"
     THEN /\ resetBusy' = (resetBusy \/ Queued("xfer"))
          /\ m_data_lock' = "none" /\ Goto(t, "idle")
          /\ UNCHANGED <<m_draw_state, m_command_list>>
     ELSE /\ resetBusy' = (resetBusy \/ Queued("frame"))
          /\ m_command_list' = <<>> /\ Goto(t, "target")
          /\ m_draw_state' = IF work[t] = "fbo" THEN "FBO_DRAW" ELSE m_draw_state
          /\ UNCHANGED m_data_lock
  /\ UNCHANGED <<m_command_queue_fence_value, back, work, fence, rendered,
                 gpuVars, event, armed, gaveUp, tooEarly>>

------------------------------------------------------------------------------
(* The device takes the queue in order.                                    *)

StateAfter(command) ==
  IF command.barriers = <<>> THEN bufferState[command.buffer]
  ELSE command.barriers[Len(command.barriers)]

\* Every barrier names the state it expects, a present expects PRESENT.
Fits(command) ==
  LET states == <<bufferState[command.buffer]>> \o command.barriers
  IN  IF command.what = "present" THEN states[1] = "PRESENT"
      ELSE \A i \in 1 .. Len(command.barriers) : states[i] # states[i + 1]

Device ==
  /\ commands # <<>> /\ commands' = Tail(commands)
  /\ LET c == Head(commands) IN
       IF c.what = "signal"
       THEN /\ completed' = c.value
            /\ event' = (event \/ c.value \in armed)
            /\ armed' = armed \ {c.value}
            /\ UNCHANGED <<bufferState, misplaced>>
       ELSE /\ misplaced' = (misplaced \/ ~Fits(c))
            /\ bufferState' = [bufferState EXCEPT ![c.buffer] = StateAfter(c)]
            /\ UNCHANGED <<completed, event, armed>>
  /\ UNCHANGED <<cpuVars, gaveUp, tooEarly, resetBusy>>

Next ==
  \/ \E target \in {"back", "fbo"} : RenderPass(target)
  \/ SetTarget \/ PassThrows \/ OnFramePresent
  \/ \E t \in ThreadIds :
       Copy(t) \/ Signal(t) \/ Check(t) \/ Wake(t) \/ ResetEvent(t)
         \/ TimeOut(t) \/ ResetAllocator(t)
  \/ Device

Spec == Init /\ [][Next]_dxVars

------------------------------------------------------------------------------
(* Properties.                                                             *)

\* No allocator is reset while a list recorded with it is still queued, unless
\* a wait has timed out before.  (One thread: a second one shares the event.)
AllocatorIdle == ~gaveUp => ~resetBusy

\* wait_for_command_queue() promises that the queue has been waited for: it
\* returns with the fence reached, or throws.
WaitMeansReached == ~tooEarly

\* Passes into frame buffers and into the back buffer come in any order, with
\* failed frames between them: every barrier and every present finds the back
\* buffer in the state it names.
BarriersFit == ~misplaced
==============================================================================
