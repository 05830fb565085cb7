------------------------------ MODULE FramesProofs -----------------------------
(***************************************************************************)
(* Proofs about the Direct3D 12 context, for any frames, transfers of any  *)
(* threads and any values of its fence; and about what the Vulkan system   *)
(* and its contexts create and take down, for any contexts and swap chains. *)
(***************************************************************************)
EXTENDS MCFrames, SequenceTheorems, TLAPS

------------------------------------------------------------------------------
(* The Direct3D 12 context.                                                *)

\* The barriers of a list that was submitted, and the commands of the queue.
ToTargetAndBack == <<"RENDER_TARGET", "PRESENT">>

QueuedCommand ==
  [what : {"signal"}, value : Nat] \union
  [what : {"frame", "present", "xfer"}, buffer : Dx12!BackBuffers,
   barriers : {<<>>, ToTargetAndBack}]

Dx12Types ==
  /\ commands \in Seq(QueuedCommand) /\ back \in Dx12!BackBuffers
  /\ dxpc \in [Dx12!ThreadIds -> {"idle", "target", "signal", "check", "wait",
                                  "clear", "reset"}]
  /\ work \in [Dx12!ThreadIds -> {"back", "fbo", "xfer"}]
  /\ fence \in [Dx12!ThreadIds -> Nat]
  /\ m_command_queue_fence_value \in Nat /\ completed \in Nat
  /\ event \in BOOLEAN /\ gaveUp \in BOOLEAN /\ resetBusy \in BOOLEAN

\* The list of the frame has a barrier exactly when it draws into the back
\* buffer; the thread that renders waits for its allocator in the state NONE;
\* other threads wait for transfers only.
ListFollowsState ==
  /\ m_draw_state \in {"NONE", "DRAW", "FBO_DRAW"}
  /\ m_command_list = IF m_draw_state = "DRAW" THEN <<"RENDER_TARGET">> ELSE <<>>
  /\ dxpc["render"] \in {"signal", "check", "wait", "clear", "reset"}
     /\ work["render"] # "xfer" => m_draw_state = "NONE"
  /\ \A t \in Dx12!ThreadIds : t # "render" => work[t] = "xfer"

\* Between two commands of the queue a back buffer is ready to be presented.
BackBuffersPresentable == bufferState = [b \in Dx12!BackBuffers |-> "PRESENT"]

BarriersInv ==
  Dx12Types /\ ListFollowsState /\ BackBuffersPresentable /\ BarriersFit

LEMMA TwoBarriers ==
  /\ <<"RENDER_TARGET">> \o <<"PRESENT">> = ToTargetAndBack
  /\ <<>> \o <<>> = <<>>
  /\ LET states == <<"PRESENT">> \o ToTargetAndBack
     IN  /\ states[1] = "PRESENT" /\ states[2] = "RENDER_TARGET"
         /\ states[3] = "PRESENT"
<1> DEFINE a == <<"RENDER_TARGET">>
           b == <<"PRESENT">>
           S == {"RENDER_TARGET", "PRESENT"}
<1>1. /\ a \in Seq(S) /\ Len(a) = 1 /\ a[1] = "RENDER_TARGET"
      /\ b \in Seq(S) /\ Len(b) = 1 /\ b[1] = "PRESENT"
      /\ ToTargetAndBack \in Seq(S) /\ Len(ToTargetAndBack) = 2
      /\ ToTargetAndBack[1] = "RENDER_TARGET" /\ ToTargetAndBack[2] = "PRESENT"
      /\ <<>> \in Seq(S)
  <2>1. <<>> \in Seq(S)
    OBVIOUS
  <2>2. a \in Seq(S) /\ b \in Seq(S)
    OBVIOUS
  <2>3. ToTargetAndBack \in Seq(S)
    BY DEF ToTargetAndBack
  <2> QED
    BY <2>1, <2>2, <2>3 DEF ToTargetAndBack
<1> HIDE DEF S
<1> HIDE DEF a, b
<1>2. /\ a \o b \in Seq(S) /\ Len(a \o b) = 2
      /\ (a \o b)[1] = a[1] /\ (a \o b)[2] = b[1]
  BY <1>1, ConcatProperties
<1>3. a \o b = ToTargetAndBack
  BY <1>1, <1>2, SeqEqual
<1>4. /\ (b \o ToTargetAndBack)[1] = b[1]
      /\ (b \o ToTargetAndBack)[2] = ToTargetAndBack[1]
      /\ (b \o ToTargetAndBack)[3] = ToTargetAndBack[2]
  BY <1>1, ConcatProperties
<1>5. <<>> \o <<>> = <<>>
  BY <1>1, ConcatEmptySeq
<1> QED
  BY <1>1, <1>3, <1>4, <1>5 DEF a, b

\* A command of the queue finds the back buffer in the state it names, and
\* leaves it ready to be presented.
LEMMA CommandFits ==
  ASSUME BackBuffersPresentable, NEW c \in QueuedCommand, c.what # "signal"
  PROVE  /\ Dx12!Fits(c) /\ Dx12!StateAfter(c) = "PRESENT"
         /\ c.buffer \in Dx12!BackBuffers
<1>1. /\ c.buffer \in Dx12!BackBuffers /\ bufferState[c.buffer] = "PRESENT"
      /\ c.barriers = <<>> \/ c.barriers = ToTargetAndBack
  BY DEF BackBuffersPresentable, QueuedCommand
<1>2. CASE c.barriers = <<>>
  <2> DEFINE states == <<bufferState[c.buffer]>> \o c.barriers
  <2>1. states = <<"PRESENT">>
    BY <1>1, <1>2
  <2>2. states[1] = "PRESENT" /\ Len(c.barriers) = 0
    BY <1>2, <2>1
  <2>3. Dx12!Fits(c)
    BY <2>2 DEF Dx12!Fits
  <2> QED
    BY <1>1, <1>2, <2>3 DEF Dx12!StateAfter
<1>3. CASE c.barriers = ToTargetAndBack
  <2> DEFINE states == <<bufferState[c.buffer]>> \o c.barriers
  <2>1. states = <<"PRESENT">> \o ToTargetAndBack
    BY <1>1, <1>3
  <2>2. /\ Len(c.barriers) = 2 /\ c.barriers[2] = "PRESENT"
        /\ c.barriers # <<>>
    BY <1>3 DEF ToTargetAndBack
  <2>3. states[1] = "PRESENT" /\ states[2] = "RENDER_TARGET" /\ states[3] = "PRESENT"
    BY <2>1, TwoBarriers
  <2>4. Dx12!Fits(c)
    BY <2>2, <2>3 DEF Dx12!Fits
  <2> QED
    BY <1>1, <2>2, <2>4 DEF Dx12!StateAfter
<1> QED
  BY <1>1, <1>2, <1>3

\* One more command at the end of the queue.
LEMMA CommandAppended ==
  ASSUME NEW q \in Seq(QueuedCommand), NEW c \in QueuedCommand
  PROVE  /\ Append(q, c) \in Seq(QueuedCommand)
         /\ Len(Append(q, c)) = Len(q) + 1 /\ Append(q, c)[Len(q) + 1] = c
         /\ \A i \in 1 .. Len(q) : Append(q, c)[i] = q[i]
  OBVIOUS

LEMMA BarriersStep ==
  ASSUME BarriersInv, [Dx12!Next]_dx12Vars
  PROVE  BarriersInv'
<1> USE DEF BarriersInv, Dx12!Goto, Dx12!cpuVars, Dx12!gpuVars, BarriersFit,
            Dx12!BarriersFit
<1>0. "render" \in Dx12!ThreadIds
  BY DEF Dx12!ThreadIds
<1>1. ASSUME NEW target \in {"back", "fbo"}, Dx12!RenderPass(target)
      PROVE  BarriersInv'
  BY <1>0, <1>1 DEF Dx12!RenderPass, Dx12Types, ListFollowsState,
     BackBuffersPresentable
<1>2. CASE Dx12!SetTarget
  BY <1>0, <1>2 DEF Dx12!SetTarget, Dx12Types, ListFollowsState,
     BackBuffersPresentable
<1>3. CASE Dx12!PassThrows
  BY <1>0, <1>3 DEF Dx12!PassThrows, Dx12Types, ListFollowsState,
     BackBuffersPresentable
<1>4. CASE Dx12!OnFramePresent
  <2> DEFINE c == Dx12!List("frame", m_command_list \o Dx12!PresentBarriers)
             p == Dx12!List("present", <<>>)
  <2>1. m_command_list \o Dx12!PresentBarriers \in {<<>>, ToTargetAndBack}
    BY TwoBarriers DEF ListFollowsState, Dx12!PresentBarriers
  <2>2. c \in QueuedCommand /\ p \in QueuedCommand
    BY <2>1 DEF Dx12!List, QueuedCommand, Dx12Types
  <2>3. commands' = Append(Append(commands, c), p)
    BY <1>4, <2>2 DEF Dx12!OnFramePresent, Dx12Types
  <2> HIDE DEF c, p
  <2>4. commands' \in Seq(QueuedCommand)
    BY <2>2, <2>3, CommandAppended DEF Dx12Types
  <2> QED
    BY <1>0, <1>4, <2>4 DEF Dx12!OnFramePresent, Dx12Types, ListFollowsState,
       BackBuffersPresentable, Dx12!BackBuffers
<1>5. ASSUME NEW t \in Dx12!ThreadIds, Dx12!Copy(t)
      PROVE  BarriersInv'
  <2>1. Dx12!List("xfer", <<>>) \in QueuedCommand
    BY DEF Dx12!List, QueuedCommand, Dx12Types
  <2>2. commands' \in Seq(QueuedCommand)
    BY <1>5, <2>1, CommandAppended DEF Dx12!Copy, Dx12Types
  <2> QED
    BY <1>0, <1>5, <2>2 DEF Dx12!Copy, Dx12Types, ListFollowsState,
       BackBuffersPresentable
<1>6. ASSUME NEW t \in Dx12!ThreadIds, Dx12!Signal(t)
      PROVE  BarriersInv'
  <2> DEFINE c == [what |-> "signal", value |-> m_command_queue_fence_value + 1]
  <2>1. c \in QueuedCommand
    BY DEF QueuedCommand, Dx12Types
  <2>2. commands' = Append(commands, c)
    BY <1>6 DEF Dx12!Signal
  <2> HIDE DEF c
  <2>3. commands' \in Seq(QueuedCommand)
    BY <2>1, <2>2, CommandAppended DEF Dx12Types
  <2> QED
    BY <1>0, <1>6, <2>3 DEF Dx12!Signal, Dx12Types, ListFollowsState,
       BackBuffersPresentable
<1>7. ASSUME NEW t \in Dx12!ThreadIds, Dx12!Check(t)
      PROVE  BarriersInv'
  BY <1>0, <1>7 DEF Dx12!Check, Dx12Types, ListFollowsState,
     BackBuffersPresentable
<1>8. ASSUME NEW t \in Dx12!ThreadIds, Dx12!Wake(t) \/ Dx12!ResetEvent(t)
      PROVE  BarriersInv'
  <2>1. CASE Dx12!Wake(t)
    BY <1>0, <2>1 DEF Dx12!Wake, Dx12Types, ListFollowsState,
       BackBuffersPresentable
  <2>2. CASE Dx12!ResetEvent(t)
    BY <1>0, <2>2 DEF Dx12!ResetEvent, Dx12Types, ListFollowsState,
       BackBuffersPresentable
  <2> QED
    BY <1>8, <2>1, <2>2
<1>9. ASSUME NEW t \in Dx12!ThreadIds, Dx12!TimeOut(t)
      PROVE  BarriersInv'
  BY <1>0, <1>9 DEF Dx12!TimeOut, Dx12Types, ListFollowsState,
     BackBuffersPresentable
<1>10. ASSUME NEW t \in Dx12!ThreadIds, Dx12!ResetAllocator(t)
       PROVE  BarriersInv'
  <2>1. CASE work[t] = "xfer"
    BY <1>0, <1>10, <2>1 DEF Dx12!ResetAllocator, Dx12Types, ListFollowsState,
       BackBuffersPresentable
  <2>2. CASE work[t] # "xfer"
    <3>1. t = "render" /\ m_draw_state = "NONE"
      BY <1>10, <2>2 DEF Dx12!ResetAllocator, ListFollowsState
    <3> QED
      BY <1>0, <1>10, <2>2, <3>1 DEF Dx12!ResetAllocator, Dx12Types,
         ListFollowsState, BackBuffersPresentable
  <2> QED
    BY <2>1, <2>2
<1>11. CASE Dx12!Device
  <2> DEFINE c == Head(commands)
  <2>1. c \in QueuedCommand /\ commands' \in Seq(QueuedCommand)
        /\ UNCHANGED <<m_draw_state, m_command_list, m_command_queue_fence_value,
                       back, dxpc, work, fence, gaveUp, resetBusy>>
    BY <1>11 DEF Dx12!Device, Dx12Types
  <2>2. CASE c.what = "signal"
    <3>1. /\ completed' = c.value /\ event' \in BOOLEAN
          /\ UNCHANGED <<bufferState, misplaced>>
      BY <1>11, <2>2 DEF Dx12!Device, Dx12Types
    <3>2. c.value \in Nat
      BY <2>1, <2>2 DEF QueuedCommand
    <3> QED
      BY <2>1, <3>1, <3>2 DEF Dx12Types, ListFollowsState,
         BackBuffersPresentable
  <2>3. CASE c.what # "signal"
    <3>1. /\ misplaced' = (misplaced \/ ~Dx12!Fits(c))
          /\ bufferState' = [bufferState EXCEPT ![c.buffer] = Dx12!StateAfter(c)]
          /\ UNCHANGED <<completed, event>>
      BY <1>11, <2>3 DEF Dx12!Device
    <3>2. Dx12!Fits(c) /\ Dx12!StateAfter(c) = "PRESENT"
          /\ c.buffer \in Dx12!BackBuffers
      BY <2>1, <2>3, CommandFits
    <3> QED
      BY <2>1, <3>1, <3>2 DEF Dx12Types, ListFollowsState,
         BackBuffersPresentable
  <2> QED
    BY <2>2, <2>3
<1>12. CASE UNCHANGED dx12Vars
  BY <1>12 DEF dx12Vars, Dx12Types, ListFollowsState, BackBuffersPresentable
<1> QED
  BY <1>1, <1>2, <1>3, <1>4, <1>5, <1>6, <1>7, <1>8, <1>9, <1>10, <1>11, <1>12
     DEF Dx12!Next

LEMMA BarriersStart == FramesInit => BarriersInv
<1> SUFFICES ASSUME Dx12!Init PROVE BarriersInv
  BY DEF FramesInit
<1>1. commands \in Seq(QueuedCommand) /\ m_command_list = <<>>
  BY DEF Dx12!Init
<1>2. Dx12Types
  BY <1>1 DEF Dx12!Init, Dx12Types, Dx12!BackBuffers
<1>3. ListFollowsState
  BY DEF Dx12!Init, ListFollowsState, Dx12!ThreadIds
<1>4. BackBuffersPresentable /\ BarriersFit
  BY DEF Dx12!Init, BackBuffersPresentable, BarriersFit, Dx12!BarriersFit
<1> QED
  BY <1>2, <1>3, <1>4 DEF BarriersInv

LEMMA Dx12Part == FramesNext => [Dx12!Next]_dx12Vars
BY DEF FramesNext, dx12Vars

LEMMA BarriersAlways == FramesSpec => []BarriersInv
<1>1. BarriersInv /\ [FramesNext]_<<system, vars, vulkanVars, dx12Vars, deviceVars>>
        => BarriersInv'
  BY BarriersStep, Dx12Part
<1> QED
  BY BarriersStart, <1>1, PTL DEF FramesSpec

\* Passes into frame buffers and into the back buffer come in any order, with
\* failed frames and transfers of any number of threads between them: every
\* barrier and every present finds the back buffer in the state it names.
THEOREM BackBufferBarriersFit == FramesSpec => []BarriersFit
<1>1. BarriersInv => BarriersFit
  BY DEF BarriersInv
<1> QED
  BY <1>1, BarriersAlways, PTL

------------------------------------------------------------------------------
(* One thread, and no wait that has timed out: the allocators.             *)

Signals(q) == {i \in 1 .. Len(q) : q[i].what = "signal"}

\* The signal the thread waits for is the last command of the queue, the only
\* signal there, and the next one the fence will have.
SignalAhead ==
  /\ completed < m_command_queue_fence_value
  /\ commands # <<>> /\ Signals(commands) = {Len(commands)}
  /\ commands[Len(commands)].value = m_command_queue_fence_value

\* The device has reached it, and with it everything before.
SignalReached ==
  completed = m_command_queue_fence_value /\ commands = <<>>

\* Where the thread stands in its wait, and what the queue, the fence and the
\* event say of it.
WaitProgress ==
  /\ dxpc["render"] \in {"idle", "target", "signal"} =>
       Signals(commands) = {} /\ armed = {} /\ ~event
  /\ dxpc["render"] \in {"check", "wait"} =>
       fence["render"] = m_command_queue_fence_value
       /\ (SignalAhead \/ SignalReached)
  /\ dxpc["render"] = "check" => armed = {} /\ ~event
  /\ dxpc["render"] = "wait" =>
       \/ SignalAhead /\ armed = {fence["render"]} /\ ~event
       \/ SignalReached /\ armed = {} /\ event
  /\ dxpc["render"] \in {"clear", "reset"} =>
       SignalReached /\ armed = {} /\ ~event
  /\ completed <= m_command_queue_fence_value

AllocatorInv ==
  BarriersInv /\ (~gaveUp => WaitProgress) /\ AllocatorIdle

LEMMA AllocatorStep ==
  ASSUME Loaders = {}, AllocatorInv, [Dx12!Next]_dx12Vars
  PROVE  AllocatorInv'
<1>0. BarriersInv'
  BY BarriersStep DEF AllocatorInv
<1> SUFFICES ASSUME ~gaveUp' PROVE WaitProgress' /\ ~resetBusy'
  BY <1>0 DEF AllocatorInv, AllocatorIdle, Dx12!AllocatorIdle
<1>q. /\ Dx12!ThreadIds = {"render"} /\ Dx12Types /\ Dx12Types'
      /\ gaveUp => gaveUp'
  <2>1. gaveUp => gaveUp'
    BY DEF Dx12!Next, Dx12!RenderPass, Dx12!SetTarget, Dx12!PassThrows,
       Dx12!OnFramePresent, Dx12!Copy, Dx12!Signal, Dx12!Check, Dx12!Wake,
       Dx12!ResetEvent, Dx12!TimeOut, Dx12!ResetAllocator, Dx12!Device, dx12Vars
  <2> QED
    BY <1>0, <2>1 DEF Dx12!ThreadIds, AllocatorInv, BarriersInv
<1>w. WaitProgress /\ ~resetBusy
  BY <1>q DEF AllocatorInv, AllocatorIdle, Dx12!AllocatorIdle
<1> USE <1>q, <1>w DEF Dx12!Goto, Dx12!cpuVars, Dx12!gpuVars
<1>1. ASSUME NEW target \in {"back", "fbo"}, Dx12!RenderPass(target)
      PROVE  WaitProgress' /\ ~resetBusy'
  BY <1>1 DEF Dx12!RenderPass, Dx12Types, WaitProgress, SignalAhead,
     SignalReached
<1>2. CASE Dx12!SetTarget
  BY <1>2 DEF Dx12!SetTarget, Dx12Types, WaitProgress, SignalAhead,
     SignalReached
<1>3. CASE Dx12!PassThrows
  BY <1>3 DEF Dx12!PassThrows, Dx12Types, WaitProgress, SignalAhead,
     SignalReached
<1>4. CASE Dx12!OnFramePresent
  <2> DEFINE c == Dx12!List("frame", m_command_list \o Dx12!PresentBarriers)
             p == Dx12!List("present", <<>>)
  <2>1. Signals(commands') = {}
    <3>1. c.what = "frame" /\ p.what = "present"
      BY DEF Dx12!List
    <3>2. commands' = commands \o <<c, p>> /\ Signals(commands) = {}
          /\ commands \in Seq(QueuedCommand)
      BY <1>4 DEF Dx12!OnFramePresent, WaitProgress, Dx12Types
    <3> HIDE DEF c, p
    <3>3. commands' = Append(Append(commands, c), p)
      BY <3>2
    <3> QED
      BY <3>1, <3>2, <3>3 DEF Signals
  <2> QED
    BY <1>4, <2>1 DEF Dx12!OnFramePresent, Dx12Types, WaitProgress
<1>5. CASE Dx12!Copy("render")
  <2> DEFINE c == Dx12!List("xfer", <<>>)
  <2>1. Signals(commands') = {}
    <3>1. c.what = "xfer"
      BY DEF Dx12!List
    <3>2. commands' = Append(commands, c) /\ Signals(commands) = {}
          /\ commands \in Seq(QueuedCommand)
      BY <1>5 DEF Dx12!Copy, WaitProgress, Dx12Types
    <3> HIDE DEF c
    <3> QED
      BY <3>1, <3>2 DEF Signals
  <2> QED
    BY <1>5, <2>1 DEF Dx12!Copy, Dx12Types, WaitProgress
<1>6. CASE Dx12!Signal("render")
  <2> DEFINE c == [what |-> "signal", value |-> m_command_queue_fence_value + 1]
  <2>1. /\ commands' = Append(commands, c) /\ Signals(commands) = {}
        /\ commands \in Seq(QueuedCommand)
        /\ m_command_queue_fence_value' = m_command_queue_fence_value + 1
        /\ dxpc' = [dxpc EXCEPT !["render"] = "check"]
        /\ fence'["render"] = m_command_queue_fence_value + 1
        /\ UNCHANGED <<completed, event, armed, resetBusy>>
        /\ armed = {} /\ ~event /\ completed <= m_command_queue_fence_value
    BY <1>6 DEF Dx12!Signal, WaitProgress, Dx12Types
  <2>2. c.what = "signal" /\ c.value = m_command_queue_fence_value + 1
    OBVIOUS
  <2> HIDE DEF c
  <2>3. /\ Len(commands') = Len(commands) + 1 /\ commands'[Len(commands')] = c
        /\ \A i \in 1 .. Len(commands) : commands'[i] = commands[i]
        /\ commands' # <<>> /\ Len(commands) \in Nat
    BY <2>1
  <2>4. Signals(commands') = {Len(commands')}
    BY <2>1, <2>2, <2>3 DEF Signals
  <2>5. SignalAhead'
    BY <2>1, <2>2, <2>3, <2>4 DEF SignalAhead, Dx12Types
  <2> QED
    BY <2>1, <2>5 DEF WaitProgress, Dx12Types
<1>7. CASE Dx12!Check("render")
  BY <1>7 DEF Dx12!Check, Dx12!Reached, Dx12Types, WaitProgress, SignalAhead,
     SignalReached
<1>8. CASE Dx12!Wake("render")
  BY <1>8 DEF Dx12!Wake, Dx12Types, WaitProgress, SignalAhead, SignalReached
<1>9. CASE Dx12!ResetEvent("render")
  BY <1>9 DEF Dx12!ResetEvent, Dx12Types, WaitProgress, SignalAhead,
     SignalReached
<1>10. CASE Dx12!TimeOut("render")
  BY <1>10 DEF Dx12!TimeOut
<1>11. CASE Dx12!ResetAllocator("render")
  <2>1. ~Dx12!Queued("xfer") /\ ~Dx12!Queued("frame")
    BY <1>11 DEF Dx12!ResetAllocator, WaitProgress, SignalReached, Dx12!Queued
  <2> QED
    BY <1>11, <2>1 DEF Dx12!ResetAllocator, Dx12Types, WaitProgress,
       SignalReached, Signals
<1>12. CASE Dx12!Device
  <2> DEFINE c == Head(commands)
  <2>1. /\ commands # <<>> /\ commands' = Tail(commands)
        /\ commands \in Seq(QueuedCommand) /\ commands' \in Seq(QueuedCommand)
        /\ UNCHANGED <<m_command_queue_fence_value, dxpc, fence, gaveUp,
                       resetBusy>>
    BY <1>12 DEF Dx12!Device, Dx12Types
  <2>2. /\ Len(commands) \in Nat \ {0} /\ c = commands[1]
        /\ Len(commands') = Len(commands) - 1
        /\ \A i \in 1 .. Len(commands') : commands'[i] = commands[i + 1]
    BY <2>1
  <2>3. CASE c.what = "signal"
    <3>1. /\ completed' = c.value /\ event' = (event \/ c.value \in armed)
          /\ armed' = armed \ {c.value}
      BY <1>12, <2>3 DEF Dx12!Device
    <3>2. 1 \in Signals(commands)
      BY <2>2, <2>3 DEF Signals
    <3>3. SignalAhead /\ dxpc["render"] \in {"check", "wait"}
      BY <2>1, <3>2 DEF WaitProgress, SignalReached, Dx12Types
    <3>4. Len(commands) = 1 /\ c.value = m_command_queue_fence_value
      BY <2>2, <3>2, <3>3 DEF SignalAhead
    <3>5. commands' = <<>>
      BY <2>1, <2>2, <3>4
    <3>6. SignalReached'
      BY <2>1, <3>1, <3>4, <3>5 DEF SignalReached
    <3>7. /\ fence["render"] = m_command_queue_fence_value
          /\ dxpc["render"] = "check" => armed = {} /\ ~event
          /\ dxpc["render"] = "wait" => armed = {fence["render"]} /\ ~event
      BY <2>1, <3>3 DEF WaitProgress, SignalReached
    <3>8. dxpc["render"] = "check" => armed' = {} /\ ~event'
      BY <3>1, <3>7
    <3>9. dxpc["render"] = "wait" => armed' = {} /\ event'
      BY <3>1, <3>4, <3>7
    <3>10. completed' <= m_command_queue_fence_value'
      BY <2>1, <3>1, <3>4 DEF Dx12Types
    <3> QED
      BY <2>1, <3>3, <3>6, <3>7, <3>8, <3>9, <3>10 DEF WaitProgress
  <2>4. CASE c.what # "signal"
    <3>1. UNCHANGED <<completed, event, armed>>
      BY <1>12, <2>4 DEF Dx12!Device
    <3>2. Signals(commands) = {} => Signals(commands') = {}
      BY <2>2 DEF Signals
    <3>3. SignalAhead => SignalAhead'
      <4> SUFFICES ASSUME SignalAhead PROVE SignalAhead'
        OBVIOUS
      <4>1. Len(commands) # 1
        BY <2>2, <2>4 DEF SignalAhead, Signals
      <4>2. commands' # <<>> /\ commands'[Len(commands')] = commands[Len(commands)]
        <5>1. Len(commands') \in 1 .. Len(commands')
              /\ Len(commands') + 1 = Len(commands)
          BY <2>2, <4>1
        <5>2. commands'[Len(commands')] = commands[Len(commands') + 1]
          BY <2>2, <5>1
        <5>3. commands' # <<>>
          BY <5>1
        <5> QED
          BY <5>1, <5>2, <5>3
      <4>3. Signals(commands') = {Len(commands')}
        <5>1. \A i \in 1 .. Len(commands') :
                commands'[i].what = "signal" <=> i + 1 = Len(commands)
          BY <2>2 DEF SignalAhead, Signals
        <5> QED
          BY <2>2, <4>1, <5>1 DEF Signals
      <4> QED
        BY <2>1, <3>1, <4>2, <4>3 DEF SignalAhead
    <3>4. ~SignalReached
      BY <2>1 DEF SignalReached
    <3> QED
      BY <2>1, <3>1, <3>2, <3>3, <3>4 DEF WaitProgress
  <2> QED
    BY <2>3, <2>4
<1>13. CASE UNCHANGED dx12Vars
  BY <1>13 DEF dx12Vars, WaitProgress, SignalAhead, SignalReached
<1> QED
  BY <1>1, <1>2, <1>3, <1>4, <1>5, <1>6, <1>7, <1>8, <1>9, <1>10, <1>11, <1>12,
     <1>13 DEF Dx12!Next

LEMMA AllocatorStart == FramesInit => AllocatorInv
<1> SUFFICES ASSUME FramesInit, Dx12!Init PROVE AllocatorInv
  BY DEF FramesInit
<1>1. BarriersInv
  BY BarriersStart
<1>2. Signals(commands) = {}
  BY DEF Dx12!Init, Signals
<1>3. WaitProgress
  BY <1>2 DEF Dx12!Init, WaitProgress, Dx12!ThreadIds
<1> QED
  BY <1>1, <1>3 DEF Dx12!Init, AllocatorInv, AllocatorIdle, Dx12!AllocatorIdle

\* With one thread, whatever it records, copies or abandons: an allocator is
\* reset when no list recorded with it is queued, until a wait has timed out.
THEOREM AllocatorsAreIdle ==
  ASSUME Loaders = {}
  PROVE  FramesSpec => []AllocatorIdle
<1>1. AllocatorInv
        /\ [FramesNext]_<<system, vars, vulkanVars, dx12Vars, deviceVars>>
        => AllocatorInv'
  BY AllocatorStep, Dx12Part
<1>2. AllocatorInv => AllocatorIdle
  BY DEF AllocatorInv
<1> QED
  BY AllocatorStart, <1>1, <1>2, PTL DEF FramesSpec

------------------------------------------------------------------------------
(* What the Vulkan system creates and takes down.                          *)

Kind ==
  {"library", "instance", "messenger", "compiler", "surface", "device",
   "functions", "allocator", "swap_chain", "image_view", "depth_image",
   "depth_view", "render_pass", "command_pool", "command_buffers",
   "framebuffer", "fence", "image_available", "render_finished",
   "descriptor_pool", "uniform_buffer", "pipeline", "staging_buffer"}

KindsOf(s) == {s[i][1] : i \in 1 .. Len(s)}

\* What an object is created from is given or was created before it.
InOrder(given, s) ==
  \A i \in 1 .. Len(s) : \A p \in Devices!Parents(s[i][1]) :
    p \in given \/ \E j \in 1 .. (i - 1) : s[j][1] = p

\* Once the device is there its functions are resolved.
Resolved(s) ==
  \A i \in 1 .. Len(s) :
    s[i][1] = "device" => i + 1 \in 1 .. Len(s) /\ s[i + 1][1] = "functions"

\* A sequence of constructor calls that makes objects of these kinds.
Built(given, s, made) ==
  /\ s \in Seq(Kind \X Nat) /\ InOrder(given, s) /\ Resolved(s)
  /\ KindsOf(s) = made

LEMMA ParentsAre ==
  /\ Devices!Parents("library") = {} /\ Devices!Parents("instance") = {"library"}
  /\ Devices!Parents("messenger") = {"instance"}
  /\ Devices!Parents("compiler") = {} /\ Devices!Parents("surface") = {"instance"}
  /\ Devices!Parents("device") = {"instance"} /\ Devices!Parents("functions") = {}
  /\ Devices!Parents("allocator") = {"device"}
  /\ Devices!Parents("swap_chain") = {"device", "surface"}
  /\ Devices!Parents("image_view") = {"device", "swap_chain"}
  /\ Devices!Parents("depth_image") = {"allocator"}
  /\ Devices!Parents("depth_view") = {"device", "depth_image"}
  /\ Devices!Parents("render_pass") = {"device"}
  /\ Devices!Parents("command_pool") = {"device"}
  /\ Devices!Parents("command_buffers") = {"command_pool"}
  /\ Devices!Parents("framebuffer") =
       {"device", "render_pass", "image_view", "depth_view"}
  /\ Devices!Parents("fence") = {"device"}
  /\ Devices!Parents("image_available") = {"device"}
  /\ Devices!Parents("render_finished") = {"device"}
  /\ Devices!Parents("descriptor_pool") = {"device"}
  /\ Devices!Parents("uniform_buffer") = {"allocator"}
  /\ Devices!Parents("pipeline") = {} /\ Devices!Parents("staging_buffer") = {}
BY DEF Devices!Parents

LEMMA BuiltOne ==
  ASSUME NEW k \in Kind \ {"device"}, NEW given, Devices!Parents(k) \subseteq given
  PROVE  Built(given, Devices!One(k), {k})
<1> DEFINE s == Devices!One(k)
<1>1. s \in Seq(Kind \X Nat) /\ Len(s) = 1 /\ s[1] = <<k, 1>>
  BY DEF Devices!One
<1> HIDE DEF s
<1>2. \A i \in 1 .. Len(s) : i = 1 /\ s[i][1] = k
  BY <1>1
<1>3. InOrder(given, s) /\ Resolved(s)
  BY <1>2 DEF InOrder, Resolved
<1>4. KindsOf(s) = {k}
  BY <1>1, <1>2 DEF KindsOf
<1> QED
  BY <1>1, <1>3, <1>4 DEF Built, s

LEMMA BuiltPerImage ==
  ASSUME DevicesAssumption, NEW k \in Kind \ {"device"}, NEW given,
         Devices!Parents(k) \subseteq given
  PROVE  Built(given, Devices!PerImage(k), {k})
<1> DEFINE s == Devices!PerImage(k)
<1>1. /\ s \in Seq(Kind \X Nat) /\ Len(s) = SwapImages
      /\ \A i \in 1 .. SwapImages : s[i] = <<k, i>>
  BY DEF Devices!PerImage, DevicesAssumption
<1> HIDE DEF s
<1>2. \A i \in 1 .. Len(s) : s[i][1] = k
  BY <1>1
<1>3. InOrder(given, s) /\ Resolved(s)
  BY <1>2 DEF InOrder, Resolved
<1>4. KindsOf(s) = {k}
  <2>1. 1 \in 1 .. Len(s)
    BY <1>1 DEF DevicesAssumption
  <2> QED
    BY <1>2, <2>1 DEF KindsOf
<1> QED
  BY <1>1, <1>3, <1>4 DEF Built, s

LEMMA BuiltInTurn ==
  ASSUME DevicesAssumption, NEW a \in Kind \ {"device"},
         NEW b \in Kind \ {"device"}, NEW given,
         Devices!Parents(a) \subseteq given,
         Devices!Parents(b) \subseteq given \cup {a}
  PROVE  Built(given, Devices!InTurn(a, b), {a, b})
<1> DEFINE s == Devices!InTurn(a, b)
<1>1. /\ s = [n \in 1 .. 2 * SwapImages |->
                <<IF n % 2 = 1 THEN a ELSE b, (n + 1) \div 2>>]
      /\ 2 * SwapImages \in Nat /\ 2 * SwapImages >= 2
  BY DEF Devices!InTurn, DevicesAssumption
<1> HIDE DEF s
<1>2. \A n \in 1 .. 2 * SwapImages : (n + 1) \div 2 \in Nat
  BY <1>1
<1>3. s \in Seq(Kind \X Nat) /\ Len(s) = 2 * SwapImages
  BY <1>1, <1>2
<1>4. /\ 1 \in 1 .. Len(s) /\ 2 \in 1 .. Len(s)
      /\ s[1][1] = a /\ s[2][1] = b
      /\ \A i \in 1 .. Len(s) : s[i][1] = a \/ (s[i][1] = b /\ i > 1)
  <2>1. 1 % 2 = 1 /\ 2 % 2 # 1
    OBVIOUS
  <2> QED
    BY <1>1, <1>3, <2>1
<1>5. InOrder(given, s)
  <2> SUFFICES ASSUME NEW i \in 1 .. Len(s), NEW p \in Devices!Parents(s[i][1]),
                      p \notin given
               PROVE  \E j \in 1 .. (i - 1) : s[j][1] = p
    BY DEF InOrder
  <2>1. i > 1 /\ p = a
    BY <1>4
  <2>2. 1 \in 1 .. (i - 1)
    BY <2>1
  <2> QED
    BY <1>4, <2>1, <2>2
<1>6. Resolved(s)
  BY <1>4 DEF Resolved
<1>7. KindsOf(s) = {a, b}
  BY <1>4 DEF KindsOf
<1> QED
  BY <1>3, <1>5, <1>6, <1>7 DEF Built, s

LEMMA BuiltDevice ==
  ASSUME NEW given, "instance" \in given
  PROVE  Built(given, Devices!DeviceObjects, {"device", "functions", "allocator"})
<1> DEFINE s == Devices!DeviceObjects
<1>1. /\ s \in Seq(Kind \X Nat) /\ Len(s) = 3 /\ s[1] = <<"device", 1>>
      /\ s[2] = <<"functions", 1>> /\ s[3] = <<"allocator", 1>>
  <2>1. s \in Seq(Kind \X Nat)
    BY DEF Devices!DeviceObjects, Devices!One, Kind
  <2>2. Len(s) = 3 /\ s[1] = <<"device", 1>>
          /\ s[2] = <<"functions", 1>> /\ s[3] = <<"allocator", 1>>
    BY DEF Devices!DeviceObjects, Devices!One
  <2> QED
    BY <2>1, <2>2
<1> HIDE DEF s
<1>2. \A i \in 1 .. Len(s) : i = 1 \/ i = 2 \/ i = 3
  BY <1>1
<1>3. s[1][1] = "device" /\ s[2][1] = "functions" /\ s[3][1] = "allocator"
  BY <1>1
<1>4. InOrder(given, s)
  <2> SUFFICES ASSUME NEW i \in 1 .. Len(s), NEW p \in Devices!Parents(s[i][1]),
                      p \notin given
               PROVE  \E j \in 1 .. (i - 1) : s[j][1] = p
    BY DEF InOrder
  <2>1. i = 3 /\ p = "device"
    BY <1>2, <1>3, ParentsAre
  <2>2. 1 \in 1 .. (i - 1)
    BY <2>1
  <2> QED
    BY <1>3, <2>1, <2>2
<1>5. Resolved(s)
  BY <1>1, <1>2, <1>3 DEF Resolved
<1>6. KindsOf(s) = {"device", "functions", "allocator"}
  <2>1. 1 \in 1 .. Len(s) /\ 2 \in 1 .. Len(s) /\ 3 \in 1 .. Len(s)
    BY <1>1
  <2> QED
    BY <1>2, <1>3, <2>1 DEF KindsOf
<1> QED
  BY <1>1, <1>4, <1>5, <1>6 DEF Built, s

\* One part of a constructor behind the other.
LEMMA BuiltOn ==
  ASSUME NEW given, NEW a, NEW b, NEW madeA, NEW madeB,
         Built(given, a, madeA), Built(given \cup madeA, b, madeB)
  PROVE  Built(given, a \o b, madeA \cup madeB)
<1> DEFINE s == a \o b
           n == Len(a)
           m == Len(b)
<1>1. a \in Seq(Kind \X Nat) /\ b \in Seq(Kind \X Nat)
  BY DEF Built
<1>2. /\ s \in Seq(Kind \X Nat) /\ Len(s) = n + m
      /\ \A i \in 1 .. n : s[i] = a[i]
      /\ \A i \in (n + 1) .. (n + m) : s[i] = b[i - n]
  BY <1>1, ConcatProperties
<1>3. n \in Nat /\ m \in Nat
  BY <1>1
<1>4. /\ InOrder(given, a) /\ Resolved(a) /\ KindsOf(a) = madeA
      /\ InOrder(given \cup madeA, b) /\ Resolved(b) /\ KindsOf(b) = madeB
  BY DEF Built
<1> HIDE DEF s, n, m
<1>5. ASSUME NEW i \in 1 .. Len(s)
      PROVE  \/ i \in 1 .. n /\ s[i] = a[i]
             \/ i \notin 1 .. n /\ i - n \in 1 .. m /\ s[i] = b[i - n]
  <2>1. i \in 1 .. (n + m)
    BY <1>2
  <2>2. CASE i <= n
    <3>1. i \in 1 .. n
      BY <1>3, <2>1, <2>2
    <3> QED
      BY <1>2, <3>1
  <2>3. CASE ~(i <= n)
    <3>1. i \in (n + 1) .. (n + m)
      BY <1>3, <2>1, <2>3
    <3>2. i \notin 1 .. n /\ i - n \in 1 .. m
      BY <1>3, <3>1
    <3> QED
      BY <1>2, <3>1, <3>2
  <2> QED
    BY <2>2, <2>3
<1>6. ASSUME NEW i \in 1 .. m
      PROVE  i + n \in 1 .. Len(s) /\ s[i + n] = b[i]
  <2>1. i + n \in (n + 1) .. (n + m) /\ i + n \in 1 .. (n + m) /\ (i + n) - n = i
    BY <1>3
  <2> QED
    BY <1>2, <2>1
<1>7. \A i \in 1 .. n : i \in 1 .. Len(s) /\ s[i] = a[i]
  BY <1>2, <1>3
<1>8. InOrder(given, s)
  <2> SUFFICES ASSUME NEW i \in 1 .. Len(s), NEW p \in Devices!Parents(s[i][1]),
                      p \notin given
               PROVE  \E j \in 1 .. (i - 1) : s[j][1] = p
    BY DEF InOrder
  <2>1. CASE i \in 1 .. n
    <3>1. s[i] = a[i]
      BY <1>7, <2>1
    <3>2. PICK j \in 1 .. (i - 1) : a[j][1] = p
      BY <1>4, <2>1, <3>1 DEF InOrder, n
    <3>3. j \in 1 .. n
      BY <1>3, <2>1, <3>2
    <3> QED
      BY <1>7, <3>2, <3>3
  <2>2. CASE i \notin 1 .. n
    <3>1. i - n \in 1 .. m /\ s[i] = b[i - n]
      BY <1>5, <2>2
    <3>2. p \in madeA \/ \E j \in 1 .. (i - n - 1) : b[j][1] = p
      BY <1>4, <3>1 DEF InOrder, m
    <3>3. CASE p \in madeA
      <4>1. PICK j \in 1 .. n : a[j][1] = p
        BY <1>4, <3>3 DEF KindsOf, n
      <4>2. j \in 1 .. (i - 1)
        BY <1>3, <2>2, <3>1
      <4> QED
        BY <1>7, <4>1, <4>2
    <3>4. CASE \E j \in 1 .. (i - n - 1) : b[j][1] = p
      <4>1. PICK j \in 1 .. (i - n - 1) : b[j][1] = p
        BY <3>4
      <4>2. j \in 1 .. m /\ j + n \in 1 .. (i - 1)
        BY <1>3, <3>1, <4>1
      <4>3. s[j + n] = b[j]
        BY <1>6, <4>2
      <4> QED
        BY <4>1, <4>2, <4>3
    <3> QED
      BY <3>2, <3>3, <3>4
  <2> QED
    BY <2>1, <2>2
<1>9. Resolved(s)
  <2> SUFFICES ASSUME NEW i \in 1 .. Len(s), s[i][1] = "device"
               PROVE  i + 1 \in 1 .. Len(s) /\ s[i + 1][1] = "functions"
    BY DEF Resolved
  <2>1. CASE i \in 1 .. n
    <3>1. i + 1 \in 1 .. n /\ a[i + 1][1] = "functions"
      BY <1>4, <1>7, <2>1 DEF Resolved, n
    <3> QED
      BY <1>7, <3>1
  <2>2. CASE i \notin 1 .. n
    <3>1. i - n \in 1 .. m /\ s[i] = b[i - n]
      BY <1>5, <2>2
    <3>2. (i - n) + 1 \in 1 .. m /\ b[(i - n) + 1][1] = "functions"
      BY <1>4, <3>1 DEF Resolved, m
    <3>3. ((i - n) + 1) + n = i + 1
      BY <1>3
    <3> QED
      BY <1>6, <3>2, <3>3
  <2> QED
    BY <2>1, <2>2
<1>10. KindsOf(s) = madeA \cup madeB
  <2>1. ASSUME NEW k \in KindsOf(s) PROVE k \in madeA \cup madeB
    <3>1. PICK i \in 1 .. Len(s) : k = s[i][1]
      BY DEF KindsOf
    <3> QED
      BY <1>4, <1>5, <3>1 DEF KindsOf, n, m
  <2>2. ASSUME NEW k \in madeA PROVE k \in KindsOf(s)
    <3>1. PICK i \in 1 .. n : k = a[i][1]
      BY <1>4 DEF KindsOf, n
    <3> QED
      BY <1>7, <3>1 DEF KindsOf
  <2>3. ASSUME NEW k \in madeB PROVE k \in KindsOf(s)
    <3>1. PICK i \in 1 .. m : k = b[i][1]
      BY <1>4 DEF KindsOf, m
    <3> QED
      BY <1>6, <3>1 DEF KindsOf
  <2> QED
    BY <2>1, <2>2, <2>3
<1> QED
  BY <1>2, <1>8, <1>9, <1>10 DEF Built, s

SystemKinds == {"library", "instance", "messenger", "compiler"}
DeviceKinds == {"device", "functions", "allocator"}
SwapChainKinds == {"swap_chain", "image_view", "depth_image", "depth_view"}
TargetKinds == {"render_pass", "command_pool", "command_buffers", "framebuffer"}
SyncKinds == {"fence", "image_available", "render_finished", "descriptor_pool"}
WindowKinds ==
  {"surface"} \cup DeviceKinds \cup SwapChainKinds \cup TargetKinds \cup SyncKinds
HeadlessKinds ==
  DeviceKinds \cup {"command_pool", "command_buffers", "fence", "descriptor_pool"}

Given(o) == IF o = "system" THEN {} ELSE {"instance"}
MadeBy(o) ==
  IF o = "system" THEN SystemKinds
  ELSE IF o \in Windows THEN WindowKinds ELSE HeadlessKinds

LEMMA BuiltSystem == Built({}, Devices!SystemObjects, SystemKinds)
<1> DEFINE l == Devices!One("library")
           i == Devices!One("instance")
           m == Devices!One("messenger")
           c == Devices!One("compiler")
<1>1. Built({}, l, {"library"})
  BY BuiltOne, ParentsAre DEF Kind
<1>2. Built({} \cup {"library"}, i, {"instance"})
  BY BuiltOne, ParentsAre DEF Kind
<1>3. Built({} \cup ({"library"} \cup {"instance"}), m, {"messenger"})
  BY BuiltOne, ParentsAre DEF Kind
<1>4. Built({} \cup (({"library"} \cup {"instance"}) \cup {"messenger"}), c,
            {"compiler"})
  BY BuiltOne, ParentsAre DEF Kind
<1> HIDE DEF l, i, m, c
<1>5. Built({}, l \o i, {"library"} \cup {"instance"})
  BY <1>1, <1>2, BuiltOn
<1>6. Built({}, (l \o i) \o m, ({"library"} \cup {"instance"}) \cup {"messenger"})
  BY <1>3, <1>5, BuiltOn
<1>7. Built({}, ((l \o i) \o m) \o c,
            (({"library"} \cup {"instance"}) \cup {"messenger"}) \cup {"compiler"})
  BY <1>4, <1>6, BuiltOn
<1>8. (({"library"} \cup {"instance"}) \cup {"messenger"}) \cup {"compiler"}
        = SystemKinds
  BY DEF SystemKinds
<1> QED
  BY <1>7, <1>8 DEF Devices!SystemObjects, l, i, m, c

LEMMA BuiltSwapChain ==
  ASSUME DevicesAssumption, NEW given, {"device", "surface", "allocator"} \subseteq given
  PROVE  Built(given, Devices!SwapChainObjects, SwapChainKinds)
<1> DEFINE a == Devices!One("swap_chain")
           b == Devices!PerImage("image_view")
           c == Devices!InTurn("depth_image", "depth_view")
<1>1. Built(given, a, {"swap_chain"})
  BY BuiltOne, ParentsAre DEF Kind
<1>2. Built(given \cup {"swap_chain"}, b, {"image_view"})
  BY BuiltPerImage, ParentsAre DEF Kind
<1>3. Built(given \cup ({"swap_chain"} \cup {"image_view"}), c,
            {"depth_image", "depth_view"})
  BY BuiltInTurn, ParentsAre DEF Kind
<1> HIDE DEF a, b, c
<1>4. Built(given, a \o b, {"swap_chain"} \cup {"image_view"})
  BY <1>1, <1>2, BuiltOn
<1>5. Built(given, (a \o b) \o c,
            ({"swap_chain"} \cup {"image_view"}) \cup {"depth_image", "depth_view"})
  BY <1>3, <1>4, BuiltOn
<1>6. ({"swap_chain"} \cup {"image_view"}) \cup {"depth_image", "depth_view"}
        = SwapChainKinds
  BY DEF SwapChainKinds
<1> QED
  BY <1>5, <1>6 DEF Devices!SwapChainObjects, a, b, c

LEMMA BuiltTarget ==
  ASSUME DevicesAssumption, NEW given,
         {"device", "image_view", "depth_view"} \subseteq given
  PROVE  Built(given, Devices!TargetObjects, TargetKinds)
<1> DEFINE a == Devices!One("render_pass")
           b == Devices!One("command_pool")
           c == Devices!One("command_buffers")
           d == Devices!PerImage("framebuffer")
           ab == {"render_pass"} \cup {"command_pool"}
           abc == ab \cup {"command_buffers"}
<1>1. Built(given, a, {"render_pass"})
  BY BuiltOne, ParentsAre DEF Kind
<1>2. Built(given \cup {"render_pass"}, b, {"command_pool"})
  BY BuiltOne, ParentsAre DEF Kind
<1>3. Built(given \cup ab, c, {"command_buffers"})
  BY BuiltOne, ParentsAre DEF Kind
<1>4. Built(given \cup abc, d, {"framebuffer"})
  BY BuiltPerImage, ParentsAre DEF Kind
<1> HIDE DEF a, b, c, d
<1>5. Built(given, a \o b, ab)
  BY <1>1, <1>2, BuiltOn
<1> HIDE DEF ab
<1>6. Built(given, (a \o b) \o c, abc)
  BY <1>3, <1>5, BuiltOn
<1> HIDE DEF abc
<1>7. Built(given, ((a \o b) \o c) \o d, abc \cup {"framebuffer"})
  BY <1>4, <1>6, BuiltOn
<1>8. abc \cup {"framebuffer"} = TargetKinds
  BY DEF TargetKinds, abc, ab
<1> QED
  BY <1>7, <1>8 DEF Devices!TargetObjects, a, b, c, d

LEMMA BuiltSync ==
  ASSUME DevicesAssumption, NEW given, "device" \in given
  PROVE  Built(given, Devices!SyncObjects, SyncKinds)
<1> DEFINE a == Devices!PerImage("fence")
           b == Devices!InTurn("image_available", "render_finished")
           c == Devices!One("descriptor_pool")
           ab == {"fence"} \cup {"image_available", "render_finished"}
<1>1. Built(given, a, {"fence"})
  BY BuiltPerImage, ParentsAre DEF Kind
<1>2. Built(given \cup {"fence"}, b, {"image_available", "render_finished"})
  BY BuiltInTurn, ParentsAre DEF Kind
<1>3. Built(given \cup ab, c, {"descriptor_pool"})
  BY BuiltOne, ParentsAre DEF Kind
<1> HIDE DEF a, b, c
<1>4. Built(given, a \o b, ab)
  BY <1>1, <1>2, BuiltOn
<1> HIDE DEF ab
<1>5. Built(given, (a \o b) \o c, ab \cup {"descriptor_pool"})
  BY <1>3, <1>4, BuiltOn
<1>6. ab \cup {"descriptor_pool"} = SyncKinds
  BY DEF SyncKinds, ab
<1> QED
  BY <1>5, <1>6 DEF Devices!SyncObjects, a, b, c

LEMMA BuiltWindow ==
  ASSUME DevicesAssumption
  PROVE  Built({"instance"}, Devices!WindowObjects, WindowKinds)
<1> DEFINE given == {"instance"}
           a == Devices!One("surface")
           b == Devices!DeviceObjects
           c == Devices!SwapChainObjects
           d == Devices!TargetObjects
           e == Devices!SyncObjects
           ab == {"surface"} \cup DeviceKinds
           abc == ab \cup SwapChainKinds
           abcd == abc \cup TargetKinds
<1>1. Built(given, a, {"surface"})
  BY BuiltOne, ParentsAre DEF Kind
<1>2. Built(given \cup {"surface"}, b, DeviceKinds)
  BY BuiltDevice DEF DeviceKinds
<1>3. Built(given \cup ab, c, SwapChainKinds)
  <2>1. {"device", "surface", "allocator"} \subseteq given \cup ab
    BY DEF DeviceKinds
  <2> QED
    BY <2>1, BuiltSwapChain
<1>4. Built(given \cup abc, d, TargetKinds)
  <2>1. {"device", "image_view", "depth_view"} \subseteq given \cup abc
    BY DEF DeviceKinds, SwapChainKinds
  <2> QED
    BY <2>1, BuiltTarget
<1>5. Built(given \cup abcd, e, SyncKinds)
  <2>1. "device" \in given \cup abcd
    BY DEF DeviceKinds
  <2> QED
    BY <2>1, BuiltSync
<1> HIDE DEF a, b, c, d, e, given
<1>6. Built(given, a \o b, ab)
  BY <1>1, <1>2, BuiltOn
<1> HIDE DEF ab
<1>7. Built(given, (a \o b) \o c, abc)
  BY <1>3, <1>6, BuiltOn
<1> HIDE DEF abc
<1>8. Built(given, ((a \o b) \o c) \o d, abcd)
  BY <1>4, <1>7, BuiltOn
<1> HIDE DEF abcd
<1>9. Built(given, (((a \o b) \o c) \o d) \o e, abcd \cup SyncKinds)
  BY <1>5, <1>8, BuiltOn
<1>10. abcd \cup SyncKinds = WindowKinds
  BY DEF WindowKinds, abcd, abc, ab
<1> QED
  BY <1>9, <1>10 DEF Devices!WindowObjects, a, b, c, d, e, given

LEMMA BuiltHeadless ==
  Built({"instance"}, Devices!HeadlessObjects, HeadlessKinds)
<1> DEFINE given == {"instance"}
           a == Devices!DeviceObjects
           b == Devices!One("command_pool")
           c == Devices!One("command_buffers")
           d == Devices!One("fence")
           e == Devices!One("descriptor_pool")
           ab == DeviceKinds \cup {"command_pool"}
           abc == ab \cup {"command_buffers"}
           abcd == abc \cup {"fence"}
<1>1. Built(given, a, DeviceKinds)
  BY BuiltDevice DEF DeviceKinds
<1>2. Built(given \cup DeviceKinds, b, {"command_pool"})
  BY BuiltOne, ParentsAre DEF Kind, DeviceKinds
<1>3. Built(given \cup ab, c, {"command_buffers"})
  BY BuiltOne, ParentsAre DEF Kind
<1>4. Built(given \cup abc, d, {"fence"})
  BY BuiltOne, ParentsAre DEF Kind, DeviceKinds
<1>5. Built(given \cup abcd, e, {"descriptor_pool"})
  BY BuiltOne, ParentsAre DEF Kind, DeviceKinds
<1> HIDE DEF a, b, c, d, e, given
<1>6. Built(given, a \o b, ab)
  BY <1>1, <1>2, BuiltOn
<1> HIDE DEF ab
<1>7. Built(given, (a \o b) \o c, abc)
  BY <1>3, <1>6, BuiltOn
<1> HIDE DEF abc
<1>8. Built(given, ((a \o b) \o c) \o d, abcd)
  BY <1>4, <1>7, BuiltOn
<1> HIDE DEF abcd
<1>9. Built(given, (((a \o b) \o c) \o d) \o e, abcd \cup {"descriptor_pool"})
  BY <1>5, <1>8, BuiltOn
<1>10. abcd \cup {"descriptor_pool"} = HeadlessKinds
  BY DEF HeadlessKinds, abcd, abc, ab
<1> QED
  BY <1>9, <1>10 DEF Devices!HeadlessObjects, a, b, c, d, e, given

LEMMA ObjectsBuilt ==
  ASSUME DevicesAssumption, NEW o \in Devices!Owners
  PROVE  Built(Given(o), Devices!Objects(o), MadeBy(o))
<1>1. CASE o = "system"
  BY <1>1, BuiltSystem DEF Devices!Objects, Devices!System, Given, MadeBy
<1>2. CASE o # "system" /\ o \in Windows
  BY <1>2, BuiltWindow DEF Devices!Objects, Devices!System, Given, MadeBy
<1>3. CASE o # "system" /\ o \notin Windows
  BY <1>3, BuiltHeadless DEF Devices!Objects, Devices!System, Given, MadeBy
<1> QED
  BY <1>1, <1>2, <1>3

\* What rendering and uploads add to the objects of a constructor.
Extra(o) ==
  IF o = "system" THEN {} ELSE {"uniform_buffer", "pipeline", "staging_buffer"}

Leaked == {"pipeline", "staging_buffer"}

\* Teardown reaches every kind, children before parents, and the functions
\* when the device is gone.
TearsDown(t, kinds) ==
  /\ Len(t) \in Nat
  /\ \A kind \in kinds \ Leaked : \E n \in 1 .. Len(t) : t[n] = kind
  /\ \A n \in 1 .. Len(t) : \A kind \in kinds :
       t[n] \in Devices!Parents(kind) => \E i \in 1 .. (n - 1) : t[i] = kind
  /\ \A n \in 1 .. Len(t) :
       /\ t[n] \notin Leaked
       /\ t[n] = "functions" => \E i \in 1 .. (n - 1) : t[i] = "device"

LEMMA SystemTearsDown ==
  TearsDown(<<"compiler", "messenger", "instance", "library">>, SystemKinds)
<1> DEFINE t == <<"compiler", "messenger", "instance", "library">>
<1>1. /\ Len(t) = 4 /\ t[1] = "compiler" /\ t[2] = "messenger"
      /\ t[3] = "instance" /\ t[4] = "library"
  OBVIOUS
<1> HIDE DEF t
<1>2. /\ 1 \in 1 .. Len(t) /\ 2 \in 1 .. Len(t) /\ 3 \in 1 .. Len(t)
      /\ 4 \in 1 .. Len(t)
      /\ \A n \in 1 .. Len(t) : n = 1 \/ n = 2 \/ n = 3 \/ n = 4
  BY <1>1
<1>3. \A kind \in SystemKinds \ Leaked : \E n \in 1 .. Len(t) : t[n] = kind
  BY <1>1, <1>2 DEF SystemKinds
<1>4. ASSUME NEW n \in 1 .. Len(t), NEW kind \in SystemKinds,
             t[n] \in Devices!Parents(kind)
      PROVE  \E i \in 1 .. (n - 1) : t[i] = kind
  <2>1. (n = 3 /\ kind = "messenger") \/ (n = 4 /\ kind = "instance")
    BY <1>1, <1>2, <1>4, ParentsAre DEF SystemKinds
  <2>2. 2 \in 1 .. (3 - 1) /\ 3 \in 1 .. (4 - 1)
    OBVIOUS
  <2> QED
    BY <1>1, <2>1, <2>2
<1>5. \A n \in 1 .. Len(t) : t[n] # "functions" /\ t[n] \notin Leaked
  BY <1>1, <1>2 DEF Leaked
<1>6. TearsDown(t, SystemKinds)
  BY <1>1, <1>3, <1>4, <1>5 DEF TearsDown
<1> QED
  BY <1>6 DEF t

LEMMA WindowTearsDown ==
  TearsDown(Devices!TeardownWindow \o Devices!TeardownShared \o <<"surface">>,
            WindowKinds \cup {"uniform_buffer", "pipeline", "staging_buffer"})
<1> DEFINE t == Devices!TeardownWindow \o Devices!TeardownShared \o <<"surface">>
<1>1. /\ Len(t) = 17 /\ t[1] = "image_available"
      /\ t[2] = "render_finished" /\ t[3] = "fence"
      /\ t[4] = "framebuffer" /\ t[5] = "command_buffers"
      /\ t[6] = "render_pass" /\ t[7] = "image_view"
      /\ t[8] = "depth_view" /\ t[9] = "depth_image"
      /\ t[10] = "swap_chain" /\ t[11] = "uniform_buffer"
      /\ t[12] = "descriptor_pool" /\ t[13] = "command_pool"
      /\ t[14] = "allocator" /\ t[15] = "device"
      /\ t[16] = "functions" /\ t[17] = "surface"
  BY DEF Devices!TeardownWindow, Devices!TeardownShared
<1> HIDE DEF t
<1>2. ASSUME NEW n \in 1 .. Len(t)
      PROVE  \/ n = 1 \/ n = 2 \/ n = 3 \/ n = 4 \/ n = 5 \/ n = 6
         \/ n = 7 \/ n = 8 \/ n = 9 \/ n = 10 \/ n = 11 \/ n = 12
         \/ n = 13 \/ n = 14 \/ n = 15 \/ n = 16 \/ n = 17
  BY <1>1
<1>3. \A n \in 1 .. 17 : n \in 1 .. Len(t)
  BY <1>1
<1>4. ASSUME NEW kind \in WindowKinds \cup {"uniform_buffer"}
      PROVE  \E n \in 1 .. Len(t) : t[n] = kind
  BY <1>1, <1>3
  DEF WindowKinds, DeviceKinds, SwapChainKinds, TargetKinds, SyncKinds
<1>5. ASSUME NEW n \in 1 .. Len(t),
             NEW kind \in WindowKinds \cup
               {"uniform_buffer", "pipeline", "staging_buffer"},
             t[n] \in Devices!Parents(kind)
      PROVE  \E i \in 1 .. (n - 1) : t[i] = kind
  <2>1. \/ n = 6 /\ kind \in {"framebuffer"}
        \/ n = 7 /\ kind \in {"framebuffer"}
        \/ n = 8 /\ kind \in {"framebuffer"}
        \/ n = 9 /\ kind \in {"depth_view"}
        \/ n = 10 /\ kind \in {"image_view"}
        \/ n = 13 /\ kind \in {"command_buffers"}
        \/ n = 14 /\ kind \in {"depth_image", "uniform_buffer"}
        \/ n = 15 /\ kind \in {"image_available", "render_finished", "fence",
                               "framebuffer", "render_pass", "image_view",
                               "depth_view", "swap_chain", "descriptor_pool",
                               "command_pool", "allocator"}
        \/ n = 17 /\ kind \in {"swap_chain"}
    BY <1>1, <1>2, <1>5, ParentsAre
    DEF WindowKinds, DeviceKinds, SwapChainKinds, TargetKinds, SyncKinds
  <2>2. CASE n = 6 /\ kind \in {"framebuffer"}
    BY <1>1, <2>2
  <2>3. CASE n = 7 /\ kind \in {"framebuffer"}
    BY <1>1, <2>3
  <2>4. CASE n = 8 /\ kind \in {"framebuffer"}
    BY <1>1, <2>4
  <2>5. CASE n = 9 /\ kind \in {"depth_view"}
    BY <1>1, <2>5
  <2>6. CASE n = 10 /\ kind \in {"image_view"}
    BY <1>1, <2>6
  <2>7. CASE n = 13 /\ kind \in {"command_buffers"}
    BY <1>1, <2>7
  <2>8. CASE n = 14 /\ kind \in {"depth_image", "uniform_buffer"}
    BY <1>1, <2>8
  <2>9. CASE n = 15 /\ kind \in {"image_available", "render_finished",
                                 "fence", "framebuffer", "render_pass",
                                 "image_view", "depth_view", "swap_chain",
                                 "descriptor_pool", "command_pool",
                                 "allocator"}
    BY <1>1, <2>9
  <2>10. CASE n = 17 /\ kind \in {"swap_chain"}
    BY <1>1, <2>10
  <2> QED
    BY <2>1, <2>2, <2>3, <2>4, <2>5, <2>6, <2>7, <2>8, <2>9, <2>10
<1>6. ASSUME NEW n \in 1 .. Len(t), t[n] = "functions"
      PROVE  \E i \in 1 .. (n - 1) : t[i] = "device"
  <2>1. n = 16
    BY <1>1, <1>2, <1>6
  <2> QED
    BY <1>1, <2>1
<1>7. TearsDown(t, WindowKinds \cup {"uniform_buffer", "pipeline", "staging_buffer"})
  <2>1. \A n \in 1 .. Len(t) : t[n] \notin Leaked
    BY <1>1, <1>2 DEF Leaked
  <2> QED
    BY <1>1, <1>4, <1>5, <1>6, <2>1 DEF TearsDown, Leaked
<1> QED
  BY <1>7 DEF t

LEMMA HeadlessTearsDown ==
  TearsDown(<<"fence", "command_buffers">> \o Devices!TeardownShared,
            HeadlessKinds \cup {"uniform_buffer", "pipeline", "staging_buffer"})
<1> DEFINE t == <<"fence", "command_buffers">> \o Devices!TeardownShared
<1>1. /\ Len(t) = 8 /\ t[1] = "fence"
      /\ t[2] = "command_buffers" /\ t[3] = "uniform_buffer"
      /\ t[4] = "descriptor_pool" /\ t[5] = "command_pool"
      /\ t[6] = "allocator" /\ t[7] = "device"
      /\ t[8] = "functions"
  BY DEF Devices!TeardownShared
<1> HIDE DEF t
<1>2. ASSUME NEW n \in 1 .. Len(t)
      PROVE  \/ n = 1 \/ n = 2 \/ n = 3 \/ n = 4 \/ n = 5 \/ n = 6
         \/ n = 7 \/ n = 8
  BY <1>1
<1>3. \A n \in 1 .. 8 : n \in 1 .. Len(t)
  BY <1>1
<1>4. ASSUME NEW kind \in HeadlessKinds \cup {"uniform_buffer"}
      PROVE  \E n \in 1 .. Len(t) : t[n] = kind
  BY <1>1, <1>3 DEF HeadlessKinds, DeviceKinds
<1>5. ASSUME NEW n \in 1 .. Len(t),
             NEW kind \in HeadlessKinds \cup
               {"uniform_buffer", "pipeline", "staging_buffer"},
             t[n] \in Devices!Parents(kind)
      PROVE  \E i \in 1 .. (n - 1) : t[i] = kind
  <2>1. \/ n = 5 /\ kind \in {"command_buffers"}
        \/ n = 6 /\ kind \in {"uniform_buffer"}
        \/ n = 7 /\ kind \in {"fence", "descriptor_pool", "command_pool",
                              "allocator"}
    BY <1>1, <1>2, <1>5, ParentsAre DEF HeadlessKinds, DeviceKinds
  <2>2. CASE n = 5 /\ kind \in {"command_buffers"}
    BY <1>1, <2>2
  <2>3. CASE n = 6 /\ kind \in {"uniform_buffer"}
    BY <1>1, <2>3
  <2>4. CASE n = 7 /\ kind \in {"fence", "descriptor_pool", "command_pool",
                                "allocator"}
    BY <1>1, <2>4
  <2> QED
    BY <2>1, <2>2, <2>3, <2>4
<1>6. ASSUME NEW n \in 1 .. Len(t), t[n] = "functions"
      PROVE  \E i \in 1 .. (n - 1) : t[i] = "device"
  <2>1. n = 8
    BY <1>1, <1>2, <1>6
  <2> QED
    BY <1>1, <2>1
<1>7. TearsDown(t, HeadlessKinds \cup {"uniform_buffer", "pipeline", "staging_buffer"})
  <2>1. \A n \in 1 .. Len(t) : t[n] \notin Leaked
    BY <1>1, <1>2 DEF Leaked
  <2> QED
    BY <1>1, <1>4, <1>5, <1>6, <2>1 DEF TearsDown, Leaked
<1> QED
  BY <1>7 DEF t

Known(o) == MadeBy(o) \cup Extra(o)

LEMMA AllTornDown ==
  ASSUME DevicesAssumption, NEW o \in Devices!Owners
  PROVE  TearsDown(Devices!Teardown(o), Known(o))
<1>1. CASE o = "system"
  <2>1. Known(o) = SystemKinds
    BY <1>1 DEF Known, MadeBy, Extra
  <2> QED
    BY <1>1, <2>1, SystemTearsDown DEF Devices!Teardown, Devices!System
<1>2. CASE o # "system" /\ o \in Windows
  <2>1. Known(o) = WindowKinds \cup {"uniform_buffer", "pipeline", "staging_buffer"}
    BY <1>2 DEF Known, MadeBy, Extra
  <2>2. Devices!Teardown(o) =
          Devices!TeardownWindow \o Devices!TeardownShared \o <<"surface">>
    BY <1>2, Zenon DEF Devices!Teardown, Devices!System
  <2> QED
    BY <2>1, <2>2, WindowTearsDown, Zenon
<1>3. CASE o # "system" /\ o \notin Windows
  <2>1. Known(o) = HeadlessKinds \cup {"uniform_buffer", "pipeline", "staging_buffer"}
    BY <1>3 DEF Known, MadeBy, Extra
  <2>2. Devices!Teardown(o) =
          <<"fence", "command_buffers">> \o Devices!TeardownShared
    BY <1>3, Zenon DEF Devices!Teardown, Devices!System
  <2> QED
    BY <2>1, <2>2, HeadlessTearsDown, Zenon
<1> QED
  BY <1>1, <1>2, <1>3

KindsIn(objs) == {x[1] : x \in objs}

\* The objects of an owner in state l before its n-th call: what was created
\* has its parents, what was reached by teardown is gone, and functions of the
\* device are there as long as the device once a constructor has been left.
Fits(o, l, n, objs) ==
  /\ l \in {"none", "constructor", "ready", "teardown", "gone"}
  /\ n \in Nat \ {0}
  /\ KindsIn(objs) \subseteq Known(o)
  /\ \A kind \in KindsIn(objs) :
       Devices!Parents(kind) \subseteq KindsIn(objs) \cup Given(o)
  /\ l = "none" => objs = {}
  /\ l = "constructor" =>
       /\ n <= Len(Devices!Objects(o)) + 1
       /\ objs = {Devices!Objects(o)[i] : i \in 1 .. (n - 1)}
  /\ l = "ready" =>
       {Devices!Objects(o)[i] : i \in 1 .. Len(Devices!Objects(o))} \subseteq objs
  /\ l = "teardown" =>
       /\ n <= Len(Devices!Teardown(o)) + 1
       /\ \A i \in 1 .. (n - 1) : Devices!Teardown(o)[i] \notin KindsIn(objs)
  /\ l \in {"ready", "teardown"} =>
       ("device" \in KindsIn(objs) => "functions" \in KindsIn(objs))
  /\ l = "gone" => KindsIn(objs) \subseteq Leaked

LEMMA StartFits ==
  ASSUME DevicesAssumption, NEW o \in Devices!Owners
  PROVE  Fits(o, "none", 1, {}) /\ Fits(o, "constructor", 1, {})
<1>1. KindsIn({}) = {}
  BY DEF KindsIn
<1>2. Len(Devices!Objects(o)) \in Nat
  BY ObjectsBuilt DEF Built
<1>3. 1 .. (1 - 1) = {}
  OBVIOUS
<1>4. {Devices!Objects(o)[i] : i \in 1 .. (1 - 1)} = {}
  BY <1>3, Zenon
<1> QED
  BY <1>1, <1>2, <1>4 DEF Fits

LEMMA CreateFits ==
  ASSUME DevicesAssumption, NEW o \in Devices!Owners, NEW n, NEW objs,
         Fits(o, "constructor", n, objs), n <= Len(Devices!Objects(o))
  PROVE  Fits(o, "constructor", n + 1, objs \cup {Devices!Objects(o)[n]})
<1> DEFINE s == Devices!Objects(o)
           new == objs \cup {s[n]}
<1>1. /\ s \in Seq(Kind \X Nat) /\ InOrder(Given(o), s) /\ KindsOf(s) = MadeBy(o)
  BY ObjectsBuilt DEF Built
<1>2. /\ n \in Nat \ {0} /\ objs = {s[i] : i \in 1 .. (n - 1)}
      /\ KindsIn(objs) \subseteq Known(o)
      /\ \A kind \in KindsIn(objs) :
           Devices!Parents(kind) \subseteq KindsIn(objs) \cup Given(o)
  BY DEF Fits
<1>3. Len(s) \in Nat /\ n <= Len(s)
  BY <1>1
<1> HIDE DEF s
<1>4. n \in 1 .. Len(s) /\ n + 1 <= Len(s) + 1 /\ n + 1 \in Nat \ {0}
  BY <1>2, <1>3
<1>5. KindsIn(new) = KindsIn(objs) \cup {s[n][1]}
  BY DEF KindsIn
<1>6. s[n][1] \in Known(o)
  BY <1>1, <1>4 DEF KindsOf, Known
<1>7. Devices!Parents(s[n][1]) \subseteq KindsIn(objs) \cup Given(o)
  <2> SUFFICES ASSUME NEW p \in Devices!Parents(s[n][1]), p \notin Given(o)
               PROVE  p \in KindsIn(objs)
    OBVIOUS
  <2>1. PICK j \in 1 .. (n - 1) : s[j][1] = p
    BY <1>1, <1>4 DEF InOrder
  <2> QED
    BY <1>2, <2>1 DEF KindsIn
<1>8. new = {s[i] : i \in 1 .. ((n + 1) - 1)}
  <2>1. 1 .. ((n + 1) - 1) = (1 .. (n - 1)) \cup {n}
    BY <1>2
  <2> QED
    BY <1>2, <2>1
<1> HIDE DEF new
<1>9. \A kind \in KindsIn(new) :
        Devices!Parents(kind) \subseteq KindsIn(new) \cup Given(o)
  BY <1>2, <1>5, <1>7
<1>10. Fits(o, "constructor", n + 1, new)
  BY <1>2, <1>4, <1>5, <1>6, <1>8, <1>9 DEF Fits, s
<1> QED
  BY <1>10 DEF new, s

\* A constructor may end, normally or by an exception, where the functions of
\* the device are not the next.
LEMMA LeaveFits ==
  ASSUME DevicesAssumption, NEW o \in Devices!Owners, NEW n, NEW objs,
         Fits(o, "constructor", n, objs),
         n <= Len(Devices!Objects(o)) => Devices!Objects(o)[n][1] # "functions"
  PROVE  /\ Fits(o, "teardown", 1, objs)
         /\ n = Len(Devices!Objects(o)) + 1 => Fits(o, "ready", 1, objs)
<1> DEFINE s == Devices!Objects(o)
<1>1. /\ s \in Seq(Kind \X Nat) /\ Resolved(s) /\ Len(s) \in Nat
  BY ObjectsBuilt DEF Built
<1>2. /\ n \in Nat \ {0} /\ objs = {s[i] : i \in 1 .. (n - 1)} /\ n <= Len(s) + 1
      /\ KindsIn(objs) \subseteq Known(o)
      /\ \A kind \in KindsIn(objs) :
           Devices!Parents(kind) \subseteq KindsIn(objs) \cup Given(o)
  BY DEF Fits
<1>3. n <= Len(s) => s[n][1] # "functions"
  OBVIOUS
<1> HIDE DEF s
<1>4. ASSUME "device" \in KindsIn(objs) PROVE "functions" \in KindsIn(objs)
  <2>1. PICK i \in 1 .. (n - 1) : s[i][1] = "device"
    BY <1>2, <1>4 DEF KindsIn
  <2>2. i \in 1 .. Len(s) /\ i + 1 <= n
    BY <1>1, <1>2
  <2>3. i + 1 \in 1 .. Len(s) /\ s[i + 1][1] = "functions"
    BY <1>1, <2>1, <2>2 DEF Resolved
  <2>4. i + 1 \in 1 .. (n - 1)
    BY <1>2, <1>3, <2>2, <2>3
  <2> QED
    BY <1>2, <2>3, <2>4 DEF KindsIn
<1>5. Fits(o, "teardown", 1, objs)
  <2>1. Len(Devices!Teardown(o)) \in Nat
    BY AllTornDown DEF TearsDown
  <2> QED
    BY <1>2, <1>4, <2>1 DEF Fits
<1>6. ASSUME n = Len(s) + 1 PROVE Fits(o, "ready", 1, objs)
  <2>1. n - 1 = Len(s)
    BY <1>1, <1>6
  <2>2. {s[i] : i \in 1 .. Len(s)} \subseteq objs
    BY <1>2, <2>1
  <2> QED
    BY <1>2, <1>4, <2>2 DEF Fits, s
<1> QED
  BY <1>5, <1>6 DEF s

LEMMA DestroyFits ==
  ASSUME DevicesAssumption, NEW o \in Devices!Owners, NEW n, NEW objs,
         Fits(o, "ready", n, objs)
  PROVE  Fits(o, "teardown", 1, objs)
<1>1. Len(Devices!Teardown(o)) \in Nat
  BY AllTornDown DEF TearsDown
<1> QED
  BY <1>1 DEF Fits

LEMMA AddFits ==
  ASSUME DevicesAssumption, NEW o \in Devices!Owners, NEW n, NEW objs, NEW new,
         Fits(o, "ready", n, objs), KindsIn(new) \subseteq Extra(o)
  PROVE  Fits(o, "ready", n, objs \cup new)
<1> DEFINE all == objs \cup new
<1>1. KindsIn(all) = KindsIn(objs) \cup KindsIn(new)
  BY DEF KindsIn
<1>2. /\ n \in Nat \ {0} /\ KindsIn(objs) \subseteq Known(o)
      /\ \A kind \in KindsIn(objs) :
           Devices!Parents(kind) \subseteq KindsIn(objs) \cup Given(o)
      /\ {Devices!Objects(o)[i] : i \in 1 .. Len(Devices!Objects(o))} \subseteq objs
      /\ "device" \in KindsIn(objs) => "functions" \in KindsIn(objs)
  BY DEF Fits
<1>3. ASSUME o # "system" PROVE "allocator" \in KindsIn(objs)
  <2>1. "allocator" \in KindsOf(Devices!Objects(o))
    <3>1. "allocator" \in MadeBy(o)
      BY <1>3 DEF MadeBy, WindowKinds, HeadlessKinds, DeviceKinds
    <3> QED
      BY <3>1, ObjectsBuilt DEF Built
  <2>2. PICK i \in 1 .. Len(Devices!Objects(o)) :
          Devices!Objects(o)[i][1] = "allocator"
    BY <2>1 DEF KindsOf
  <2> QED
    BY <1>2, <2>2 DEF KindsIn
<1>4. \A kind \in KindsIn(new) : Devices!Parents(kind) \subseteq KindsIn(objs)
  BY <1>3, ParentsAre DEF Extra
<1>5. KindsIn(all) \subseteq Known(o)
  BY <1>1, <1>2 DEF Known
<1>6. "device" \notin KindsIn(new)
  BY DEF Extra
<1> HIDE DEF all
<1>7. \A kind \in KindsIn(all) :
        Devices!Parents(kind) \subseteq KindsIn(all) \cup Given(o)
  BY <1>1, <1>2, <1>4
<1>8. {Devices!Objects(o)[i] : i \in 1 .. Len(Devices!Objects(o))} \subseteq all
  BY <1>2 DEF all
<1>9. Fits(o, "ready", n, all)
  BY <1>1, <1>2, <1>5, <1>6, <1>7, <1>8 DEF Fits
<1> QED
  BY <1>9 DEF all

\* What a teardown step is to destroy it can destroy.
LEMMA TearFits ==
  ASSUME DevicesAssumption, NEW o \in Devices!Owners, NEW n, NEW objs,
         Fits(o, "teardown", n, objs), n <= Len(Devices!Teardown(o))
  PROVE  LET kind == Devices!Teardown(o)[n]
         IN  /\ kind \in KindsIn(objs) =>
                  kind \in Devices!ByOthers \/ "functions" \in KindsIn(objs)
             /\ Fits(o, "teardown", n + 1, {x \in objs : x[1] # kind})
<1> DEFINE t == Devices!Teardown(o)
           left == {x \in objs : x[1] # t[n]}
<1>1. TearsDown(t, Known(o))
  BY AllTornDown
<1>2. /\ n \in Nat \ {0} /\ KindsIn(objs) \subseteq Known(o)
      /\ \A kind \in KindsIn(objs) :
           Devices!Parents(kind) \subseteq KindsIn(objs) \cup Given(o)
      /\ \A i \in 1 .. (n - 1) : t[i] \notin KindsIn(objs)
      /\ "device" \in KindsIn(objs) => "functions" \in KindsIn(objs)
  BY DEF Fits
<1>3. n <= Len(t) /\ Len(t) \in Nat
  BY <1>1 DEF TearsDown
<1> HIDE DEF t
<1>4. n \in 1 .. Len(t) /\ n + 1 <= Len(t) + 1 /\ n + 1 \in Nat \ {0}
  BY <1>2, <1>3
<1>5. KindsIn(left) = KindsIn(objs) \ {t[n]}
  BY DEF KindsIn
<1>6. ASSUME t[n] \in KindsIn(objs)
      PROVE  t[n] \in Devices!ByOthers \/ "functions" \in KindsIn(objs)
  <2>1. \/ t[n] \in Devices!ByOthers \cup Leaked \/ t[n] = "device"
        \/ t[n] = "command_buffers" \/ "device" \in Devices!Parents(t[n])
    BY <1>2, <1>6, ParentsAre
    DEF Known, MadeBy, Extra, SystemKinds, WindowKinds, HeadlessKinds,
        DeviceKinds, SwapChainKinds, TargetKinds, SyncKinds, Devices!ByOthers,
        Leaked
  <2>2. t[n] \notin Leaked
    BY <1>1, <1>4 DEF TearsDown
  <2>3. ASSUME "device" \in Devices!Parents(t[n]) PROVE "device" \in KindsIn(objs)
    BY <1>2, <1>6, <2>3 DEF Given
  <2>4. ASSUME t[n] = "command_buffers" PROVE "device" \in KindsIn(objs)
    <3>1. "command_pool" \in KindsIn(objs)
      BY <1>2, <1>6, <2>4, ParentsAre DEF Given
    <3> QED
      BY <1>2, <3>1, ParentsAre DEF Given
  <2> QED
    BY <1>2, <1>6, <2>1, <2>2, <2>3, <2>4
<1>7. \A kind \in KindsIn(left) :
        Devices!Parents(kind) \subseteq KindsIn(left) \cup Given(o)
  <2> SUFFICES ASSUME NEW kind \in KindsIn(objs), t[n] \in Devices!Parents(kind)
               PROVE  FALSE
    BY <1>2, <1>5
  <2>1. PICK i \in 1 .. (n - 1) : t[i] = kind
    BY <1>1, <1>2, <1>4 DEF TearsDown
  <2> QED
    BY <1>2, <2>1
<1>8. ASSUME "device" \in KindsIn(left) PROVE "functions" \in KindsIn(left)
  <2>1. "functions" \in KindsIn(objs) /\ "device" \in KindsIn(objs)
    BY <1>2, <1>5, <1>8
  <2>2. ASSUME t[n] = "functions" PROVE FALSE
    <3>1. PICK i \in 1 .. (n - 1) : t[i] = "device"
      BY <1>1, <1>4, <2>2 DEF TearsDown
    <3> QED
      BY <1>2, <2>1, <3>1
  <2> QED
    BY <1>5, <2>1, <2>2
<1>9. \A i \in 1 .. ((n + 1) - 1) : t[i] \notin KindsIn(left)
  <2>1. \A i \in 1 .. ((n + 1) - 1) : i = n \/ i \in 1 .. (n - 1)
    BY <1>2
  <2> QED
    BY <1>2, <1>5, <2>1
<1> HIDE DEF left
<1>10. Fits(o, "teardown", n + 1, left)
  BY <1>2, <1>4, <1>5, <1>7, <1>8, <1>9 DEF Fits, t
<1> QED
  BY <1>6, <1>10 DEF left, t

LEMMA GoneFits ==
  ASSUME DevicesAssumption, NEW o \in Devices!Owners, NEW n, NEW objs,
         Fits(o, "teardown", n, objs), n = Len(Devices!Teardown(o)) + 1
  PROVE  Fits(o, "gone", 1, objs)
<1> DEFINE t == Devices!Teardown(o)
<1>1. TearsDown(t, Known(o)) /\ Len(t) \in Nat
  BY AllTornDown DEF TearsDown
<1>2. /\ KindsIn(objs) \subseteq Known(o)
      /\ \A kind \in KindsIn(objs) :
           Devices!Parents(kind) \subseteq KindsIn(objs) \cup Given(o)
      /\ \A i \in 1 .. (n - 1) : t[i] \notin KindsIn(objs)
  BY DEF Fits
<1>3. n = Len(t) + 1
  OBVIOUS
<1> HIDE DEF t
<1>4. n - 1 = Len(t)
  BY <1>1, <1>3
<1>5. KindsIn(objs) \subseteq Leaked
  BY <1>1, <1>2, <1>4 DEF TearsDown
<1> QED
  BY <1>2, <1>5 DEF Fits

\* While a context has something to do, the system is ready; only contexts that
\* are ready have batches.
DevicesInv ==
  /\ DOMAIN life = Devices!Owners /\ DOMAIN at = Devices!Owners
  /\ DOMAIN alive = Devices!Owners
  /\ \A o \in Devices!Owners : Fits(o, life[o], at[o], alive[o])
  /\ life["system"] # "ready" =>
       \A c \in Devices!Contexts : life[c] \in {"none", "gone"}
  /\ rendering \subseteq Devices!Contexts
  /\ \A c \in rendering : life[c] = "ready"

\* A step of owner o.
Becomes(o, l, n, objs) ==
  /\ DOMAIN life' = Devices!Owners /\ DOMAIN at' = Devices!Owners
  /\ DOMAIN alive' = Devices!Owners
  /\ life'[o] = l /\ at'[o] = n /\ alive'[o] = objs
  /\ \A p \in Devices!Owners \ {o} :
       life'[p] = life[p] /\ at'[p] = at[p] /\ alive'[p] = alive[p]

LEMMA OwnersAre ==
  ASSUME DevicesAssumption
  PROVE  /\ Devices!Owners = Devices!Contexts \cup {"system"}
         /\ "system" \notin Devices!Contexts /\ Devices!System = "system"
BY DEF DevicesAssumption, Devices!Owners, Devices!Contexts, Devices!System

LEMMA BecomesKeeps ==
  ASSUME DevicesAssumption, DevicesInv, NEW o \in Devices!Owners,
         NEW l, NEW n, NEW objs, Becomes(o, l, n, objs), Fits(o, l, n, objs),
         o = "system" /\ l # "ready" =>
           \A c \in Devices!Contexts : life[c] \in {"none", "gone"},
         o # "system" /\ l \notin {"none", "gone"} => life["system"] = "ready",
         rendering' \subseteq rendering \cup {o}, o = "system" => o \notin rendering',
         o \in rendering' => l = "ready"
  PROVE  DevicesInv'
<1>1. \A p \in Devices!Owners : Fits(p, life'[p], at'[p], alive'[p])
  BY DEF DevicesInv, Becomes
<1>2. life'["system"] # "ready" =>
        \A c \in Devices!Contexts : life'[c] \in {"none", "gone"}
  BY OwnersAre DEF DevicesInv, Becomes
<1>3. rendering' \subseteq Devices!Contexts
  BY OwnersAre DEF DevicesInv
<1>4. \A c \in rendering' : life'[c] = "ready"
  BY <1>3, OwnersAre DEF DevicesInv, Becomes
<1> QED
  BY <1>1, <1>2, <1>3, <1>4 DEF DevicesInv, Becomes

LEMMA DevicesStart ==
  ASSUME DevicesAssumption, Devices!Init PROVE DevicesInv
<1>1. /\ life = [o \in Devices!Owners |-> "none"]
      /\ at = [o \in Devices!Owners |-> 1]
      /\ alive = [o \in Devices!Owners |-> {}] /\ rendering = {}
  BY DEF Devices!Init
<1>2. \A o \in Devices!Owners : Fits(o, life[o], at[o], alive[o])
  BY <1>1, StartFits
<1> QED
  BY <1>1, <1>2, OwnersAre DEF DevicesInv

LEMMA CreationKeeps ==
  ASSUME DevicesAssumption, DevicesInv,
         Devices!CreateSystem \/ \E c \in Devices!Contexts : Devices!CreateContext(c)
  PROVE  DevicesInv'
<1>1. CASE Devices!CreateSystem
  <2>1. /\ life["system"] = "none" /\ Devices!Enter("system", "constructor")
        /\ alive' = alive /\ rendering' = rendering
    BY <1>1, OwnersAre DEF Devices!CreateSystem
  <2>2. "system" \in Devices!Owners /\ "system" \notin rendering
    BY OwnersAre DEF DevicesInv
  <2>3. alive["system"] = {}
    BY <2>1, <2>2 DEF DevicesInv, Fits
  <2>4. Becomes("system", "constructor", 1, {})
    BY <2>1, <2>2, <2>3 DEF Becomes, Devices!Enter, DevicesInv
  <2>5. Fits("system", "constructor", 1, {})
    BY <2>2, StartFits
  <2>6. \A c \in Devices!Contexts : life[c] \in {"none", "gone"}
    BY <2>1 DEF DevicesInv
  <2> QED
    BY <2>1, <2>2, <2>4, <2>5, <2>6, BecomesKeeps
<1>2. ASSUME NEW c \in Devices!Contexts, Devices!CreateContext(c)
      PROVE  DevicesInv'
  <2>1. /\ life[c] = "none" /\ life["system"] = "ready"
        /\ Devices!Enter(c, "constructor")
        /\ alive' = alive /\ rendering' = rendering
    BY <1>2, OwnersAre DEF Devices!CreateContext
  <2>2. c \in Devices!Owners /\ c # "system" /\ c \notin rendering
    BY <2>1, OwnersAre DEF DevicesInv
  <2>3. alive[c] = {}
    BY <2>1, <2>2 DEF DevicesInv, Fits
  <2>4. Becomes(c, "constructor", 1, {})
    BY <2>1, <2>2, <2>3 DEF Becomes, Devices!Enter, DevicesInv
  <2>5. Fits(c, "constructor", 1, {})
    BY <2>2, StartFits
  <2> QED
    BY <2>1, <2>2, <2>4, <2>5, BecomesKeeps
<1> QED
  BY <1>1, <1>2

LEMMA ConstructorKeeps ==
  ASSUME DevicesAssumption, DevicesInv, NEW o \in Devices!Owners,
         \/ Devices!CreateObject(o) \/ Devices!Constructed(o)
         \/ Devices!ConstructorThrows(o)
  PROVE  DevicesInv'
<1>1. /\ life[o] = "constructor" /\ rendering' = rendering
      /\ DOMAIN life = Devices!Owners /\ DOMAIN at = Devices!Owners
      /\ DOMAIN alive = Devices!Owners
  BY DEF Devices!CreateObject, Devices!Constructed, Devices!ConstructorThrows,
     DevicesInv
<1>2. Fits(o, "constructor", at[o], alive[o])
  BY <1>1 DEF DevicesInv
<1>3. o \notin rendering /\ "system" \notin rendering
  BY <1>1, OwnersAre DEF DevicesInv
<1>4. /\ o = "system" => \A c \in Devices!Contexts : life[c] \in {"none", "gone"}
      /\ o # "system" => life["system"] = "ready"
  BY <1>1, OwnersAre DEF DevicesInv
<1>5. CASE Devices!CreateObject(o)
  <2> DEFINE objs == alive[o] \cup {Devices!Objects(o)[at[o]]}
  <2>1. /\ at[o] <= Len(Devices!Objects(o)) /\ life' = life
        /\ alive' = [alive EXCEPT ![o] = objs]
        /\ at' = [at EXCEPT ![o] = at[o] + 1]
    BY <1>5 DEF Devices!CreateObject
  <2>2. Fits(o, "constructor", at[o] + 1, objs)
    BY <1>2, <2>1, CreateFits
  <2> HIDE DEF objs
  <2>3. Becomes(o, "constructor", at[o] + 1, objs)
    BY <1>1, <2>1 DEF Becomes
  <2> QED
    BY <1>1, <1>3, <1>4, <2>2, <2>3, BecomesKeeps
<1>6. CASE Devices!Constructed(o)
  <2>1. /\ at[o] = Len(Devices!Objects(o)) + 1 /\ Devices!Enter(o, "ready")
        /\ alive' = alive
    BY <1>6 DEF Devices!Constructed
  <2>2. Len(Devices!Objects(o)) \in Nat
    BY ObjectsBuilt DEF Built
  <2>3. ~(at[o] <= Len(Devices!Objects(o)))
    BY <2>1, <2>2
  <2>4. Fits(o, "ready", 1, alive[o])
    BY <1>2, <2>1, <2>3, LeaveFits
  <2>5. Becomes(o, "ready", 1, alive[o])
    BY <1>1, <2>1 DEF Becomes, Devices!Enter
  <2> QED
    BY <1>1, <1>3, <1>4, <2>4, <2>5, BecomesKeeps
<1>7. CASE Devices!ConstructorThrows(o)
  <2>1. /\ at[o] <= Len(Devices!Objects(o)) =>
             Devices!Objects(o)[at[o]][1] # "functions"
        /\ Devices!Enter(o, "teardown") /\ alive' = alive
    BY <1>7 DEF Devices!ConstructorThrows
  <2>2. Fits(o, "teardown", 1, alive[o])
    BY <1>2, <2>1, LeaveFits
  <2>3. Becomes(o, "teardown", 1, alive[o])
    BY <1>1, <2>1 DEF Becomes, Devices!Enter
  <2> QED
    BY <1>1, <1>3, <1>4, <2>2, <2>3, BecomesKeeps
<1> QED
  BY <1>5, <1>6, <1>7

LEMMA TeardownKeeps ==
  ASSUME DevicesAssumption, DevicesInv, NEW o \in Devices!Owners,
         Devices!TeardownStep(o) \/ Devices!TornDown(o)
  PROVE  DevicesInv'
<1>1. /\ life[o] = "teardown" /\ rendering' = rendering
      /\ DOMAIN life = Devices!Owners /\ DOMAIN at = Devices!Owners
      /\ DOMAIN alive = Devices!Owners
  BY DEF Devices!TeardownStep, Devices!TornDown, DevicesInv
<1>2. Fits(o, "teardown", at[o], alive[o])
  BY <1>1 DEF DevicesInv
<1>3. o \notin rendering /\ "system" \notin rendering
  BY <1>1, OwnersAre DEF DevicesInv
<1>4. /\ o = "system" => \A c \in Devices!Contexts : life[c] \in {"none", "gone"}
      /\ o # "system" => life["system"] = "ready"
  BY <1>1, OwnersAre DEF DevicesInv
<1>5. CASE Devices!TeardownStep(o)
  <2> DEFINE kind == Devices!Teardown(o)[at[o]]
             left == {x \in alive[o] : x[1] # kind}
  <2>1. /\ at[o] <= Len(Devices!Teardown(o)) /\ life' = life
        /\ alive' = [alive EXCEPT ![o] =
                       alive[o] \ Devices!Destroyed(o, kind)]
        /\ at' = [at EXCEPT ![o] = at[o] + 1]
    BY <1>5 DEF Devices!TeardownStep
  <2>2. /\ kind \in KindsIn(alive[o]) =>
             kind \in Devices!ByOthers \/ "functions" \in KindsIn(alive[o])
        /\ Fits(o, "teardown", at[o] + 1, left)
    BY <1>2, <2>1, TearFits
  <2> HIDE DEF kind
  <2>3. alive[o] \ Devices!Destroyed(o, kind) = left
    <3>1. CASE kind \in KindsIn(alive[o])
      BY <2>2, <3>1 DEF Devices!Destroyed, Devices!Kinds, KindsIn
    <3>2. CASE kind \notin KindsIn(alive[o])
      BY <3>2 DEF Devices!Destroyed, KindsIn
    <3> QED
      BY <3>1, <3>2
  <2> HIDE DEF left
  <2>4. Becomes(o, "teardown", at[o] + 1, left)
    BY <1>1, <2>1, <2>3 DEF Becomes
  <2> QED
    BY <1>1, <1>3, <1>4, <2>2, <2>4, BecomesKeeps
<1>6. CASE Devices!TornDown(o)
  <2>1. /\ at[o] = Len(Devices!Teardown(o)) + 1 /\ Devices!Enter(o, "gone")
        /\ alive' = alive
    BY <1>6 DEF Devices!TornDown
  <2>2. Fits(o, "gone", 1, alive[o])
    BY <1>2, <2>1, GoneFits
  <2>3. Becomes(o, "gone", 1, alive[o])
    BY <1>1, <2>1 DEF Becomes, Devices!Enter
  <2> QED
    BY <1>1, <1>3, <1>4, <2>2, <2>3, BecomesKeeps
<1> QED
  BY <1>5, <1>6

LEMMA UseKeeps ==
  ASSUME DevicesAssumption, DevicesInv, NEW c \in Devices!Contexts,
         \/ Devices!Render(c) \/ Devices!UploadThrows(c)
         \/ Devices!DestroyContext(c)
  PROVE  DevicesInv'
<1>1. /\ life[c] = "ready" /\ c \in Devices!Owners /\ c # "system"
      /\ DOMAIN life = Devices!Owners /\ DOMAIN at = Devices!Owners
      /\ DOMAIN alive = Devices!Owners /\ "system" \notin rendering
      /\ life["system"] = "ready"
  BY OwnersAre DEF Devices!Render, Devices!UploadThrows, Devices!DestroyContext,
     DevicesInv
<1>2. Fits(c, "ready", at[c], alive[c])
  BY <1>1 DEF DevicesInv
<1>3. Extra(c) = {"uniform_buffer", "pipeline", "staging_buffer"}
  BY <1>1 DEF Extra
<1>4. CASE Devices!Render(c)
  <2>1. PICK b \in Blocks :
          alive' = [alive EXCEPT ![c] =
                      alive[c] \cup {<<"uniform_buffer", b>>, <<"pipeline", 1>>}]
    BY <1>4 DEF Devices!Render
  <2>2. life' = life /\ at' = at /\ rendering' = rendering \cup {c}
    BY <1>4 DEF Devices!Render
  <2> DEFINE new == {<<"uniform_buffer", b>>, <<"pipeline", 1>>}
             objs == alive[c] \cup new
  <2>3. KindsIn(new) \subseteq Extra(c)
    BY <1>3 DEF KindsIn
  <2> HIDE DEF new
  <2>4. Fits(c, "ready", at[c], objs)
    BY <1>1, <1>2, <2>3, AddFits
  <2>5. Becomes(c, "ready", at[c], objs)
    BY <1>1, <2>1, <2>2 DEF Becomes, new
  <2> HIDE DEF objs
  <2> QED
    BY <1>1, <2>2, <2>4, <2>5, BecomesKeeps
<1>5. CASE Devices!UploadThrows(c)
  <2> DEFINE new == {<<"staging_buffer", 1>>}
             objs == alive[c] \cup new
  <2>1. /\ alive' = [alive EXCEPT ![c] = objs]
        /\ life' = life /\ at' = at /\ rendering' = rendering
    BY <1>5 DEF Devices!UploadThrows
  <2>2. KindsIn(new) \subseteq Extra(c)
    BY <1>3 DEF KindsIn
  <2> HIDE DEF new
  <2>3. Fits(c, "ready", at[c], objs)
    BY <1>1, <1>2, <2>2, AddFits
  <2> HIDE DEF objs
  <2>4. Becomes(c, "ready", at[c], objs)
    BY <1>1, <2>1 DEF Becomes
  <2> QED
    BY <1>1, <2>1, <2>3, <2>4, BecomesKeeps
<1>6. CASE Devices!DestroyContext(c)
  <2>1. /\ c \notin rendering /\ Devices!Enter(c, "teardown")
        /\ alive' = alive /\ rendering' = rendering
    BY <1>6 DEF Devices!DestroyContext
  <2>2. Fits(c, "teardown", 1, alive[c])
    BY <1>1, <1>2, DestroyFits
  <2>3. Becomes(c, "teardown", 1, alive[c])
    BY <1>1, <2>1 DEF Becomes, Devices!Enter
  <2> QED
    BY <1>1, <2>1, <2>2, <2>3, BecomesKeeps
<1> QED
  BY <1>4, <1>5, <1>6

LEMMA DevicesStep ==
  ASSUME DevicesAssumption, DevicesInv, [Devices!Next]_deviceVars
  PROVE  DevicesInv'
<1>1. CASE Devices!CreateSystem
  BY <1>1, CreationKeeps
<1>2. CASE Devices!ReleaseSystem
  BY <1>2 DEF Devices!ReleaseSystem, DevicesInv
<1>3. CASE Devices!DestroySystem
  <2>1. /\ life["system"] = "ready" /\ Devices!Enter("system", "teardown")
        /\ \A c \in Devices!Contexts : life[c] \in {"none", "gone"}
        /\ alive' = alive /\ rendering' = rendering
    BY <1>3, OwnersAre DEF Devices!DestroySystem
  <2>2. "system" \in Devices!Owners /\ "system" \notin rendering
    BY OwnersAre DEF DevicesInv
  <2>3. Fits("system", "ready", at["system"], alive["system"])
    BY <2>1, <2>2 DEF DevicesInv
  <2>4. Fits("system", "teardown", 1, alive["system"])
    BY <2>2, <2>3, DestroyFits
  <2>5. Becomes("system", "teardown", 1, alive["system"])
    BY <2>1, <2>2 DEF Becomes, Devices!Enter, DevicesInv
  <2> QED
    BY <2>1, <2>2, <2>4, <2>5, BecomesKeeps
<1>4. ASSUME NEW o \in Devices!Owners,
             \/ Devices!CreateObject(o) \/ Devices!Constructed(o)
             \/ Devices!ConstructorThrows(o)
      PROVE  DevicesInv'
  BY <1>4, ConstructorKeeps
<1>5. ASSUME NEW o \in Devices!Owners,
             Devices!TeardownStep(o) \/ Devices!TornDown(o)
      PROVE  DevicesInv'
  BY <1>5, TeardownKeeps
<1>6. ASSUME NEW c \in Devices!Contexts, Devices!CreateContext(c)
      PROVE  DevicesInv'
  BY <1>6, CreationKeeps
<1>7. ASSUME NEW c \in Devices!Contexts,
             \/ Devices!Render(c) \/ Devices!UploadThrows(c)
             \/ Devices!DestroyContext(c)
      PROVE  DevicesInv'
  BY <1>7, UseKeeps
<1>8. ASSUME NEW c \in Devices!Contexts, Devices!BatchDone(c)
      PROVE  DevicesInv'
  BY <1>8 DEF Devices!BatchDone, DevicesInv
<1>9. CASE UNCHANGED deviceVars
  BY <1>9 DEF deviceVars, DevicesInv
<1> QED
  BY <1>1, <1>2, <1>3, <1>4, <1>5, <1>6, <1>7, <1>8, <1>9 DEF Devices!Next

LEMMA DevicesPart == FramesNext => [Devices!Next]_deviceVars
BY DEF FramesNext, deviceVars

\* VulkanDevices: for any windows, headless contexts and images of a swap chain,
\* wherever a constructor throws and in whatever order the program lets go:
\* nothing is destroyed before what was created from it or while a batch uses
\* it, and nothing is left but pipelines and staging buffers.
THEOREM TeardownInOrder == FramesSpec => []TornDownInOrder
<1>1. ASSUME DevicesInv PROVE TornDownInOrder
  <2>1. ASSUME NEW o \in Devices!Owners, NEW kind \in Devices!Kinds(o)
        PROVE  Devices!Parents(kind) \subseteq Devices!Kinds(o) \cup Devices!Kinds("system")
    <3>1. /\ Devices!Kinds(o) = KindsIn(alive[o])
          /\ Devices!Kinds("system") = KindsIn(alive["system"])
      BY DEF Devices!Kinds, KindsIn
    <3>2. Fits(o, life[o], at[o], alive[o])
      BY <1>1 DEF DevicesInv
    <3>3. Devices!Parents(kind) \subseteq KindsIn(alive[o]) \cup Given(o)
      BY <2>1, <3>1, <3>2 DEF Fits
    <3>4. CASE o = "system"
      BY <3>1, <3>3, <3>4 DEF Given
    <3>5. CASE o # "system" /\ life[o] \in {"none", "gone"}
      <4>1. kind \in Leaked
        BY <2>1, <3>1, <3>2, <3>5 DEF Fits, KindsIn
      <4> QED
        BY <4>1, ParentsAre DEF Leaked
    <3>6. CASE o # "system" /\ life[o] \notin {"none", "gone"}
      <4>1. life["system"] = "ready" /\ "system" \in Devices!Owners
        BY <1>1, <3>6, DevicesAssumption, OwnersAre DEF DevicesInv
      <4>2. Fits("system", "ready", at["system"], alive["system"])
        BY <1>1, <4>1 DEF DevicesInv
      <4>3. "instance" \in KindsOf(Devices!Objects("system"))
        BY <4>1, DevicesAssumption, ObjectsBuilt DEF Built, MadeBy, SystemKinds
      <4>4. PICK i \in 1 .. Len(Devices!Objects("system")) :
              Devices!Objects("system")[i][1] = "instance"
        BY <4>3 DEF KindsOf
      <4>5. "instance" \in KindsIn(alive["system"])
        BY <4>2, <4>4 DEF Fits, KindsIn
      <4> QED
        BY <3>1, <3>3, <4>5 DEF Given
    <3> QED
      BY <3>4, <3>5, <3>6
  <2>2. Devices!ParentsOutlive
    BY <2>1, DevicesAssumption, OwnersAre DEF Devices!ParentsOutlive
  <2>3. Devices!NothingLeaked
    BY <1>1 DEF Devices!NothingLeaked, DevicesInv, Fits, Devices!Kinds, KindsIn,
       Leaked
  <2>4. Devices!BatchesKeepObjects
    <3> SUFFICES ASSUME NEW c \in rendering
                 PROVE  Devices!UsedByBatch(c) \subseteq alive[c]
      BY DEF Devices!BatchesKeepObjects
    <3>1. c \in Devices!Owners /\ Fits(c, "ready", at[c], alive[c])
      BY <1>1, DevicesAssumption, OwnersAre DEF DevicesInv
    <3>2. DOMAIN Devices!Objects(c) = 1 .. Len(Devices!Objects(c))
      BY <3>1, DevicesAssumption, ObjectsBuilt DEF Built
    <3> QED
      BY <3>1, <3>2 DEF Fits, Devices!UsedByBatch
  <2> QED
    BY <2>2, <2>3, <2>4 DEF TornDownInOrder, Devices!TornDownInOrder
<1>2. FramesInit => DevicesInv
  BY DevicesAssumption, DevicesStart DEF FramesInit
<1>3. DevicesInv /\ [FramesNext]_<<system, vars, vulkanVars, dx12Vars, deviceVars>>
        => DevicesInv'
  BY DevicesAssumption, DevicesStep, DevicesPart DEF deviceVars
<1> QED
  BY <1>1, <1>2, <1>3, PTL DEF FramesSpec
================================================================================
