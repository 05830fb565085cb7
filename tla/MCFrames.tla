------------------------------- MODULE MCFrames -------------------------------
(***************************************************************************)
(* Frames, as mge::render_context promises them and as the two window      *)
(* contexts carry them out that keep a queue of the device in step with    *)
(* the thread that renders.  A program has one render system, so each      *)
(* behaviour is one of frame(), of the Vulkan or of the Direct3D 12        *)
(* context, or of what the Vulkan system creates and takes down.           *)
(***************************************************************************)
EXTENDS RenderContext, VulkanFrame

CONSTANTS
  Loaders, Timeouts, MaxFence,           \* of Dx12Frame
  Windows, Headless, SwapImages, Blocks  \* of VulkanDevices

\* The system is no context; a swap chain has an image.
ASSUME DevicesAssumption ==
  "system" \notin Windows \cup Headless /\ SwapImages \in Nat \ {0}

VARIABLES
  system,   \* which part of the program is watched
  m_draw_state, m_command_list, m_command_queue_fence_value, back, m_data_lock,
  dxpc, work, fence, dxRendered, commands, completed, event, armed, bufferState,
  gaveUp, tooEarly, resetBusy, misplaced,
  life, at, alive, held, rendering

dx12Vars ==
  <<m_draw_state, m_command_list, m_command_queue_fence_value, back,
    m_data_lock, dxpc, work, fence, dxRendered, commands, completed, event,
    armed, bufferState, gaveUp, tooEarly, resetBusy, misplaced>>

Dx12 == INSTANCE Dx12Frame WITH rendered <- dxRendered

deviceVars == <<life, at, alive, held, rendering>>

Devices == INSTANCE VulkanDevices

FramesInit ==
  /\ system \in {"render", "vulkan", "dx12", "devices"}
  /\ Init /\ VulkanInit /\ Dx12!Init /\ Devices!Init

FramesNext ==
  \/ /\ system = "render" /\ Next
     /\ UNCHANGED <<system, vulkanVars, dx12Vars, deviceVars>>
  \/ /\ system = "vulkan" /\ VulkanNext
     /\ UNCHANGED <<system, vars, dx12Vars, deviceVars>>
  \/ /\ system = "dx12" /\ Dx12!Next
     /\ UNCHANGED <<system, vars, vulkanVars, deviceVars>>
  \/ /\ system = "devices" /\ Devices!Next
     /\ UNCHANGED <<system, vars, vulkanVars, dx12Vars>>

FramesSpec ==
  /\ FramesInit /\ [][FramesNext]_<<system, vars, vulkanVars, dx12Vars, deviceVars>>
  /\ WF_vars(system = "render" /\ FrameBegin)
  /\ WF_vars(system = "render" /\ Frame)
  /\ WF_vulkanVars(system = "vulkan" /\ Thread)
  /\ WF_vulkanVars(system = "vulkan" /\ RunBatch)
  /\ WF_vulkanVars(system = "vulkan" /\ ImageAvailable)
  /\ WF_vulkanVars(system = "vulkan" /\ ShowImage)

AllocatorIdle    == Dx12!AllocatorIdle
BarriersFit      == Dx12!BarriersFit
TornDownInOrder  == Devices!TornDownInOrder
==============================================================================
