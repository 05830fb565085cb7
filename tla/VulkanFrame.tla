------------------------------ MODULE VulkanFrame ------------------------------
(***************************************************************************)
(* How the Vulkan render context of a window keeps the thread that renders,*)
(* the graphics queue and the presentation engine in step.  Fences and     *)
(* semaphores are picked by the number of the frame, command buffers by    *)
(* the number of the image, and images come back in any order.  The stage  *)
(* of a frame is m_current_frame_state: BEFORE_DRAW up to the acquisition  *)
(* of an image, DRAW until the batch is submitted, then DRAW_FINISHED; a   *)
(* second pass of the frame finds DRAW and only records.                   *)
(***************************************************************************)
EXTENDS Naturals, Sequences

CONSTANTS
  Images,     \* swap chain images, which is how many fences, semaphores of
              \* each kind and command buffers there are
  MaxFrames   \* bound: frames begun

ASSUME VulkanAssumption == Images \in Nat \ {0, 1} /\ MaxFrames \in Nat

Slot == 0 .. Images - 1

VARIABLES
  stage,                  \* of the thread in render() and on_frame_present()
  m_current_frame,
  m_current_image_index,
  m_frame_finished_fences,        \* slot -> is it signaled?
  m_image_available_semaphores,   \* slot -> "idle", "pending", "signaled"
  m_render_finished_semaphores,
  image,      \* image -> "free", "acquired", "presented" or "shown"
  queue,      \* batches of the graphics queue that are not done
  presents,   \* presentation requests that still wait for their batch
  begun,      \* history: the number of frames begun
  contents,   \* history: image -> the frame last drawn into it, or 0
  shot,       \* history: the last screenshot, its frame and what it shows
  lost        \* history: an image could not be acquired

syncVars  == <<m_frame_finished_fences, m_image_available_semaphores,
               m_render_finished_semaphores>>
stageVars == <<stage, m_current_frame, m_current_image_index>>
histVars  == <<begun, contents, shot, lost>>
vulkanVars == <<stageVars, syncVars, image, queue, presents, histVars>>

SemaphoreState == {"idle", "pending", "signaled"}
Entry == [slot : Slot, image : Slot, frame : 1 .. MaxFrames]

VulkanInit ==
  /\ stage = "before" /\ m_current_frame = 0 /\ m_current_image_index = 0
  /\ m_frame_finished_fences = [s \in Slot |-> TRUE]
  /\ m_image_available_semaphores = [s \in Slot |-> "idle"]
  /\ m_render_finished_semaphores = [s \in Slot |-> "idle"]
  /\ image = [i \in Slot |-> "free"]
  /\ queue = <<>> /\ presents = <<>>
  /\ begun = 0 /\ contents = [i \in Slot |-> 0]
  /\ shot = [frame |-> 0, shows |-> 0] /\ lost = FALSE

------------------------------------------------------------------------------
(* The thread that renders.                                                *)

\* render() for the first pass of a frame waits for the fence, for ever.
RenderFirst ==
  /\ stage = "before"
  /\ begun < MaxFrames
  /\ stage' = "wait"
  /\ UNCHANGED <<m_current_frame, m_current_image_index, syncVars, image,
                 queue, presents, histVars>>

\* Mutant: the fence keeps its state.
WaitKeepsFence ==
  /\ stage = "wait"
  /\ m_frame_finished_fences[m_current_frame]
  /\ stage' = "acquire"
  /\ begun' = begun + 1
  /\ UNCHANGED <<m_current_frame, m_current_image_index, syncVars, image,
                 queue, presents, contents, shot, lost>>

WaitForFrameFinished ==
  /\ stage = "wait"
  /\ m_frame_finished_fences[m_current_frame]
  /\ m_frame_finished_fences' =
       [m_frame_finished_fences EXCEPT ![m_current_frame] = FALSE]
  /\ stage' = "acquire"
  /\ begun' = begun + 1
  /\ UNCHANGED <<m_current_frame, m_current_image_index,
                 m_image_available_semaphores, m_render_finished_semaphores,
                 image, queue, presents, contents, shot, lost>>

\* acquire_next_image(), then the command buffer of the image is reset and
\* begun and the passes are recorded.
AcquireNextImage ==
  /\ stage = "acquire"
  /\ \E i \in Slot :
       /\ image[i] = "free"
       /\ image' = [image EXCEPT ![i] = "acquired"]
       /\ m_current_image_index' = i
  /\ m_image_available_semaphores' =
       [m_image_available_semaphores EXCEPT ![m_current_frame] = "pending"]
  /\ stage' = "draw"
  /\ UNCHANGED <<m_current_frame, m_frame_finished_fences,
                 m_render_finished_semaphores, queue, presents, histVars>>

\* The swap chain is out of date: render() throws after the fence was reset,
\* and the caller of frame() may try again.
AcquireFails ==
  /\ stage = "acquire"
  /\ lost' = TRUE
  /\ stage' = "before"
  /\ UNCHANGED <<m_current_frame, m_current_image_index, syncVars, image,
                 queue, presents, begun, contents, shot>>

\* frame() takes a screenshot when the passes are recorded: a batch of its
\* own copies the image, and the thread waits until it is done.
Screenshot ==
  /\ stage = "draw"
  /\ stage' = "screenshot"
  /\ UNCHANGED <<m_current_frame, m_current_image_index, syncVars, image,
                 queue, presents, histVars>>

ScreenshotDone ==
  /\ stage = "screenshot"
  /\ queue = <<>>
  /\ shot' = [frame |-> begun, shows |-> contents[m_current_image_index]]
  /\ stage' = "drawn"
  /\ UNCHANGED <<m_current_frame, m_current_image_index, syncVars, image,
                 queue, presents, begun, contents, lost>>

ThisFrame == [slot  |-> m_current_frame, image |-> m_current_image_index,
              frame |-> begun]

\* Mutant: the semaphores and the fence of the next frame are used.
BatchOfNext == [ThisFrame EXCEPT !.slot = (@ + 1) % Images]

\* Mutant: the command buffer is picked by the frame.
BatchOfSlot == [ThisFrame EXCEPT !.image = m_current_frame]

\* What is submitted: the command buffer of the image, the semaphores and the
\* fence of the frame.
Batch == ThisFrame

\* on_frame_present() submits the command buffer,
Submit ==
  /\ stage \in {"draw", "drawn"}
  /\ queue' = Append(queue, Batch)
  /\ m_render_finished_semaphores' =
       [m_render_finished_semaphores EXCEPT ![m_current_frame] = "pending"]
  /\ stage' = "finished"
  /\ UNCHANGED <<m_current_frame, m_current_image_index,
                 m_frame_finished_fences, m_image_available_semaphores, image,
                 presents, histVars>>

\* Mutant: one slot less than there are images is used.
NextFrameEarly == (m_current_frame + 1) % (Images - 1)

NextFrame == (m_current_frame + 1) % Images

\* and asks for the image to be presented.
PresentImage ==
  /\ stage = "finished"
  /\ presents' = Append(presents, ThisFrame)
  /\ image' = [image EXCEPT ![m_current_image_index] = "presented"]
  /\ m_current_frame' = NextFrame
  /\ stage' = "before"
  /\ UNCHANGED <<m_current_image_index, syncVars, queue, histVars>>

\* Recording, submitting or presenting fails.  What a caller of frame() that
\* tries again does to the open or pending command buffer is undefined.
Fail ==
  /\ stage \in {"draw", "drawn", "screenshot", "finished"}
  /\ stage' = "failed"
  /\ UNCHANGED <<m_current_frame, m_current_image_index, syncVars, image,
                 queue, presents, histVars>>

Thread ==
  \/ RenderFirst \/ WaitForFrameFinished \/ AcquireNextImage
  \/ ScreenshotDone \/ Submit \/ PresentImage

------------------------------------------------------------------------------
(* The graphics queue and the presentation engine.                         *)

\* The first batch waits for its image, draws, and signals.
RunBatch ==
  /\ queue # <<>>
  /\ LET b == Head(queue)
     IN /\ m_image_available_semaphores[b.slot] = "signaled"
        /\ m_image_available_semaphores' =
             [m_image_available_semaphores EXCEPT ![b.slot] = "idle"]
        /\ m_render_finished_semaphores' =
             [m_render_finished_semaphores EXCEPT ![b.slot] = "signaled"]
        /\ m_frame_finished_fences' =
             [m_frame_finished_fences EXCEPT ![b.slot] = TRUE]
        /\ contents' = [contents EXCEPT ![b.image] = b.frame]
  /\ queue' = Tail(queue)
  /\ UNCHANGED <<stageVars, image, presents, begun, shot, lost>>

\* The presentation engine has done with an image that was acquired,
ImageAvailable ==
  /\ \E s \in Slot :
       /\ m_image_available_semaphores[s] = "pending"
       /\ m_image_available_semaphores' =
            [m_image_available_semaphores EXCEPT ![s] = "signaled"]
  /\ UNCHANGED <<stageVars, m_frame_finished_fences,
                 m_render_finished_semaphores, image, queue, presents,
                 histVars>>

\* and shows the images in order; the one shown before becomes free.
ShowImage ==
  /\ presents # <<>>
  /\ LET p == Head(presents)
     IN /\ m_render_finished_semaphores[p.slot] = "signaled"
        /\ m_render_finished_semaphores' =
             [m_render_finished_semaphores EXCEPT ![p.slot] = "idle"]
        /\ image' = [i \in Slot |-> IF i = p.image THEN "shown"
                                 ELSE IF image[i] = "shown" THEN "free"
                                 ELSE image[i]]
  /\ presents' = Tail(presents)
  /\ UNCHANGED <<stageVars, m_frame_finished_fences,
                 m_image_available_semaphores, queue, histVars>>

Device == RunBatch \/ ImageAvailable \/ ShowImage

VulkanNext == Thread \/ Screenshot \/ AcquireFails \/ Fail \/ Device

VulkanSpec == VulkanInit /\ [][VulkanNext]_vulkanVars

\* The thread goes on, and so do the queue and the presentation engine.
VulkanFairSpec ==
  /\ VulkanSpec
  /\ WF_vulkanVars(Thread)
  /\ WF_vulkanVars(RunBatch) /\ WF_vulkanVars(ImageAvailable)
  /\ WF_vulkanVars(ShowImage)

------------------------------------------------------------------------------
(* Properties.                                                             *)

\* Every variable has its type.
VulkanTypeOK ==
  /\ stage \in {"before", "wait", "acquire", "draw", "screenshot", "drawn",
                "finished", "failed"}
  /\ m_current_frame \in Slot /\ m_current_image_index \in Slot
  /\ m_frame_finished_fences \in [Slot -> BOOLEAN]
  /\ m_image_available_semaphores \in [Slot -> SemaphoreState]
  /\ m_render_finished_semaphores \in [Slot -> SemaphoreState]
  /\ image \in [Slot -> {"free", "acquired", "presented", "shown"}]
  /\ queue \in Seq(Entry) /\ presents \in Seq(Entry)
  /\ begun \in 0 .. MaxFrames /\ lost \in BOOLEAN
  /\ contents \in [Slot -> 0 .. MaxFrames]
  /\ shot \in [frame : 0 .. MaxFrames, shows : 0 .. MaxFrames]

Drawing == stage \in {"draw", "screenshot", "drawn"}

\* The command buffer of an image is reset and recorded only when no batch
\* with it is in the queue, although the fence waited for was another one's.
CommandBufferIdle ==
  Drawing => \A k \in DOMAIN queue : queue[k].image # m_current_image_index

\* An image is acquired with a semaphore nothing signals or waits for.
AcquireSemaphoreIdle ==
  stage = "acquire" =>
    /\ m_image_available_semaphores[m_current_frame] = "idle"
    /\ \A k \in DOMAIN queue : queue[k].slot # m_current_frame

\* A batch is submitted with a semaphore whose last presentation is over.
SubmitSemaphoreIdle ==
  Drawing =>
    /\ m_render_finished_semaphores[m_current_frame] = "idle"
    /\ \A k \in DOMAIN presents : presents[k].slot # m_current_frame

\* Both semaphores of a slot are idle when they are used again: the fence of
\* the slot says so of the first, of the second only that images come round.
SemaphoresIdle == AcquireSemaphoreIdle /\ SubmitSemaphoreIdle

\* While a batch that draws into an image is not done, the image is neither
\* shown nor handed out again.
ImageHeld ==
  \A k \in DOMAIN queue :
    \/ image[queue[k].image] = "presented"
    \/ /\ stage \in {"finished", "failed"}
       /\ queue[k].image = m_current_image_index

\* Without a failure every frame that is begun is presented.  After a failed
\* acquisition the next wait is for a fence that nothing will signal.
FrameReturns ==
  stage = "wait" ~> (stage = "before" \/ stage = "failed" \/ lost)

\* render_context.hpp:358 says of screenshot(): "Take a screenshot of the
\* current frame buffer."
ScreenshotShowsFrame == shot.shows = shot.frame
==============================================================================
