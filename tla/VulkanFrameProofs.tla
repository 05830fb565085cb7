--------------------------- MODULE VulkanFrameProofs ---------------------------
(***************************************************************************)
(* Proofs about VulkanFrame for any number of images and frames.  The fence*)
(* of a slot protects its acquire semaphore.  Nothing but the images going *)
(* round protects its render_finished semaphore: the presentations that    *)
(* wait are of consecutive slots and of different images, so there are     *)
(* never enough of them to reach back to the slot in use.                  *)
(***************************************************************************)
EXTENDS VulkanFrame, FiniteSetTheorems, SequenceTheorems, TLAPS

Using == Drawing \/ stage \in {"finished", "failed"}

\* How many frames were begun when.
BegunInStep ==
  /\ stage = "wait" => begun < MaxFrames
  /\ stage \notin {"before", "wait"} => begun >= 1

\* What a signaled fence says about its slot.
FenceGuards ==
  \A s \in Slot : m_frame_finished_fences[s] =>
    /\ m_image_available_semaphores[s] = "idle"
    /\ \A k \in DOMAIN queue : queue[k].slot # s
    /\ s = m_current_frame => ~(Drawing \/ stage = "acquire")

\* The slot of the frame in work is in no batch, nor is one in two batches.
SlotFree ==
  /\ Drawing \/ stage = "acquire" =>
       \A k \in DOMAIN queue : queue[k].slot # m_current_frame
  /\ stage = "acquire" =>
       m_image_available_semaphores[m_current_frame] = "idle"
  /\ \A j, k \in DOMAIN queue : queue[j].slot = queue[k].slot => j = k

\* The thread has acquired its image; presentations are of different images.
ImagesDiffer ==
  /\ Using => image[m_current_image_index] = "acquired"
  /\ \A j \in DOMAIN presents : image[presents[j].image] = "presented"
  /\ \A j, k \in DOMAIN presents :
       presents[j].image = presents[k].image => j = k

\* A batch that is not done waits to be presented, or will when the thread
\* has submitted it.
BatchesToPresent ==
  \A k \in DOMAIN queue :
    /\ m_render_finished_semaphores[queue[k].slot] = "pending"
    /\ \/ \E j \in DOMAIN presents : presents[j] = queue[k]
       \/ stage \in {"finished", "failed"} /\ queue[k] = ThisFrame

\* Presentations wait in the order of their slots, up to the one in use.
Distance(j) == presents[j].slot + (Len(presents) + 1 - j)

SlotsInOrder ==
  \A j \in DOMAIN presents :
    Distance(j) \in {m_current_frame, m_current_frame + Images}

\* A render_finished semaphore is in use for a presentation that waits.
SignalsToPresent ==
  \A s \in Slot : m_render_finished_semaphores[s] # "idle" =>
    \/ \E j \in DOMAIN presents : presents[j].slot = s
    \/ stage \in {"finished", "failed"} /\ s = m_current_frame

IInv ==
  /\ VulkanTypeOK /\ BegunInStep
  /\ FenceGuards /\ SlotFree
  /\ ImagesDiffer /\ BatchesToPresent /\ SlotsInOrder /\ SignalsToPresent

LEMMA InitInv == VulkanInit => IInv
<1> SUFFICES ASSUME VulkanInit PROVE IInv
  OBVIOUS
<1>1. Images \in Nat \ {0, 1} /\ MaxFrames \in Nat /\ 0 \in Slot
  BY VulkanAssumption DEF Slot
<1>2. <<>> \in Seq(Entry) /\ DOMAIN <<>> = {} /\ ~Drawing
  BY DEF VulkanInit, Drawing
<1>3. VulkanTypeOK
  BY <1>1, <1>2 DEF VulkanInit, VulkanTypeOK, SemaphoreState
<1>4. BegunInStep /\ SlotFree
  BY <1>2 DEF VulkanInit, BegunInStep, SlotFree
<1>5. FenceGuards
  BY <1>2 DEF VulkanInit, FenceGuards
<1>6. ImagesDiffer /\ BatchesToPresent /\ SlotsInOrder
  BY <1>2 DEF VulkanInit, ImagesDiffer, BatchesToPresent, SlotsInOrder, Using
<1>7. SignalsToPresent
  BY DEF VulkanInit, SignalsToPresent
<1> QED
  BY <1>3, <1>4, <1>5, <1>6, <1>7 DEF IInv

------------------------------------------------------------------------------
(* Facts about the two queues.                                             *)

LEMMA AppendFacts ==
  ASSUME NEW S, NEW q \in Seq(S), NEW e \in S
  PROVE  /\ Append(q, e) \in Seq(S)
         /\ Len(q) \in Nat /\ Len(Append(q, e)) = Len(q) + 1
         /\ DOMAIN q = 1 .. Len(q)
         /\ DOMAIN Append(q, e) = 1 .. Len(q) + 1
         /\ \A k \in 1 .. Len(q) : Append(q, e)[k] = q[k]
         /\ Append(q, e)[Len(q) + 1] = e
  OBVIOUS

LEMMA TailFacts ==
  ASSUME NEW S, NEW q \in Seq(S), q # <<>>
  PROVE  /\ Tail(q) \in Seq(S) /\ Head(q) = q[1]
         /\ Len(q) \in Nat \ {0} /\ Len(Tail(q)) = Len(q) - 1
         /\ DOMAIN q = 1 .. Len(q) /\ 1 \in DOMAIN q
         /\ DOMAIN Tail(q) = 1 .. Len(q) - 1
         /\ \A k \in 1 .. Len(q) - 1 :
              k + 1 \in DOMAIN q /\ Tail(q)[k] = q[k + 1]
<1>1. Len(q) \in Nat \ {0}
  BY EmptySeq
<1> QED
  BY <1>1

LEMMA NextFrameIs ==
  ASSUME m_current_frame \in Slot
  PROVE  NextFrame = IF m_current_frame = Images - 1
                     THEN 0 ELSE m_current_frame + 1
<1>1. Images \in Nat \ {0} /\ m_current_frame \in Nat
  BY VulkanAssumption DEF Slot
<1>2. ASSUME NEW n \in Nat \ {0}, NEW k \in Nat, k = n PROVE k % n = 0
  BY <1>2
<1>3. ASSUME NEW n \in Nat \ {0}, NEW k \in Nat, k < n PROVE k % n = k
  BY <1>3
<1>4. CASE m_current_frame = Images - 1
  <2>1. m_current_frame + 1 = Images /\ m_current_frame + 1 \in Nat
    BY <1>1, <1>4
  <2> QED
    BY <1>1, <1>2, <1>4, <2>1 DEF NextFrame
<1>5. CASE m_current_frame # Images - 1
  <2>1. m_current_frame + 1 < Images /\ m_current_frame + 1 \in Nat
    BY <1>1, <1>5 DEF Slot
  <2> QED
    BY <1>1, <1>3, <1>5, <2>1 DEF NextFrame
<1> QED
  BY <1>4, <1>5

\* The members of a queue have the type of its entries.
LEMMA QueueTypes ==
  ASSUME VulkanTypeOK
  PROVE  /\ \A k \in DOMAIN queue :
              /\ queue[k] \in Entry
              /\ queue[k].slot \in Slot /\ queue[k].image \in Slot
         /\ \A j \in DOMAIN presents :
              /\ presents[j] \in Entry
              /\ presents[j].slot \in Slot /\ presents[j].image \in Slot
         /\ DOMAIN queue = 1 .. Len(queue) /\ Len(queue) \in Nat
         /\ DOMAIN presents = 1 .. Len(presents) /\ Len(presents) \in Nat
<1>1. queue \in Seq(Entry) /\ presents \in Seq(Entry)
  BY DEF VulkanTypeOK
<1>2. \A e \in Entry : e.slot \in Slot /\ e.image \in Slot
  BY DEF Entry
<1>3. \A k \in DOMAIN queue : queue[k] \in Entry
  BY <1>1
<1>4. \A j \in DOMAIN presents : presents[j] \in Entry
  BY <1>1
<1> QED
  BY <1>1, <1>2, <1>3, <1>4

\* The presentations that wait are of different images: there are at most as
\* many as images, and fewer while the thread has acquired one.
LEMMA FewPresents ==
  ASSUME VulkanTypeOK, ImagesDiffer
  PROVE  Len(presents) <= Images /\ (Using => Len(presents) < Images)
<1> DEFINE S == 1 .. Len(presents)
           f == [j \in S |-> presents[j].image]
<1>1. Images \in Nat \ {0, 1} /\ Len(presents) \in Nat
  BY VulkanAssumption, QueueTypes
<1>2. IsFiniteSet(S) /\ Cardinality(S) = Len(presents)
  <2> DEFINE n == Len(presents)
  <2>1. n \in Int /\ 1 \in Int
    BY <1>1
  <2>2. IsFiniteSet(1 .. n) /\ Cardinality(1 .. n) = IF 1 > n THEN 0 ELSE n - 1 + 1
    <3> HIDE DEF n
    <3> QED
      BY ONLY <2>1, FS_Interval
  <2>3. n \in Nat /\ (IF 1 > n THEN 0 ELSE n - 1 + 1) = n
    BY <1>1
  <2> QED
    BY <2>2, <2>3
<1>3. IsFiniteSet(Slot) /\ Cardinality(Slot) = Images
  BY <1>1, FS_Interval DEF Slot
<1>4. f \in [S -> Slot] /\ ~(\E x, y \in S : x # y /\ f[x] = f[y])
  BY QueueTypes DEF ImagesDiffer
<1>5. ~(Cardinality(Slot) < Cardinality(S))
  <2> HIDE DEF f, S
  <2> QED
    BY <1>2, <1>3, <1>4, FS_PigeonHole
<1>6. ASSUME Using PROVE Len(presents) < Images
  <2> DEFINE T == Slot \ {m_current_image_index}
  <2>1. m_current_image_index \in Slot
    BY DEF VulkanTypeOK
  <2>2. IsFiniteSet(T) /\ Cardinality(T) = Images - 1
    BY <1>3, <2>1, FS_RemoveElement
  <2>3. f \in [S -> T]
    BY <1>4, <1>6, QueueTypes DEF ImagesDiffer
  <2>4. ~(Cardinality(T) < Cardinality(S))
    <3> HIDE DEF T, f, S
    <3> QED
      BY <1>2, <1>4, <2>2, <2>3, FS_PigeonHole
  <2> QED
    BY <1>1, <1>2, <2>2, <2>4
<1> QED
  BY <1>1, <1>2, <1>3, <1>5, <1>6

------------------------------------------------------------------------------
(* Each action preserves the invariant.                                    *)

\* Steps that change the stage and nothing the invariant relates it to.
LEMMA StageInv ==
  ASSUME IInv, RenderFirst \/ AcquireFails \/ Screenshot \/ ScreenshotDone
  PROVE  IInv'
<1> USE VulkanAssumption
<1>1. VulkanTypeOK'
  <2>1. contents[m_current_image_index] \in 0 .. MaxFrames /\ begun \in 0 .. MaxFrames
    BY DEF IInv, VulkanTypeOK
  <2>2. shot' \in [frame : 0 .. MaxFrames, shows : 0 .. MaxFrames]
    BY <2>1 DEF IInv, VulkanTypeOK, RenderFirst, AcquireFails, Screenshot,
         ScreenshotDone, histVars
  <2>3. /\ stage' \in {"before", "wait", "drawn", "screenshot"}
        /\ lost' \in BOOLEAN
        /\ UNCHANGED <<m_current_frame, m_current_image_index, syncVars, image,
                        queue, presents, begun, contents>>
    BY DEF IInv, VulkanTypeOK, RenderFirst, AcquireFails, Screenshot,
         ScreenshotDone, histVars
  <2> QED
    BY <2>2, <2>3 DEF IInv, VulkanTypeOK, syncVars
<1>2. BegunInStep'
  BY DEF IInv, BegunInStep, RenderFirst, AcquireFails, Screenshot,
         ScreenshotDone, histVars
<1>3. /\ UNCHANGED <<m_current_frame, m_current_image_index, syncVars, image,
                      queue, presents, begun>>
      /\ Drawing' => Drawing
      /\ stage' # "acquire" /\ stage' \notin {"finished", "failed"}
      /\ stage \notin {"finished", "failed"}
  BY DEF RenderFirst, AcquireFails, Screenshot, ScreenshotDone, Drawing, histVars
<1>4. FenceGuards'
  BY <1>3 DEF IInv, FenceGuards, syncVars
<1>5. SlotFree'
  BY <1>3 DEF IInv, SlotFree
<1>6. ImagesDiffer'
  BY <1>3 DEF IInv, ImagesDiffer, Using
<1>7. BatchesToPresent'
  BY <1>3 DEF IInv, BatchesToPresent, syncVars
<1>8. SlotsInOrder'
  BY <1>3 DEF IInv, SlotsInOrder, Distance
<1>9. SignalsToPresent'
  BY <1>3 DEF IInv, SignalsToPresent, syncVars
<1> QED
  BY <1>1, <1>2, <1>4, <1>5, <1>6, <1>7, <1>8, <1>9 DEF IInv

LEMMA WaitInv == ASSUME IInv, WaitForFrameFinished PROVE IInv'
<1> USE VulkanAssumption DEF WaitForFrameFinished
<1>1. /\ begun \in 0 .. MaxFrames /\ begun < MaxFrames
      /\ begun' = begun + 1 /\ begun' \in 0 .. MaxFrames /\ begun' >= 1
  BY DEF IInv, VulkanTypeOK, BegunInStep
<1>2. VulkanTypeOK'
  BY <1>1 DEF IInv, VulkanTypeOK
<1>3. BegunInStep'
  BY <1>1 DEF BegunInStep
<1>4. /\ ~Drawing /\ ~Drawing' /\ ~Using' /\ m_current_frame \in Slot
      /\ m_frame_finished_fences \in [Slot -> BOOLEAN]
  BY DEF Drawing, Using, IInv, VulkanTypeOK
<1>5. FenceGuards'
  BY <1>4 DEF IInv, FenceGuards
<1>6. SlotFree'
  BY <1>4 DEF IInv, SlotFree, FenceGuards
<1>7. ImagesDiffer'
  BY <1>4 DEF IInv, ImagesDiffer
<1>8. BatchesToPresent'
  BY DEF IInv, BatchesToPresent
<1>9. SlotsInOrder' /\ SignalsToPresent'
  BY DEF IInv, SlotsInOrder, Distance, SignalsToPresent
<1> QED
  BY <1>2, <1>3, <1>5, <1>6, <1>7, <1>8, <1>9 DEF IInv

LEMMA AcquireInv == ASSUME IInv, AcquireNextImage PROVE IInv'
<1> USE VulkanAssumption DEF AcquireNextImage
<1>1. PICK i \in Slot : /\ image[i] = "free"
                        /\ image' = [image EXCEPT ![i] = "acquired"]
                        /\ m_current_image_index' = i
  OBVIOUS
<1>2. /\ image \in [Slot -> {"free", "acquired", "presented", "shown"}]
      /\ m_image_available_semaphores \in [Slot -> SemaphoreState]
      /\ m_current_frame \in Slot
  BY DEF IInv, VulkanTypeOK
<1>3. VulkanTypeOK'
  BY <1>1 DEF IInv, VulkanTypeOK, SemaphoreState, histVars
<1>4. BegunInStep' /\ ~Drawing
  BY DEF IInv, BegunInStep, histVars, Drawing
<1>5. ~m_frame_finished_fences[m_current_frame]
  BY <1>2 DEF IInv, FenceGuards
<1>6. FenceGuards'
  BY <1>2, <1>5 DEF IInv, FenceGuards
<1>7. SlotFree'
  BY DEF IInv, SlotFree
<1>8. ImagesDiffer'
  BY <1>1, <1>2, QueueTypes DEF IInv, ImagesDiffer
<1>9. BatchesToPresent' /\ SlotsInOrder' /\ SignalsToPresent'
  BY DEF IInv, BatchesToPresent, SlotsInOrder, Distance, SignalsToPresent
<1> QED
  BY <1>3, <1>4, <1>6, <1>7, <1>8, <1>9 DEF IInv

LEMMA SubmitInv == ASSUME IInv, Submit PROVE IInv'
<1> USE VulkanAssumption DEF Submit
<1>1. /\ Drawing /\ ~Drawing' /\ Using /\ Using' /\ ThisFrame' = ThisFrame
      /\ stage' \notin {"acquire", "wait", "before"}
  BY DEF Drawing, Using, ThisFrame, histVars
<1>2. /\ m_current_frame \in Slot /\ m_current_image_index \in Slot
      /\ begun \in 1 .. MaxFrames /\ queue \in Seq(Entry)
      /\ m_render_finished_semaphores \in [Slot -> SemaphoreState]
  BY DEF IInv, VulkanTypeOK, BegunInStep
<1>3. ThisFrame \in Entry /\ ThisFrame.slot = m_current_frame
  BY <1>2 DEF ThisFrame, Entry
<1>4. queue' = Append(queue, ThisFrame)
  BY DEF Batch
<1>5. /\ Len(queue) \in Nat
      /\ DOMAIN queue = 1 .. Len(queue) /\ DOMAIN queue' = 1 .. Len(queue) + 1
      /\ \A k \in 1 .. Len(queue) : queue'[k] = queue[k]
      /\ queue'[Len(queue) + 1] = ThisFrame /\ queue' \in Seq(Entry)
  BY <1>2, <1>3, <1>4, AppendFacts
<1>6. \A k \in 1 .. Len(queue) + 1 : k \in 1 .. Len(queue) \/ k = Len(queue) + 1
  BY <1>5
<1>7. \A k \in DOMAIN queue : queue[k].slot # m_current_frame
  BY <1>1 DEF IInv, SlotFree
<1>8. VulkanTypeOK'
  BY <1>5 DEF IInv, VulkanTypeOK, SemaphoreState, histVars
<1>9. BegunInStep' /\ ImagesDiffer'
  BY <1>1 DEF IInv, BegunInStep, histVars, ImagesDiffer
<1>10. FenceGuards'
  <2>1. ~m_frame_finished_fences[m_current_frame]
    BY <1>1, <1>2 DEF IInv, FenceGuards
  <2> QED
    BY <1>1, <1>3, <1>5, <1>6, <2>1 DEF IInv, FenceGuards
<1>11. SlotFree'
  <2> SUFFICES ASSUME NEW j \in DOMAIN queue', NEW k \in DOMAIN queue',
                      queue'[j].slot = queue'[k].slot
               PROVE  j = k
    BY <1>1 DEF SlotFree
  <2>1. CASE j \in 1 .. Len(queue) /\ k \in 1 .. Len(queue)
    BY <1>5, <2>1 DEF IInv, SlotFree
  <2>2. CASE j \in 1 .. Len(queue) /\ k = Len(queue) + 1
    BY <1>3, <1>5, <1>7, <2>2
  <2>3. CASE k \in 1 .. Len(queue) /\ j = Len(queue) + 1
    BY <1>3, <1>5, <1>7, <2>3
  <2> QED
    BY <1>5, <1>6, <2>1, <2>2, <2>3
<1>12. BatchesToPresent'
  <2> SUFFICES ASSUME NEW k \in DOMAIN queue'
               PROVE  /\ m_render_finished_semaphores'[queue'[k].slot] = "pending"
                      /\ \/ \E j \in DOMAIN presents : presents[j] = queue'[k]
                         \/ queue'[k] = ThisFrame
    BY <1>1 DEF BatchesToPresent
  <2>1. CASE k \in 1 .. Len(queue)
    <3>1. queue'[k] = queue[k] /\ queue[k].slot \in Slot
      BY <1>5, <2>1, QueueTypes DEF IInv
    <3> QED
      BY <1>2, <1>5, <2>1, <3>1 DEF IInv, BatchesToPresent
  <2>2. CASE k = Len(queue) + 1
    BY <1>2, <1>3, <1>5, <2>2
  <2> QED
    BY <1>5, <1>6, <2>1, <2>2
<1>13. SlotsInOrder'
  BY DEF IInv, SlotsInOrder, Distance
<1>14. SignalsToPresent'
  BY <1>2 DEF IInv, SignalsToPresent, Drawing
<1> QED
  BY <1>8, <1>9, <1>10, <1>11, <1>12, <1>13, <1>14 DEF IInv

LEMMA PresentInv == ASSUME IInv, PresentImage PROVE IInv'
<1> USE VulkanAssumption DEF PresentImage
<1>1. /\ ~Drawing' /\ ~Using' /\ Using /\ stage = "finished"
      /\ stage' = "before"
  BY DEF Drawing, Using
<1>2. /\ m_current_frame \in Slot /\ m_current_image_index \in Slot
      /\ begun \in 1 .. MaxFrames /\ presents \in Seq(Entry)
      /\ image \in [Slot -> {"free", "acquired", "presented", "shown"}]
  BY DEF IInv, VulkanTypeOK, BegunInStep
<1>3. /\ ThisFrame \in Entry /\ ThisFrame.slot = m_current_frame
      /\ ThisFrame.image = m_current_image_index
  BY <1>2 DEF ThisFrame, Entry
<1>4. /\ Len(presents) \in Nat /\ Len(presents') = Len(presents) + 1
      /\ DOMAIN presents = 1 .. Len(presents)
      /\ DOMAIN presents' = 1 .. Len(presents) + 1
      /\ \A j \in 1 .. Len(presents) : presents'[j] = presents[j]
      /\ presents'[Len(presents) + 1] = ThisFrame
      /\ presents' \in Seq(Entry)
  BY <1>2, <1>3, AppendFacts
<1>5. \A j \in 1 .. Len(presents) + 1 :
        j \in 1 .. Len(presents) \/ j = Len(presents) + 1
  BY <1>4
<1>6. /\ Len(presents) + 1 \in DOMAIN presents'
      /\ \A j \in DOMAIN presents : j \in DOMAIN presents'
  BY <1>4
<1>7. m_current_frame' = IF m_current_frame = Images - 1
                         THEN 0 ELSE m_current_frame + 1
  BY <1>2, NextFrameIs
<1>8. m_current_frame' \in Slot
  BY <1>2, <1>7 DEF Slot
<1>9. /\ image[m_current_image_index] = "acquired"
      /\ \A j \in DOMAIN presents :
           /\ presents[j].image \in Slot
           /\ presents[j].image # m_current_image_index
  BY <1>1, QueueTypes DEF IInv, ImagesDiffer
<1>10. VulkanTypeOK'
  BY <1>4, <1>8 DEF IInv, VulkanTypeOK, syncVars, histVars
<1>11. BegunInStep'
  BY DEF IInv, BegunInStep, histVars
<1>12. FenceGuards' /\ SlotFree'
  BY <1>1 DEF IInv, FenceGuards, SlotFree, syncVars
<1>13. ImagesDiffer'
  <2>1. \A j \in DOMAIN presents' : image'[presents'[j].image] = "presented"
    BY <1>2, <1>3, <1>4, <1>5, <1>9 DEF IInv, ImagesDiffer
  <2>2. ASSUME NEW j \in DOMAIN presents', NEW k \in DOMAIN presents',
               presents'[j].image = presents'[k].image
        PROVE  j = k
    <3>1. CASE j \in 1 .. Len(presents) /\ k \in 1 .. Len(presents)
      BY <1>4, <2>2, <3>1 DEF IInv, ImagesDiffer
    <3>2. CASE j \in 1 .. Len(presents) /\ k = Len(presents) + 1
      BY <1>3, <1>4, <1>9, <2>2, <3>2
    <3>3. CASE k \in 1 .. Len(presents) /\ j = Len(presents) + 1
      BY <1>3, <1>4, <1>9, <2>2, <3>3
    <3> QED
      BY <1>4, <1>5, <3>1, <3>2, <3>3
  <2> QED
    BY <1>1, <2>1, <2>2 DEF ImagesDiffer
<1>14. BatchesToPresent'
  <2> SUFFICES ASSUME NEW k \in DOMAIN queue
               PROVE  /\ m_render_finished_semaphores[queue[k].slot] = "pending"
                      /\ \E j \in DOMAIN presents' : presents'[j] = queue[k]
    BY DEF BatchesToPresent, syncVars
  <2>1. m_render_finished_semaphores[queue[k].slot] = "pending"
    BY DEF IInv, BatchesToPresent
  <2>2. CASE \E j \in DOMAIN presents : presents[j] = queue[k]
    BY <1>4, <1>6, <2>1, <2>2
  <2>3. CASE queue[k] = ThisFrame
    BY <1>4, <1>6, <2>1, <2>3
  <2> QED
    BY <2>2, <2>3 DEF IInv, BatchesToPresent
<1>15. SlotsInOrder'
  <2> SUFFICES ASSUME NEW j \in DOMAIN presents'
               PROVE  presents'[j].slot + (Len(presents') + 1 - j)
                        \in {m_current_frame', m_current_frame' + Images}
    BY DEF SlotsInOrder, Distance
  <2>1. CASE j = Len(presents) + 1
    <3>1. /\ presents'[j].slot = m_current_frame
          /\ Len(presents') + 1 - j = 1
      BY <1>3, <1>4, <2>1
    <3>2. m_current_frame \in Nat /\ Images \in Nat
      BY <1>2 DEF Slot
    <3> QED
      BY <1>7, <3>1, <3>2
  <2>2. CASE j \in 1 .. Len(presents)
    <3>1. /\ presents'[j].slot \in Slot /\ presents'[j].slot = presents[j].slot
      BY <1>4, <2>2, QueueTypes DEF IInv
    <3>2. presents[j].slot + (Len(presents) + 1 - j)
            \in {m_current_frame, m_current_frame + Images}
      BY <1>4, <2>2 DEF IInv, SlotsInOrder, Distance
    <3>3. Len(presents) < Images
      BY <1>1, FewPresents DEF IInv
    <3>4. \A n, l, c, x, i, y \in Int :
            /\ 0 <= x /\ x < n /\ 0 <= c /\ c < n /\ 1 <= i /\ l < n
            /\ x + (l + 1 - i) \in {c, c + n}
            /\ y = IF c = n - 1 THEN 0 ELSE c + 1
            => x + (l + 1 + 1 - i) \in {y, y + n}
      OBVIOUS
    <3>5. /\ Images \in Int /\ Len(presents) \in Int /\ m_current_frame \in Int
          /\ presents[j].slot \in Int /\ j \in Int /\ m_current_frame' \in Int
          /\ 0 <= presents[j].slot /\ presents[j].slot < Images
          /\ 0 <= m_current_frame /\ m_current_frame < Images /\ 1 <= j
      BY <1>2, <1>4, <1>8, <2>2, <3>1 DEF Slot
    <3>6. presents[j].slot + (Len(presents) + 1 + 1 - j)
            \in {m_current_frame', m_current_frame' + Images}
      BY <1>7, <3>2, <3>3, <3>4, <3>5
    <3> QED
      BY <1>4, <3>1, <3>6
  <2> QED
    BY <1>4, <1>5, <2>1, <2>2
<1>16. SignalsToPresent'
  <2> SUFFICES ASSUME NEW s \in Slot, m_render_finished_semaphores[s] # "idle"
               PROVE  \E j \in DOMAIN presents' : presents'[j].slot = s
    BY DEF SignalsToPresent, syncVars
  <2>1. CASE \E j \in DOMAIN presents : presents[j].slot = s
    BY <1>4, <1>6, <2>1
  <2>2. CASE s = m_current_frame
    BY <1>3, <1>4, <1>6, <2>2
  <2> QED
    BY <2>1, <2>2 DEF IInv, SignalsToPresent
<1> QED
  BY <1>10, <1>11, <1>12, <1>13, <1>14, <1>15, <1>16 DEF IInv

LEMMA FailInv == ASSUME IInv, Fail PROVE IInv'
<1> USE VulkanAssumption DEF Fail
<1>1. ~Drawing' /\ Using /\ stage' = "failed" /\ ThisFrame' = ThisFrame
  BY DEF Drawing, Using, ThisFrame, histVars
<1>2. VulkanTypeOK'
  BY DEF IInv, VulkanTypeOK, syncVars, histVars
<1>3. BegunInStep' /\ FenceGuards' /\ SlotFree' /\ ImagesDiffer'
  BY <1>1 DEF IInv, BegunInStep, FenceGuards, SlotFree, ImagesDiffer, syncVars,
              histVars
<1>4. BatchesToPresent'
  BY <1>1 DEF IInv, BatchesToPresent, syncVars
<1>5. SlotsInOrder' /\ SignalsToPresent'
  BY DEF IInv, SlotsInOrder, Distance, SignalsToPresent, syncVars
<1> QED
  BY <1>2, <1>3, <1>4, <1>5 DEF IInv

LEMMA RunBatchInv == ASSUME IInv, RunBatch PROVE IInv'
<1> USE VulkanAssumption DEF RunBatch
<1> DEFINE b == queue[1]
<1>1. /\ queue \in Seq(Entry) /\ queue # <<>>
      /\ m_frame_finished_fences \in [Slot -> BOOLEAN]
      /\ m_image_available_semaphores \in [Slot -> SemaphoreState]
      /\ m_render_finished_semaphores \in [Slot -> SemaphoreState]
      /\ contents \in [Slot -> 0 .. MaxFrames]
  BY DEF IInv, VulkanTypeOK
<1>2. /\ Head(queue) = b /\ 1 \in DOMAIN queue
      /\ DOMAIN queue' = 1 .. Len(queue) - 1 /\ queue' \in Seq(Entry)
      /\ \A k \in DOMAIN queue' :
           k + 1 \in DOMAIN queue /\ queue'[k] = queue[k + 1] /\ k + 1 # 1
  BY <1>1, TailFacts
<1>3. b \in Entry /\ b.slot \in Slot /\ b.image \in Slot /\ b.frame \in 0 .. MaxFrames
  BY <1>2, QueueTypes DEF IInv, Entry
<1>4. /\ ~Drawing \/ b.slot # m_current_frame
      /\ stage # "acquire" \/ b.slot # m_current_frame
      /\ \A k \in DOMAIN queue' : queue'[k].slot # b.slot
  BY <1>2 DEF IInv, SlotFree
<1>5. /\ Drawing' = Drawing /\ Using' = Using /\ ThisFrame' = ThisFrame
      /\ UNCHANGED stageVars /\ stage' = stage
      /\ m_current_frame' = m_current_frame
      /\ m_current_image_index' = m_current_image_index
  BY DEF Drawing, Using, ThisFrame, stageVars
<1>6. VulkanTypeOK'
  BY <1>1, <1>2, <1>3 DEF IInv, VulkanTypeOK, SemaphoreState, stageVars
<1>7. BegunInStep' /\ ImagesDiffer'
  BY <1>5 DEF IInv, BegunInStep, ImagesDiffer
<1>8. FenceGuards'
  <2> SUFFICES ASSUME NEW s \in Slot, m_frame_finished_fences'[s]
               PROVE  /\ m_image_available_semaphores'[s] = "idle"
                      /\ \A k \in DOMAIN queue' : queue'[k].slot # s
                      /\ s = m_current_frame => ~(Drawing \/ stage = "acquire")
    BY <1>5 DEF FenceGuards
  <2>1. CASE s = b.slot
    BY <1>1, <1>2, <1>3, <1>4, <2>1
  <2>2. CASE s # b.slot
    BY <1>1, <1>2, <1>3, <2>2 DEF IInv, FenceGuards
  <2> QED
    BY <2>1, <2>2
<1>9. SlotFree'
  <2>1. \A j, k \in DOMAIN queue' : queue'[j].slot = queue'[k].slot => j = k
    <3>1. \A j, k \in DOMAIN queue' :
            queue'[j].slot = queue'[k].slot => j + 1 = k + 1
      BY <1>2 DEF IInv, SlotFree
    <3>2. \A j, k \in DOMAIN queue' : j \in Int /\ k \in Int
      BY <1>2
    <3> QED
      BY <3>1, <3>2
  <2>2. m_current_frame \in Slot
    BY DEF IInv, VulkanTypeOK
  <2> QED
    BY <1>1, <1>2, <1>3, <1>4, <1>5, <2>1, <2>2 DEF IInv, SlotFree
<1>10. BatchesToPresent'
  <2> SUFFICES ASSUME NEW k \in DOMAIN queue'
               PROVE  /\ m_render_finished_semaphores'[queue'[k].slot] = "pending"
                      /\ \/ \E j \in DOMAIN presents : presents[j] = queue'[k]
                         \/ stage \in {"finished", "failed"} /\ queue'[k] = ThisFrame
    BY <1>5 DEF BatchesToPresent
  <2>1. queue'[k] = queue[k + 1] /\ k + 1 \in DOMAIN queue
    BY <1>2
  <2>2. queue[k + 1].slot \in Slot /\ queue[k + 1].slot # b.slot
    BY <1>4, <2>1, QueueTypes DEF IInv
  <2>3. /\ m_render_finished_semaphores[queue[k + 1].slot] = "pending"
        /\ \/ \E j \in DOMAIN presents : presents[j] = queue[k + 1]
           \/ stage \in {"finished", "failed"} /\ queue[k + 1] = ThisFrame
    BY <2>1 DEF IInv, BatchesToPresent
  <2>4. m_render_finished_semaphores'[queue[k + 1].slot] = "pending"
    BY <1>1, <1>2, <1>3, <2>2, <2>3
  <2> QED
    BY <2>1, <2>3, <2>4
<1>11. SlotsInOrder'
  BY <1>5 DEF IInv, SlotsInOrder, Distance
<1>12. SignalsToPresent'
  <2> SUFFICES ASSUME NEW s \in Slot, m_render_finished_semaphores'[s] # "idle"
               PROVE  \/ \E j \in DOMAIN presents : presents[j].slot = s
                      \/ stage \in {"finished", "failed"} /\ s = m_current_frame
    BY <1>5 DEF SignalsToPresent
  <2>1. CASE s = b.slot
    <3>1. CASE \E j \in DOMAIN presents : presents[j] = b
      BY <2>1, <3>1
    <3>2. CASE stage \in {"finished", "failed"} /\ b = ThisFrame
      BY <2>1, <3>2 DEF ThisFrame
    <3> QED
      BY <1>2, <3>1, <3>2 DEF IInv, BatchesToPresent
  <2>2. CASE s # b.slot
    BY <1>1, <1>2, <1>3, <2>2 DEF IInv, SignalsToPresent
  <2> QED
    BY <2>1, <2>2
<1> QED
  BY <1>6, <1>7, <1>8, <1>9, <1>10, <1>11, <1>12 DEF IInv

LEMMA ImageAvailableInv == ASSUME IInv, ImageAvailable PROVE IInv'
<1> USE VulkanAssumption DEF ImageAvailable
<1>1. PICK s \in Slot : /\ m_image_available_semaphores[s] = "pending"
                        /\ m_image_available_semaphores' =
                             [m_image_available_semaphores EXCEPT ![s] = "signaled"]
  OBVIOUS
<1>2. m_image_available_semaphores \in [Slot -> SemaphoreState]
  BY DEF IInv, VulkanTypeOK
<1>3. /\ Drawing' = Drawing /\ Using' = Using /\ ThisFrame' = ThisFrame
      /\ stage' = stage /\ m_current_frame' = m_current_frame
      /\ m_current_image_index' = m_current_image_index /\ begun' = begun
  BY DEF Drawing, Using, ThisFrame, stageVars, histVars
<1>4. VulkanTypeOK'
  BY <1>1 DEF IInv, VulkanTypeOK, SemaphoreState, stageVars, histVars
<1>5. \A t \in Slot : m_image_available_semaphores[t] = "idle" =>
                         m_image_available_semaphores'[t] = "idle"
  BY <1>1, <1>2
<1>6. FenceGuards'
  BY <1>3, <1>5 DEF IInv, FenceGuards
<1>7. SlotFree'
  BY <1>3, <1>5 DEF IInv, VulkanTypeOK, SlotFree
<1>8. BegunInStep' /\ ImagesDiffer'
  BY <1>3 DEF IInv, BegunInStep, ImagesDiffer
<1>9. BatchesToPresent'
  BY <1>3 DEF IInv, BatchesToPresent
<1>10. SlotsInOrder' /\ SignalsToPresent'
  BY <1>3 DEF IInv, SlotsInOrder, Distance, SignalsToPresent
<1> QED
  BY <1>4, <1>6, <1>7, <1>8, <1>9, <1>10 DEF IInv

LEMMA ShowImageInv == ASSUME IInv, ShowImage PROVE IInv'
<1> USE VulkanAssumption DEF ShowImage
<1> DEFINE p == presents[1]
<1>1. /\ presents \in Seq(Entry) /\ presents # <<>>
      /\ m_render_finished_semaphores \in [Slot -> SemaphoreState]
      /\ image \in [Slot -> {"free", "acquired", "presented", "shown"}]
      /\ m_current_frame \in Slot /\ m_current_image_index \in Slot
  BY DEF IInv, VulkanTypeOK
<1>2. /\ Head(presents) = p /\ 1 \in DOMAIN presents
      /\ Len(presents) \in Nat \ {0} /\ Len(presents') = Len(presents) - 1
      /\ DOMAIN presents' = 1 .. Len(presents) - 1 /\ presents' \in Seq(Entry)
      /\ \A j \in DOMAIN presents' :
           /\ j + 1 \in DOMAIN presents /\ presents'[j] = presents[j + 1]
           /\ j + 1 # 1 /\ j \in Int
  BY <1>1, TailFacts
<1>3. /\ p \in Entry /\ p.slot \in Slot /\ p.image \in Slot
      /\ m_render_finished_semaphores[p.slot] = "signaled"
      /\ m_render_finished_semaphores' =
           [m_render_finished_semaphores EXCEPT ![p.slot] = "idle"]
  BY <1>2, QueueTypes DEF IInv
<1>4. \A i \in Slot : /\ i = p.image => image'[i] = "shown"
                      /\ i # p.image /\ image[i] = "shown" => image'[i] = "free"
                      /\ i # p.image /\ image[i] # "shown" => image'[i] = image[i]
  <2>1. image' = [i \in Slot |-> IF i = p.image THEN "shown"
                                 ELSE IF image[i] = "shown" THEN "free"
                                 ELSE image[i]]
    BY <1>2
  <2> QED
    BY <2>1
<1>5. /\ Drawing' = Drawing /\ Using' = Using /\ ThisFrame' = ThisFrame
      /\ stage' = stage /\ m_current_frame' = m_current_frame
      /\ m_current_image_index' = m_current_image_index /\ begun' = begun
  BY DEF Drawing, Using, ThisFrame, stageVars, histVars
<1>6. \A j \in DOMAIN presents : j # 1 => j - 1 \in DOMAIN presents'
                                         /\ presents'[j - 1] = presents[j]
  <2> TAKE j \in DOMAIN presents
  <2> HAVE j # 1
  <2>1. DOMAIN presents = 1 .. Len(presents)
    BY <1>1
  <2>2. j - 1 \in 1 .. Len(presents) - 1 /\ (j - 1) + 1 = j
    BY <1>2, <2>1
  <2> QED
    BY <1>2, <2>2
<1>7. VulkanTypeOK'
  <2>1. image' \in [Slot -> {"free", "acquired", "presented", "shown"}]
    BY <1>1, <1>2
  <2> QED
    BY <1>1, <1>2, <1>3, <2>1 DEF IInv, VulkanTypeOK, SemaphoreState, stageVars, histVars
<1>8. BegunInStep' /\ FenceGuards' /\ SlotFree'
  BY <1>5 DEF IInv, BegunInStep, FenceGuards, SlotFree
<1>9. ImagesDiffer'
  <2>1. image[p.image] = "presented"
    BY <1>2 DEF IInv, ImagesDiffer
  <2>2. Using' => image'[m_current_image_index'] = "acquired"
    BY <1>1, <1>4, <1>5, <2>1 DEF IInv, ImagesDiffer
  <2>3. ASSUME NEW j \in DOMAIN presents'
        PROVE  image'[presents'[j].image] = "presented"
    <3>1. /\ presents'[j] = presents[j + 1] /\ j + 1 \in DOMAIN presents
          /\ j + 1 # 1
      BY <1>2
    <3>2. presents[j + 1].image # p.image /\ presents[j + 1].image \in Slot
      BY <1>2, <3>1, QueueTypes DEF IInv, ImagesDiffer
    <3>3. image[presents[j + 1].image] = "presented"
      BY <3>1 DEF IInv, ImagesDiffer
    <3> QED
      BY <1>4, <3>1, <3>2, <3>3
  <2>4. ASSUME NEW j \in DOMAIN presents', NEW k \in DOMAIN presents',
               presents'[j].image = presents'[k].image
        PROVE  j = k
    <3>1. j + 1 = k + 1
      BY <1>2, <2>4 DEF IInv, ImagesDiffer
    <3> QED
      BY <1>2, <3>1
  <2> QED
    BY <2>2, <2>3, <2>4 DEF ImagesDiffer
<1>10. BatchesToPresent'
  <2> SUFFICES ASSUME NEW k \in DOMAIN queue
               PROVE  /\ m_render_finished_semaphores'[queue[k].slot] = "pending"
                      /\ \/ \E j \in DOMAIN presents' : presents'[j] = queue[k]
                         \/ stage \in {"finished", "failed"} /\ queue[k] = ThisFrame
    BY <1>5 DEF BatchesToPresent
  <2>1. /\ m_render_finished_semaphores[queue[k].slot] = "pending"
        /\ queue[k].slot \in Slot
    BY QueueTypes DEF IInv, BatchesToPresent
  <2>2. m_render_finished_semaphores'[queue[k].slot] = "pending"
        /\ queue[k] # p
    BY <1>1, <1>3, <2>1
  <2>3. CASE \E j \in DOMAIN presents : presents[j] = queue[k]
    BY <1>6, <2>2, <2>3
  <2> QED
    BY <2>2, <2>3 DEF IInv, BatchesToPresent
<1>11. SlotsInOrder'
  <2> SUFFICES ASSUME NEW j \in DOMAIN presents'
               PROVE  presents'[j].slot + (Len(presents') + 1 - j)
                        \in {m_current_frame, m_current_frame + Images}
    BY <1>5 DEF SlotsInOrder, Distance
  <2>1. presents[j + 1].slot + (Len(presents) + 1 - (j + 1))
          \in {m_current_frame, m_current_frame + Images}
    BY <1>2 DEF IInv, SlotsInOrder, Distance
  <2>2. Len(presents') + 1 - j = Len(presents) + 1 - (j + 1)
    BY <1>2
  <2> QED
    BY <1>2, <2>1, <2>2
<1>12. SignalsToPresent'
  <2> SUFFICES ASSUME NEW s \in Slot, m_render_finished_semaphores'[s] # "idle"
               PROVE  \/ \E j \in DOMAIN presents' : presents'[j].slot = s
                      \/ stage \in {"finished", "failed"} /\ s = m_current_frame
    BY <1>5 DEF SignalsToPresent
  <2>1. s # p.slot /\ m_render_finished_semaphores[s] # "idle"
    BY <1>1, <1>3
  <2>2. CASE \E j \in DOMAIN presents : presents[j].slot = s
    <3>1. PICK j \in DOMAIN presents : presents[j].slot = s
      BY <2>2
    <3>2. j # 1
      BY <2>1, <3>1
    <3> QED
      BY <1>6, <3>1, <3>2
  <2> QED
    BY <2>1, <2>2 DEF IInv, SignalsToPresent
<1> QED
  BY <1>7, <1>8, <1>9, <1>10, <1>11, <1>12 DEF IInv

LEMMA StutterInv == ASSUME IInv, UNCHANGED vulkanVars PROVE IInv'
<1> USE DEF vulkanVars, stageVars, syncVars, histVars
<1>1. VulkanTypeOK' /\ BegunInStep' /\ FenceGuards' /\ SlotFree' /\ ImagesDiffer'
  BY DEF IInv, VulkanTypeOK, BegunInStep, FenceGuards, SlotFree, ImagesDiffer,
         Drawing, Using
<1>2. BatchesToPresent' /\ SlotsInOrder' /\ SignalsToPresent'
  BY DEF IInv, BatchesToPresent, SlotsInOrder, Distance, SignalsToPresent,
         ThisFrame
<1> QED
  BY <1>1, <1>2 DEF IInv

LEMMA Invariance == VulkanSpec => []IInv
<1>1. IInv /\ [VulkanNext]_vulkanVars => IInv'
  BY StageInv, WaitInv, AcquireInv, SubmitInv, PresentInv, FailInv, RunBatchInv,
     ImageAvailableInv, ShowImageInv, StutterInv DEF VulkanNext, Thread, Device
<1> QED
  BY InitInv, <1>1, PTL DEF VulkanSpec

------------------------------------------------------------------------------
(* What follows.                                                           *)

\* Every variable of the frame's synchronization has its type, whatever the
\* number of images in the swap chain.
THEOREM TypeCorrect == VulkanSpec => []VulkanTypeOK
<1>1. IInv => VulkanTypeOK
  BY DEF IInv
<1> QED
  BY Invariance, <1>1, PTL

\* render() of render_context.cpp acquires an image with a semaphore that no
\* batch waits for and that nothing signals: the fence of the slot says so.
THEOREM AcquireIdle == VulkanSpec => []AcquireSemaphoreIdle
<1>1. IInv => AcquireSemaphoreIdle
  BY DEF IInv, SlotFree, AcquireSemaphoreIdle
<1> QED
  BY Invariance, <1>1, PTL

\* on_frame_present() submits with a render_finished semaphore that no
\* presentation waits for, although nothing in the code waits for one: it
\* would be the presentation of as many frames ago as there are images, and
\* all images would wait, while the thread holds one.
THEOREM SubmitIdle == VulkanSpec => []SubmitSemaphoreIdle
<1>1. IInv => SubmitSemaphoreIdle
  <2> SUFFICES ASSUME IInv, Drawing PROVE SubmitSemaphoreIdle
    BY DEF SubmitSemaphoreIdle
  <2>1. /\ m_current_frame \in Slot /\ stage \notin {"finished", "failed"}
        /\ Len(presents) < Images
    BY FewPresents DEF IInv, VulkanTypeOK, Drawing, Using
  <2>2. ASSUME NEW j \in DOMAIN presents PROVE presents[j].slot # m_current_frame
    <3>1. /\ j \in 1 .. Len(presents) /\ Len(presents) \in Nat
          /\ Images \in Nat /\ m_current_frame \in Nat
      BY <2>1, QueueTypes, VulkanAssumption DEF IInv, Slot
    <3>2. presents[j].slot + (Len(presents) + 1 - j)
            \in {m_current_frame, m_current_frame + Images}
      BY DEF IInv, SlotsInOrder, Distance
    <3>3. 0 < Len(presents) + 1 - j /\ Len(presents) + 1 - j < Images
      BY <2>1, <3>1
    <3> QED
      BY <3>1, <3>2, <3>3
  <2>3. m_render_finished_semaphores[m_current_frame] = "idle"
    BY <2>1, <2>2 DEF IInv, SignalsToPresent
  <2> QED
    BY <2>2, <2>3 DEF SubmitSemaphoreIdle
<1> QED
  BY Invariance, <1>1, PTL

\* The two semaphores of a slot in render() and on_frame_present() are not in
\* use when they are used again, for every number of images.
THEOREM SlotSemaphoresIdle == VulkanSpec => []SemaphoresIdle
BY AcquireIdle, SubmitIdle, PTL DEF SemaphoresIdle

\* A batch that is not done waits for its own image: it is submitted for
\* presentation, or will be next.
LEMMA BatchImage ==
  ASSUME IInv, NEW k \in DOMAIN queue
  PROVE  \/ image[queue[k].image] = "presented"
         \/ /\ stage \in {"finished", "failed"}
            /\ queue[k].image = m_current_image_index
<1>1. CASE \E j \in DOMAIN presents : presents[j] = queue[k]
  BY <1>1 DEF IInv, ImagesDiffer
<1>2. CASE stage \in {"finished", "failed"} /\ queue[k] = ThisFrame
  BY <1>2 DEF ThisFrame
<1> QED
  BY <1>1, <1>2 DEF IInv, BatchesToPresent

\* While the device may draw into an image it is neither shown nor handed out.
THEOREM Held == VulkanSpec => []ImageHeld
<1>1. IInv => ImageHeld
  BY BatchImage DEF ImageHeld
<1> QED
  BY Invariance, <1>1, PTL

\* render() resets the command buffer of its image: no batch with it is left,
\* although the fence it has waited for belongs to another image.
THEOREM BufferIdle == VulkanSpec => []CommandBufferIdle
<1>1. IInv => CommandBufferIdle
  <2> SUFFICES ASSUME IInv, Drawing, NEW k \in DOMAIN queue
               PROVE  queue[k].image # m_current_image_index
    BY DEF CommandBufferIdle
  <2>1. image[m_current_image_index] = "acquired"
    BY DEF IInv, ImagesDiffer, Using
  <2>2. image[queue[k].image] = "presented"
    BY BatchImage DEF Drawing
  <2> QED
    BY <2>1, <2>2
<1> QED
  BY Invariance, <1>1, PTL
================================================================================
