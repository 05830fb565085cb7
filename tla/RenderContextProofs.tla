------------------------- MODULE RenderContextProofs -------------------------
(***************************************************************************)
(* Proofs about RenderContext for all constants: type correctness, that no *)
(* recorded draw is lost and that each waits on an active pass, and that   *)
(* frame() implements the batches of FrameBatches.                         *)
(***************************************************************************)
EXTENDS RenderContext, TLAPS

\* Ids are given out once: a draw has one place, below the counter.
IdsUnique ==
  /\ \A t \in Threads : \A d \in m_command_buffers[t] : d.id \in 1 .. recorded
  /\ \A t, u \in Threads :
       \A d \in m_command_buffers[t], e \in m_command_buffers[u] :
         d.id = e.id => t = u /\ d = e

\* What was wiped or executed had been recorded; wiped draws do not wait.
HistoryBelow ==
  /\ cleared \subseteq 1 .. recorded
  /\ \A i \in DrawId : executed[i] > 0 => i \in 1 .. recorded
  /\ \A t \in Threads : \A d \in m_command_buffers[t] : d.id \notin cleared

\* The waiting draws target active passes.
WaitingActive ==
  \A t \in Threads : \A d \in m_command_buffers[t] :
    d.pass < m_passes /\ m_active[d.pass]

\* While frame() renders, the waiting draws of the passes behind it have
\* been executed.
RenderProgress ==
  /\ pass <= m_passes
  /\ pc = "prepare" => pass = 0
  /\ pc = "render" =>
       \A t \in Threads : \A d \in m_command_buffers[t] :
         d.pass < pass => executed[d.id] > 0

Accounted ==
  \A i \in 1 .. recorded :
    \/ i \in cleared
    \/ executed[i] > 0
    \/ \E t \in Threads : \E d \in m_command_buffers[t] : d.id = i

IInv ==
  /\ TypeOK
  /\ IdsUnique
  /\ HistoryBelow
  /\ WaitingActive
  /\ RenderProgress
  /\ Accounted

LEMMA InitInv == Init => IInv
<1> SUFFICES ASSUME Init PROVE IInv
  OBVIOUS
<1> USE BoundsAssumption DEF Init, PassIndex, DrawId, Draw
<1>1. TypeOK
  <2>1. rendered \in BOOLEAN
    BY Zenon
  <2>2. m_active \in [PassIndex -> BOOLEAN]
    BY Zenon
  <2> QED
    BY <2>1, <2>2 DEF TypeOK
<1>2. IdsUnique /\ HistoryBelow /\ WaitingActive /\ RenderProgress /\ Accounted
  BY DEF IdsUnique, HistoryBelow, WaitingActive, RenderProgress, Accounted
<1> QED
  BY <1>1, <1>2 DEF IInv

\* Executing draws of the command buffers counts known ids only.
LEMMA ExecuteType ==
  ASSUME TypeOK, NEW S, S \subseteq Recorded, Execute(S)
  PROVE  /\ executed' \in [DrawId -> Nat]
         /\ open' \subseteq DrawId
         /\ Ids(S) \subseteq DrawId
         /\ \A i \in DrawId : executed[i] > 0 => executed'[i] > 0
         /\ \A d \in S : executed'[d.id] > 0
         /\ \A i \in DrawId : executed'[i] > 0 => executed[i] > 0 \/ i \in Ids(S)
<1>1. S \subseteq Draw
  BY DEF TypeOK, Recorded
<1>2. Ids(S) \subseteq DrawId
  BY <1>1 DEF Ids, Draw
<1>3. executed' \in [DrawId -> Nat] /\ open' \subseteq DrawId
  BY <1>2 DEF Execute, TypeOK
<1>4. \A i \in DrawId :
        executed'[i] = IF i \in Ids(S) THEN executed[i] + 1 ELSE executed[i]
  BY DEF Execute
<1>5. \A i \in DrawId : executed[i] \in Nat
  BY DEF TypeOK
<1>6. \A d \in S : d.id \in Ids(S) /\ d.id \in DrawId
  BY <1>2 DEF Ids
<1> QED
  BY <1>2, <1>3, <1>4, <1>5, <1>6

\* The inductive step: every step of the context preserves IInv.
LEMMA StepInv == IInv /\ [Next]_vars => IInv'
<1> SUFFICES ASSUME IInv, [Next]_vars PROVE IInv'
  OBVIOUS
<1> USE BoundsAssumption DEF IInv, recordVars, frameVars, backendVars,
        counterVars, actionVars
<1>1. ASSUME NEW p \in PassIndex, CreatePass(p) PROVE IInv'
  <2>1. TypeOK'
    BY <1>1 DEF CreatePass, PassIndex, DrawId, Draw, TypeOK
  <2>2. IdsUnique'
    BY <1>1 DEF CreatePass, PassIndex, DrawId, Draw, TypeOK, IdsUnique
  <2>3. HistoryBelow'
    BY <1>1 DEF CreatePass, PassIndex, DrawId, Draw, TypeOK, IdsUnique,
       HistoryBelow
  <2>4. WaitingActive'
    BY <1>1 DEF CreatePass, PassIndex, DrawId, Draw, TypeOK, WaitingActive
  <2>5. RenderProgress'
    BY <1>1 DEF CreatePass, PassIndex, DrawId, Draw, TypeOK, WaitingActive,
       IdsUnique, RenderProgress
  <2>6. Accounted'
    BY <1>1 DEF CreatePass, PassIndex, DrawId, Draw, TypeOK, WaitingActive,
       RenderProgress, IdsUnique, HistoryBelow, Accounted
  <2> QED
    BY <2>1, <2>2, <2>3, <2>4, <2>5, <2>6
<1>2. ASSUME NEW p \in PassIndex, TouchPass(p) PROVE IInv'
  <2>1. TypeOK'
    BY <1>2 DEF TouchPass, PassIndex, DrawId, Draw, TypeOK
  <2>2. IdsUnique'
    BY <1>2 DEF TouchPass, PassIndex, DrawId, Draw, TypeOK, IdsUnique
  <2>3. HistoryBelow'
    BY <1>2 DEF TouchPass, PassIndex, DrawId, Draw, TypeOK, IdsUnique,
       HistoryBelow
  <2>4. WaitingActive'
    BY <1>2 DEF TouchPass, PassIndex, DrawId, Draw, TypeOK, WaitingActive
  <2>5. RenderProgress'
    BY <1>2 DEF TouchPass, PassIndex, DrawId, Draw, TypeOK, WaitingActive,
       IdsUnique, RenderProgress
  <2>6. Accounted'
    BY <1>2 DEF TouchPass, PassIndex, DrawId, Draw, TypeOK, WaitingActive,
       RenderProgress, IdsUnique, HistoryBelow, Accounted
  <2> QED
    BY <2>1, <2>2, <2>3, <2>4, <2>5, <2>6
<1>3. ASSUME NEW t \in Threads, ClearCommandBuffer(t) PROVE IInv'
  <2>a. /\ Ids(m_command_buffers[t]) \subseteq 1 .. recorded
        /\ Ids(m_command_buffers[t]) \subseteq DrawId
        /\ \A d \in m_command_buffers[t] : d.id \in Ids(m_command_buffers[t])
        /\ \A u \in Threads \ {t} : \A d \in m_command_buffers[u] :
             d.id \notin Ids(m_command_buffers[t])
    BY DEF Ids, IdsUnique, TypeOK, Draw
  <2>b. m_command_buffers' = [u \in Threads |-> IF u = t THEN {} ELSE m_command_buffers[u]]
    BY <1>3 DEF ClearCommandBuffer, TypeOK
  <2>1. TypeOK'
    BY <1>3, <2>a, <2>b DEF ClearCommandBuffer, PassIndex, DrawId, Draw,
       TypeOK
  <2>2. IdsUnique'
    BY <1>3, <2>a, <2>b DEF ClearCommandBuffer, PassIndex, DrawId, Draw,
       TypeOK, IdsUnique
  <2>3. HistoryBelow'
    BY <1>3, <2>a, <2>b DEF ClearCommandBuffer, PassIndex, DrawId, Draw,
       TypeOK, IdsUnique, HistoryBelow
  <2>4. WaitingActive'
    BY <1>3, <2>a, <2>b DEF ClearCommandBuffer, PassIndex, DrawId, Draw,
       TypeOK, WaitingActive
  <2>5. RenderProgress'
    BY <1>3, <2>a, <2>b DEF ClearCommandBuffer, PassIndex, DrawId, Draw,
       TypeOK, WaitingActive, IdsUnique, RenderProgress
  <2>6. Accounted'
    BY <1>3, <2>a, <2>b DEF ClearCommandBuffer, PassIndex, DrawId, Draw,
       TypeOK, WaitingActive, RenderProgress, IdsUnique, HistoryBelow,
       Accounted
  <2> QED
    BY <2>1, <2>2, <2>3, <2>4, <2>5, <2>6
<1>4. ASSUME NEW t \in Threads, NEW p \in PassIndex, RecordDraw(t, p) PROVE IInv'
  <2>1. TypeOK'
    BY <1>4 DEF RecordDraw, PassIndex, DrawId, Draw, TypeOK
  <2>2. IdsUnique'
    BY <1>4 DEF RecordDraw, PassIndex, DrawId, Draw, TypeOK, IdsUnique
  <2>3. HistoryBelow'
    BY <1>4 DEF RecordDraw, PassIndex, DrawId, Draw, TypeOK, IdsUnique,
       HistoryBelow
  <2>4. WaitingActive'
    BY <1>4 DEF RecordDraw, PassIndex, DrawId, Draw, TypeOK, WaitingActive
  <2>5. RenderProgress'
    BY <1>4 DEF RecordDraw, PassIndex, DrawId, Draw, TypeOK, WaitingActive,
       IdsUnique, RenderProgress
  <2>6. Accounted'
    <3> DEFINE d0 == [id |-> recorded + 1, pass |-> p]
    <3>1. recorded' = recorded + 1 /\ cleared' = cleared /\ executed' = executed
      BY <1>4 DEF RecordDraw
    <3>2. d0 \in m_command_buffers'[t] /\ d0.id = recorded + 1
      BY <1>4 DEF RecordDraw, TypeOK
    <3>3. \A u \in Threads : m_command_buffers[u] \subseteq m_command_buffers'[u]
      BY <1>4 DEF RecordDraw, TypeOK
    <3>4. \A i \in 1 .. recorded' : i \in 1 .. recorded \/ i = recorded + 1
      BY <3>1 DEF TypeOK
    <3> HIDE DEF d0
    <3> QED
      BY <3>1, <3>2, <3>3, <3>4 DEF Accounted
  <2> QED
    BY <2>1, <2>2, <2>3, <2>4, <2>5, <2>6
<1>5. ASSUME RegisterAction PROVE IInv'
  <2>1. TypeOK'
    BY <1>5 DEF RegisterAction, PassIndex, DrawId, Draw, TypeOK
  <2>2. IdsUnique'
    BY <1>5 DEF RegisterAction, PassIndex, DrawId, Draw, TypeOK, IdsUnique
  <2>3. HistoryBelow'
    BY <1>5 DEF RegisterAction, PassIndex, DrawId, Draw, TypeOK, IdsUnique,
       HistoryBelow
  <2>4. WaitingActive'
    BY <1>5 DEF RegisterAction, PassIndex, DrawId, Draw, TypeOK, WaitingActive
  <2>5. RenderProgress'
    BY <1>5 DEF RegisterAction, PassIndex, DrawId, Draw, TypeOK,
       WaitingActive, IdsUnique, RenderProgress
  <2>6. Accounted'
    BY <1>5 DEF RegisterAction, PassIndex, DrawId, Draw, TypeOK,
       WaitingActive, RenderProgress, IdsUnique, HistoryBelow, Accounted
  <2> QED
    BY <2>1, <2>2, <2>3, <2>4, <2>5, <2>6
<1>6. ASSUME NEW n \in 0 .. MaxFrame - 1, SetScreenshotAtFrame(n) PROVE IInv'
  <2>1. TypeOK'
    BY <1>6 DEF SetScreenshotAtFrame, PassIndex, DrawId, Draw, TypeOK
  <2>2. IdsUnique'
    BY <1>6 DEF SetScreenshotAtFrame, PassIndex, DrawId, Draw, TypeOK,
       IdsUnique
  <2>3. HistoryBelow'
    BY <1>6 DEF SetScreenshotAtFrame, PassIndex, DrawId, Draw, TypeOK,
       IdsUnique, HistoryBelow
  <2>4. WaitingActive'
    BY <1>6 DEF SetScreenshotAtFrame, PassIndex, DrawId, Draw, TypeOK,
       WaitingActive
  <2>5. RenderProgress'
    BY <1>6 DEF SetScreenshotAtFrame, PassIndex, DrawId, Draw, TypeOK,
       WaitingActive, IdsUnique, RenderProgress
  <2>6. Accounted'
    BY <1>6 DEF SetScreenshotAtFrame, PassIndex, DrawId, Draw, TypeOK,
       WaitingActive, RenderProgress, IdsUnique, HistoryBelow, Accounted
  <2> QED
    BY <2>1, <2>2, <2>3, <2>4, <2>5, <2>6
<1>7. ASSUME FrameBegin PROVE IInv'
  <2>1. TypeOK'
    <3>1. rendered' \in BOOLEAN
      BY <1>7, Zenon DEF FrameBegin
    <3> QED
      BY <1>7, <3>1 DEF FrameBegin, TypeOK
  <2>2. IdsUnique'
    BY <1>7 DEF FrameBegin, PassIndex, DrawId, Draw, TypeOK, IdsUnique
  <2>3. HistoryBelow'
    BY <1>7 DEF FrameBegin, PassIndex, DrawId, Draw, TypeOK, IdsUnique,
       HistoryBelow
  <2>4. WaitingActive'
    BY <1>7 DEF FrameBegin, PassIndex, DrawId, Draw, TypeOK, WaitingActive
  <2>5. RenderProgress'
    BY <1>7 DEF FrameBegin, PassIndex, DrawId, Draw, TypeOK, WaitingActive,
       IdsUnique, RenderProgress
  <2>6. Accounted'
    BY <1>7 DEF FrameBegin, PassIndex, DrawId, Draw, TypeOK, WaitingActive,
       RenderProgress, IdsUnique, HistoryBelow, Accounted
  <2> QED
    BY <2>1, <2>2, <2>3, <2>4, <2>5, <2>6
<1>8. ASSUME PrepareDone PROVE IInv'
  <2>1. TypeOK'
    BY <1>8 DEF PrepareDone, PassIndex, DrawId, Draw,
       ResetPrepareFrameActions, TypeOK
  <2>2. IdsUnique'
    BY <1>8 DEF PrepareDone, PassIndex, DrawId, Draw,
       ResetPrepareFrameActions, TypeOK, IdsUnique
  <2>3. HistoryBelow'
    BY <1>8 DEF PrepareDone, PassIndex, DrawId, Draw,
       ResetPrepareFrameActions, TypeOK, IdsUnique, HistoryBelow
  <2>4. WaitingActive'
    BY <1>8 DEF PrepareDone, PassIndex, DrawId, Draw,
       ResetPrepareFrameActions, TypeOK, WaitingActive
  <2>5. RenderProgress'
    BY <1>8 DEF PrepareDone, PassIndex, DrawId, Draw,
       ResetPrepareFrameActions, TypeOK, WaitingActive, IdsUnique,
       RenderProgress
  <2>6. Accounted'
    BY <1>8 DEF PrepareDone, PassIndex, DrawId, Draw,
       ResetPrepareFrameActions, TypeOK, WaitingActive, RenderProgress,
       IdsUnique, HistoryBelow, Accounted
  <2> QED
    BY <2>1, <2>2, <2>3, <2>4, <2>5, <2>6
<1>9. ASSUME PrepareThrows PROVE IInv'
  <2>1. TypeOK'
    BY <1>9 DEF PrepareThrows, PassIndex, DrawId, Draw,
       ResetPrepareFrameActions, TypeOK
  <2>2. IdsUnique'
    BY <1>9 DEF PrepareThrows, PassIndex, DrawId, Draw,
       ResetPrepareFrameActions, TypeOK, IdsUnique
  <2>3. HistoryBelow'
    BY <1>9 DEF PrepareThrows, PassIndex, DrawId, Draw,
       ResetPrepareFrameActions, TypeOK, IdsUnique, HistoryBelow
  <2>4. WaitingActive'
    BY <1>9 DEF PrepareThrows, PassIndex, DrawId, Draw,
       ResetPrepareFrameActions, TypeOK, WaitingActive
  <2>5. RenderProgress'
    BY <1>9 DEF PrepareThrows, PassIndex, DrawId, Draw,
       ResetPrepareFrameActions, TypeOK, WaitingActive, IdsUnique,
       RenderProgress
  <2>6. Accounted'
    BY <1>9 DEF PrepareThrows, PassIndex, DrawId, Draw,
       ResetPrepareFrameActions, TypeOK, WaitingActive, RenderProgress,
       IdsUnique, HistoryBelow, Accounted
  <2> QED
    BY <2>1, <2>2, <2>3, <2>4, <2>5, <2>6
<1>10. ASSUME RenderPass PROVE IInv'
  <2> DEFINE S == DrawsInPass(pass)
  <2>a. S \subseteq Recorded /\ Execute(S)
    BY <1>10 DEF RenderPass, DrawsInPass
  <2>b. /\ executed' \in [DrawId -> Nat] /\ open' \subseteq DrawId
        /\ \A i \in DrawId : executed[i] > 0 => executed'[i] > 0
        /\ \A d \in S : executed'[d.id] > 0
        /\ \A i \in DrawId : executed'[i] > 0 => executed[i] > 0 \/ i \in Ids(S)
    BY <2>a, ExecuteType
  <2>c. \A i \in Ids(S) : i \in 1 .. recorded
    BY <2>a DEF Ids, Recorded, IdsUnique
  <2>d. \A t \in Threads : \A d \in m_command_buffers[t] :
          d.pass = pass => d \in S
    BY DEF DrawsInPass, Recorded
  <2>1. TypeOK'
    BY <1>10, <2>b DEF RenderPass, PassIndex, DrawId, Draw, TypeOK
  <2>2. IdsUnique'
    BY <1>10, <2>b DEF RenderPass, PassIndex, DrawId, Draw, TypeOK, IdsUnique
  <2>3. HistoryBelow'
    BY <1>10, <2>b, <2>c DEF RenderPass, PassIndex, DrawId, Draw, TypeOK,
       IdsUnique, HistoryBelow
  <2>4. WaitingActive'
    BY <1>10, <2>b DEF RenderPass, PassIndex, DrawId, Draw, TypeOK,
       WaitingActive
  <2>5. RenderProgress'
    BY <1>10, <2>b, <2>d DEF RenderPass, PassIndex, DrawId, Draw, TypeOK,
       WaitingActive, IdsUnique, RenderProgress
  <2>6. Accounted'
    BY <1>10, <2>b DEF RenderPass, PassIndex, DrawId, Draw, TypeOK,
       WaitingActive, RenderProgress, IdsUnique, HistoryBelow, Accounted
  <2> QED
    BY <2>1, <2>2, <2>3, <2>4, <2>5, <2>6
<1>11. ASSUME SkipPass PROVE IInv'
  <2>1. TypeOK'
    BY <1>11 DEF SkipPass, PassIndex, DrawId, Draw, TypeOK
  <2>2. IdsUnique'
    BY <1>11 DEF SkipPass, PassIndex, DrawId, Draw, TypeOK, IdsUnique
  <2>3. HistoryBelow'
    BY <1>11 DEF SkipPass, PassIndex, DrawId, Draw, TypeOK, IdsUnique,
       HistoryBelow
  <2>4. WaitingActive'
    BY <1>11 DEF SkipPass, PassIndex, DrawId, Draw, TypeOK, WaitingActive
  <2>5. RenderProgress'
    BY <1>11 DEF SkipPass, PassIndex, DrawId, Draw, TypeOK, WaitingActive,
       IdsUnique, RenderProgress
  <2>6. Accounted'
    BY <1>11 DEF SkipPass, PassIndex, DrawId, Draw, TypeOK, WaitingActive,
       RenderProgress, IdsUnique, HistoryBelow, Accounted
  <2> QED
    BY <2>1, <2>2, <2>3, <2>4, <2>5, <2>6
<1>12. ASSUME RenderThrows PROVE IInv'
  <2>0. PICK S \in SUBSET DrawsInPass(pass) : Execute(S)
    BY <1>12 DEF RenderThrows
  <2>a. S \subseteq Recorded /\ Execute(S)
    BY <2>0 DEF DrawsInPass
  <2>b. /\ executed' \in [DrawId -> Nat] /\ open' \subseteq DrawId
        /\ \A i \in DrawId : executed[i] > 0 => executed'[i] > 0
        /\ \A d \in S : executed'[d.id] > 0
        /\ \A i \in DrawId : executed'[i] > 0 => executed[i] > 0 \/ i \in Ids(S)
    BY <2>a, ExecuteType
  <2>c. \A i \in Ids(S) : i \in 1 .. recorded
    BY <2>a DEF Ids, Recorded, IdsUnique
  <2>1. TypeOK'
    BY <1>12, <2>b DEF RenderThrows, PassIndex, DrawId, Draw, TypeOK
  <2>2. IdsUnique'
    BY <1>12, <2>b DEF RenderThrows, PassIndex, DrawId, Draw, TypeOK,
       IdsUnique
  <2>3. HistoryBelow'
    BY <1>12, <2>b, <2>c DEF RenderThrows, PassIndex, DrawId, Draw, TypeOK,
       IdsUnique, HistoryBelow
  <2>4. WaitingActive'
    BY <1>12, <2>b DEF RenderThrows, PassIndex, DrawId, Draw, TypeOK,
       WaitingActive
  <2>5. RenderProgress'
    BY <1>12, <2>b DEF RenderThrows, PassIndex, DrawId, Draw, TypeOK,
       WaitingActive, IdsUnique, RenderProgress
  <2>6. Accounted'
    BY <1>12, <2>b DEF RenderThrows, PassIndex, DrawId, Draw, TypeOK,
       WaitingActive, RenderProgress, IdsUnique, HistoryBelow, Accounted
  <2> QED
    BY <2>1, <2>2, <2>3, <2>4, <2>5, <2>6
<1>13. ASSUME ResetPassesAndBuffers PROVE IInv'
  <2>1. TypeOK'
    BY <1>13 DEF ResetPassesAndBuffers, PassIndex, DrawId, Draw, CountFrame,
       TypeOK
  <2>2. IdsUnique'
    BY <1>13 DEF ResetPassesAndBuffers, PassIndex, DrawId, Draw, CountFrame,
       TypeOK, IdsUnique
  <2>3. HistoryBelow'
    BY <1>13 DEF ResetPassesAndBuffers, PassIndex, DrawId, Draw, CountFrame,
       TypeOK, IdsUnique, HistoryBelow
  <2>4. WaitingActive'
    BY <1>13 DEF ResetPassesAndBuffers, PassIndex, DrawId, Draw, CountFrame,
       TypeOK, WaitingActive
  <2>5. RenderProgress'
    BY <1>13 DEF ResetPassesAndBuffers, PassIndex, DrawId, Draw, CountFrame,
       TypeOK, WaitingActive, IdsUnique, RenderProgress
  <2>6. Accounted'
    BY <1>13 DEF ResetPassesAndBuffers, PassIndex, DrawId, Draw, CountFrame,
       TypeOK, WaitingActive, RenderProgress, IdsUnique, HistoryBelow,
       Accounted
  <2> QED
    BY <2>1, <2>2, <2>3, <2>4, <2>5, <2>6
<1>14. ASSUME Present PROVE IInv'
  <2>1. TypeOK'
    BY <1>14 DEF Present, PassIndex, DrawId, Draw, CountFrame, TakeScreenshot,
       TypeOK
  <2>2. IdsUnique'
    BY <1>14 DEF Present, PassIndex, DrawId, Draw, CountFrame, TakeScreenshot,
       TypeOK, IdsUnique
  <2>3. HistoryBelow'
    BY <1>14 DEF Present, PassIndex, DrawId, Draw, CountFrame, TakeScreenshot,
       TypeOK, IdsUnique, HistoryBelow
  <2>4. WaitingActive'
    BY <1>14 DEF Present, PassIndex, DrawId, Draw, CountFrame, TakeScreenshot,
       TypeOK, WaitingActive
  <2>5. RenderProgress'
    BY <1>14 DEF Present, PassIndex, DrawId, Draw, CountFrame, TakeScreenshot,
       TypeOK, WaitingActive, IdsUnique, RenderProgress
  <2>6. Accounted'
    BY <1>14 DEF Present, PassIndex, DrawId, Draw, CountFrame, TakeScreenshot,
       TypeOK, WaitingActive, RenderProgress, IdsUnique, HistoryBelow,
       Accounted
  <2> QED
    BY <2>1, <2>2, <2>3, <2>4, <2>5, <2>6
<1>15. ASSUME PresentThrows PROVE IInv'
  <2>1. TypeOK'
    BY <1>15 DEF PresentThrows, PassIndex, DrawId, Draw, CountFrame,
       TakeScreenshot, TypeOK
  <2>2. IdsUnique'
    BY <1>15 DEF PresentThrows, PassIndex, DrawId, Draw, CountFrame,
       TakeScreenshot, TypeOK, IdsUnique
  <2>3. HistoryBelow'
    BY <1>15 DEF PresentThrows, PassIndex, DrawId, Draw, CountFrame,
       TakeScreenshot, TypeOK, IdsUnique, HistoryBelow
  <2>4. WaitingActive'
    BY <1>15 DEF PresentThrows, PassIndex, DrawId, Draw, CountFrame,
       TakeScreenshot, TypeOK, WaitingActive
  <2>5. RenderProgress'
    BY <1>15 DEF PresentThrows, PassIndex, DrawId, Draw, CountFrame,
       TakeScreenshot, TypeOK, WaitingActive, IdsUnique, RenderProgress
  <2>6. Accounted'
    BY <1>15 DEF PresentThrows, PassIndex, DrawId, Draw, CountFrame,
       TakeScreenshot, TypeOK, WaitingActive, RenderProgress, IdsUnique,
       HistoryBelow, Accounted
  <2> QED
    BY <2>1, <2>2, <2>3, <2>4, <2>5, <2>6
<1>16. CASE UNCHANGED vars
  BY <1>16 DEF vars, TypeOK, IdsUnique, HistoryBelow,
     WaitingActive, RenderProgress, Accounted
<1> QED
  BY <1>1, <1>2, <1>3, <1>4, <1>5, <1>6, <1>7, <1>8, <1>9, <1>10, <1>11,
     <1>12, <1>13, <1>14, <1>15, <1>16 DEF Next, Application, Frame

LEMMA Invariance == Spec => []IInv
<1> QED
  BY InitInv, StepInv, PTL DEF Spec

\* RenderContext is type correct for every choice of the bounds.
THEOREM TypeCorrect == Spec => []TypeOK
<1>1. IInv => TypeOK
  BY DEF IInv
<1> QED
  BY <1>1, Invariance, PTL

\* A draw never waits on a pass that a frame would skip, whichever frames
\* were aborted in between.
THEOREM PendingActive == Spec => []PendingDrawHasActivePass
<1>1. IInv => PendingDrawHasActivePass
  BY DEF IInv, WaitingActive, PendingDrawHasActivePass, Recorded
<1> QED
  BY <1>1, Invariance, PTL

\* frame() loses no draw, whatever throws.
THEOREM DrawsKept == Spec => []NoDrawLost
<1>1. IInv => NoDrawLost
  <2> SUFFICES ASSUME IInv, NEW i \in 1 .. recorded
               PROVE  i \in Pending \/ i \in cleared \/ executed[i] > 0
    BY DEF NoDrawLost
  <2>1. CASE \E t \in Threads : \E d \in m_command_buffers[t] : d.id = i
    BY <2>1 DEF Pending, Ids, Recorded
  <2> QED
    BY <2>1 DEF IInv, Accounted
<1> QED
  BY <1>1, Invariance, PTL

------------------------------------------------------------------------------
(* How often: draws are executed and screenshots taken once per attempt.   *)

\* A waiting draw was executed at most in frames that render() aborted, and
\* once more if frame() has rendered its pass.
WaitingNotDone ==
  \A t \in Threads : \A d \in m_command_buffers[t] :
    executed[d.id] <= IF pc = "render" /\ d.pass < pass
                      THEN 1 + renderAborts ELSE renderAborts

\* Until the frame of the screenshot has been counted, screenshots were taken
\* in frames that were not presented.
ShotsCounted ==
  /\ shots <= 1 + presentAborts
  /\ m_frame_counter <= m_screenshot_at_frame => shots <= presentAborts

\* What is presented was executed.
PresentedExecuted == \A i \in open \union presented : executed[i] > 0

OnceInv ==
  /\ ExecutedOncePerAttempt /\ WaitingNotDone /\ ShotsCounted
  /\ PresentedExecuted /\ WipedDrawNotPresented

\* Executing draws that wait on the pass frame() looks at adds one to each, and
\* other waiting draws have other ids.
LEMMA ExecuteOnce ==
  ASSUME IInv, OnceInv, pc = "render",
         NEW S \in SUBSET DrawsInPass(pass), Execute(S)
  PROVE  /\ \A i \in DrawId : executed'[i] \in Nat /\ executed'[i] <= 1 + renderAborts
         /\ \A t \in Threads : \A d \in m_command_buffers[t] :
              executed'[d.id] <= IF d.pass < pass + 1
                                 THEN 1 + renderAborts ELSE renderAborts
         /\ open' = open \union Ids(S) /\ Ids(S) \cap cleared = {}
         /\ \A i \in open' \union presented : executed'[i] > 0
<1>1. /\ \A i \in DrawId : executed[i] \in Nat
      /\ \A i \in DrawId :
           executed'[i] = IF i \in Ids(S) THEN executed[i] + 1 ELSE executed[i]
      /\ open' = open \union Ids(S) /\ open \subseteq DrawId
      /\ presented \subseteq DrawId /\ renderAborts \in Nat /\ pass \in Nat
  BY BoundsAssumption DEF IInv, TypeOK, Execute
<1>2. \A i \in Ids(S) : \E t \in Threads : \E d \in m_command_buffers[t] :
        i = d.id /\ d \in S /\ d.pass = pass
  BY DEF Ids, DrawsInPass, Recorded
<1>3. \A i \in Ids(S) : i \in DrawId /\ executed[i] <= renderAborts
                        /\ i \notin cleared
  <2> TAKE i \in Ids(S)
  <2>1. PICK t \in Threads : \E d \in m_command_buffers[t] :
          i = d.id /\ d \in S /\ d.pass = pass
    BY <1>2
  <2>2. PICK d \in m_command_buffers[t] : i = d.id /\ d.pass = pass
    BY <2>1
  <2>3. d \in Draw
    BY <2>2 DEF IInv, TypeOK
  <2> QED
    BY <1>1, <2>2, <2>3 DEF OnceInv, WaitingNotDone, IInv, HistoryBelow, Draw
<1>4. ASSUME NEW t \in Threads, NEW d \in m_command_buffers[t]
      PROVE  /\ d.id \in DrawId /\ d.pass \in Nat
             /\ d.id \in Ids(S) => d.pass = pass
  <2>1. d \in Draw
    BY DEF IInv, TypeOK
  <2>2. d.id \in Ids(S) => d.pass = pass
    BY <1>2 DEF IInv, IdsUnique
  <2> QED
    BY <2>1, <2>2, BoundsAssumption DEF Draw, PassIndex
<1>5. \A i \in DrawId : executed'[i] \in Nat /\ executed'[i] <= 1 + renderAborts
  BY <1>1, <1>3 DEF OnceInv, ExecutedOncePerAttempt
<1>6. ASSUME NEW t \in Threads, NEW d \in m_command_buffers[t]
      PROVE  executed'[d.id] <= IF d.pass < pass + 1
                                THEN 1 + renderAborts ELSE renderAborts
  <2>1. CASE d.id \in Ids(S)
    BY <1>1, <1>3, <1>4, <2>1
  <2>2. CASE d.id \notin Ids(S)
    BY <1>1, <1>4, <2>2 DEF OnceInv, WaitingNotDone
  <2> QED
    BY <2>1, <2>2
<1>7. \A i \in open' \union presented : executed'[i] > 0
  BY <1>1, <1>3 DEF OnceInv, PresentedExecuted
<1> QED
  BY <1>1, <1>3, <1>5, <1>6, <1>7

\* Steps that leave what was executed and presented alone, and take nothing in.
LEMMA OnceKept ==
  ASSUME IInv, OnceInv,
         UNCHANGED <<executed, renderAborts, cleared, presented, open>>,
         \A t \in Threads : m_command_buffers'[t] \subseteq m_command_buffers[t],
         pc' = "render" =>
           \/ pc = "render" /\ pass <= pass' /\ pass' \in Nat
           \/ pc # "render" /\ pass' = 0,
         pc = "render" /\ pc' # "render" =>
           \A t \in Threads : m_command_buffers'[t] = {},
         ShotsCounted'
  PROVE  OnceInv'
<1>1. ASSUME NEW t \in Threads, NEW d \in m_command_buffers'[t]
      PROVE  executed[d.id] <= IF pc' = "render" /\ d.pass < pass'
                               THEN 1 + renderAborts ELSE renderAborts
  <2>1. d \in m_command_buffers[t] /\ d \in Draw
    BY DEF IInv, TypeOK
  <2>2. /\ d.id \in DrawId /\ d.pass \in Nat /\ executed[d.id] \in Nat
        /\ renderAborts \in Nat /\ pass \in Nat
    BY <2>1, BoundsAssumption DEF IInv, TypeOK, Draw, PassIndex
  <2>3. executed[d.id] <= IF pc = "render" /\ d.pass < pass
                          THEN 1 + renderAborts ELSE renderAborts
    BY <2>1 DEF OnceInv, WaitingNotDone
  <2>4. pc = "render" => pc' = "render"
    OBVIOUS
  <2>5. CASE pc' = "render" /\ pass' # 0
    BY <2>2, <2>3, <2>5
  <2>6. CASE pc' = "render" /\ pass' = 0
    BY <2>2, <2>3, <2>6
  <2>7. CASE pc' # "render"
    BY <2>2, <2>3, <2>4, <2>7
  <2> QED
    BY <2>5, <2>6, <2>7
<1>2. WaitingNotDone'
  BY <1>1 DEF WaitingNotDone
<1> QED
  BY <1>2 DEF OnceInv, ExecutedOncePerAttempt, PresentedExecuted,
              WipedDrawNotPresented

LEMMA OnceStep == IInv /\ OnceInv /\ [Next]_vars => OnceInv'
<1> SUFFICES ASSUME IInv, OnceInv, [Next]_vars PROVE OnceInv'
  OBVIOUS
<1> USE BoundsAssumption DEF recordVars, frameVars, backendVars, counterVars,
        actionVars
<1>0. /\ m_frame_counter \in Nat /\ m_screenshot_at_frame \in Nat
      /\ m_screenshot_at_frame < MaxFrame /\ MaxFrame \in Nat
      /\ shots \in Nat /\ presentAborts \in Nat /\ renderAborts \in Nat
      /\ pass \in Nat /\ recorded \in Nat
  BY DEF IInv, TypeOK
<1>1. ASSUME NEW t \in Threads, NEW p \in PassIndex, RecordDraw(t, p)
      PROVE  OnceInv'
  <2> DEFINE new == recorded + 1
  <2>1. /\ pc = "idle" /\ pc' = "idle" /\ new \in DrawId
        /\ UNCHANGED <<executed, renderAborts, presentAborts, cleared, presented,
                       open, shots, m_frame_counter, m_screenshot_at_frame>>
        /\ \A u \in Threads : m_command_buffers'[u] \subseteq
             m_command_buffers[u] \union {[id |-> new, pass |-> p]}
    BY <1>1, <1>0 DEF RecordDraw, IInv, TypeOK, DrawId
  <2>2. executed[new] = 0
    BY <1>0, <2>1 DEF IInv, TypeOK, HistoryBelow
  <2>3. WaitingNotDone'
    BY <1>0, <2>1, <2>2 DEF OnceInv, WaitingNotDone
  <2> QED
    BY <2>1, <2>3 DEF OnceInv, ExecutedOncePerAttempt, PresentedExecuted,
                      WipedDrawNotPresented, ShotsCounted
<1>2. ASSUME NEW t \in Threads, ClearCommandBuffer(t)
      PROVE  OnceInv'
  <2>1. /\ pc = "idle" /\ pc' = "idle"
        /\ UNCHANGED <<executed, renderAborts, presentAborts, presented, open,
                       shots, m_frame_counter, m_screenshot_at_frame>>
        /\ cleared' = cleared \union Ids(m_command_buffers[t])
        /\ \A u \in Threads : m_command_buffers'[u] \subseteq m_command_buffers[u]
    BY <1>2 DEF ClearCommandBuffer, IInv, TypeOK
  <2>2. ASSUME renderAborts = 0, NEW i \in Ids(m_command_buffers[t])
        PROVE  i \notin open \union presented
    <3>1. PICK d \in m_command_buffers[t] : i = d.id
      BY DEF Ids
    <3>2. executed[i] <= 0
      BY <2>1, <2>2, <3>1 DEF OnceInv, WaitingNotDone
    <3>3. i \in DrawId /\ executed[i] \in Nat
      BY <3>1 DEF IInv, TypeOK, Draw
    <3> QED
      BY <3>2, <3>3 DEF OnceInv, PresentedExecuted
  <2>3. WipedDrawNotPresented'
    BY <2>1, <2>2 DEF OnceInv, WipedDrawNotPresented
  <2>4. WaitingNotDone'
    BY <2>1 DEF OnceInv, WaitingNotDone
  <2> QED
    BY <2>1, <2>3, <2>4 DEF OnceInv, ExecutedOncePerAttempt, PresentedExecuted,
                            ShotsCounted
<1>3. CASE RenderPass
  <2>1. /\ pc = "render" /\ pc' = "render" /\ pass' = pass + 1
        /\ Execute(DrawsInPass(pass))
        /\ UNCHANGED <<m_command_buffers, cleared, presented, renderAborts,
                       presentAborts, m_frame_counter, m_screenshot_at_frame,
                       shots>>
    BY <1>3 DEF RenderPass
  <2>2. DrawsInPass(pass) \in SUBSET DrawsInPass(pass)
    OBVIOUS
  <2>3. /\ \A i \in DrawId : executed'[i] \in Nat /\ executed'[i] <= 1 + renderAborts
        /\ \A t \in Threads : \A d \in m_command_buffers[t] :
             executed'[d.id] <= IF d.pass < pass + 1
                                THEN 1 + renderAborts ELSE renderAborts
        /\ open' = open \union Ids(DrawsInPass(pass))
        /\ Ids(DrawsInPass(pass)) \cap cleared = {}
        /\ \A i \in open' \union presented : executed'[i] > 0
    BY <2>1, <2>2, ExecuteOnce
  <2> QED
    BY <2>1, <2>3 DEF OnceInv, ExecutedOncePerAttempt, WaitingNotDone,
       PresentedExecuted, WipedDrawNotPresented, ShotsCounted
<1>4. CASE RenderThrows
  <2>1. PICK S \in SUBSET DrawsInPass(pass) : Execute(S)
    BY <1>4 DEF RenderThrows
  <2>2. /\ pc = "render" /\ pc' = "idle" /\ renderAborts' = renderAborts + 1
        /\ UNCHANGED <<m_command_buffers, cleared, presented, presentAborts,
                       m_frame_counter, m_screenshot_at_frame, shots>>
    BY <1>4 DEF RenderThrows
  <2>3. /\ \A i \in DrawId : executed'[i] \in Nat /\ executed'[i] <= 1 + renderAborts
        /\ \A t \in Threads : \A d \in m_command_buffers[t] :
             executed'[d.id] <= IF d.pass < pass + 1
                                THEN 1 + renderAborts ELSE renderAborts
        /\ \A i \in open' \union presented : executed'[i] > 0
    BY <2>1, <2>2, ExecuteOnce
  <2>4. \A t \in Threads : \A d \in m_command_buffers[t] : d.id \in DrawId
    BY DEF IInv, TypeOK, Draw
  <2>5. /\ \A i \in DrawId : executed'[i] <= 1 + renderAborts'
        /\ \A t \in Threads : \A d \in m_command_buffers[t] :
             executed'[d.id] <= renderAborts'
    BY <1>0, <2>2, <2>3, <2>4
  <2>6. WipedDrawNotPresented'
    BY <1>0, <2>2 DEF WipedDrawNotPresented
  <2> QED
    BY <2>2, <2>3, <2>5, <2>6 DEF OnceInv, ExecutedOncePerAttempt,
       WaitingNotDone, PresentedExecuted, ShotsCounted
<1>5. CASE ResetPassesAndBuffers
  <2>1. /\ pc = "render" /\ pc' # "render"
        /\ UNCHANGED <<executed, renderAborts, cleared, presented, open, shots,
                       presentAborts, m_screenshot_at_frame>>
        /\ \A t \in Threads : m_command_buffers'[t] = {}
        /\ m_frame_counter' \in {m_frame_counter, m_frame_counter + 1}
    BY <1>5 DEF ResetPassesAndBuffers, CountFrame
  <2>2. ShotsCounted'
    BY <1>0, <2>1 DEF OnceInv, ShotsCounted
  <2> QED
    BY <2>1, <2>2, OnceKept
<1>6. CASE Present
  <2>1. /\ UNCHANGED <<m_command_buffers, executed, renderAborts, cleared,
                       presentAborts, m_screenshot_at_frame>>
        /\ pc = "present" /\ pc' = "idle"
        /\ presented' = presented \union open /\ open' = {}
    BY <1>6 DEF Present
  <2>2. ShotsCounted'
    BY <1>0, <1>6 DEF Present, TakeScreenshot, ScreenshotDue, CountFrame,
       OnceInv, ShotsCounted
  <2> QED
    BY <2>1, <2>2 DEF OnceInv, ExecutedOncePerAttempt, WaitingNotDone,
       PresentedExecuted, WipedDrawNotPresented
<1>7. CASE PresentThrows
  <2>1. /\ UNCHANGED <<m_command_buffers, executed, renderAborts, cleared,
                       presented, open>>
        /\ pc = "present" /\ pc' = "idle"
    BY <1>7 DEF PresentThrows
  <2>2. ShotsCounted'
    BY <1>0, <1>7 DEF PresentThrows, TakeScreenshot, ScreenshotDue, OnceInv,
       ShotsCounted
  <2> QED
    BY <2>1, <2>2, OnceKept
<1>8. ASSUME NEW n \in 0 .. MaxFrame - 1, SetScreenshotAtFrame(n)
      PROVE  OnceInv'
  <2>1. /\ UNCHANGED <<m_command_buffers, executed, renderAborts, cleared,
                       presented, open>>
        /\ pc = "idle" /\ pc' = "idle"
    BY <1>8 DEF SetScreenshotAtFrame
  <2>2. ShotsCounted'
    BY <1>0, <1>8 DEF SetScreenshotAtFrame, ShotsCounted
  <2> QED
    BY <2>1, <2>2, OnceKept
<1>9. ASSUME UNCHANGED <<m_command_buffers, executed, renderAborts, cleared,
                         presented, open, shots, presentAborts,
                         m_frame_counter, m_screenshot_at_frame>>,
             pc' = "render" =>
               \/ pc = "render" /\ pass <= pass' /\ pass' \in Nat
               \/ pc # "render" /\ pass' = 0,
             pc = "render" => pc' = "render"
      PROVE  OnceInv'
  <2>1. ShotsCounted'
    BY <1>9 DEF OnceInv, ShotsCounted
  <2> QED
    BY <1>9, <2>1, OnceKept
<1>10. CASE \E p \in PassIndex : CreatePass(p) \/ TouchPass(p)
  BY <1>9, <1>10 DEF CreatePass, TouchPass
<1>11. CASE RegisterAction \/ FrameBegin
  BY <1>9, <1>11 DEF RegisterAction, FrameBegin
<1>12. CASE PrepareDone \/ PrepareThrows \/ SkipPass
  <2>1. UNCHANGED <<m_command_buffers, executed, renderAborts, cleared,
                    presented, open, shots, presentAborts, m_frame_counter,
                    m_screenshot_at_frame>>
    BY <1>12 DEF PrepareDone, PrepareThrows, SkipPass
  <2>2. /\ pc' = "render" =>
             \/ pc = "render" /\ pass <= pass' /\ pass' \in Nat
             \/ pc # "render" /\ pass' = 0
        /\ pc = "render" => pc' = "render"
    <3>1. CASE PrepareDone
      BY <3>1 DEF PrepareDone, IInv, RenderProgress
    <3>2. CASE PrepareThrows
      BY <3>2 DEF PrepareThrows
    <3>3. CASE SkipPass
      <4>1. pc' = pc /\ pc = "render" /\ pass' = pass + 1
        BY <3>3 DEF SkipPass
      <4> QED
        BY <1>0, <4>1
    <3> QED
      BY <1>12, <3>1, <3>2, <3>3
  <2> QED
    BY <1>9, <2>1, <2>2
<1>13. CASE UNCHANGED vars
  <2>1. UNCHANGED <<m_command_buffers, executed, renderAborts, cleared,
                    presented, open, shots, presentAborts, m_frame_counter,
                    m_screenshot_at_frame>>
    BY <1>13 DEF vars
  <2>2. pc' = pc /\ pass' = pass
    BY <1>13 DEF vars
  <2>3. /\ pc' = "render" =>
             \/ pc = "render" /\ pass <= pass' /\ pass' \in Nat
             \/ pc # "render" /\ pass' = 0
        /\ pc = "render" => pc' = "render"
    BY <1>0, <2>2
  <2> QED
    BY <1>9, <2>1, <2>3
<1> QED
  BY <1>1, <1>2, <1>3, <1>4, <1>5, <1>6, <1>7, <1>8, <1>10, <1>11, <1>12, <1>13
     DEF Next, Application, Frame

LEMMA OnceStart == Init => OnceInv
BY BoundsAssumption
   DEF Init, OnceInv, ExecutedOncePerAttempt, WaitingNotDone, ShotsCounted,
       PresentedExecuted, WipedDrawNotPresented

LEMMA OnceAlways == Spec => []OnceInv
<1> QED
  BY OnceStart, OnceStep, Invariance, PTL DEF Spec

\* A draw is executed once, and once more for each frame an exception in
\* render() aborted; a screenshot is taken once, and once more for each frame
\* an exception kept from being counted (frame() in render_context.cpp).
THEOREM OncePerAttempt == Spec => []NothingRepeated
<1>1. OnceInv => NothingRepeated
  BY DEF OnceInv, NothingRepeated, ScreenshotOnce, ShotsCounted
<1> QED
  BY <1>1, OnceAlways, PTL

\* A draw its thread wiped with command_buffer(true) is never presented, unless
\* an aborted frame had already executed it.
THEOREM WipedStaysUnseen == Spec => []WipedDrawNotPresented
<1>1. OnceInv => WipedDrawNotPresented
  BY DEF OnceInv
<1> QED
  BY <1>1, OnceAlways, PTL

------------------------------------------------------------------------------
(* The refinement: a step of the context is a step of FrameBatches, or     *)
(* leaves the waiting, done and wiped draws alone.                         *)

Done == Executed \ (Pending \union cleared)

\* Steps that touch neither buffers nor history stutter.
LEMMA Stutter ==
  ASSUME UNCHANGED <<m_command_buffers, recorded, cleared, executed>>
  PROVE  UNCHANGED <<Pending, Done, cleared>>
BY DEF Done, Executed, Pending, Ids, Recorded

\* Waiting draws are known by id, wherever they wait.
LEMMA PendingIds ==
  /\ \A i : i \in Pending <=>
       \E t \in Threads : \E d \in m_command_buffers[t] : d.id = i
  /\ \A S : \A i : i \in Ids(S) <=> \E d \in S : d.id = i
BY DEF Pending, Ids, Recorded

LEMMA BatchStep ==
  ASSUME IInv, [Next]_vars
  PROVE  \/ \E d \in DrawId :
              /\ d \notin Pending \union Done \union cleared
              /\ Pending' = Pending \union {d}
              /\ UNCHANGED <<Done, cleared>>
         \/ \E S \in SUBSET Pending :
              /\ Pending' = Pending \ S
              /\ cleared' = cleared \union S
              /\ UNCHANGED Done
         \/ /\ Done' = Done \union Pending
            /\ Pending' = {}
            /\ UNCHANGED cleared
         \/ UNCHANGED <<Pending, Done, cleared>>
<1> DEFINE Goal ==
         \/ \E d \in DrawId :
              /\ d \notin Pending \union Done \union cleared
              /\ Pending' = Pending \union {d}
              /\ UNCHANGED <<Done, cleared>>
         \/ \E S \in SUBSET Pending :
              /\ Pending' = Pending \ S
              /\ cleared' = cleared \union S
              /\ UNCHANGED Done
         \/ /\ Done' = Done \union Pending
            /\ Pending' = {}
            /\ UNCHANGED cleared
         \/ UNCHANGED <<Pending, Done, cleared>>
<1> SUFFICES Goal
  OBVIOUS
<1>1. ASSUME NEW t \in Threads, NEW p \in PassIndex, RecordDraw(t, p)
      PROVE  Goal
  <2> DEFINE new == recorded + 1
  <2>1. new \in DrawId /\ new \notin 1 .. recorded
    BY <1>1, BoundsAssumption DEF RecordDraw, IInv, TypeOK, DrawId
  <2>2. new \notin Pending \union Done \union cleared
    <3>1. Pending \subseteq 1 .. recorded
      BY DEF IInv, IdsUnique, Pending, Ids, Recorded
    <3>2. Done \subseteq 1 .. recorded /\ cleared \subseteq 1 .. recorded
      BY DEF IInv, HistoryBelow, Done, Executed
    <3> QED
      BY <2>1, <3>1, <3>2
  <2>3. Pending' = Pending \union {new}
    <3> DEFINE draw == [id |-> new, pass |-> p]
    <3>1. \A u \in Threads : m_command_buffers'[u] =
            IF u = t THEN m_command_buffers[u] \union {draw}
                     ELSE m_command_buffers[u]
      BY <1>1 DEF RecordDraw, IInv, TypeOK
    <3>2. draw.id = new
      OBVIOUS
    <3> HIDE DEF draw, new
    <3>3. Recorded' = Recorded \union {draw}
      BY <3>1 DEF Recorded
    <3> QED
      BY <3>2, <3>3 DEF Pending, Ids
  <2>4. cleared' = cleared /\ Executed' = Executed
    <3>1. cleared' = cleared /\ executed' = executed /\ recorded' = new
      BY <1>1 DEF RecordDraw, backendVars
    <3>2. ~(executed[new] > 0)
      BY <2>1 DEF IInv, HistoryBelow
    <3>3. 1 .. new = (1 .. recorded) \union {new}
      BY DEF IInv, TypeOK
    <3> QED
      BY <3>1, <3>2, <3>3 DEF Executed
  <2>5. UNCHANGED Done
    BY <2>2, <2>3, <2>4, <2>1 DEF Done, Executed
  <2> QED
    BY <2>1, <2>2, <2>3, <2>4, <2>5
<1>2. ASSUME NEW t \in Threads, ClearCommandBuffer(t)
      PROVE  Goal
  <2> DEFINE S == Ids(m_command_buffers[t])
  <2>1. S \subseteq Pending /\ cleared' = cleared \union S
    BY <1>2 DEF ClearCommandBuffer, Pending, Recorded, Ids
  <2>2. \A u \in Threads : m_command_buffers'[u] =
          IF u = t THEN {} ELSE m_command_buffers[u]
    BY <1>2 DEF ClearCommandBuffer, IInv, TypeOK
  <2>3. \A u \in Threads : u # t =>
          \A d \in m_command_buffers[u] : d.id \notin S
    BY DEF Ids, IInv, IdsUnique
  <2>4. Pending' = Pending \ S
    <3>1. Recorded' = UNION {m_command_buffers[u] : u \in Threads \ {t}}
      BY <2>2 DEF Recorded
    <3>2. Pending' = Ids(UNION {m_command_buffers[u] : u \in Threads \ {t}})
      BY <3>1 DEF Pending, Ids
    <3>3. Pending = Ids(UNION {m_command_buffers[u] : u \in Threads \ {t}}) \union S
      BY DEF Pending, Ids, Recorded
    <3>4. Ids(UNION {m_command_buffers[u] : u \in Threads \ {t}}) \cap S = {}
      BY <2>3 DEF Ids
    <3> QED
      BY <3>2, <3>3, <3>4
  <2>5. Executed' = Executed
    BY <1>2 DEF ClearCommandBuffer, Executed, backendVars
  <2>6. UNCHANGED Done
    BY <2>1, <2>4, <2>5 DEF Done
  <2> QED
    BY <2>1, <2>4, <2>6
<1>3. CASE RenderPass \/ RenderThrows
  <2>1. PICK S \in SUBSET Recorded : Execute(S)
    BY <1>3 DEF RenderPass, RenderThrows, DrawsInPass
  <2>2. /\ UNCHANGED <<m_command_buffers, recorded, cleared>>
        /\ Pending' = Pending
    BY <1>3 DEF RenderPass, RenderThrows, recordVars, Pending, Ids, Recorded
  <2>3. /\ \A i \in DrawId : executed[i] > 0 => executed'[i] > 0
        /\ \A i \in DrawId : executed'[i] > 0 => executed[i] > 0 \/ i \in Pending
    BY <2>1, ExecuteType, PendingIds DEF IInv, Recorded
  <2>4. 1 .. recorded \subseteq DrawId
    BY BoundsAssumption DEF IInv, TypeOK, DrawId
  <2> QED
    BY <2>2, <2>3, <2>4 DEF Done, Executed
<1>4. CASE ResetPassesAndBuffers
  <2>1. /\ UNCHANGED <<recorded, cleared, executed>>
        /\ Pending' = {}
    BY <1>4 DEF ResetPassesAndBuffers, backendVars, Pending, Ids, Recorded
  <2>2. Pending \subseteq Executed
    BY <1>4, PendingIds DEF ResetPassesAndBuffers, Executed, IInv,
       RenderProgress, WaitingActive, IdsUnique
  <2>3. Pending \cap cleared = {}
    BY PendingIds DEF IInv, HistoryBelow
  <2> QED
    BY <2>1, <2>2, <2>3 DEF Done, Executed
<1>5. ASSUME UNCHANGED <<m_command_buffers, recorded, cleared, executed>>
      PROVE  Goal
  BY <1>5, Stutter
<1> HIDE DEF Goal
<1>6. CASE \E p \in PassIndex : CreatePass(p) \/ TouchPass(p)
  BY <1>5, <1>6 DEF CreatePass, TouchPass, backendVars
<1>7. CASE RegisterAction \/ \E n \in 0 .. MaxFrame - 1 : SetScreenshotAtFrame(n)
  BY <1>5, <1>7 DEF RegisterAction, SetScreenshotAtFrame, backendVars,
     recordVars
<1>8. CASE FrameBegin \/ PrepareDone \/ PrepareThrows \/ SkipPass
  BY <1>5, <1>8 DEF FrameBegin, PrepareDone, PrepareThrows, SkipPass,
     backendVars, recordVars
<1>9. CASE Present \/ PresentThrows
  BY <1>5, <1>9 DEF Present, PresentThrows, recordVars
<1>10. CASE UNCHANGED vars
  BY <1>5, <1>10 DEF vars, backendVars, recordVars
<1> QED
  BY <1>1, <1>2, <1>3, <1>4, <1>6, <1>7, <1>8, <1>9, <1>10
     DEF Next, Application, Frame

\* frame() implements the batches: it takes all waiting draws or, when an
\* exception leaves it, none.
THEOREM FrameIsBatch == Spec => BatchesSpec
<1>1. Init => Batches!Init
  BY DEF Init, Batches!Init, Pending, Executed, Ids, Recorded
<1>2. IInv /\ [Next]_vars => [Batches!Next]_(Batches!vars)
  <2> SUFFICES ASSUME IInv, [Next]_vars
               PROVE  [Batches!Next]_(Batches!vars)
    OBVIOUS
  <2> QED
    BY BatchStep DEF Batches!Next, Batches!vars, Batches!Record,
       Batches!Wipe, Batches!CompleteBatch, Batches!DrawId, Done, DrawId
<1> QED
  BY <1>1, <1>2, Invariance, PTL DEF Spec, BatchesSpec, Batches!Spec
==============================================================================
