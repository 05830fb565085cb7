------------------------------- MODULE LoopProofs ------------------------------
(***************************************************************************)
(* Proofs about ApplicationLoop for any time step, any limits and any      *)
(* interleaving of the main thread with those that set the quit flag; and  *)
(* about CallbackMap when callbacks do not invoke the map they are called  *)
(* from: then the single flag m_calling is enough.                         *)
(***************************************************************************)
EXTENDS ApplicationLoop, CallbackMap, SequenceTheorems, TLAPS

------------------------------------------------------------------------------
(* The loop.                                                               *)

Early == {"create", "initialize", "setup"}

\* Cycles and presentations count alike; a cycle in work is not presented.
CyclesPresented ==
  /\ pc \in Early => cycle = 0 /\ presented = 0
  /\ pc \in {"loop", "clear", "teardown"} => presented = cycle
  /\ pc \in {"input", "update", "present"} => presented + 1 = cycle

\* The loop is left only with the flag set, and only a complete run is stored.
LeftByQuit ==
  /\ pc \in {"clear", "teardown"} => m_quit
  /\ stored => pc = "done" /\ m_quit /\ presented = cycle

\* Once the input of the last cycle is done the flag is set.
LastCycleQuits ==
  m_stop_at_cycle > 0 =>
    /\ cycle <= m_stop_at_cycle
    /\ pc \in {"update", "present", "loop", "clear", "teardown"}
         => cycle < m_stop_at_cycle \/ m_quit

\* What is simulated and what waits to be is the time up to the last look at
\* the clock, and the looks are in order.
TimeAdds ==
  /\ pc \in Early => simulated = 0 /\ accumulator = 0
  /\ started <= before
  /\ pc = "input" => before <= current /\ sampled <= current
  /\ loop = "simple" /\ pc \in {"loop", "input", "update", "present", "clear"}
       => simulated + accumulator = before - started
  /\ loop = "simple" /\ pc # "update" => accumulator = 0 \/ pc = "done"
  /\ pc = "present" => accumulator < TimeStep

LoopInv ==
  /\ TypeOK /\ QuitEndsLoop
  /\ CyclesPresented /\ LeftByQuit /\ LastCycleQuits /\ TimeAdds

LEMMA LoopStarts == Init => LoopInv
<1> USE LoopAssumption
<1>1. ASSUME Init PROVE TypeOK /\ QuitEndsLoop
  <2>1. /\ pc \in Running \union {"create", "done"}
        /\ m_return_code \in {0, 1, 2} /\ loop \in {"simple", "fixed_step"}
    BY <1>1 DEF Init, Running
  <2>2. m_quit \in BOOLEAN /\ stored \in BOOLEAN /\ ~m_quit
    BY <1>1, Zenon DEF Init
  <2>3. /\ m_stop_at_cycle \in 0 .. MaxCycle /\ cycle \in 0 .. MaxCycle
        /\ quitCycle \in 0 .. MaxCycle /\ presented \in 0 .. MaxCycle
        /\ now \in 0 .. MaxTime /\ before \in 0 .. now /\ current \in 0 .. now
        /\ started \in 0 .. now /\ sampled \in 0 .. now /\ frameTime \in 0 .. now
        /\ accumulator \in Nat /\ simulated \in Nat /\ updates \in Nat
    BY <1>1 DEF Init
  <2> QED
    BY <2>1, <2>2, <2>3 DEF TypeOK, QuitEndsLoop
<1>2. Init => CyclesPresented /\ LeftByQuit /\ LastCycleQuits /\ TimeAdds
  BY DEF Init, CyclesPresented, LeftByQuit, LastCycleQuits, TimeAdds, Early
<1> QED
  BY <1>1, <1>2 DEF LoopInv

LEMMA StepInv == LoopInv /\ [Next]_vars => LoopInv'
<1> SUFFICES ASSUME LoopInv, [Next]_vars PROVE LoopInv'
  OBVIOUS
<1> USE LoopAssumption DEF Goto, appVars, timeVars, sampleVars
<1>1. CASE Create
  <2> USE <1>1 DEF Create
  <2>1. TypeOK'
    BY DEF LoopInv, TypeOK, Running, TimeAdds
  <2>2. QuitEndsLoop' /\ CyclesPresented' /\ LeftByQuit'
    BY DEF LoopInv, TypeOK, QuitEndsLoop, CyclesPresented, LeftByQuit, Early,
           Running
  <2>3. LastCycleQuits'
    BY DEF LoopInv, TypeOK, LastCycleQuits, CyclesPresented, Early, Running
  <2>4. TimeAdds'
    BY DEF LoopInv, TypeOK, TimeAdds, Early, Running
  <2> QED
    BY <2>1, <2>2, <2>3, <2>4 DEF LoopInv
<1>2. CASE Initialize
  <2> USE <1>2 DEF Initialize
  <2>1. TypeOK'
    BY DEF LoopInv, TypeOK, Running, TimeAdds
  <2>2. QuitEndsLoop' /\ CyclesPresented' /\ LeftByQuit'
    BY DEF LoopInv, TypeOK, QuitEndsLoop, CyclesPresented, LeftByQuit, Early,
           Running
  <2>3. LastCycleQuits'
    BY DEF LoopInv, TypeOK, LastCycleQuits, CyclesPresented, Early, Running
  <2>4. TimeAdds'
    BY DEF LoopInv, TypeOK, TimeAdds, Early, Running
  <2> QED
    BY <2>1, <2>2, <2>3, <2>4 DEF LoopInv
<1>3. CASE Setup
  <2> USE <1>3 DEF Setup
  <2>1. TypeOK'
    BY DEF LoopInv, TypeOK, Running, TimeAdds
  <2>2. QuitEndsLoop' /\ CyclesPresented' /\ LeftByQuit'
    BY DEF LoopInv, TypeOK, QuitEndsLoop, CyclesPresented, LeftByQuit, Early,
           Running
  <2>3. LastCycleQuits'
    BY DEF LoopInv, TypeOK, LastCycleQuits, CyclesPresented, Early, Running
  <2>4. TimeAdds'
    BY DEF LoopInv, TypeOK, TimeAdds, Early, Running
  <2> QED
    BY <2>1, <2>2, <2>3, <2>4 DEF LoopInv
<1>4. CASE ClearListeners
  <2> USE <1>4 DEF ClearListeners
  <2>1. TypeOK'
    BY DEF LoopInv, TypeOK, Running, TimeAdds
  <2>2. QuitEndsLoop' /\ CyclesPresented' /\ LeftByQuit'
    BY DEF LoopInv, TypeOK, QuitEndsLoop, CyclesPresented, LeftByQuit, Early,
           Running
  <2>3. LastCycleQuits'
    BY DEF LoopInv, TypeOK, LastCycleQuits, CyclesPresented, Early, Running
  <2>4. TimeAdds'
    BY DEF LoopInv, TypeOK, TimeAdds, Early, Running
  <2> QED
    BY <2>1, <2>2, <2>3, <2>4 DEF LoopInv
<1>5. CASE Teardown
  <2> USE <1>5 DEF Teardown
  <2>1. TypeOK'
    BY DEF LoopInv, TypeOK, Running, TimeAdds
  <2>2. QuitEndsLoop' /\ CyclesPresented' /\ LeftByQuit'
    BY DEF LoopInv, TypeOK, QuitEndsLoop, CyclesPresented, LeftByQuit, Early,
           Running
  <2>3. LastCycleQuits'
    BY DEF LoopInv, TypeOK, LastCycleQuits, CyclesPresented, Early, Running
  <2>4. TimeAdds'
    BY DEF LoopInv, TypeOK, TimeAdds, Early, Running
  <2> QED
    BY <2>1, <2>2, <2>3, <2>4 DEF LoopInv
<1>6. CASE Throw
  <2> USE <1>6 DEF Throw, Failed
  <2>1. TypeOK'
    BY DEF LoopInv, TypeOK, Running, TimeAdds
  <2>2. QuitEndsLoop' /\ CyclesPresented' /\ LeftByQuit'
    BY DEF LoopInv, TypeOK, QuitEndsLoop, CyclesPresented, LeftByQuit, Early,
           Running
  <2>3. LastCycleQuits'
    BY DEF LoopInv, TypeOK, LastCycleQuits, CyclesPresented, Early, Running
  <2>4. TimeAdds'
    BY DEF LoopInv, TypeOK, TimeAdds, Early, Running
  <2> QED
    BY <2>1, <2>2, <2>3, <2>4 DEF LoopInv
<1>7. CASE SetQuit
  <2> USE <1>7 DEF SetQuit, Quit
  <2>1. TypeOK'
    BY DEF LoopInv, TypeOK, Running, TimeAdds
  <2>2. QuitEndsLoop' /\ CyclesPresented' /\ LeftByQuit'
    BY DEF LoopInv, TypeOK, QuitEndsLoop, CyclesPresented, LeftByQuit, Early,
           Running
  <2>3. LastCycleQuits'
    BY DEF LoopInv, TypeOK, LastCycleQuits, CyclesPresented, Early, Running
  <2>4. TimeAdds'
    BY DEF LoopInv, TypeOK, TimeAdds, Early, Running
  <2> QED
    BY <2>1, <2>2, <2>3, <2>4 DEF LoopInv
<1>8. CASE SetReturnCode
  <2> USE <1>8 DEF SetReturnCode
  <2>1. TypeOK'
    BY DEF LoopInv, TypeOK, Running, TimeAdds
  <2>2. QuitEndsLoop' /\ CyclesPresented' /\ LeftByQuit'
    BY DEF LoopInv, TypeOK, QuitEndsLoop, CyclesPresented, LeftByQuit, Early,
           Running
  <2>3. LastCycleQuits'
    BY DEF LoopInv, TypeOK, LastCycleQuits, CyclesPresented, Early, Running
  <2>4. TimeAdds'
    BY DEF LoopInv, TypeOK, TimeAdds, Early, Running
  <2> QED
    BY <2>1, <2>2, <2>3, <2>4 DEF LoopInv
<1>9. CASE Tick
  <2> USE <1>9 DEF Tick
  <2>1. TypeOK'
    BY DEF LoopInv, TypeOK, Running, TimeAdds
  <2>2. QuitEndsLoop' /\ CyclesPresented' /\ LeftByQuit'
    BY DEF LoopInv, TypeOK, QuitEndsLoop, CyclesPresented, LeftByQuit, Early,
           Running
  <2>3. LastCycleQuits'
    BY DEF LoopInv, TypeOK, LastCycleQuits, CyclesPresented, Early, Running
  <2>4. TimeAdds'
    BY DEF LoopInv, TypeOK, TimeAdds, Early, Running
  <2> QED
    BY <2>1, <2>2, <2>3, <2>4 DEF LoopInv
<1>10. CASE LoopEnd
  <2> USE <1>10 DEF LoopEnd, QuitSeen
  <2>1. TypeOK'
    BY DEF LoopInv, TypeOK, Running, TimeAdds
  <2>2. QuitEndsLoop' /\ CyclesPresented' /\ LeftByQuit'
    BY DEF LoopInv, TypeOK, QuitEndsLoop, CyclesPresented, LeftByQuit, Early,
           Running
  <2>3. LastCycleQuits'
    BY DEF LoopInv, TypeOK, LastCycleQuits, CyclesPresented, Early, Running
  <2>4. TimeAdds'
    BY DEF LoopInv, TypeOK, TimeAdds, Early, Running
  <2> QED
    BY <2>1, <2>2, <2>3, <2>4 DEF LoopInv
<1>11. CASE LoopCycle
  <2> USE <1>11 DEF LoopCycle, QuitSeen
  <2>1. TypeOK'
    BY DEF LoopInv, TypeOK, Running, TimeAdds
  <2>2. QuitEndsLoop' /\ CyclesPresented' /\ LeftByQuit'
    BY DEF LoopInv, TypeOK, QuitEndsLoop, CyclesPresented, LeftByQuit, Early,
           Running
  <2>3. LastCycleQuits'
    BY DEF LoopInv, TypeOK, LastCycleQuits, CyclesPresented, Early, Running
  <2>4. TimeAdds'
    BY DEF LoopInv, TypeOK, TimeAdds, Early, Running
  <2> QED
    BY <2>1, <2>2, <2>3, <2>4 DEF LoopInv
<1>12. CASE StopAtCycle
  <2> USE <1>12 DEF StopAtCycle, Quit, StopReached
  <2>1. TypeOK'
    BY DEF LoopInv, TypeOK, Running, TimeAdds
  <2>2. QuitEndsLoop' /\ CyclesPresented' /\ LeftByQuit'
    BY DEF LoopInv, TypeOK, QuitEndsLoop, CyclesPresented, LeftByQuit, Early,
           Running
  <2>3. LastCycleQuits'
    BY DEF LoopInv, TypeOK, LastCycleQuits, CyclesPresented, Early, Running
  <2>4. TimeAdds'
    BY DEF LoopInv, TypeOK, TimeAdds, Early, Running
  <2> QED
    BY <2>1, <2>2, <2>3, <2>4 DEF LoopInv
<1>13. CASE InputDone
  <2> USE <1>13 DEF InputDone, StopReached, ElapsedSimple, ElapsedFixed, Smaller
  <2>1. TypeOK'
    BY DEF LoopInv, TypeOK, Running, TimeAdds
  <2>2. QuitEndsLoop' /\ CyclesPresented' /\ LeftByQuit'
    BY DEF LoopInv, TypeOK, QuitEndsLoop, CyclesPresented, LeftByQuit, Early,
           Running
  <2>3. LastCycleQuits'
    BY DEF LoopInv, TypeOK, LastCycleQuits, CyclesPresented, Early, Running
  <2>4. TimeAdds'
    BY DEF LoopInv, TypeOK, TimeAdds, Early, Running
  <2> QED
    BY <2>1, <2>2, <2>3, <2>4 DEF LoopInv
<1>14. CASE UpdateSimple
  <2> USE <1>14 DEF UpdateSimple
  <2>1. TypeOK'
    BY DEF LoopInv, TypeOK, Running, TimeAdds
  <2>2. QuitEndsLoop' /\ CyclesPresented' /\ LeftByQuit'
    BY DEF LoopInv, TypeOK, QuitEndsLoop, CyclesPresented, LeftByQuit, Early,
           Running
  <2>3. LastCycleQuits'
    BY DEF LoopInv, TypeOK, LastCycleQuits, CyclesPresented, Early, Running
  <2>4. TimeAdds'
    BY DEF LoopInv, TypeOK, TimeAdds, Early, Running
  <2> QED
    BY <2>1, <2>2, <2>3, <2>4 DEF LoopInv
<1>15. CASE UpdateFixed
  <2> USE <1>15 DEF UpdateFixed, StepDue
  <2>1. TypeOK'
    BY DEF LoopInv, TypeOK, Running, TimeAdds
  <2>2. QuitEndsLoop' /\ CyclesPresented' /\ LeftByQuit'
    BY DEF LoopInv, TypeOK, QuitEndsLoop, CyclesPresented, LeftByQuit, Early,
           Running
  <2>3. LastCycleQuits'
    BY DEF LoopInv, TypeOK, LastCycleQuits, CyclesPresented, Early, Running
  <2>4. TimeAdds'
    BY DEF LoopInv, TypeOK, TimeAdds, Early, Running
  <2> QED
    BY <2>1, <2>2, <2>3, <2>4 DEF LoopInv
<1>16. CASE UpdatesDone
  <2> USE <1>16 DEF UpdatesDone, StepDue
  <2>1. TypeOK'
    BY DEF LoopInv, TypeOK, Running, TimeAdds
  <2>2. QuitEndsLoop' /\ CyclesPresented' /\ LeftByQuit'
    BY DEF LoopInv, TypeOK, QuitEndsLoop, CyclesPresented, LeftByQuit, Early,
           Running
  <2>3. LastCycleQuits'
    BY DEF LoopInv, TypeOK, LastCycleQuits, CyclesPresented, Early, Running
  <2>4. TimeAdds'
    BY DEF LoopInv, TypeOK, TimeAdds, Early, Running
  <2> QED
    BY <2>1, <2>2, <2>3, <2>4 DEF LoopInv
<1>17. CASE PresentDone
  <2> USE <1>17 DEF PresentDone
  <2>1. TypeOK'
    BY DEF LoopInv, TypeOK, Running, CyclesPresented
  <2>2. QuitEndsLoop' /\ CyclesPresented' /\ LeftByQuit'
    BY DEF LoopInv, TypeOK, QuitEndsLoop, CyclesPresented, LeftByQuit, Early,
           Running
  <2>3. LastCycleQuits'
    BY DEF LoopInv, TypeOK, LastCycleQuits, CyclesPresented, Early, Running
  <2>4. TimeAdds'
    BY DEF LoopInv, TypeOK, TimeAdds, Early, Running
  <2> QED
    BY <2>1, <2>2, <2>3, <2>4 DEF LoopInv
<1>18. CASE UNCHANGED vars
  BY <1>18 DEF LoopInv, vars, TypeOK, QuitEndsLoop, CyclesPresented, LeftByQuit,
             LastCycleQuits, TimeAdds
<1> QED
  BY <1>1, <1>2, <1>3, <1>4, <1>5, <1>6, <1>7, <1>8, <1>9, <1>10, <1>11, <1>12, <1>13, <1>14, <1>15, <1>16, <1>17, <1>18
  DEF Next, MainThread

LEMMA LoopInvariance == Spec => []LoopInv
  BY LoopStarts, StepInv, PTL DEF Spec

------------------------------------------------------------------------------
(* What follows.                                                           *)

\* Every variable has its type, for any limits of time and cycles.
THEOREM LoopTypeCorrect == Spec => []TypeOK
<1>1. LoopInv => TypeOK
  BY DEF LoopInv
<1> QED
  BY LoopInvariance, <1>1, PTL

\* application::set_quit() from any thread or listener: no cycle begins after.
THEOREM QuitEnds == Spec => []QuitEndsLoop
<1>1. LoopInv => QuitEndsLoop
  BY DEF LoopInv
<1> QED
  BY LoopInvariance, <1>1, PTL

\* application::input() sets the flag in the cycle the parameter names; the
\* loop never goes past it.
THEOREM StopsAt == Spec => []StopsAtCycle
<1>1. LoopInv => StopsAtCycle
  BY DEF LoopInv, LastCycleQuits, StopsAtCycle
<1> QED
  BY LoopInvariance, <1>1, PTL

\* application::main() stores the configuration after a complete run only.
THEOREM StoredComplete == Spec => []StoredMeansComplete
<1>1. LoopInv => StoredMeansComplete
  BY DEF LoopInv, LeftByQuit, StoredMeansComplete
<1> QED
  BY LoopInvariance, <1>1, PTL

\* simple_loop::run() gives update() all the time that has passed.
THEOREM TimeKept == Spec => []NoTimeLost
<1>1. LoopInv => NoTimeLost
  <2> SUFFICES ASSUME LoopInv, loop = "simple", pc \in {"present", "loop", "clear"}
               PROVE  simulated = before - started
    BY DEF NoTimeLost
  <2>1. /\ accumulator = 0 /\ simulated \in Nat
        /\ simulated + accumulator = before - started
    BY DEF LoopInv, TypeOK, TimeAdds
  <2> QED
    BY <2>1
<1> QED
  BY LoopInvariance, <1>1, PTL

\* Both loops present with less than a step left in the accumulator.
THEOREM NoStepLeft == Spec => []PeekBelowOne
<1>1. LoopInv => PeekBelowOne
  BY DEF LoopInv, TimeAdds, PeekBelowOne
<1> QED
  BY LoopInvariance, <1>1, PTL

------------------------------------------------------------------------------
(* The map of callbacks.                                                   *)

\* The flag says whether an invocation runs; nothing waits otherwise.
FlagTellsCalling ==
  /\ Len(stack) <= 1
  /\ m_calling <=> stack # <<>>
  /\ stack = <<>> => m_delayed_erase = {}
  /\ ~freed

\* Erased callbacks are gone or will be when the invocation ends.
ErasedOrDelayed ==
  /\ m_data \subseteq 1 .. m_sequence
  /\ erased \subseteq 1 .. m_sequence
  /\ erased \cap m_data \subseteq m_delayed_erase

\* While an invocation runs the map is what it was at the start, and the
\* callbacks up to the loop's place have been called.
LoopInStep ==
  stack # <<>> =>
    /\ stack[1].at \in m_data
    /\ stack[1].start = m_data
    /\ stack[1].called = {k \in m_data : k <= stack[1].at}

MapInv == MapTypeOK /\ FlagTellsCalling /\ ErasedOrDelayed /\ LoopInStep

LEMMA MapStarts == MapInit => MapInv
<1> SUFFICES ASSUME MapInit PROVE MapInv
  OBVIOUS
<1>1. <<>> \in Seq(Invocation) /\ Len(<<>>) = 0
  OBVIOUS
<1>2. MapTypeOK
  <2>1. m_calling \in BOOLEAN /\ freed \in BOOLEAN
    BY DEF MapInit
  <2>2. stack \in Seq(Invocation) /\ m_sequence \in 0 .. MaxKeys
    BY <1>1, CallbackAssumption DEF MapInit
  <2> QED
    BY <2>1, <2>2 DEF MapInit, MapTypeOK
<1>3. FlagTellsCalling /\ LoopInStep
  BY <1>1 DEF MapInit, FlagTellsCalling, LoopInStep
<1>4. ErasedOrDelayed
  BY DEF MapInit, ErasedOrDelayed
<1> QED
  BY <1>2, <1>3, <1>4 DEF MapInv

\* Without nesting a running invocation is the only one.
LEMMA OneInvocation ==
  ASSUME MapInv, stack # <<>>
  PROVE  /\ Depth = 1 /\ Top = stack[1] /\ Standing = {stack[1].at}
         /\ stack[1] \in Invocation
         /\ m_calling
<1>1. stack \in Seq(Invocation) /\ Len(stack) <= 1 /\ stack # <<>>
  BY DEF MapInv, MapTypeOK, FlagTellsCalling
<1>2. Len(stack) \in Nat \ {0} /\ Len(stack) <= 1
  BY <1>1, EmptySeq
<1>3. \A n \in Nat \ {0} : n <= 1 => n = 1
  OBVIOUS
<1>4. Len(stack) = 1
  BY <1>2, <1>3, Zenon
<1> QED
  BY <1>1, <1>4 DEF Depth, Top, Standing, MapInv, FlagTellsCalling

LEMMA InsertInv == ASSUME MapInv, Insert PROVE MapInv'
<1>1. stack = <<>>
  BY DEF Insert, MapInv, FlagTellsCalling
<1>2. m_sequence \in 0 .. MaxKeys /\ m_sequence < MaxKeys /\ m_data \subseteq Key
  BY DEF Insert, MapInv, MapTypeOK
<1>3. m_sequence' = m_sequence + 1 /\ m_sequence' \in Key
  BY <1>2, CallbackAssumption DEF Insert, Key
<1>4. MapTypeOK'
  BY <1>2, <1>3, CallbackAssumption DEF Insert, MapInv, MapTypeOK, Key
<1>5. FlagTellsCalling'
  BY DEF Insert, MapInv, FlagTellsCalling
<1>6. ErasedOrDelayed'
  BY <1>2, <1>3 DEF Insert, MapInv, ErasedOrDelayed
<1>7. LoopInStep'
  BY <1>1 DEF Insert, LoopInStep
<1> QED
  BY <1>4, <1>5, <1>6, <1>7 DEF MapInv

LEMMA EraseInv == ASSUME MapInv, NEW k \in Key, Erase(k) PROVE MapInv'
<1>1. UNCHANGED <<m_sequence, m_calling, stack>>
  BY DEF Erase
<1>2. CASE m_calling
  <2>1. /\ m_delayed_erase' = m_delayed_erase \union {k}
        /\ UNCHANGED <<m_data, freed>>
        /\ erased' = erased \union ({k} \cap 1 .. m_sequence)
    BY <1>2 DEF Erase
  <2>2. stack # <<>>
    BY <1>2 DEF MapInv, FlagTellsCalling
  <2>3. MapTypeOK'
    BY <1>1, <2>1 DEF MapInv, MapTypeOK
  <2>4. FlagTellsCalling' /\ LoopInStep'
    BY <1>1, <2>1, <2>2 DEF MapInv, FlagTellsCalling, LoopInStep
  <2>5. ErasedOrDelayed'
    BY <1>1, <2>1 DEF MapInv, ErasedOrDelayed
  <2> QED
    BY <2>3, <2>4, <2>5 DEF MapInv
<1>3. CASE ~m_calling
  <2>1. /\ m_data' = m_data \ {k}
        /\ freed' = (k \in Standing)
        /\ UNCHANGED m_delayed_erase
        /\ erased' = erased \union ({k} \cap 1 .. m_sequence)
    BY <1>3 DEF Erase
  <2>2. stack = <<>> /\ Len(stack) = 0
    BY <1>3 DEF MapInv, FlagTellsCalling
  <2>3. Standing = {}
    BY <2>2 DEF Standing, Depth
  <2>4. MapTypeOK'
    BY <1>1, <2>1 DEF MapInv, MapTypeOK
  <2>5. FlagTellsCalling' /\ LoopInStep'
    BY <1>1, <2>1, <2>2, <2>3 DEF MapInv, FlagTellsCalling, LoopInStep
  <2>6. ErasedOrDelayed'
    BY <1>1, <2>1 DEF MapInv, ErasedOrDelayed
  <2> QED
    BY <2>4, <2>5, <2>6 DEF MapInv
<1> QED
  BY <1>2, <1>3

LEMMA InvokeInv == ASSUME MapInv, MaxDepth = 1, Invoke PROVE MapInv'
<1>1. stack \in Seq(Invocation) /\ m_data \subseteq Key
  BY DEF MapInv, MapTypeOK
<1>2. stack = <<>>
  BY <1>1 DEF Invoke, Depth
<1>3. PICK k \in Key :
        /\ Least(k, m_data)
        /\ stack' = Append(stack, [at |-> k, called |-> {k}, start |-> m_data])
  BY DEF Invoke
<1> DEFINE inv == [at |-> k, called |-> {k}, start |-> m_data]
<1>4. inv \in Invocation
  BY <1>1 DEF Invocation
<1>5. /\ stack' \in Seq(Invocation) /\ Len(stack') = 1 /\ stack'[1] = inv
      /\ stack' # <<>>
  BY <1>1, <1>2, <1>3, <1>4
<1>6. UNCHANGED <<m_data, m_sequence, m_delayed_erase, erased, freed>> /\ m_calling'
  BY DEF Invoke
<1>7. MapTypeOK'
  BY <1>5, <1>6 DEF MapInv, MapTypeOK, Invoke
<1>8. FlagTellsCalling'
  BY <1>5, <1>6 DEF MapInv, FlagTellsCalling
<1>9. ErasedOrDelayed'
  BY <1>6 DEF MapInv, ErasedOrDelayed
<1>10. LoopInStep'
  <2>1. k \in m_data /\ {k} = {j \in m_data : j <= k}
    <3>1. k \in m_data /\ \A j \in m_data : k <= j
      BY <1>3 DEF Least
    <3>2. k \in Nat /\ \A j \in m_data : j \in Nat
      BY <1>1, CallbackAssumption DEF Key
    <3>3. \A j \in m_data : j <= k <=> j = k
      BY <3>1, <3>2
    <3> QED
      BY <3>1, <3>3
  <2> QED
    BY <1>5, <1>6, <2>1 DEF LoopInStep
<1> QED
  BY <1>7, <1>8, <1>9, <1>10 DEF MapInv

LEMMA NextCallbackInv == ASSUME MapInv, NextCallback PROVE MapInv'
<1>1. stack \in Seq(Invocation) /\ m_data \subseteq Key /\ stack # <<>>
  BY DEF MapInv, MapTypeOK, NextCallback
<1>2. Depth = 1 /\ Top = stack[1] /\ stack[1] \in Invocation /\ m_calling
  BY <1>1, OneInvocation
<1>3. PICK k \in Key :
        /\ Least(k, Ahead)
        /\ stack' = [stack EXCEPT ![1] =
             [at |-> k, called |-> stack[1].called \union {k},
              start |-> stack[1].start]]
  BY <1>2 DEF NextCallback
<1>4. Len(stack) = 1
  BY <1>2 DEF Depth
<1> DEFINE inv == [at |-> k, called |-> stack[1].called \union {k},
                   start |-> stack[1].start]
<1>11. /\ inv \in Invocation
       /\ inv.at = k /\ inv.called = stack[1].called \union {k}
       /\ inv.start = stack[1].start
  BY <1>2 DEF Invocation
<1>12. stack' = [stack EXCEPT ![1] = inv]
  BY <1>3, Zenon
<1> HIDE DEF inv
<1>5. /\ stack'[1].at = k
      /\ stack'[1].called = stack[1].called \union {k}
      /\ stack'[1].start = stack[1].start
      /\ stack'[1] \in Invocation
      /\ Len(stack') = 1
      /\ stack' \in Seq(Invocation) /\ stack' # <<>>
  BY <1>1, <1>4, <1>11, <1>12
<1>6. UNCHANGED <<m_data, m_sequence, m_delayed_erase, m_calling, erased, freed>>
  BY DEF NextCallback
<1>7. MapTypeOK'
  BY <1>5, <1>6 DEF MapInv, MapTypeOK
<1>8. FlagTellsCalling'
  BY <1>2, <1>5, <1>6 DEF MapInv, FlagTellsCalling
<1>9. ErasedOrDelayed'
  BY <1>6 DEF MapInv, ErasedOrDelayed
<1>10. LoopInStep'
  <2>1. k \in m_data /\ k > stack[1].at /\ \A j \in m_data : j > stack[1].at => k <= j
    BY <1>2, <1>3 DEF Least, Ahead
  <2>2. stack[1].called = {j \in m_data : j <= stack[1].at} /\ stack[1].start = m_data
    BY <1>1 DEF MapInv, LoopInStep
  <2>3. stack[1].at \in Nat /\ m_data \subseteq Nat
    BY <1>1, <1>2 DEF Invocation, Key
  <2>4. stack[1].called \union {k} = {j \in m_data : j <= k}
    <3>1. \A j \in m_data : j <= k <=> j <= stack[1].at \/ j = k
      BY <2>1, <2>3
    <3> QED
      BY <2>1, <2>2, <3>1
  <2> QED
    BY <1>5, <1>6, <2>1, <2>2, <2>4 DEF LoopInStep
<1> QED
  BY <1>7, <1>8, <1>9, <1>10 DEF MapInv

LEMMA EndInv == ASSUME MapInv, stack # <<>>, EndInvocation PROVE MapInv'
<1>1. stack \in Seq(Invocation)
  BY DEF MapInv, MapTypeOK
<1>2. Depth = 1
  BY OneInvocation
<1>3. stack' = <<>> /\ Len(stack') = 0 /\ stack' \in Seq(Invocation)
  BY <1>1, <1>2 DEF EndInvocation
<1>4. ~freed'
  BY <1>2 DEF EndInvocation
<1>5. MapTypeOK'
  BY <1>3, <1>4 DEF EndInvocation, MapInv, MapTypeOK
<1>6. FlagTellsCalling' /\ LoopInStep'
  BY <1>3, <1>4 DEF EndInvocation, FlagTellsCalling, LoopInStep
<1>7. ErasedOrDelayed'
  BY DEF EndInvocation, MapInv, ErasedOrDelayed
<1> QED
  BY <1>5, <1>6, <1>7 DEF MapInv

LEMMA ClearInv == ASSUME MapInv, Clear PROVE MapInv'
<1>1. MapTypeOK'
  BY DEF Clear, MapInv, MapTypeOK
<1>2. FlagTellsCalling' /\ LoopInStep'
  BY DEF Clear, MapInv, FlagTellsCalling, LoopInStep
<1>3. ErasedOrDelayed'
  BY DEF Clear, MapInv, ErasedOrDelayed
<1> QED
  BY <1>1, <1>2, <1>3 DEF MapInv

LEMMA MapInvariance == ASSUME MaxDepth = 1 PROVE MapSpec => []MapInv
<1>1. MapInv /\ [MapNext]_mapVars => MapInv'
  <2> SUFFICES ASSUME MapInv, [MapNext]_mapVars PROVE MapInv'
    OBVIOUS
  <2>1. CASE UNCHANGED mapVars
    BY <2>1 DEF mapVars, MapInv, MapTypeOK, FlagTellsCalling, ErasedOrDelayed, LoopInStep
  <2>2. CASE LastCallback \/ CallbackThrows
    BY <2>2, EndInv DEF LastCallback, CallbackThrows
  <2> QED
    BY <2>1, <2>2, InsertInv, EraseInv, InvokeInv, NextCallbackInv, ClearInv
       DEF MapNext
<1> QED
  BY MapStarts, <1>1, PTL DEF MapSpec

\* Every variable has its type, however many callbacks are inserted.
THEOREM MapTypeCorrect == ASSUME MaxDepth = 1 PROVE MapSpec => []MapTypeOK
<1>1. MapInv => MapTypeOK
  BY DEF MapInv
<1> QED
  BY <1>1, MapInvariance, PTL

\* No callback is destroyed while it runs.
THEOREM RunningKept == ASSUME MaxDepth = 1 PROVE MapSpec => []NoRunningCallbackFreed
<1>1. MapInv => NoRunningCallbackFreed
  BY DEF MapInv, FlagTellsCalling, NoRunningCallbackFreed
<1> QED
  BY <1>1, MapInvariance, PTL

\* Between invocations every erase has taken effect.
THEOREM ErasesApplied == ASSUME MaxDepth = 1 PROVE MapSpec => []ErasesTakeEffect
<1>1. MapInv => ErasesTakeEffect
  BY DEF MapInv, FlagTellsCalling, ErasedOrDelayed, ErasesTakeEffect
<1> QED
  BY <1>1, MapInvariance, PTL

\* An invocation that returns called what was in the map when it began.
THEOREM CallsAll == ASSUME MaxDepth = 1 PROVE MapSpec => CallsAllOfStart
<1>1. MapInv /\ [MapNext]_mapVars => [LastCallback => Top.called = Top.start]_mapVars
  <2> SUFFICES ASSUME MapInv, LastCallback PROVE Top.called = Top.start
    OBVIOUS
  <2>1. stack # <<>> /\ Ahead = {}
    BY DEF LastCallback
  <2>2. Top = stack[1] /\ stack[1].at \in Nat
    BY <2>1, OneInvocation DEF Invocation, Key
  <2>3. \A k \in m_data : k <= stack[1].at
    BY <2>1, <2>2 DEF Ahead, MapInv, MapTypeOK, Key
  <2> QED
    BY <2>1, <2>2, <2>3 DEF MapInv, LoopInStep
<1> QED
  BY <1>1, MapInvariance, PTL DEF MapSpec, CallsAllOfStart
================================================================================
