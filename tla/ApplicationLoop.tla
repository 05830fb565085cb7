---------------------------- MODULE ApplicationLoop ----------------------------
(***************************************************************************)
(* application::main and the interaction loop: create, initialize, set up, *)
(* run, clear the listeners, tear down, and store the configuration if the *)
(* return code is 0.  The loop is the simple one or the one with a fixed   *)
(* time step.  Listeners set the quit flag or the return code and throw;   *)
(* other threads may set the flag too.  Time is counted in ticks.          *)
(***************************************************************************)
EXTENDS Naturals, FiniteSets

CONSTANTS
  TimeStep,     \* the fixed step, 0.01 s in the code
  MaxFrameTime, \* what a frame counts at most, 0.25 s in the code
  MaxTime,      \* bound: ticks of the clock
  MaxCycle      \* bound: cycles of a loop that is not stopped

ASSUME LoopAssumption ==
  /\ TimeStep \in Nat \ {0} /\ MaxFrameTime \in Nat
  /\ MaxTime \in Nat /\ MaxCycle \in Nat

VARIABLES
  pc,               \* the stage of main(), or the phase of the loop
  m_quit, m_return_code, m_stop_at_cycle,
  loop,             \* the implementation the parameter application/loop names
  now,              \* the clock
  cycle,            \* "frame" in the fixed-step loop
  before,           \* the time the loop measures from: before, current_time
  current,          \* simple loop: the sample of this cycle
  simulated,        \* elapsed or total_time: what update() was given in sum
  accumulator,      \* fixed-step loop
  presented,        \* history: number of present() calls
  quitCycle,        \* history: cycle in which the quit flag was set
  updates,          \* history: update() calls of this cycle
  started,          \* history: when run() began
  sampled,          \* history: when the loop last looked at the clock
  frameTime,        \* history: time from there to the look before
  stored            \* history: the configuration was stored

appVars  == <<m_quit, m_return_code, m_stop_at_cycle, loop, quitCycle>>
sampleVars == <<started, sampled, frameTime>>
timeVars == <<before, current, simulated, accumulator, updates, sampleVars>>
vars == <<pc, appVars, timeVars, now, cycle, presented,
          stored>>

Running == {"initialize", "setup", "loop", "input", "update", "present",
            "clear", "teardown"}

Init ==
  /\ pc = "create"
  /\ m_quit = FALSE /\ m_return_code = 0 /\ m_stop_at_cycle = 0
  /\ loop = "simple"
  /\ now = 0 /\ cycle = 0
  /\ before = 0 /\ current = 0 /\ simulated = 0 /\ accumulator = 0
  /\ presented = 0 /\ quitCycle = 0
  /\ updates = 0 /\ started = 0 /\ sampled = 0 /\ frameTime = 0
  /\ stored = FALSE

Goto(from, to) == pc = from /\ pc' = to

------------------------------------------------------------------------------
(* main()                                                                  *)

Create ==
  /\ Goto("create", "initialize")
  /\ UNCHANGED <<appVars, timeVars, now, cycle, presented, stored>>

\* initialize() reads the parameter application/stop_at_cycle.
Initialize ==
  /\ Goto("initialize", "setup")
  /\ m_stop_at_cycle' \in 0 .. MaxCycle
  /\ UNCHANGED <<m_quit, m_return_code, loop, quitCycle, timeVars, now, cycle,
                 presented, stored>>

\* setup() returns; run() creates the loop, which looks at the clock.
Setup ==
  /\ Goto("setup", "loop")
  /\ loop' \in {"simple", "fixed_step"}
  /\ before' = now /\ sampled' = now /\ started' = now
  /\ UNCHANGED <<m_quit, m_return_code, m_stop_at_cycle, quitCycle, current,
                 simulated, accumulator, updates, frameTime, now, cycle,
                 presented, stored>>

ClearListeners ==
  /\ Goto("clear", "teardown")
  /\ UNCHANGED <<appVars, timeVars, now, cycle, presented, stored>>

Teardown ==
  /\ Goto("teardown", "done")
  /\ stored' = (m_return_code = 0)
  /\ UNCHANGED <<appVars, timeVars, now, cycle, presented>>

\* The return code of main() when it was left by an exception.
Failed == 1

\* An exception of any stage ends main(): no stage after it runs.
Throw ==
  /\ pc \in {"create", "initialize", "setup", "input", "update", "present",
             "teardown"}
  /\ pc' = "done"
  /\ m_return_code' = Failed
  /\ UNCHANGED <<m_quit, m_stop_at_cycle, loop, quitCycle, timeVars, now, cycle,
                 presented, stored>>

------------------------------------------------------------------------------
(* What listeners and other threads do meanwhile.                          *)

Quit == m_quit' = TRUE /\ quitCycle' = IF m_quit THEN quitCycle ELSE cycle

SetQuit ==
  /\ pc \in Running
  /\ ~m_quit
  /\ Quit
  /\ UNCHANGED <<pc, m_return_code, m_stop_at_cycle, loop, timeVars, now, cycle,
                 presented, stored>>

SetReturnCode ==
  /\ pc \in Running
  /\ m_return_code' \in {0, 2}
  /\ UNCHANGED <<pc, m_quit, m_stop_at_cycle, loop, quitCycle, timeVars, now,
                 cycle,                 presented, stored>>

Tick ==
  /\ pc \in Running
  /\ now < MaxTime
  /\ now' = now + 1
  /\ UNCHANGED <<pc, appVars, timeVars, cycle, presented, stored>>

------------------------------------------------------------------------------
(* The loop.                                                               *)

\* Mutant: the flag is looked at after the first cycle.
QuitSeenLate == m_quit /\ cycle > 0

QuitSeen == m_quit

LoopEnd ==
  /\ QuitSeen
  /\ Goto("loop", "clear")
  /\ UNCHANGED <<appVars, timeVars, now, cycle, presented, stored>>

\* The next cycle; the simple loop looks at the clock before the input.
LoopCycle ==
  /\ ~QuitSeen
  /\ cycle < MaxCycle
  /\ Goto("loop", "input")
  /\ cycle' = cycle + 1
  /\ current' = now
  /\ updates' = 0
  /\ UNCHANGED <<appVars, before, simulated, accumulator, sampleVars, now,
                 presented, stored>>

\* Mutant: the parameter has no effect.
StopIgnored == FALSE

StopReached == m_stop_at_cycle > 0 /\ cycle >= m_stop_at_cycle

\* input(): the flag is set in the last cycle, then the listeners are called.
StopAtCycle ==
  /\ pc = "input" /\ StopReached /\ ~m_quit
  /\ Quit
  /\ UNCHANGED <<pc, m_return_code, m_stop_at_cycle, loop, timeVars, now, cycle,
                 presented, stored>>

\* Mutant: the simple loop takes the time again after the input.
ElapsedSimpleResampled ==
  /\ before' = now
  /\ accumulator' = current - before
  /\ sampled' = current /\ frameTime' = current - sampled

\* What the loop does with the time when input() has returned.  The simple
\* loop takes the difference to the last sample as the time to update,
ElapsedSimple ==
  /\ before' = current
  /\ accumulator' = current - before
  /\ sampled' = current /\ frameTime' = current - sampled

\* the fixed-step loop adds the time since run() began, up to a limit:
\* current_time is never assigned in the loop.
Smaller(a, b) == IF a < b THEN a ELSE b
ElapsedFixed ==
  /\ accumulator' = accumulator + Smaller(now - before, MaxFrameTime)
  /\ sampled' = now /\ frameTime' = now - sampled
  /\ UNCHANGED before

\* Mutant: a quit flag set while the input is processed ends the cycle.
InputDoneSkipsRest ==
  /\ StopReached => m_quit
  /\ pc = "input" /\ pc' = IF m_quit THEN "loop" ELSE "update"
  /\ IF loop = "simple" THEN ElapsedSimple ELSE ElapsedFixed
  /\ updates' = 0
  /\ UNCHANGED <<appVars, current, simulated, started, now, cycle, presented,
                 stored>>

\* input() returns.
InputDone ==
  /\ StopReached => m_quit
  /\ Goto("input", "update")
  /\ IF loop = "simple" THEN ElapsedSimple ELSE ElapsedFixed
  /\ updates' = 0
  /\ UNCHANGED <<appVars, current, simulated, started, now, cycle, presented,
                 stored>>

\* The simple loop updates once with the time of the cycle.
UpdateSimple ==
  /\ loop = "simple"
  /\ Goto("update", "present")
  /\ simulated' = simulated + accumulator
  /\ accumulator' = 0
  /\ updates' = 1
  /\ UNCHANGED <<appVars, before, current, sampleVars, now, cycle, presented,
                 stored>>

\* The fixed-step loop updates as long as a full step is due.
StepDue == accumulator >= TimeStep

UpdateFixed ==
  /\ loop = "fixed_step"
  /\ pc = "update" /\ StepDue
  /\ simulated' = simulated + TimeStep
  /\ accumulator' = accumulator - TimeStep
  /\ updates' = updates + 1
  /\ UNCHANGED <<pc, appVars, before, current, sampleVars, now, cycle,
                 presented, stored>>

UpdatesDone ==
  /\ loop = "fixed_step"
  /\ ~StepDue
  /\ Goto("update", "present")
  /\ UNCHANGED <<appVars, timeVars, now, cycle, presented, stored>>

PresentDone ==
  /\ Goto("present", "loop")
  /\ presented' = presented + 1
  /\ UNCHANGED <<appVars, timeVars, now, cycle, stored>>

MainThread ==
  \/ Create \/ Initialize \/ Setup \/ ClearListeners \/ Teardown
  \/ LoopEnd \/ LoopCycle \/ StopAtCycle \/ InputDone
  \/ UpdateSimple \/ UpdateFixed \/ UpdatesDone \/ PresentDone

Next == MainThread \/ Throw \/ SetQuit \/ SetReturnCode \/ Tick

Spec == Init /\ [][Next]_vars

\* main() runs on a thread of its own and listeners return or throw.
FairSpec == Spec /\ WF_vars(MainThread)

------------------------------------------------------------------------------
(* Properties.                                                             *)

\* Every variable has its type.
TypeOK ==
  /\ pc \in Running \union {"create", "done"}
  /\ m_quit \in BOOLEAN /\ stored \in BOOLEAN
  /\ m_return_code \in {0, 1, 2} /\ loop \in {"simple", "fixed_step"}
  /\ m_stop_at_cycle \in 0 .. MaxCycle /\ cycle \in 0 .. MaxCycle
  /\ quitCycle \in 0 .. MaxCycle /\ presented \in 0 .. MaxCycle
  /\ now \in 0 .. MaxTime /\ before \in 0 .. now /\ current \in 0 .. now
  /\ started \in 0 .. now /\ sampled \in 0 .. now /\ frameTime \in 0 .. now
  /\ accumulator \in Nat /\ simulated \in Nat /\ updates \in Nat

\* No cycle begins after the quit flag was set, by whomever and whenever.
QuitEndsLoop == m_quit => cycle = quitCycle

\* The loop stops at the cycle the parameter names, not before it unless it
\* is told to, and never after it.
StopsAtCycle == m_stop_at_cycle > 0 => cycle <= m_stop_at_cycle

\* A stored configuration means that every cycle, the last included, ran to
\* its end and that no stage threw.
StoredMeansComplete == stored => presented = cycle /\ m_quit /\ pc = "done"

\* The simple loop loses no time: after a cycle the updates cover the time
\* from the start of run() to the last look at the clock.
NoTimeLost ==
  loop = "simple" /\ pc \in {"present", "loop", "clear"} =>
    simulated = before - started

\* present() is called with accumulator / time_step, a peek below 1: no step
\* is left undone.
PeekBelowOne == pc = "present" => accumulator < TimeStep

\* A parameter stop_at_cycle ends the program, whatever the listeners do.
StopsEventually ==
  (pc = "setup" /\ m_stop_at_cycle > 0) ~> (pc = "done")

\* loop.rst:68: "update will be called with a fixed time step, potentially
\* multiple times per frame if the frame takes longer than the time step".  A
\* frame shorter than a step needs at most one.
ManyUpdatesOnlyIfLong ==
  pc = "present" /\ updates > 1 => frameTime >= TimeStep
==============================================================================
