----------------------------- MODULE ContextProofs -----------------------------
(***************************************************************************)
(* Proofs about the parts of a render context that MCContext composes, for *)
(* any objects, draws, uniforms, sets and pipelines.                       *)
(***************************************************************************)
EXTENDS MCContext, Integers, FiniteSetTheorems, TLAPS

------------------------------------------------------------------------------
(* Objects of a context.                                                   *)

\* The actions clients can queue: every version of the data has its own.
QueuedAction ==
  [op : {"compile"}, obj : Shaders] \union
  [op : {"set_shader"}, obj : Programs, shader : Shaders] \union
  [op : {"link"}, obj : Programs] \union
  [op : {"set_data"}, obj : Buffers, version : Nat]

ObjectTypes ==
  /\ slot \in [Objects!Object -> {"none", "live", "destroyed"}]
  /\ attached \in [Programs -> SUBSET Shaders]
  /\ linked \in [Programs -> SUBSET SUBSET Shaders]
  /\ contents \in [Buffers -> Nat] /\ wanted \in [Buffers -> Nat]
  /\ m_prepare_frame_actions \in Seq(QueuedAction)
  /\ pc \in {"idle", "prepare", "undefined"}
  /\ at \in Nat \ {0}
  /\ pc = "idle" => at = 1

\* What the waiting actions hold pointers to was named since the last frame,
\* and is alive as long as clients were careful; so is what a program that is
\* alive keeps attached.  A program that was never created has nothing attached.
NamedByActions ==
  \A i \in 1 .. Len(m_prepare_frame_actions) :
    Objects!Captures(m_prepare_frame_actions[i]) \subseteq named

CarefulKeepsAlive ==
  ~careless =>
    /\ \A o \in named : o \in Objects!Object /\ Objects!Live(o)
    /\ \A p \in Programs :
         Objects!Live(p) => \A s \in attached[p] : Objects!Live(s)

AttachedLater ==
  \A p \in Programs : slot[p] = "none" => attached[p] = {}

\* A link that waits is one of a program that needs it, or an earlier action of
\* the frame was a link of the same program.
LinksWaiting ==
  \A i \in at .. Len(m_prepare_frame_actions) :
    m_prepare_frame_actions[i].op = "link" =>
      \/ m_prepare_frame_actions[i].obj \in m_needs_link
      \/ \E j \in 1 .. at - 1 :
           /\ m_prepare_frame_actions[j].op = "link"
           /\ m_prepare_frame_actions[j].obj = m_prepare_frame_actions[i].obj

\* The data of a buffer are those last given, or the last action on it that has
\* not run yet has them, or an action on it was dropped.
Waiting(b) ==
  {i \in at .. Len(m_prepare_frame_actions) :
     /\ m_prepare_frame_actions[i].op = "set_data"
     /\ m_prepare_frame_actions[i].obj = b}

DataOnTheWay ==
  \A b \in Buffers :
    /\ Waiting(b) = {} /\ b \notin dropped => contents[b] = wanted[b]
    /\ \A i \in Waiting(b) :
         (\A j \in Waiting(b) : j <= i) =>
           m_prepare_frame_actions[i].version = wanted[b]

ObjectsInv ==
  /\ ObjectTypes /\ NamedByActions /\ CarefulKeepsAlive /\ AttachedLater
  /\ LinksWaiting /\ Objects!LinkedIsCurrent /\ Objects!InitializedIsSettled
  /\ DataOnTheWay /\ NoFreedUse

------------------------------------------------------------------------------

\* A call that queues one action, between frames.
LEMMA ActionQueued ==
  ASSUME ObjectsInv, pc = "idle", NEW a \in QueuedAction,
         a.op = "link" => a.obj \in m_needs_link,
         Objects!PrepareFrame(a), UNCHANGED <<pc, at, m_needs_link>>
  PROVE  /\ m_prepare_frame_actions' \in Seq(QueuedAction)
         /\ NamedByActions' /\ LinksWaiting'
         /\ \A i \in DOMAIN m_prepare_frame_actions' :
              \/ i \in DOMAIN m_prepare_frame_actions
                 /\ m_prepare_frame_actions'[i] = m_prepare_frame_actions[i]
              \/ m_prepare_frame_actions'[i] = a
<1> DEFINE q == m_prepare_frame_actions
           n == Len(q) + 1
<1>1. /\ q \in Seq(QueuedAction) /\ q' = Append(q, a)
      /\ named' = named \union Objects!Captures(a)
  BY DEF ObjectsInv, ObjectTypes, Objects!PrepareFrame
<1>2. /\ q' \in Seq(QueuedAction) /\ Len(q') = n /\ q'[n] = a
      /\ \A i \in 1 .. Len(q) : q'[i] = q[i]
      /\ Len(q) \in Nat
  BY <1>1
<1>3. NamedByActions'
  BY <1>1, <1>2 DEF ObjectsInv, NamedByActions, Objects!Captures
<1>4. at = 1 /\ at' = 1
  BY DEF ObjectsInv, ObjectTypes
<1>5. LinksWaiting'
  BY <1>2, <1>4 DEF ObjectsInv, LinksWaiting
<1> QED
  BY <1>1, <1>2, <1>3, <1>5

\* Of such calls only set_data() changes what is on the way to a buffer.
LEMMA OtherActionQueued ==
  ASSUME ObjectsInv, pc = "idle", NEW a \in QueuedAction, a.op # "set_data",
         Objects!PrepareFrame(a), UNCHANGED <<pc, at, contents, wanted, dropped>>
  PROVE  DataOnTheWay'
<1> DEFINE q == m_prepare_frame_actions
           n == Len(q) + 1
<1>1. /\ q \in Seq(QueuedAction) /\ q' = Append(q, a) /\ at \in Nat
  BY DEF ObjectsInv, ObjectTypes, Objects!PrepareFrame
<1>2. /\ Len(q') = n /\ q'[n] = a /\ Len(q) \in Nat
      /\ \A i \in 1 .. Len(q) : q'[i] = q[i]
  BY <1>1
<1>3. at = 1
  BY DEF ObjectsInv, ObjectTypes
<1>4. ASSUME NEW b \in Buffers PROVE Waiting(b)' = Waiting(b)
  BY <1>2, <1>3 DEF Waiting
<1>5. ASSUME NEW b \in Buffers, NEW i \in Waiting(b) PROVE q'[i] = q[i]
  BY <1>2, <1>3 DEF Waiting
<1> QED
  BY <1>4, <1>5 DEF ObjectsInv, DataOnTheWay

\* The action that runs is typed, and its objects are alive.
LEMMA RunningAction ==
  ASSUME ObjectsInv, NEW op, Objects!Running(op)
  PROVE  /\ pc = "prepare" /\ at \in 1 .. Len(m_prepare_frame_actions)
         /\ Objects!Current \in QueuedAction /\ Objects!Current.op = op
         /\ Objects!Current = m_prepare_frame_actions[at]
         /\ Objects!Live(Objects!Current.obj)
         /\ op = "set_shader" => Objects!Live(Objects!Current.shader)
<1>1. /\ pc = "prepare" /\ at \in 1 .. Len(m_prepare_frame_actions)
      /\ Objects!Current.op = op
      /\ \A o \in Objects!Captures(Objects!Current) : Objects!Live(o)
      /\ Objects!Current = m_prepare_frame_actions[at]
  BY DEF ObjectsInv, ObjectTypes, Objects!Running, Objects!Current
<1>2. Objects!Current \in QueuedAction
  BY <1>1 DEF ObjectsInv, ObjectTypes
<1> QED
  BY <1>1, <1>2 DEF Objects!Captures

\* An action other than that of set_data() returns.
LEMMA OtherActionReturns ==
  ASSUME ObjectsInv, NEW op, op # "set_data", Objects!Running(op),
         Objects!ActionDone, UNCHANGED <<contents, wanted>>,
         \A p \in m_needs_link \ m_needs_link' :
           op = "link" /\ p = Objects!Current.obj
  PROVE  /\ DataOnTheWay' /\ NamedByActions' /\ Objects!InitializedIsSettled'
         /\ LinksWaiting'
<1>1. /\ at' = at + 1 /\ pc' = "prepare" /\ at \in Nat
      /\ UNCHANGED <<m_prepare_frame_actions, named, dropped>>
      /\ m_prepare_frame_actions[at].op # "set_data"
  BY RunningAction DEF ObjectsInv, ObjectTypes, Objects!ActionDone
<1>2. Len(m_prepare_frame_actions) \in Nat
  BY DEF ObjectsInv, ObjectTypes
<1>3. ASSUME NEW b \in Buffers PROVE Waiting(b)' = Waiting(b)
  BY <1>1, <1>2 DEF Waiting
<1>4. LinksWaiting'
  <2> DEFINE q == m_prepare_frame_actions
  <2>1. SUFFICES ASSUME NEW i \in at + 1 .. Len(q), q[i].op = "link",
                        q[i].obj \notin m_needs_link'
                 PROVE  \E j \in 1 .. at : q[j].op = "link" /\ q[j].obj = q[i].obj
    BY <1>1, <1>2 DEF LinksWaiting
  <2>2. CASE q[i].obj \in m_needs_link
    <3>1. op = "link" /\ q[i].obj = Objects!Current.obj
      BY <2>1, <2>2
    <3>2. q[at].op = "link" /\ q[at].obj = q[i].obj /\ at \in 1 .. at
      BY <3>1, RunningAction DEF Objects!Current
    <3> QED
      BY <3>2
  <2>3. CASE q[i].obj \notin m_needs_link
    BY <1>1, <1>2, <2>1, <2>3 DEF ObjectsInv, LinksWaiting
  <2> QED
    BY <2>2, <2>3
<1> QED
  BY <1>1, <1>3, <1>4 DEF ObjectsInv, DataOnTheWay, NamedByActions,
     Objects!InitializedIsSettled

\* An action throws: what it and those behind it had for a buffer is now dropped.
LEMMA ActionThrown ==
  ASSUME ObjectsInv, NEW op, Objects!Running(op), Objects!ActionThrows,
         UNCHANGED wanted,
         \A b \in Buffers : contents'[b] = contents[b] \/
           (op = "set_data" /\ b = Objects!Current.obj)
  PROVE  /\ DataOnTheWay' /\ NamedByActions' /\ Objects!InitializedIsSettled'
         /\ LinksWaiting'
<1> DEFINE q == m_prepare_frame_actions
<1>1. /\ q' = <<>> /\ named' = {} /\ at' = 1
      /\ dropped' = dropped \union Objects!Remaining
  BY DEF Objects!ActionThrows
<1>2. /\ at \in 1 .. Len(q) /\ q[at].op = op /\ Objects!Current = q[at]
  BY RunningAction
<1>3. ASSUME NEW b \in Buffers, b \notin dropped', Waiting(b) # {} PROVE FALSE
  <2>1. PICK i \in Waiting(b) : TRUE
    BY <1>3
  <2>2. i \in at .. Len(q) /\ q[i].obj = b /\ q[i].op # "compile"
    BY <2>1 DEF Waiting
  <2> QED
    BY <1>1, <1>3, <2>2 DEF Objects!Remaining
<1>4. ASSUME NEW b \in Buffers, b \notin dropped' PROVE contents'[b] = contents[b]
  <2>1. SUFFICES ASSUME op = "set_data", b = Objects!Current.obj PROVE FALSE
    OBVIOUS
  <2>2. at \in at .. Len(q) /\ q[at].obj = b /\ q[at].op # "compile"
    BY <1>2, <2>1
  <2> QED
    BY <1>1, <1>4, <2>2 DEF Objects!Remaining
<1>5. \A b : Waiting(b)' = {}
  BY <1>1 DEF Waiting
<1>6. DataOnTheWay'
  BY <1>1, <1>3, <1>4, <1>5 DEF ObjectsInv, DataOnTheWay
<1> QED
  BY <1>1, <1>6 DEF NamedByActions, Objects!InitializedIsSettled, LinksWaiting

\* A step of frame() that changes no object but the contents of a buffer and
\* the flags of shaders.
LEMMA OthersStay ==
  ASSUME ObjectsInv,
         UNCHANGED <<slot, attached, linked, wanted, m_needs_link, failedAgain,
                     careless, freedUse>>,
         contents' \in [Buffers -> Nat], named' \subseteq named,
         m_prepare_frame_actions' \in {m_prepare_frame_actions, <<>>},
         pc' \in {"idle", "prepare"}, at' \in Nat \ {0}, pc' = "idle" => at' = 1
  PROVE  /\ ObjectTypes' /\ CarefulKeepsAlive' /\ AttachedLater'
         /\ Objects!LinkedIsCurrent' /\ NoFreedUse'
<1>1. ObjectTypes'
  <2>1. m_prepare_frame_actions' \in Seq(QueuedAction)
    <3>1. m_prepare_frame_actions \in Seq(QueuedAction) /\ <<>> \in Seq(QueuedAction)
      BY DEF ObjectsInv, ObjectTypes
    <3> QED
      BY <3>1
  <2> QED
    BY <2>1 DEF ObjectsInv, ObjectTypes
<1>2. CarefulKeepsAlive' /\ AttachedLater' /\ NoFreedUse'
  BY DEF ObjectsInv, CarefulKeepsAlive, AttachedLater, NoFreedUse,
     Objects!NoFreedUse, Objects!Live
<1>3. Objects!LinkedIsCurrent'
  BY DEF ObjectsInv, Objects!LinkedIsCurrent, Objects!Live
<1> QED
  BY <1>1, <1>2, <1>3

\* So is one that ends the frame with an exception.
LEMMA NothingElse ==
  ASSUME ObjectsInv, Objects!ActionThrows,
         UNCHANGED <<slot, attached, linked, wanted, m_needs_link, failedAgain,
                     careless, freedUse>>,
         contents' \in [Buffers -> Nat]
  PROVE  /\ ObjectTypes' /\ CarefulKeepsAlive' /\ AttachedLater'
         /\ Objects!LinkedIsCurrent' /\ NoFreedUse'
<1>1. /\ named' \subseteq named /\ m_prepare_frame_actions' = <<>>
      /\ pc' = "idle" /\ at' = 1 /\ at' \in Nat \ {0}
  BY DEF Objects!ActionThrows
<1> QED
  BY <1>1, OthersStay

\* The calls between frames.
LEMMA ObjectCalls ==
  ASSUME ObjectsInv
  PROVE  /\ \A o \in Objects!Object :
              Objects!Create(o) \/ Objects!Destroy(o) => ObjectsInv'
         /\ \A s \in Shaders : Objects!Compile(s) => ObjectsInv'
         /\ \A p \in Programs, s \in Shaders : Objects!SetShader(p, s) => ObjectsInv'
         /\ \A p \in Programs : Objects!Link(p) => ObjectsInv'
         /\ \A b \in Buffers : Objects!SetData(b) => ObjectsInv'
<1> USE DEF ObjectsInv, Objects!frameVars, Objects!objectVars,
        Objects!linkVars, Objects!Live
<1>1. ASSUME NEW o \in Objects!Object, Objects!Create(o) PROVE ObjectsInv'
  <2> USE <1>1 DEF Objects!Create
  <2>1. ObjectTypes'
    BY DEF ObjectTypes
  <2>2. CarefulKeepsAlive' /\ AttachedLater'
    BY DEF CarefulKeepsAlive, ObjectTypes, AttachedLater
  <2>3. Objects!LinkedIsCurrent'
    BY DEF Objects!LinkedIsCurrent, ObjectTypes
  <2>4. NamedByActions' /\ Objects!InitializedIsSettled' /\ DataOnTheWay' /\
      LinksWaiting'
    BY DEF LinksWaiting, NamedByActions, Objects!InitializedIsSettled, DataOnTheWay, Waiting
  <2> QED
    BY <2>1, <2>2, <2>3, <2>4 DEF NoFreedUse, Objects!NoFreedUse
<1>2. ASSUME NEW o \in Objects!Object, Objects!Destroy(o) PROVE ObjectsInv'
  <2> USE <1>2 DEF Objects!Destroy
  <2>1. ObjectTypes'
    BY DEF ObjectTypes
  <2>2. CarefulKeepsAlive'
    <3>1. SUFFICES ASSUME ~careless'
                   PROVE  /\ \A x \in named : x \in Objects!Object /\ slot'[x] = "live"
                          /\ \A p \in Programs : slot'[p] = "live" =>
                               \A s \in attached[p] : slot'[s] = "live"
      BY DEF CarefulKeepsAlive
    <3>2. /\ ~careless /\ o \notin named
          /\ \A p \in Programs : slot[p] = "live" => o \notin attached[p]
      BY <3>1 DEF Objects!Unused
    <3>3. /\ \A x \in Objects!Object \ {o} : slot'[x] = slot[x]
          /\ slot'[o] = "destroyed"
      BY DEF ObjectTypes
    <3>4. \A p \in Programs : slot'[p] = "live" =>
            \A s \in attached[p] : s \in Objects!Object \ {o} /\ slot[p] = "live"
      BY <3>2, <3>3 DEF ObjectTypes, Objects!Object
    <3> QED
      BY <3>2, <3>3, <3>4 DEF CarefulKeepsAlive
  <2>3. Objects!LinkedIsCurrent' /\ AttachedLater'
    BY DEF Objects!LinkedIsCurrent, ObjectTypes, AttachedLater
  <2>4. NamedByActions' /\ Objects!InitializedIsSettled' /\ DataOnTheWay' /\
      LinksWaiting'
    BY DEF LinksWaiting, NamedByActions, Objects!InitializedIsSettled, DataOnTheWay, Waiting
  <2> QED
    BY <2>1, <2>2, <2>3, <2>4 DEF NoFreedUse, Objects!NoFreedUse
<1>3. ASSUME NEW s \in Shaders, Objects!Compile(s) PROVE ObjectsInv'
  <2> DEFINE a == [op |-> "compile", obj |-> s]
  <2>1. /\ pc = "idle" /\ a \in QueuedAction /\ a.op # "set_data"
        /\ Objects!PrepareFrame(a) /\ Objects!Live(s)
        /\ UNCHANGED <<slot, attached, linked, contents, wanted, pc, at,
                       m_needs_link, failedAgain, dropped, careless,
                       freedUse>>
        /\ m_initialized' = m_initialized \ {s}
        /\ named' = named \union {s}
    BY <1>3 DEF Objects!Compile, QueuedAction, Objects!PrepareFrame,
                Objects!Captures
  <2>2. /\ m_prepare_frame_actions' \in Seq(QueuedAction) /\ NamedByActions'
        /\ LinksWaiting'
        /\ \A i \in DOMAIN m_prepare_frame_actions' :
             \/ i \in DOMAIN m_prepare_frame_actions
                /\ m_prepare_frame_actions'[i] = m_prepare_frame_actions[i]
             \/ m_prepare_frame_actions'[i] = a
    BY <2>1, ActionQueued
  <2>3. DataOnTheWay'
    BY <2>1, OtherActionQueued
  <2>4. Objects!InitializedIsSettled'
    BY <2>1, <2>2 DEF Objects!InitializedIsSettled
  <2>5. ObjectTypes' /\ CarefulKeepsAlive' /\ AttachedLater' /\ Objects!LinkedIsCurrent'
    BY <2>1, <2>2 DEF ObjectTypes, CarefulKeepsAlive, AttachedLater,
                      Objects!LinkedIsCurrent, Objects!Object
  <2> QED
    BY <2>1, <2>2, <2>3, <2>4, <2>5 DEF NoFreedUse, Objects!NoFreedUse
<1>4. ASSUME NEW p \in Programs, NEW s \in Shaders, Objects!SetShader(p, s)
      PROVE  ObjectsInv'
  <2> DEFINE a == [op |-> "set_shader", obj |-> p, shader |-> s]
  <2>1. /\ pc = "idle" /\ a \in QueuedAction /\ a.op # "set_data"
        /\ a.op # "compile"
        /\ Objects!PrepareFrame(a) /\ Objects!Live(p) /\ Objects!Live(s)
        /\ UNCHANGED <<slot, attached, linked, contents, wanted, pc, at,
                       m_needs_link, m_initialized, failedAgain, dropped, careless,
                       freedUse>>
        /\ named' = named \union {p, s}
    BY <1>4 DEF Objects!SetShader, QueuedAction, Objects!PrepareFrame,
                Objects!Captures
  <2>2. /\ m_prepare_frame_actions' \in Seq(QueuedAction) /\ NamedByActions'
        /\ LinksWaiting'
        /\ \A i \in DOMAIN m_prepare_frame_actions' :
             \/ i \in DOMAIN m_prepare_frame_actions
                /\ m_prepare_frame_actions'[i] = m_prepare_frame_actions[i]
             \/ m_prepare_frame_actions'[i] = a
    BY <2>1, ActionQueued
  <2>3. DataOnTheWay'
    BY <2>1, OtherActionQueued
  <2>4. Objects!InitializedIsSettled'
    BY <2>1, <2>2 DEF Objects!InitializedIsSettled
  <2>5. ObjectTypes' /\ CarefulKeepsAlive' /\ AttachedLater' /\ Objects!LinkedIsCurrent'
    BY <2>1, <2>2 DEF ObjectTypes, CarefulKeepsAlive, AttachedLater,
                      Objects!LinkedIsCurrent, Objects!Object
  <2> QED
    BY <2>1, <2>2, <2>3, <2>4, <2>5 DEF NoFreedUse, Objects!NoFreedUse
<1>5. ASSUME NEW p \in Programs, Objects!Link(p) PROVE ObjectsInv'
  <2> DEFINE a == [op |-> "link", obj |-> p]
  <2>1. /\ pc = "idle" /\ Objects!Live(p)
        /\ UNCHANGED <<slot, attached, linked, contents, wanted, pc, at,
                       m_needs_link, m_initialized, failedAgain, dropped, careless,
                       freedUse>>
    BY <1>5 DEF Objects!Link
  <2>2. CASE Objects!LinkNeeded(p)
    <3>1. /\ a \in QueuedAction /\ a.op # "set_data" /\ a.op # "compile"
          /\ Objects!PrepareFrame(a) /\ named' = named \union {p}
          /\ a.obj \in m_needs_link
      BY <1>5, <2>2 DEF Objects!Link, Objects!LinkNeeded, QueuedAction, Objects!PrepareFrame,
                        Objects!Captures
    <3>2. /\ m_prepare_frame_actions' \in Seq(QueuedAction) /\ NamedByActions'
        /\ LinksWaiting'
          /\ \A i \in DOMAIN m_prepare_frame_actions' :
               \/ i \in DOMAIN m_prepare_frame_actions
                  /\ m_prepare_frame_actions'[i] = m_prepare_frame_actions[i]
               \/ m_prepare_frame_actions'[i] = a
      BY <2>1, <3>1, ActionQueued
    <3>3. DataOnTheWay'
      BY <2>1, <3>1, OtherActionQueued
    <3>4. Objects!InitializedIsSettled'
      BY <2>1, <3>1, <3>2 DEF Objects!InitializedIsSettled
    <3>5. ObjectTypes' /\ CarefulKeepsAlive' /\ AttachedLater' /\ Objects!LinkedIsCurrent'
      BY <2>1, <3>1, <3>2 DEF ObjectTypes, CarefulKeepsAlive, AttachedLater,
                              Objects!LinkedIsCurrent, Objects!Object
    <3> QED
      BY <2>1, <3>2, <3>3, <3>4, <3>5 DEF NoFreedUse, Objects!NoFreedUse
  <2>3. CASE ~Objects!LinkNeeded(p)
    <3>1. UNCHANGED <<m_prepare_frame_actions, named>>
      BY <1>5, <2>3 DEF Objects!Link
    <3> QED
      BY <2>1, <3>1 DEF ObjectTypes, NamedByActions, CarefulKeepsAlive,
         AttachedLater, Objects!LinkedIsCurrent, Objects!InitializedIsSettled,
         LinksWaiting, DataOnTheWay, Waiting, NoFreedUse, Objects!NoFreedUse
  <2> QED
    BY <2>2, <2>3
<1>6. ASSUME NEW b \in Buffers, Objects!SetData(b) PROVE ObjectsInv'
  <2> DEFINE a == [op |-> "set_data", obj |-> b, version |-> wanted[b] + 1]
             q == m_prepare_frame_actions
             n == Len(q) + 1
  <2>1. /\ pc = "idle" /\ a \in QueuedAction /\ a.op # "compile"
        /\ Objects!PrepareFrame(a) /\ Objects!Live(b)
        /\ UNCHANGED <<slot, attached, linked, contents, pc, at,
                       m_needs_link, m_initialized, failedAgain, dropped, careless,
                       freedUse>>
        /\ named' = named \union {b}
        /\ wanted' = [wanted EXCEPT ![b] = @ + 1]
        /\ at = 1
    BY <1>6 DEF Objects!SetData, QueuedAction, Objects!PrepareFrame,
                Objects!Captures, ObjectTypes
  <2>2. /\ q' \in Seq(QueuedAction) /\ NamedByActions' /\ LinksWaiting'
        /\ \A i \in DOMAIN q' :
             \/ i \in DOMAIN q /\ q'[i] = q[i]
             \/ q'[i] = a
    BY <2>1, ActionQueued
  <2>3. DataOnTheWay'
    <3>1. /\ Len(q') = n /\ q'[n] = a /\ Len(q) \in Nat
          /\ \A i \in 1 .. Len(q) : q'[i] = q[i]
      BY <2>1 DEF Objects!PrepareFrame, ObjectTypes
    <3>2. wanted'[b] = wanted[b] + 1 /\ \A c \in Buffers \ {b} : wanted'[c] = wanted[c]
      BY <2>1 DEF ObjectTypes
    <3>3. n \in Waiting(b)' /\ \A i \in Waiting(b)' : i <= n
      BY <2>1, <3>1 DEF Waiting
    <3>4. ASSUME NEW c \in Buffers \ {b} PROVE Waiting(c)' = Waiting(c)
      BY <2>1, <3>1 DEF Waiting
    <3>5. ASSUME NEW c \in Buffers \ {b}, NEW i \in Waiting(c)
          PROVE  q'[i] = q[i]
      BY <2>1, <3>1 DEF Waiting
    <3>6. ASSUME NEW i \in Waiting(b)', \A j \in Waiting(b)' : j <= i
          PROVE  q'[i].version = wanted'[b]
      <4>1. i = n
        BY <2>1, <3>1, <3>3, <3>6 DEF Waiting
      <4> QED
        BY <3>1, <3>2, <4>1
    <3>7. ASSUME NEW c \in Buffers \ {b}
          PROVE  /\ Waiting(c)' = {} /\ c \notin dropped' => contents'[c] = wanted'[c]
                 /\ \A i \in Waiting(c)' :
                      (\A j \in Waiting(c)' : j <= i) => q'[i].version = wanted'[c]
      BY <2>1, <3>2, <3>4, <3>5 DEF DataOnTheWay
    <3> QED
      BY <3>3, <3>6, <3>7 DEF DataOnTheWay
  <2>4. Objects!InitializedIsSettled'
    BY <2>1, <2>2 DEF Objects!InitializedIsSettled
  <2>5. ObjectTypes' /\ CarefulKeepsAlive' /\ AttachedLater' /\ Objects!LinkedIsCurrent'
    BY <2>1, <2>2 DEF ObjectTypes, CarefulKeepsAlive, AttachedLater,
                      Objects!LinkedIsCurrent, Objects!Object
  <2> QED
    BY <2>1, <2>2, <2>3, <2>4, <2>5 DEF NoFreedUse, Objects!NoFreedUse
<1> QED
  BY <1>1, <1>2, <1>3, <1>4, <1>5, <1>6

\* The actions frame() runs, and its end.
LEMMA ObjectActions ==
  ASSUME ObjectsInv
  PROVE  /\ Objects!RunCompile \/ Objects!RunCompileFails => ObjectsInv'
         /\ Objects!RunSetShader \/ Objects!RunLink \/ Objects!RunLinkFails => ObjectsInv'
         /\ Objects!RunSetData \/ Objects!RunSetDataFails => ObjectsInv'
         /\ Objects!RunOnFreedObject => ObjectsInv'
         /\ Objects!FrameBegin \/ Objects!PrepareDone => ObjectsInv'
<1> USE DEF ObjectsInv, Objects!frameVars, Objects!objectVars,
        Objects!linkVars, Objects!Live
<1>1. CASE Objects!RunCompile
  <2>1. DataOnTheWay' /\ NamedByActions' /\ Objects!InitializedIsSettled' /\
      LinksWaiting'
    BY <1>1, OtherActionReturns DEF Objects!RunCompile
  <2>2. /\ UNCHANGED <<slot, attached, linked, contents, wanted, m_needs_link,
                       failedAgain, careless, freedUse, named,
                       m_prepare_frame_actions, pc>>
        /\ pc = "prepare" /\ at' \in Nat \ {0} /\ contents \in [Buffers -> Nat]
    BY <1>1, RunningAction
       DEF Objects!RunCompile, Objects!ActionDone, ObjectTypes
  <2> QED
    BY <2>1, <2>2, OthersStay
<1>2. CASE Objects!RunCompileFails
  <2>1. DataOnTheWay' /\ NamedByActions' /\ Objects!InitializedIsSettled' /\
      LinksWaiting'
    BY <1>2, ActionThrown DEF Objects!RunCompileFails
  <2>2. /\ Objects!ActionThrows /\ contents' \in [Buffers -> Nat]
        /\ UNCHANGED <<slot, attached, linked, wanted, m_needs_link, failedAgain,
                       careless, freedUse>>
    BY <1>2 DEF Objects!RunCompileFails, ObjectTypes
  <2> QED
    BY <2>1, <2>2, NothingElse
<1>3. CASE Objects!RunSetShader
  <2> DEFINE p == Objects!Current.obj
             s == Objects!Current.shader
  <2>1. /\ p \in Programs /\ s \in Shaders /\ pc = "prepare"
        /\ Objects!Live(p) /\ Objects!Live(s)
    BY <1>3, RunningAction DEF Objects!RunSetShader, QueuedAction
  <2>2. UNCHANGED <<slot, m_initialized, m_ready, linked, contents, wanted,
                    linkCalled, failedAgain, careless, freedUse>>
    BY <1>3 DEF Objects!RunSetShader
  <2>3. CASE s \notin m_initialized
    <3>1. /\ Objects!Running("set_shader") /\ Objects!ActionThrows
          /\ UNCHANGED <<attached, m_needs_link>>
      BY <1>3, <2>3 DEF Objects!RunSetShader
    <3>2. DataOnTheWay' /\ NamedByActions' /\ Objects!InitializedIsSettled' /\
      LinksWaiting'
      BY <2>2, <3>1, ActionThrown
    <3>3. contents' \in [Buffers -> Nat]
      BY <2>2 DEF ObjectTypes
    <3> QED
      BY <2>2, <3>1, <3>2, <3>3, NothingElse
  <2>4. CASE s \in m_initialized
    <3>1. /\ Objects!Running("set_shader") /\ Objects!ActionDone
          /\ attached' = [attached EXCEPT ![p] = @ \union {s}]
          /\ m_needs_link' = m_needs_link \union {p}
      BY <1>3, <2>4 DEF Objects!RunSetShader
    <3>2. DataOnTheWay' /\ NamedByActions' /\ Objects!InitializedIsSettled' /\
      LinksWaiting'
      BY <2>2, <3>1, OtherActionReturns
    <3> HIDE DEF p, s
    <3>3. ObjectTypes'
      BY <2>1, <2>2, <3>1 DEF Objects!ActionDone, ObjectTypes
    <3> QED
      BY <2>1, <2>2, <3>1, <3>2, <3>3
         DEF Objects!ActionDone, ObjectTypes, CarefulKeepsAlive, AttachedLater,
             Objects!LinkedIsCurrent, NoFreedUse, Objects!NoFreedUse
  <2> QED
    BY <2>3, <2>4
<1>4. CASE Objects!RunLink
  <2> DEFINE p == Objects!Current.obj
  <2>1. Objects!Running("link")
    BY <1>4 DEF Objects!RunLink, Objects!LinkRuns
  <2>2. /\ Objects!ActionDone /\ m_needs_link' = m_needs_link \ {p}
        /\ linked' = [linked EXCEPT ![p] = {attached[p]}]
        /\ UNCHANGED <<slot, m_initialized, attached, contents, wanted,
                       failedAgain, careless, freedUse>>
    BY <1>4 DEF Objects!RunLink
  <2>3. /\ p \in Programs /\ pc = "prepare" /\ Objects!Live(p)
    BY <2>1, RunningAction DEF QueuedAction
  <2>4. DataOnTheWay' /\ NamedByActions' /\ Objects!InitializedIsSettled' /\
        LinksWaiting'
    BY <2>1, <2>2, OtherActionReturns
  <2> HIDE DEF p
  <2> QED
    BY <2>1, <2>2, <2>3, <2>4
       DEF Objects!ActionDone, ObjectTypes, CarefulKeepsAlive, AttachedLater,
           Objects!LinkedIsCurrent, NoFreedUse, Objects!NoFreedUse
<1>9. CASE Objects!RunLinkFails
  <2> DEFINE p == Objects!Current.obj
  <2>1. Objects!Running("link")
    BY <1>9 DEF Objects!RunLinkFails, Objects!LinkRuns
  <2>2. /\ Objects!ActionThrows /\ linked' = [linked EXCEPT ![p] = {}]
        /\ failedAgain' = IF Objects!LinkedBefore THEN failedAgain \union {p}
                          ELSE failedAgain
        /\ UNCHANGED <<slot, m_initialized, m_needs_link, attached, contents,
                       wanted, careless, freedUse>>
    BY <1>9 DEF Objects!RunLinkFails
  <2>3. /\ p \in Programs /\ pc = "prepare" /\ Objects!Live(p)
        /\ at \in 1 .. Len(m_prepare_frame_actions)
        /\ m_prepare_frame_actions[at].op = "link"
        /\ m_prepare_frame_actions[at].obj = p
    BY <2>1, RunningAction DEF QueuedAction
  <2>4. DataOnTheWay' /\ NamedByActions' /\ Objects!InitializedIsSettled' /\
        LinksWaiting'
    BY <2>1, <2>2, ActionThrown
  <2>5. p \in m_needs_link \/ Objects!LinkedBefore
    BY <2>3 DEF LinksWaiting, Objects!LinkedBefore
  <2> HIDE DEF p
  <2>6. Objects!LinkedIsCurrent'
    BY <2>2, <2>3, <2>5 DEF Objects!LinkedIsCurrent, ObjectTypes
  <2> QED
    BY <2>2, <2>3, <2>4, <2>6
       DEF Objects!ActionThrows, ObjectTypes, CarefulKeepsAlive,
           AttachedLater, NoFreedUse, Objects!NoFreedUse
<1>5. CASE Objects!RunSetData
  <2> DEFINE q == m_prepare_frame_actions
  <2>0. Objects!Current.obj \in Buffers
    BY <1>5, RunningAction DEF Objects!RunSetData, QueuedAction
  <2>1. PICK b \in Buffers :
        /\ b = Objects!Current.obj /\ q[at].version \in Nat /\ q[at].obj = b
        /\ q[at].op = "set_data" /\ pc = "prepare" /\ at \in 1 .. Len(q)
        /\ Objects!Current.version = q[at].version
    BY <1>5, <2>0, RunningAction DEF Objects!RunSetData, QueuedAction
  <2>2. /\ contents' = [contents EXCEPT ![b] = q[at].version]
        /\ dropped' = dropped \ {b} /\ at' = at + 1
        /\ UNCHANGED <<slot, m_initialized, m_ready, m_needs_link, attached,
                       linked, pc, m_prepare_frame_actions, wanted, linkCalled,
                       failedAgain, named, careless, freedUse>>
    BY <1>5, <2>1 DEF Objects!RunSetData
  <2>3. at \in Nat /\ Len(q) \in Nat
    BY DEF ObjectTypes
  <2>4. \A c \in Buffers : Waiting(c)' = Waiting(c) \ {at}
    BY <2>1, <2>2, <2>3 DEF Waiting
  <2>5. at \in Waiting(b) /\ \A c \in Buffers \ {b} : at \notin Waiting(c)
    BY <2>1, <2>3 DEF Waiting
  <2>6. \A c \in Buffers : \A i \in Waiting(c) : i \in Nat /\ at <= i
    BY <2>3 DEF Waiting
  <2>7. ASSUME NEW c \in Buffers
        PROVE  /\ Waiting(c)' = {} /\ c \notin dropped' => contents'[c] = wanted[c]
               /\ \A i \in Waiting(c)' :
                    (\A j \in Waiting(c)' : j <= i) => q[i].version = wanted[c]
    <3>1. CASE c = b
      <4>1. contents'[b] = q[at].version
        BY <2>1, <2>2 DEF ObjectTypes
      <4>2. Waiting(b)' = {} => q[at].version = wanted[b]
        BY <2>1, <2>3, <2>4, <2>5 DEF DataOnTheWay
      <4>3. \A i \in Waiting(b)' :
              (\A j \in Waiting(b)' : j <= i) => (\A j \in Waiting(b) : j <= i)
        BY <2>1, <2>4, <2>6
      <4> QED
        BY <2>1, <2>4, <3>1, <4>1, <4>2, <4>3 DEF DataOnTheWay
    <3>2. CASE c # b
      <4>1. Waiting(c)' = Waiting(c)
        BY <2>1, <2>2, <2>3, <3>2 DEF Waiting
      <4>2. contents'[c] = contents[c] /\ (c \in dropped' <=> c \in dropped)
        BY <2>1, <2>2, <3>2 DEF ObjectTypes
      <4> QED
        BY <4>1, <4>2 DEF DataOnTheWay
    <3> QED
      BY <3>1, <3>2
  <2>8. DataOnTheWay'
    BY <2>2, <2>7 DEF DataOnTheWay
  <2>9. ObjectTypes'
    BY <2>1, <2>2 DEF ObjectTypes
  <2> QED
    BY <2>1, <2>2, <2>8, <2>9
       DEF NamedByActions, LinksWaiting, CarefulKeepsAlive, AttachedLater,
           Objects!LinkedIsCurrent, Objects!InitializedIsSettled, NoFreedUse,
           Objects!NoFreedUse
<1>10. CASE Objects!RunSetDataFails
  <2>1. /\ Objects!Running("set_data") /\ Objects!ActionThrows
        /\ UNCHANGED <<slot, m_initialized, m_ready, m_needs_link, attached,
                       linked, wanted, failedAgain, careless, freedUse>>
    BY <1>10 DEF Objects!RunSetDataFails
  <2>2. PICK b \in Buffers, v \in Nat :
          b = Objects!Current.obj /\ contents' = [contents EXCEPT ![b] = v]
    <3>1. /\ Objects!Current.obj \in Buffers /\ Objects!Current.version \in Nat
          /\ contents[Objects!Current.obj] \in Nat
      BY <2>1, RunningAction DEF QueuedAction, ObjectTypes
    <3> QED
      BY <1>10, <3>1 DEF Objects!RunSetDataFails
  <2>3. /\ contents' \in [Buffers -> Nat]
        /\ \A c \in Buffers : contents'[c] = contents[c] \/ c = b
    BY <2>2 DEF ObjectTypes
  <2>4. DataOnTheWay' /\ NamedByActions' /\ Objects!InitializedIsSettled' /\
        LinksWaiting'
    BY <2>1, <2>2, <2>3, ActionThrown
  <2> QED
    BY <2>1, <2>3, <2>4, NothingElse
<1>6. CASE Objects!RunOnFreedObject
  <2>1. /\ pc = "prepare" /\ pc' = "undefined" /\ at \in 1 .. Len(m_prepare_frame_actions)
        /\ UNCHANGED <<slot, m_initialized, m_ready, m_needs_link, attached,
                       linked, contents, at, m_prepare_frame_actions, wanted,
                       linkCalled, failedAgain, named, dropped, careless>>
    BY <1>6 DEF Objects!RunOnFreedObject, ObjectTypes
  <2>2. Objects!Current \in QueuedAction
        /\ Objects!Captures(Objects!Current) \subseteq named
    BY <2>1 DEF ObjectTypes, NamedByActions, Objects!Current
  <2>3. ~careless => \A o \in Objects!Used(Objects!Current) : Objects!Live(o)
    BY <2>2 DEF CarefulKeepsAlive, Objects!Used, Objects!Captures, QueuedAction
  <2>4. NoFreedUse'
    BY <1>6, <2>1, <2>3 DEF Objects!RunOnFreedObject, NoFreedUse,
                            Objects!NoFreedUse
  <2>5. ObjectTypes' /\ NamedByActions' /\ CarefulKeepsAlive' /\ AttachedLater'
    BY <2>1 DEF ObjectTypes, NamedByActions, CarefulKeepsAlive, AttachedLater
  <2>6. LinksWaiting' /\ DataOnTheWay'
    BY <2>1 DEF LinksWaiting, DataOnTheWay, Waiting
  <2>7. Objects!LinkedIsCurrent' /\ Objects!InitializedIsSettled'
    BY <2>1 DEF Objects!LinkedIsCurrent, Objects!InitializedIsSettled
  <2> QED
    BY <2>4, <2>5, <2>6, <2>7
<1>7. CASE Objects!FrameBegin
  <2>1. /\ pc' = "prepare" /\ at = 1 /\ at' = 1
        /\ UNCHANGED <<slot, m_initialized, m_ready, m_needs_link, attached,
                       linked, contents, m_prepare_frame_actions, wanted,
                       linkCalled, failedAgain, named, dropped, careless, freedUse>>
    BY <1>7 DEF Objects!FrameBegin, ObjectTypes
  <2>2. at' \in Nat \ {0} /\ contents' \in [Buffers -> Nat]
    BY <2>1 DEF ObjectTypes
  <2>3. /\ ObjectTypes' /\ CarefulKeepsAlive' /\ AttachedLater'
        /\ Objects!LinkedIsCurrent' /\ NoFreedUse'
    BY <2>1, <2>2, OthersStay
  <2>4. LinksWaiting' /\ DataOnTheWay'
    BY <2>1 DEF LinksWaiting, DataOnTheWay, Waiting
  <2>5. NamedByActions' /\ Objects!InitializedIsSettled'
    BY <2>1 DEF NamedByActions, Objects!InitializedIsSettled
  <2> QED
    BY <2>3, <2>4, <2>5
<1>8. CASE Objects!PrepareDone
  <2>0. /\ pc' = "idle" /\ at' = 1 /\ m_prepare_frame_actions' = <<>> /\ named' = {}
        /\ at > Len(m_prepare_frame_actions)
        /\ UNCHANGED <<slot, m_initialized, m_ready, m_needs_link, attached,
                       linked, contents, wanted, failedAgain, dropped, careless,
                       freedUse>>
    BY <1>8 DEF Objects!PrepareDone
  <2>1. \A b \in Buffers : Waiting(b) = {} /\ Waiting(b)' = {}
    BY <2>0 DEF ObjectTypes, Waiting
  <2>2. DataOnTheWay'
    BY <2>0, <2>1 DEF DataOnTheWay
  <2>3. at' \in Nat \ {0} /\ contents' \in [Buffers -> Nat] /\ named' \subseteq named
    BY <2>0 DEF ObjectTypes
  <2>4. /\ ObjectTypes' /\ CarefulKeepsAlive' /\ AttachedLater'
        /\ Objects!LinkedIsCurrent' /\ NoFreedUse'
    BY <2>0, <2>3, OthersStay
  <2>5. NamedByActions' /\ Objects!InitializedIsSettled' /\ LinksWaiting'
    BY <2>0 DEF NamedByActions, Objects!InitializedIsSettled, LinksWaiting
  <2> QED
    BY <2>2, <2>4, <2>5
<1> QED
  BY <1>1, <1>2, <1>3, <1>4, <1>5, <1>6, <1>7, <1>8, <1>9, <1>10

LEMMA ObjectsStep ==
  ASSUME ObjectsInv, [Objects!Next]_objectVars
  PROVE  ObjectsInv'
<1>1. CASE Objects!Next
  BY <1>1, ObjectCalls, ObjectActions DEF Objects!Next
<1>2. CASE UNCHANGED objectVars
  <2> USE <1>2 DEF objectVars, ObjectsInv
  <2>1. ObjectTypes' /\ NamedByActions'
    BY DEF ObjectTypes, NamedByActions
  <2>2. CarefulKeepsAlive' /\ AttachedLater' /\ NoFreedUse'
    BY DEF CarefulKeepsAlive, AttachedLater, Objects!Live, NoFreedUse,
       Objects!NoFreedUse
  <2>3. LinksWaiting' /\ DataOnTheWay'
    BY DEF LinksWaiting, DataOnTheWay, Waiting
  <2>4. Objects!LinkedIsCurrent' /\ Objects!InitializedIsSettled'
    BY DEF Objects!LinkedIsCurrent, Objects!InitializedIsSettled, Objects!Live
  <2> QED
    BY <2>1, <2>2, <2>3, <2>4
<1> QED
  BY <1>1, <1>2

LEMMA ObjectsStart == ContextInit => ObjectsInv
<1> SUFFICES ASSUME ContextInit PROVE ObjectsInv
  OBVIOUS
<1> USE DEF ContextInit, Objects!Init
<1>1. ObjectTypes /\ NamedByActions /\ LinksWaiting
  BY DEF ObjectTypes, NamedByActions, LinksWaiting
<1>2. CarefulKeepsAlive /\ AttachedLater /\ Objects!LinkedIsCurrent
  BY DEF CarefulKeepsAlive, AttachedLater, Objects!LinkedIsCurrent, Objects!Live,
         Objects!Object
<1>3. Objects!InitializedIsSettled /\ NoFreedUse
  BY DEF Objects!InitializedIsSettled, NoFreedUse, Objects!NoFreedUse
<1>4. DataOnTheWay
  BY DEF LinksWaiting, DataOnTheWay, Waiting
<1> QED
  BY <1>1, <1>2, <1>3, <1>4 DEF ObjectsInv

LEMMA ObjectsPart == ContextNext => [Objects!Next]_objectVars
  BY DEF ContextNext, objectVars

LEMMA ObjectsAlways == ContextSpec => []ObjectsInv
<1>1. ObjectsInv /\ [ContextNext]_<<part, vars, objectVars, loopVars, uniVars,
                                    setVars, cacheVars>> => ObjectsInv'
  BY ObjectsStep, ObjectsPart
<1> QED
  BY ObjectsStart, <1>1, PTL DEF ContextSpec

\* Clients that destroy an object only when no call since the last frame()
\* named it and no program keeps it never make an action of frame() use freed
\* memory, for every number of objects and of actions.
THEOREM CarefulClientsAreSafe == ContextSpec => []NoFreedUse
  BY ObjectsAlways, PTL DEF ObjectsInv

\* Whichever compilations, links and uploads fail, a program that says it needs
\* no link was linked with exactly what is attached to it, or is not linked
\* because the second of two links in one frame failed; and between frames a
\* shader that says it is initialized has no compilation outstanding.
THEOREM ObjectFlagsAreCurrent == ContextSpec => []FlagsAreCurrent
<1>1. ObjectsInv => FlagsAreCurrent
  BY DEF ObjectsInv, FlagsAreCurrent, Objects!FlagsAreCurrent
<1> QED
  BY <1>1, ObjectsAlways, PTL

\* After a frame a buffer holds the data last given to it, unless the last
\* upload to it failed or was dropped behind an action that failed.
THEOREM BuffersHoldLastData == ContextSpec => []LastDataWins
<1>1. ObjectsInv => LastDataWins
  <2> SUFFICES ASSUME ObjectsInv, NEW b \in Buffers, pc = "idle",
                      m_prepare_frame_actions = <<>>, b \notin dropped
               PROVE  contents[b] = wanted[b]
    BY DEF LastDataWins, Objects!LastDataWins
  <2>1. Waiting(b) = {}
    BY DEF Waiting, ObjectsInv, ObjectTypes
  <2> QED
    BY <2>1 DEF ObjectsInv, DataOnTheWay
<1> QED
  BY <1>1, ObjectsAlways, PTL

------------------------------------------------------------------------------
(* The loops over the draws of a pass.                                     *)

DeviceState == [blend : BOOLEAN, scissor : {"pass", "own"}, cull : BOOLEAN,
                write : BOOLEAN, func : {"LESS", "ALWAYS"}]
DrawCall == [draw : Nat, with : DeviceState]

LoopTypes ==
  /\ backend \in {"vulkan", "dx12", "dx11", "opengl"}
  /\ draws \in Seq(Loops!DrawState) /\ loop \in {"none", "first", "second"}
  /\ drawn_at \in Nat \ {0} /\ blend_pass_needed \in BOOLEAN
  /\ current_scissor \in {"pass", "own"} /\ device \in DeviceState
  /\ executed \in Seq(DrawCall) /\ failed \in BOOLEAN

\* Two backends keep the state of a draw in a pipeline, two switch the device.
Switches == backend \in {"dx11", "opengl"}
Opaque(i) == ~draws[i].blend

\* The device between two draw calls: the scissor is the one remembered, and
\* unless a draw has thrown depth is written, and blending is off until the
\* second loop of OpenGL.
DeviceFollows ==
  /\ Loops!InPass => device.scissor = current_scissor
  /\ ~failed /\ Switches => device.write
  /\ ~failed /\ Switches /\ loop # "second" => ~device.blend
  /\ loop = "second" /\ backend = "opengl" => device.blend

\* A draw call with state w has what is said of a draw recorded as r.
HasState(w, r) ==
  /\ w.scissor = Loops!Effective(r)
  /\ ~Switches \/ ~failed => w.blend = r.blend
  /\ ~Switches \/ ~failed \/ ~r.write => w.write = r.write
  /\ backend # "opengl" => w.cull = r.cull
  /\ backend # "dx11" \/ ~r.write => w.func = r.func

\* Every draw call was made with the state of its draw.
CallsHaveState ==
  Loops!InPass => \A k \in 1 .. Len(executed) :
    /\ executed[k].draw \in 1 .. Len(draws)
    /\ HasState(executed[k].with, draws[executed[k].draw])

CallsOf(i) == {k \in 1 .. Len(executed) : executed[k].draw = i}

\* The progress of the two loops: how often each draw has been executed, what
\* came before a blended one and after it, and what the first loop has seen.
Progress ==
  /\ Loops!InPass =>
       /\ \A i \in 1 .. Len(draws) : Cardinality(CallsOf(i)) = Loops!Times(i)
       /\ \A k \in 1 .. Len(executed) : ~Opaque(executed[k].draw) =>
            /\ \A i \in 1 .. Len(draws) : Opaque(i) =>
                 \E j \in 1 .. Len(executed) : executed[j].draw = i /\ j < k
            /\ Switches => \A j \in 1 .. Len(executed) :
                             k < j => ~Opaque(executed[j].draw)
  /\ loop = "first" =>
       /\ \A k \in 1 .. Len(executed) : Opaque(executed[k].draw)
       /\ ~blend_pass_needed => \A i \in 1 .. Len(draws) :
                                  i < drawn_at => Opaque(i)

LoopsInv == LoopTypes /\ DeviceFollows /\ CallsHaveState /\ Progress

\* What a draw call sets on the device before it, and what stays after it.
LEMMA CallState ==
  ASSUME NEW d \in Loops!DrawState, NEW dev \in DeviceState,
         backend \in {"vulkan", "dx12", "dx11", "opengl"}
  PROVE  /\ Loops!Before(d, dev) \in DeviceState
         /\ Loops!Before(d, dev).scissor = dev.scissor
         /\ Loops!Before(d, dev).write = IF Switches THEN dev.write /\ d.write
                                                  ELSE d.write
         /\ backend # "opengl" => Loops!Before(d, dev).cull = d.cull
         /\ backend # "dx11" \/ ~d.write => Loops!Before(d, dev).func = d.func
         /\ Loops!Before(d, dev).blend =
              CASE backend = "dx11"   -> dev.blend \/ loop = "second"
                [] backend = "opengl" -> dev.blend
                [] OTHER              -> d.blend
<1>1. CASE backend \in {"vulkan", "dx12"}
  <2>1. Loops!Before(d, dev) =
          [blend |-> d.blend, scissor |-> dev.scissor, cull |-> d.cull,
           write |-> d.write, func |-> d.func]
    BY <1>1 DEF Loops!Before, Loops!VulkanBefore, Loops!Dx12Before,
       Loops!DrawState
  <2> QED
    BY <1>1, <2>1 DEF Loops!DrawState, DeviceState, Switches
<1>2. CASE backend = "dx11"
  <2>1. Loops!Before(d, dev) =
          [blend |-> dev.blend \/ loop = "second", scissor |-> dev.scissor,
           cull |-> d.cull, write |-> dev.write /\ d.write,
           func |-> IF d.write THEN dev.func ELSE d.func]
    BY <1>2 DEF Loops!Before, Loops!Dx11Before, DeviceState
  <2> QED
    BY <1>2, <2>1 DEF Loops!DrawState, DeviceState, Switches
<1>3. CASE backend = "opengl"
  <2>1. Loops!Before(d, dev) =
          [blend |-> dev.blend, scissor |-> dev.scissor,
           cull |-> (dev.cull \/ d.cull)
                      /\ ~(loop = "second" /\ ~d.write /\ d.cull),
           write |-> dev.write /\ d.write, func |-> d.func]
    BY <1>3 DEF Loops!Before, Loops!OpenglBefore, DeviceState
  <2> QED
    BY <1>3, <2>1 DEF Loops!DrawState, DeviceState, Switches
<1> QED
  BY <1>1, <1>2, <1>3

LEMMA AfterCall ==
  ASSUME NEW d \in Loops!DrawState, NEW dev \in DeviceState,
         backend \in {"vulkan", "dx12", "dx11", "opengl"}
  PROVE  /\ Loops!After(d, dev) \in DeviceState
         /\ Loops!After(d, dev).scissor = dev.scissor
         /\ Loops!After(d, dev).blend = dev.blend
         /\ Switches =>
              Loops!After(d, dev).write = IF d.write THEN dev.write ELSE TRUE
<1>1. CASE backend \in {"vulkan", "dx12"}
  BY <1>1 DEF Loops!After, Switches
<1>2. CASE backend \notin {"vulkan", "dx12"}
  <2>1. PICK w \in BOOLEAN : w = IF d.write THEN dev.write ELSE TRUE
    BY DEF DeviceState
  <2>2. PICK f \in {"LESS", "ALWAYS"}, c \in BOOLEAN :
          Loops!After(d, dev) =
            [blend |-> dev.blend, scissor |-> dev.scissor, cull |-> c,
             write |-> w, func |-> f]
    <3>1. CASE backend = "dx11"
      <4>1. PICK f \in {"LESS", "ALWAYS"} : f = IF d.write THEN dev.func ELSE "LESS"
        BY DEF DeviceState
      <4>2. Loops!After(d, dev) =
              [blend |-> dev.blend, scissor |-> dev.scissor, cull |-> dev.cull,
               write |-> w, func |-> f]
        BY <2>1, <3>1, <4>1 DEF Loops!After, Loops!Dx11After, DeviceState
      <4> QED
        BY <4>2 DEF DeviceState
    <3>2. CASE backend = "opengl"
      <4>1. PICK c \in BOOLEAN : c = (dev.cull /\ ~(loop = "first" /\ d.cull))
        OBVIOUS
      <4>2. w = (dev.write \/ ~d.write)
        BY <2>1 DEF Loops!DrawState, DeviceState
      <4>3. Loops!After(d, dev) =
              [blend |-> dev.blend, scissor |-> dev.scissor, cull |-> c,
               write |-> w, func |-> dev.func]
        BY <3>2, <4>1, <4>2 DEF Loops!After, Loops!OpenglAfter, DeviceState
      <4> QED
        BY <4>3 DEF DeviceState
    <3> QED
      BY <1>2, <3>1, <3>2
  <2>3. Loops!After(d, dev) \in DeviceState
    BY <2>2 DEF DeviceState
  <2>4. /\ Loops!After(d, dev).scissor = dev.scissor
        /\ Loops!After(d, dev).blend = dev.blend /\ Loops!After(d, dev).write = w
    BY <2>2
  <2> QED
    BY <2>1, <2>3, <2>4
<1> QED
  BY <1>1, <1>2

\* The scissor that is remembered is that of the device, and a draw that is
\* executed gets its own.
LEMMA ScissorState ==
  ASSUME NEW d \in Loops!DrawState, NEW dev \in DeviceState,
         current_scissor \in {"pass", "own"}, dev.scissor = current_scissor
  PROVE  /\ Loops!Effective(d) \in {"pass", "own"}
         /\ Loops!WithScissor(d, dev) \in DeviceState
         /\ Loops!WithScissor(d, dev).scissor =
              IF Loops!ScissorSet(d) THEN Loops!Effective(d) ELSE current_scissor
         /\ Loops!WithScissor(d, dev).write = dev.write
         /\ Loops!WithScissor(d, dev).blend = dev.blend
<1>1. Loops!Effective(d) \in {"pass", "own"}
  BY DEF Loops!Effective
<1>2. CASE Loops!ScissorSet(d) /\ Loops!Effective(d) # current_scissor
  <2>1. Loops!WithScissor(d, dev) =
          [blend |-> dev.blend, scissor |-> Loops!Effective(d), cull |-> dev.cull,
           write |-> dev.write, func |-> dev.func]
    BY <1>2 DEF Loops!WithScissor, DeviceState
  <2> QED
    BY <1>1, <1>2, <2>1 DEF DeviceState
<1>3. CASE ~(Loops!ScissorSet(d) /\ Loops!Effective(d) # current_scissor)
  BY <1>1, <1>3 DEF Loops!WithScissor
<1> QED
  BY <1>2, <1>3

\* One draw of a pass: the device, then the calls.
LEMMA ExecuteStep ==
  ASSUME LoopsInv, Loops!Execute
  PROVE  LoopsInv'
<1> DEFINE d == draws[drawn_at]
           dev == Loops!WithScissor(d, device)
           c == [draw |-> drawn_at, with |-> Loops!Before(d, dev)]
<1>1. /\ loop \in {"first", "second"} /\ drawn_at \in 1 .. Len(draws)
      /\ d \in Loops!DrawState /\ drawn_at' = drawn_at + 1
      /\ UNCHANGED <<backend, draws, loop, failed>>
      /\ blend_pass_needed' \in BOOLEAN
      /\ ~blend_pass_needed' => ~blend_pass_needed /\ Opaque(drawn_at)
      /\ current_scissor' = IF Loops!ScissorSet(d) THEN Loops!Effective(d)
                            ELSE current_scissor
      /\ Len(executed) \in Nat /\ executed \in Seq(DrawCall)
  <2>1. /\ loop \in {"first", "second"} /\ drawn_at \in 1 .. Len(draws)
        /\ d \in Loops!DrawState
    BY DEF Loops!Execute, LoopsInv, LoopTypes
  <2>2. blend_pass_needed' = (blend_pass_needed \/ d.blend)
    BY DEF Loops!Execute
  <2> QED
    <3>1. ~blend_pass_needed' => ~blend_pass_needed /\ ~d.blend
      BY <2>2
    <3>2. blend_pass_needed' \in BOOLEAN
      BY <2>1, <2>2 DEF LoopsInv, LoopTypes, Loops!DrawState
    <3> QED
      BY <2>1, <3>1, <3>2 DEF Loops!Execute, LoopsInv, LoopTypes, Opaque
<1>2. /\ dev \in DeviceState /\ dev.scissor = current_scissor'
      /\ dev.write = device.write /\ dev.blend = device.blend
      /\ current_scissor' \in {"pass", "own"}
  <2>1. device.scissor = current_scissor
    BY <1>1 DEF LoopsInv, DeviceFollows, Loops!InPass
  <2> QED
    BY <1>1, <2>1, ScissorState DEF LoopsInv, LoopTypes
<1> HIDE DEF dev
<1>3. CASE ~Loops!Taken(d)
  <2>1. device' = dev /\ UNCHANGED executed
    BY <1>3 DEF Loops!Execute, dev
  <2>2. loop = "first" => ~Opaque(drawn_at)
    BY <1>1, <1>3 DEF Loops!Taken, LoopsInv, LoopTypes, Opaque, Loops!DrawState,
       Loops!TakenByVulkan, Loops!TakenByDx12, Loops!TakenByDx11, Loops!TakenByOpengl
  <2>3. loop = "second" => Opaque(drawn_at)
    BY <1>1, <1>3 DEF Loops!Taken, LoopsInv, LoopTypes, Opaque, Loops!DrawState,
       Loops!TakenByVulkan, Loops!TakenByDx12, Loops!TakenByDx11, Loops!TakenByOpengl
  <2>4. LoopTypes' /\ DeviceFollows'
    BY <1>1, <1>2, <2>1 DEF LoopsInv, LoopTypes, DeviceFollows, Loops!InPass, Switches
  <2>5. CallsHaveState'
    BY <1>1, <2>1 DEF LoopsInv, CallsHaveState, HasState, Loops!InPass,
       Loops!Effective, Switches
  <2>6. Progress'
    <3>1. ASSUME NEW i \in 1 .. Len(draws)
          PROVE  Loops!Times(i)' = Loops!Times(i)
      <4>1. CASE i = drawn_at
        <5>1. loop = "second" => ~Loops!Pipelined
          BY <1>3 DEF Loops!Pipelined, Loops!Taken, Loops!TakenByVulkan,
             Loops!TakenByDx12
        <5>2. drawn_at \in Nat \ {0}
          BY DEF LoopsInv, LoopTypes
        <5> QED
          BY <1>1, <2>2, <2>3, <4>1, <5>1, <5>2
             DEF Loops!Times, Loops!Pipelined, Opaque
      <4>2. CASE i # drawn_at
        <5>1. drawn_at \in Nat /\ (i < drawn_at + 1 <=> i < drawn_at)
          BY <4>2 DEF LoopsInv, LoopTypes
        <5> QED
          BY <1>1, <5>1 DEF Loops!Times, Loops!Pipelined
      <4> QED
        BY <4>1, <4>2
    <3>2. \A i \in 1 .. Len(draws) : CallsOf(i)' = CallsOf(i)
      BY <2>1 DEF CallsOf
    <3>3. \A i \in 1 .. Len(draws) : Cardinality(CallsOf(i)') = Loops!Times(i)'
      BY <1>1, <3>1, <3>2 DEF LoopsInv, Progress, Loops!InPass
    <3>10. drawn_at \in Nat /\ \A i \in 1 .. Len(draws) :
                                i < drawn_at + 1 => i < drawn_at \/ i = drawn_at
      BY DEF LoopsInv, LoopTypes
    <3>4. loop = "first" /\ ~blend_pass_needed' =>
            \A i \in 1 .. Len(draws) : i < drawn_at' => Opaque(i)
      BY <1>1, <3>10 DEF LoopsInv, Progress, Opaque
    <3> QED
      BY <1>1, <2>1, <3>3, <3>4 DEF LoopsInv, Progress, Loops!InPass, Switches,
         Opaque, CallsOf
  <2> QED
    BY <2>4, <2>5, <2>6 DEF LoopsInv
<1>4. CASE Loops!Taken(d)
  <2> DEFINE n == Len(executed) + 1
             b == Loops!Before(d, dev)
  <2>1. /\ executed' = Append(executed, c) /\ device' = Loops!After(d, b)
        /\ Loops!ScissorSet(d)
    BY <1>4 DEF Loops!Execute, dev, Loops!ScissorSet
  <2>2. /\ b \in DeviceState /\ b.scissor = dev.scissor
        /\ b.write = IF Switches THEN dev.write /\ d.write ELSE d.write
        /\ backend # "opengl" => b.cull = d.cull
        /\ backend # "dx11" \/ ~d.write => b.func = d.func
        /\ b.blend = CASE backend = "dx11"   -> dev.blend \/ loop = "second"
                       [] backend = "opengl" -> dev.blend
                       [] OTHER              -> d.blend
    BY <1>1, <1>2, CallState DEF LoopsInv, LoopTypes
  <2>3. /\ device' \in DeviceState /\ device'.scissor = b.scissor
        /\ device'.blend = b.blend
        /\ Switches => device'.write = IF d.write THEN b.write ELSE TRUE
    BY <1>1, <2>1, <2>2, AfterCall DEF LoopsInv, LoopTypes
  <2>4. c \in DrawCall /\ c.draw = drawn_at /\ c.with = b
    BY <1>1, <2>2 DEF DrawCall
  <2> HIDE DEF b, c
  <2>5. /\ executed' \in Seq(DrawCall) /\ Len(executed') = n /\ executed'[n] = c
        /\ \A k \in 1 .. Len(executed) : executed'[k] = executed[k]
    BY <1>1, <2>1, <2>4
  <2>6. /\ loop = "first" => Opaque(drawn_at)
        /\ loop = "second" /\ Switches => ~Opaque(drawn_at)
    BY <1>1, <1>4 DEF Loops!Taken, LoopsInv, LoopTypes, Opaque, Loops!DrawState,
       Loops!TakenByVulkan, Loops!TakenByDx12, Loops!TakenByDx11,
       Loops!TakenByOpengl, Switches
  <2>7. HasState(b, d)
    <3>1. d.blend \in BOOLEAN /\ d.write \in BOOLEAN
          /\ device.blend \in BOOLEAN /\ device.write \in BOOLEAN
      BY <1>1 DEF Loops!DrawState, LoopsInv, LoopTypes, DeviceState
    <3>2. b.scissor = Loops!Effective(d)
      BY <1>1, <1>2, <2>1, <2>2
    <3>3. ASSUME ~Switches \/ ~failed \/ ~d.write PROVE b.write = d.write
      <4>1. ~failed /\ Switches => device.write = TRUE
        BY <3>1 DEF LoopsInv, DeviceFollows
      <4> QED
        BY <1>2, <2>2, <3>1, <3>3, <4>1
    <3>4. ASSUME ~Switches \/ ~failed PROVE b.blend = d.blend
      <4>1. CASE ~Switches
        BY <2>2, <4>1 DEF Switches
      <4>2. CASE Switches /\ loop = "first"
        <5>1. device.blend = FALSE /\ d.blend = FALSE
          BY <2>6, <3>1, <3>4, <4>2 DEF LoopsInv, DeviceFollows, Opaque
        <5> QED
          BY <1>2, <2>2, <4>2, <5>1 DEF Switches
      <4>3. CASE Switches /\ loop = "second"
        <5>1. d.blend = TRUE /\ (backend = "opengl" => device.blend = TRUE)
          BY <2>6, <3>1, <4>3 DEF LoopsInv, DeviceFollows, Opaque
        <5> QED
          BY <1>2, <2>2, <4>3, <5>1 DEF Switches
      <4> QED
        BY <1>1, <4>1, <4>2, <4>3
    <3> QED
      BY <2>2, <3>2, <3>3, <3>4 DEF HasState
  <2>8. LoopTypes' /\ DeviceFollows'
    <3>1. LoopTypes'
      BY <1>1, <1>2, <2>3, <2>5 DEF LoopsInv, LoopTypes
    <3>2. device'.scissor = current_scissor'
      BY <1>2, <2>2, <2>3
    <3>3. ~failed /\ Switches => device'.write
      <4>1. d.write \in BOOLEAN
        BY <1>1 DEF Loops!DrawState
      <4> QED
        BY <2>3, <2>7, <4>1 DEF HasState
    <3>4. ~failed /\ Switches /\ loop # "second" => ~device'.blend
      BY <1>1, <2>3, <2>6, <2>7 DEF Opaque, HasState
    <3>5. loop = "second" /\ backend = "opengl" => device'.blend
      BY <1>2, <2>2, <2>3 DEF LoopsInv, DeviceFollows
    <3> QED
      BY <1>1, <3>1, <3>2, <3>3, <3>4, <3>5 DEF DeviceFollows, Switches
  <2>9. CallsHaveState'
    <3>1. ASSUME NEW k \in 1 .. n
          PROVE  /\ executed'[k].draw \in 1 .. Len(draws)
                 /\ HasState(executed'[k].with, draws[executed'[k].draw])
      <4>1. CASE k = n
        BY <1>1, <2>4, <2>5, <2>7, <4>1
      <4>2. CASE k # n
        <5>1. k \in 1 .. Len(executed) /\ executed'[k] = executed[k]
          BY <1>1, <2>5, <4>2
        <5> QED
          BY <1>1, <5>1 DEF LoopsInv, CallsHaveState, Loops!InPass
      <4> QED
        BY <4>1, <4>2
    <3> QED
      BY <1>1, <2>5, <3>1 DEF CallsHaveState, HasState, Loops!Effective, Switches
  <2>10. Progress'
    <3>0. /\ \A k \in 1 .. n : k = n \/ k \in 1 .. Len(executed)
          /\ n \in 1 .. n /\ \A k \in 1 .. Len(executed) : k \in 1 .. n /\ k < n
          /\ executed'[n].draw = drawn_at
          /\ \A k \in 1 .. Len(executed) : executed'[k].draw = executed[k].draw
                                         /\ executed[k].draw \in 1 .. Len(draws)
          /\ \A i : Opaque(i)' <=> Opaque(i)
          /\ (Switches' <=> Switches) /\ Len(executed') = n
      BY <1>1, <2>4, <2>5 DEF LoopsInv, CallsHaveState, Loops!InPass, Opaque,
         Switches
    <3>00. n \notin 1 .. Len(executed) /\ n \in Nat
      BY <1>1
    <3> HIDE DEF n
    <3>1. ASSUME NEW i \in 1 .. Len(draws)
          PROVE  Cardinality(CallsOf(i)') = Loops!Times(i)'
      <4>1. /\ CallsOf(i)' = {k \in 1 .. n : executed'[k].draw = i}
            /\ IsFiniteSet(CallsOf(i)) /\ n \notin CallsOf(i)
            /\ Cardinality(CallsOf(i)) = Loops!Times(i)
        <5>1. IsFiniteSet(1 .. Len(executed))
          BY <1>1, FS_Interval
        <5>2. CallsOf(i) \subseteq 1 .. Len(executed)
          BY DEF CallsOf
        <5>3. IsFiniteSet(CallsOf(i))
          BY <5>1, <5>2, FS_Subset
        <5> QED
          BY <1>1, <3>0, <3>00, <5>2, <5>3
             DEF CallsOf, LoopsInv, Progress, Loops!InPass
      <4>2. CASE i = drawn_at
        <5>1. CallsOf(i)' = CallsOf(i) \cup {n}
          BY <3>0, <4>1, <4>2 DEF CallsOf
        <5>2. Cardinality(CallsOf(i) \cup {n}) = Cardinality(CallsOf(i)) + 1
          BY <4>1, FS_AddElement
        <5>3. Loops!Times(i)' = Loops!Times(i) + 1
          BY <1>1, <2>6, <4>2 DEF Loops!Times, Loops!Pipelined, Switches, Opaque,
             LoopsInv, LoopTypes
        <5> QED
          BY <4>1, <5>1, <5>2, <5>3
      <4>3. CASE i # drawn_at
        <5>1. CallsOf(i)' = CallsOf(i)
          BY <3>0, <4>1, <4>3 DEF CallsOf
        <5>2. Loops!Times(i)' = Loops!Times(i)
          BY <1>1, <4>3 DEF Loops!Times, Loops!Pipelined
        <5> QED
          BY <4>1, <5>1, <5>2
      <4> QED
        BY <4>2, <4>3
    <3>2. ASSUME NEW k \in 1 .. n, ~Opaque(executed'[k].draw)
          PROVE  /\ \A i \in 1 .. Len(draws) : Opaque(i) =>
                      \E j \in 1 .. n : executed'[j].draw = i /\ j < k
                 /\ Switches => \A j \in 1 .. n : k < j => ~Opaque(executed'[j].draw)
      <4>1. loop = "second"
        BY <1>1, <2>6, <3>0, <3>2 DEF LoopsInv, Progress
      <4>2. CASE k = n
        <5>1. ASSUME NEW i \in 1 .. Len(draws), Opaque(i)
              PROVE  \E j \in 1 .. Len(executed) : executed[j].draw = i
          <6>1. Loops!Times(i) # 0
            BY <4>1, <5>1 DEF Loops!Times, Opaque
          <6>2. CallsOf(i) # {}
            BY <1>1, <6>1, FS_EmptySet DEF LoopsInv, Progress, Loops!InPass
          <6> QED
            BY <6>2 DEF CallsOf
        <5>2. \A j \in 1 .. n : ~(k < j)
          BY <1>1, <3>0, <3>00, <4>2
        <5> QED
          BY <3>0, <4>2, <5>1, <5>2
      <4>3. CASE k # n
        <5>1. k \in 1 .. Len(executed) /\ ~Opaque(executed[k].draw)
          BY <3>0, <3>2, <4>3
        <5>2. ASSUME NEW i \in 1 .. Len(draws), Opaque(i)
              PROVE  \E j \in 1 .. n : executed'[j].draw = i /\ j < k
          <6>1. PICK j \in 1 .. Len(executed) : executed[j].draw = i /\ j < k
            BY <1>1, <5>1, <5>2 DEF LoopsInv, Progress, Loops!InPass
          <6> QED
            BY <3>0, <6>1
        <5>3. ASSUME Switches, NEW j \in 1 .. n, k < j
              PROVE  ~Opaque(executed'[j].draw)
          <6>1. CASE j = n
            BY <2>6, <3>0, <4>1, <5>3, <6>1
          <6>2. CASE j # n
            BY <1>1, <3>0, <5>1, <5>3, <6>2 DEF LoopsInv, Progress, Loops!InPass
          <6> QED
            BY <6>1, <6>2
        <5> QED
          BY <5>2, <5>3
      <4> QED
        BY <4>2, <4>3
    <3>10. drawn_at \in Nat /\ \A i \in 1 .. Len(draws) :
                                i < drawn_at + 1 => i < drawn_at \/ i = drawn_at
      BY DEF LoopsInv, LoopTypes
    <3>3. loop = "first" =>
            /\ \A k \in 1 .. n : Opaque(executed'[k].draw)
            /\ ~blend_pass_needed' => \A i \in 1 .. Len(draws) :
                                        i < drawn_at' => Opaque(i)
      <4>1. loop = "first" => \A k \in 1 .. n : Opaque(executed'[k].draw)
        BY <2>6, <3>0 DEF LoopsInv, Progress
      <4>2. loop = "first" /\ ~blend_pass_needed' =>
              \A i \in 1 .. Len(draws) : i < drawn_at' => Opaque(i)
        BY <1>1, <3>10 DEF LoopsInv, Progress, Opaque
      <4> QED
        BY <4>1, <4>2
    <3> QED
      BY <1>1, <3>0, <3>1, <3>2, <3>3 DEF Progress, Loops!InPass
  <2> QED
    BY <2>8, <2>9, <2>10 DEF LoopsInv
<1> QED
  BY <1>3, <1>4

LEMMA LoopsStep ==
  ASSUME LoopsInv, [Loops!Next]_loopVars
  PROVE  LoopsInv'
<1>1. ASSUME NEW d \in Loops!DrawState, Loops!Draw(d)
      PROVE  LoopsInv'
  BY <1>1 DEF Loops!Draw, LoopsInv, LoopTypes, DeviceFollows, CallsHaveState,
     Progress, Loops!InPass, Switches
<1>2. CASE Loops!BeginPass
  <2>1. /\ loop' = "first" /\ drawn_at' = 1 /\ executed' = <<>>
        /\ current_scissor' = "pass" /\ blend_pass_needed' = FALSE
        /\ device' = [device EXCEPT !.scissor = "pass"] /\ loop = "none"
        /\ UNCHANGED <<backend, draws, failed>>
    BY <1>2 DEF Loops!BeginPass
  <2>2. device' = [blend |-> device.blend, scissor |-> "pass",
                   cull |-> device.cull, write |-> device.write,
                   func |-> device.func]
    BY <2>1 DEF LoopsInv, LoopTypes, DeviceState
  <2>3. LoopTypes'
    <3>1. device' \in DeviceState
      BY <2>2 DEF LoopsInv, LoopTypes, DeviceState
    <3>2. executed' \in Seq(DrawCall)
      BY <2>1
    <3>3. /\ loop' \in {"none", "first", "second"} /\ drawn_at' \in Nat \ {0}
          /\ blend_pass_needed' \in BOOLEAN /\ current_scissor' \in {"pass", "own"}
          /\ UNCHANGED <<backend, draws, failed>>
      <4>1. drawn_at' \in Nat \ {0}
        BY <2>1
      <4>2. blend_pass_needed' \in BOOLEAN
        BY <2>1
      <4> QED
        BY <2>1, <4>1, <4>2
    <3> QED
      BY <3>1, <3>2, <3>3 DEF LoopsInv, LoopTypes
  <2>4. DeviceFollows'
    BY <2>1, <2>2 DEF LoopsInv, DeviceFollows, Switches
  <2>5. CallsHaveState'
    BY <2>1 DEF CallsHaveState
  <2>6. Progress'
    <3>1. ASSUME NEW i \in 1 .. Len(draws)
          PROVE  Cardinality(CallsOf(i)') = Loops!Times(i)'
      <4>1. CallsOf(i)' = {}
        BY <2>1 DEF CallsOf
      <4>2. Loops!Times(i)' = 0
        BY <2>1 DEF Loops!Times
      <4> QED
        BY <4>1, <4>2, FS_EmptySet
    <3>2. \A i \in 1 .. Len(draws) : ~(i < drawn_at')
      BY <2>1 DEF LoopsInv, LoopTypes
    <3> QED
      BY <2>1, <3>1, <3>2 DEF Progress
  <2> QED
    BY <2>3, <2>4, <2>5, <2>6 DEF LoopsInv
<1>3. CASE Loops!Execute
  BY <1>3, ExecuteStep
<1>4. CASE Loops!DrawThrows
  <2> DEFINE d == draws[drawn_at]
             dev == Loops!WithScissor(d, device)
  <2>1. /\ loop # "none" /\ d \in Loops!DrawState
        /\ device' = Loops!Before(d, dev) /\ loop' = "none" /\ failed' = TRUE
        /\ executed' = <<>>
        /\ UNCHANGED <<backend, draws, drawn_at, blend_pass_needed, current_scissor>>
    BY <1>4 DEF Loops!DrawThrows, LoopsInv, LoopTypes
  <2>2. dev \in DeviceState
    BY <2>1, ScissorState DEF LoopsInv, LoopTypes, DeviceFollows, Loops!InPass
  <2> HIDE DEF d, dev
  <2>3. device' \in DeviceState
    BY <2>1, <2>2, CallState DEF LoopsInv, LoopTypes
  <2> QED
    BY <2>1, <2>3 DEF LoopsInv, LoopTypes, DeviceFollows, CallsHaveState,
       Progress, Loops!InPass
<1>5. CASE Loops!SecondLoop
  <2>1. /\ loop = "first" /\ loop' = "second" /\ drawn_at' = 1
        /\ drawn_at > Len(draws)
        /\ device' = [device EXCEPT !.blend = @ \/ backend = "opengl"]
        /\ UNCHANGED <<backend, draws, blend_pass_needed, current_scissor, executed,
                       failed>>
    BY <1>5 DEF Loops!SecondLoop
  <2>2. PICK b \in BOOLEAN : b = (device.blend \/ backend = "opengl")
    OBVIOUS
  <2>3. device' = [blend |-> b, scissor |-> device.scissor,
                   cull |-> device.cull, write |-> device.write,
                   func |-> device.func]
    BY <2>1, <2>2 DEF LoopsInv, LoopTypes, DeviceState
  <2>4. LoopTypes'
    BY <2>1, <2>3 DEF LoopsInv, LoopTypes, DeviceState
  <2>5. DeviceFollows'
    BY <2>1, <2>2, <2>3 DEF LoopsInv, DeviceFollows, Loops!InPass, Switches
  <2>6. CallsHaveState'
    BY <2>1 DEF LoopsInv, CallsHaveState, HasState, Loops!InPass, Loops!Effective,
       Switches
  <2>7. Progress'
    <3>1. ASSUME NEW i \in 1 .. Len(draws)
          PROVE  Cardinality(CallsOf(i)') = Loops!Times(i)'
      <4>1. CallsOf(i)' = CallsOf(i)
        BY <2>1 DEF CallsOf
      <4>2. Loops!Times(i)' = Loops!Times(i)
        BY <2>1 DEF Loops!Times, Loops!Pipelined, LoopsInv, LoopTypes
      <4> QED
        BY <2>1, <4>1, <4>2 DEF LoopsInv, Progress, Loops!InPass
    <3> QED
      BY <2>1, <3>1 DEF LoopsInv, Progress, Loops!InPass, Switches, Opaque, CallsOf
  <2> QED
    BY <2>4, <2>5, <2>6, <2>7 DEF LoopsInv
<1>6. CASE Loops!EndPass
  <2>1. /\ loop' = "none" /\ draws' = <<>> /\ executed' = <<>>
        /\ device' = [device EXCEPT !.blend = loop = "first" /\ @]
        /\ UNCHANGED <<backend, drawn_at, blend_pass_needed, current_scissor, failed>>
    BY <1>6 DEF Loops!EndPass
  <2>2. PICK b \in BOOLEAN : b = (loop = "first" /\ device.blend)
    OBVIOUS
  <2>3. device' = [blend |-> b, scissor |-> device.scissor,
                   cull |-> device.cull, write |-> device.write,
                   func |-> device.func]
    BY <2>1, <2>2 DEF LoopsInv, LoopTypes, DeviceState
  <2>4. LoopTypes'
    BY <2>1, <2>3 DEF LoopsInv, LoopTypes, DeviceState
  <2>5. DeviceFollows'
    BY <2>1, <2>2, <2>3 DEF LoopsInv, DeviceFollows, Loops!InPass, Switches
  <2> QED
    BY <2>1, <2>4, <2>5 DEF LoopsInv, CallsHaveState, Progress, Loops!InPass
<1>7. CASE UNCHANGED loopVars
  BY <1>7 DEF loopVars, LoopsInv, LoopTypes, DeviceFollows, CallsHaveState,
     HasState, Progress, CallsOf, Loops!Times, Loops!Pipelined, Loops!InPass,
     Loops!Effective, Switches, Opaque
<1> QED
  BY <1>1, <1>2, <1>3, <1>4, <1>5, <1>6, <1>7 DEF Loops!Next

LEMMA LoopsStart == ContextInit => LoopsInv
<1> SUFFICES ASSUME Loops!Init PROVE LoopsInv
  BY DEF ContextInit
<1>1. /\ draws = <<>> /\ executed = <<>> /\ loop = "none" /\ drawn_at = 1
      /\ blend_pass_needed = FALSE /\ current_scissor = "pass" /\ failed = FALSE
      /\ device = [blend |-> FALSE, scissor |-> "pass", cull |-> FALSE,
                   write |-> TRUE, func |-> "LESS"]
      /\ backend \in {"vulkan", "dx12", "dx11", "opengl"}
  BY LoopsAssumption DEF Loops!Init, Loops!Default
<1>2. draws \in Seq(Loops!DrawState) /\ executed \in Seq(DrawCall)
  BY <1>1
<1>3. device \in DeviceState
  BY <1>1 DEF DeviceState
<1>4. LoopTypes
  <2>1. /\ loop \in {"none", "first", "second"} /\ drawn_at \in Nat \ {0}
        /\ blend_pass_needed \in BOOLEAN /\ current_scissor \in {"pass", "own"}
        /\ failed \in BOOLEAN /\ backend \in {"vulkan", "dx12", "dx11", "opengl"}
    <3>1. drawn_at \in Nat \ {0}
      BY <1>1
    <3>2. blend_pass_needed \in BOOLEAN
      BY <1>1
    <3>3. failed \in BOOLEAN
      BY <1>1
    <3>4. loop \in {"none", "first", "second"} /\ current_scissor \in {"pass", "own"}
      BY <1>1
    <3> QED
      BY <1>1, <3>1, <3>2, <3>3, <3>4
  <2> QED
    BY <1>2, <1>3, <2>1 DEF LoopTypes
<1>5. DeviceFollows
  BY <1>1 DEF DeviceFollows, Loops!InPass
<1> QED
  BY <1>1, <1>4, <1>5 DEF LoopsInv, CallsHaveState, Progress, Loops!InPass

LEMMA LoopsAlways == ContextSpec => []LoopsInv
<1>1. LoopsInv /\ [ContextNext]_<<part, vars, objectVars, loopVars, uniVars,
                                  setVars, cacheVars>> => LoopsInv'
  <2>1. [ContextNext]_<<part, vars, objectVars, loopVars, uniVars, setVars,
                        cacheVars>> => [Loops!Next]_loopVars
    BY DEF ContextNext
  <2> QED
    BY <2>1, LoopsStep
<1> QED
  BY LoopsStart, <1>1, PTL DEF ContextSpec

\* For passes of any length, whatever was drawn before and wherever a draw
\* threw: each draw call has the scissor of its draw and, with Vulkan and Direct3D
\* 12, all of its state; with the others blending and the writing of depth as
\* long as none has thrown, Direct3D 11 its culling and OpenGL its depth function.
THEOREM DrawsHaveOwnState == ContextSpec => []OwnState
<1>1. LoopsInv => OwnState
  BY DEF LoopsInv, LoopTypes, CallsHaveState, HasState, Switches, OwnState,
     Loops!OwnState, Loops!Pipelined, Loops!State
<1> QED
  BY <1>1, LoopsAlways, PTL

\* Each draw is executed as often as the loops say, none is left out by both,
\* and a blended one comes after all opaque ones; with Direct3D 11 and OpenGL
\* no opaque one comes after it, with Vulkan and Direct3D 12 the second loop
\* draws the opaque ones once more.
THEOREM BlendedDrawsComeLast == ContextSpec => []BlendedOverOpaque
<1>1. ASSUME LoopsInv PROVE BlendedOverOpaque
  <2> SUFFICES ASSUME Loops!InPass
               PROVE  /\ \A i \in 1 .. Len(draws) :
                           Loops!Cardinality(Loops!Calls(i)) = Loops!Times(i)
                      /\ \A k \in 1 .. Len(executed) : Loops!State(k).blend =>
                           /\ \A i \in 1 .. Len(draws) :
                                ~draws[i].blend => \E j \in Loops!Calls(i) : j < k
                           /\ Loops!Pipelined \/ \A j \in k .. Len(executed) :
                                                   Loops!State(j).blend
                      /\ drawn_at > Len(draws)
                           /\ (loop = "first" => ~blend_pass_needed) =>
                           \A i \in 1 .. Len(draws) : Loops!Calls(i) # {}
    BY DEF BlendedOverOpaque, Loops!BlendedOverOpaque
  <2>1. \A S : Loops!Cardinality(S) = Cardinality(S)
    BY Zenon DEF Loops!Cardinality, Cardinality
  <2>2. \A i : Loops!Calls(i) = CallsOf(i)
    BY DEF Loops!Calls, CallsOf
  <2>3. \A i \in 1 .. Len(draws) : Cardinality(Loops!Calls(i)) = Loops!Times(i)
    BY <1>1, <2>2 DEF LoopsInv, Progress
  <2>4. ASSUME NEW k \in 1 .. Len(executed), Loops!State(k).blend
        PROVE  /\ \A i \in 1 .. Len(draws) :
                    ~draws[i].blend => \E j \in Loops!Calls(i) : j < k
               /\ Loops!Pipelined \/ \A j \in k .. Len(executed) :
                                       Loops!State(j).blend
    <3>1. ~Opaque(executed[k].draw)
      BY <2>4 DEF Opaque, Loops!State
    <3>2. ASSUME NEW j \in k .. Len(executed), ~Loops!Pipelined
          PROVE  Loops!State(j).blend
      <4>1. j \in 1 .. Len(executed) /\ (j = k \/ k < j) /\ Switches
        BY <1>1, <3>2 DEF LoopsInv, LoopTypes, Loops!Pipelined, Switches
      <4> QED
        BY <1>1, <2>4, <3>1, <4>1 DEF LoopsInv, Progress, Opaque, Loops!State
    <3> QED
      BY <1>1, <3>1, <3>2 DEF LoopsInv, Progress, Opaque, Loops!Calls
  <2>5. ASSUME drawn_at > Len(draws), loop = "first" => ~blend_pass_needed,
               NEW i \in 1 .. Len(draws)
        PROVE  Loops!Calls(i) # {}
    <3>1. i < drawn_at
      BY <1>1, <2>5 DEF LoopsInv, LoopTypes
    <3>2. loop = "first" => ~draws[i].blend
      BY <1>1, <2>5, <3>1 DEF LoopsInv, Progress, Opaque
    <3>3. Loops!Times(i) # 0
      BY <1>1, <3>1, <3>2 DEF Loops!Times, Loops!InPass, LoopsInv, LoopTypes
    <3> QED
      BY <2>3, <3>3, FS_EmptySet
  <2> QED
    BY <2>1, <2>3, <2>4, <2>5
<1> QED
  BY <1>1, LoopsAlways, PTL

------------------------------------------------------------------------------
(* Uniform data.                                                           *)

\* What a block remembers of the uniform of the name.
Remembered == [version : Nat, uniform : 0 .. MaxUniforms, last_version : Nat,
               checked : BOOLEAN, generation : Nat]

RecordedDraws == SUBSET [block : Blocks, version : Nat]

UniformTypes ==
  /\ created \in 0 .. MaxUniforms /\ global \in 0 .. created
  /\ matches \in BOOLEAN /\ m_generation \in Nat
  /\ version \in [1 .. MaxUniforms -> Nat]
  /\ block \in [Blocks -> Remembered]
  /\ source \in [Blocks -> (0 .. MaxUniforms) \X Nat]
  /\ buffer \in [Blocks -> [version : Nat, contents : Int]]
  /\ batch \in RecordedDraws /\ inFlight \in Seq(RecordedDraws)

\* The uniform a look-up finds now.
Registered == IF global # Uniforms!None /\ matches THEN global
              ELSE Uniforms!None

\* A block looked up in this generation has the uniform that is registered; no
\* block has been looked up in a later one.  What it remembers to have copied
\* from its uniform is what it did copy last.
LookedUpNow(k) ==
  /\ k.generation <= m_generation
  /\ k.checked /\ k.generation = m_generation => k.uniform = Registered

CopiedFrom(k, copied) ==
  k.uniform # Uniforms!None /\ k.last_version # 0 =>
    copied = <<k.uniform, k.last_version>>

Remembering == \A b \in Blocks : LookedUpNow(block[b])
                                 /\ CopiedFrom(block[b], source[b])

\* The buffer of a block that stayed at its address has the data of its version,
\* once the block had any, and no later one than the block.
BufferFollows ==
  \A b \in Blocks \ moved :
    /\ buffer[b].version <= block[b].version
    /\ buffer[b].version > 0 => buffer[b].contents = buffer[b].version

\* Draws of such blocks were recorded with no later version than the buffer has.
NotAhead(d) == d.block \notin moved => d.version <= buffer[d.block].version

DrawsFollow ==
  /\ \A d \in batch : NotAhead(d)
  /\ \A i \in 1 .. Len(inFlight) : \A d \in inFlight[i] : NotAhead(d)

UniformsInv == /\ UniformTypes /\ Remembering /\ BufferFollows /\ DrawsFollow
               /\ SyncedWithGlobal /\ NeverOlder

\* What bringing a block up to date does: it is looked up in this generation,
\* copies the registered uniform if its version is another one, and its own
\* version never falls.
LEMMA BroughtUpToDate ==
  ASSUME UniformsInv, NEW b \in Blocks
  PROVE  LET cached == Uniforms!Ensured(block[b])
             synced == Uniforms!Synced(cached)
             copied == IF Uniforms!Copies(cached)
                       THEN <<cached.uniform, version[cached.uniform]>>
                       ELSE source[b]
         IN  /\ cached.uniform = Registered
             /\ synced \in Remembered /\ block[b].version <= synced.version
             /\ LookedUpNow(synced)
             /\ synced.uniform = Registered
             /\ CopiedFrom(synced, copied)
             /\ copied \in (0 .. MaxUniforms) \X Nat
             /\ Registered # Uniforms!None =>
                  synced.last_version = version[Registered]
<1> DEFINE cached == Uniforms!Ensured(block[b])
           synced == Uniforms!Synced(cached)
<1>1. block[b] \in Remembered /\ LookedUpNow(block[b])
      /\ CopiedFrom(block[b], source[b])
  BY DEF UniformsInv, UniformTypes, Remembering
<1>2. Registered \in 0 .. MaxUniforms
  BY UniformsAssumption DEF UniformsInv, UniformTypes, Registered, Uniforms!None
<1>3. /\ cached \in Remembered /\ cached.version = block[b].version
      /\ cached.uniform = Registered /\ LookedUpNow(cached)
      /\ CopiedFrom(cached, source[b])
  <2>1. CASE block[b].checked /\ block[b].generation = m_generation
    BY <1>1, <2>1 DEF Uniforms!Ensured, LookedUpNow
  <2>2. CASE ~(block[b].checked /\ block[b].generation = m_generation)
    <3>1. cached = [version |-> block[b].version, uniform |-> Registered,
                    last_version |-> IF Registered # Uniforms!None THEN 0
                                     ELSE block[b].last_version,
                    checked |-> TRUE, generation |-> m_generation]
      BY <1>1, <1>2, <2>2 DEF Uniforms!Ensured, Uniforms!LookedUp, Registered,
         Remembered, Uniforms!None, UniformsInv, UniformTypes
    <3> HIDE DEF cached
    <3>2. m_generation \in Nat
      BY DEF UniformsInv, UniformTypes
    <3> QED
      BY <1>1, <1>2, <3>1, <3>2 DEF Remembered, LookedUpNow, CopiedFrom,
         Uniforms!None
  <2> QED
    BY <2>1, <2>2
<1> HIDE DEF cached
<1>4. Registered # Uniforms!None => version[Registered] \in Nat
  BY <1>2, UniformsAssumption DEF UniformsInv, UniformTypes, Uniforms!None
<1>5. CASE Uniforms!Copies(cached)
  <2>1. /\ Registered # Uniforms!None
        /\ version[Registered] # cached.last_version
    BY <1>3, <1>5 DEF Uniforms!Copies
  <2>2. synced = [version |-> cached.version + 1, uniform |-> cached.uniform,
                  last_version |-> version[Registered],
                  checked |-> cached.checked, generation |-> cached.generation]
    BY <1>3, <1>5 DEF Uniforms!Synced, Remembered
  <2> HIDE DEF synced
  <2>3. /\ synced \in Remembered /\ block[b].version <= synced.version
        /\ LookedUpNow(synced) /\ synced.uniform = Registered
        /\ CopiedFrom(synced, <<cached.uniform, version[cached.uniform]>>)
        /\ <<cached.uniform, version[cached.uniform]>> \in (0 .. MaxUniforms) \X Nat
        /\ synced.last_version = version[Registered]
    BY <1>1, <1>2, <1>3, <1>4, <2>1, <2>2 DEF Remembered, LookedUpNow, CopiedFrom
  <2> QED
    BY <1>3, <1>5, <2>3 DEF synced, cached
<1>6. CASE ~Uniforms!Copies(cached)
  <2>1. synced = cached
    BY <1>6 DEF Uniforms!Synced
  <2>2. source[b] \in (0 .. MaxUniforms) \X Nat
    BY DEF UniformsInv, UniformTypes
  <2>3. Registered # Uniforms!None => synced.last_version = version[Registered]
    BY <1>3, <1>6, <2>1 DEF Uniforms!Copies
  <2>4. block[b].version <= cached.version
    BY <1>1, <1>3 DEF Remembered
  <2> HIDE DEF synced
  <2>5. /\ synced \in Remembered /\ block[b].version <= synced.version
        /\ LookedUpNow(synced) /\ synced.uniform = Registered
        /\ CopiedFrom(synced, source[b])
    BY <1>3, <2>1, <2>4
  <2> QED
    BY <1>3, <1>6, <2>2, <2>3, <2>5 DEF synced, cached
<1> QED
  BY <1>5, <1>6

LEMMA UniformsStep ==
  ASSUME UniformsInv, [Uniforms!Next]_uniVars
  PROVE  UniformsInv'
<1> USE UniformsAssumption DEF UniformsInv, Uniforms!None
<1>1. ASSUME NEW fits \in BOOLEAN, Uniforms!RegisterUniform(fits)
      PROVE  UniformsInv'
  <2> USE <1>1 DEF Uniforms!RegisterUniform, Uniforms!blockVars,
                   Uniforms!deviceVars
  <2>1. UniformTypes'
    BY DEF UniformTypes
  <2>2. Remembering'
    BY DEF UniformTypes, Remembering, Remembered, LookedUpNow, CopiedFrom
  <2>3. BufferFollows' /\ DrawsFollow'
    BY DEF BufferFollows, DrawsFollow, NotAhead
  <2> QED
    BY <2>1, <2>2, <2>3 DEF SyncedWithGlobal, Uniforms!SyncedWithGlobal,
       NeverOlder, Uniforms!NeverOlder
<1>2. CASE Uniforms!UnregisterUniform
  <2> USE <1>2 DEF Uniforms!UnregisterUniform, Uniforms!blockVars,
                   Uniforms!deviceVars, Uniforms!GenerationAfterErase
  <2>1. UniformTypes'
    BY DEF UniformTypes
  <2>2. Remembering'
    BY DEF UniformTypes, Remembering, Remembered, LookedUpNow, CopiedFrom
  <2>3. BufferFollows' /\ DrawsFollow'
    BY DEF BufferFollows, DrawsFollow, NotAhead
  <2> QED
    BY <2>1, <2>2, <2>3 DEF SyncedWithGlobal, Uniforms!SyncedWithGlobal,
       NeverOlder, Uniforms!NeverOlder
<1>3. CASE Uniforms!Assign
  <2> USE <1>3 DEF Uniforms!Assign, Uniforms!blockVars, Uniforms!deviceVars
  <2>1. UniformTypes'
    BY DEF UniformTypes
  <2>2. Remembering'
    BY DEF Remembering, LookedUpNow, CopiedFrom, Registered
  <2>3. BufferFollows' /\ DrawsFollow'
    BY DEF BufferFollows, DrawsFollow, NotAhead
  <2> QED
    BY <2>1, <2>2, <2>3 DEF SyncedWithGlobal, Uniforms!SyncedWithGlobal,
       NeverOlder, Uniforms!NeverOlder
<1>4. ASSUME NEW b \in Blocks, Uniforms!SetData(b)
      PROVE  UniformsInv'
  <2> DEFINE new == [block[b] EXCEPT !.version = @ + 1]
  <2>1. /\ block' = [block EXCEPT ![b] = new] /\ drawn' = Uniforms!None
        /\ own' = own \cup {b}
        /\ UNCHANGED <<global, matches, version, m_generation, created, source,
                       moved, buffer, batch, inFlight, frameCount, older,
                       dangling>>
    BY <1>4 DEF Uniforms!SetData, Uniforms!registryVars, Uniforms!deviceVars
  <2>2. /\ new \in Remembered /\ block[b].version <= new.version
        /\ new.uniform = block[b].uniform
        /\ new.last_version = block[b].last_version
        /\ new.checked = block[b].checked
        /\ new.generation = block[b].generation
    <3>1. block[b] \in Remembered
      BY DEF UniformTypes
    <3>2. new = [version |-> block[b].version + 1, uniform |-> block[b].uniform,
                 last_version |-> block[b].last_version,
                 checked |-> block[b].checked,
                 generation |-> block[b].generation]
      BY <3>1 DEF Remembered
    <3> HIDE DEF new
    <3> QED
      BY <3>1, <3>2 DEF Remembered
  <2> HIDE DEF new
  <2>3. UniformTypes'
    BY <2>1, <2>2 DEF UniformTypes
  <2>4. Remembering'
    BY <2>1, <2>2 DEF UniformTypes, Remembering, LookedUpNow, CopiedFrom,
                      Registered
  <2>5. BufferFollows'
    <3>1. ASSUME NEW c \in Blocks
          PROVE  /\ block[c].version \in Nat /\ buffer[c].version \in Nat
                 /\ block'[c].version \in Nat
                 /\ block[c].version <= block'[c].version
      <4>1. /\ block[c] \in Remembered /\ buffer[c].version \in Nat
            /\ block'[c] = IF c = b THEN new ELSE block[c]
        BY <2>1 DEF UniformTypes
      <4> QED
        BY <2>2, <4>1 DEF Remembered
    <3> QED
      BY <2>1, <3>1 DEF BufferFollows
  <2>6. DrawsFollow'
    BY <2>1 DEF DrawsFollow, NotAhead
  <2> QED
    BY <2>1, <2>3, <2>4, <2>5, <2>6 DEF SyncedWithGlobal, Uniforms!SyncedWithGlobal,
       NeverOlder, Uniforms!NeverOlder
<1>5. ASSUME NEW b \in Blocks, Uniforms!Recreate(b)
      PROVE  UniformsInv'
  <2> USE <1>5 DEF Uniforms!Recreate, Uniforms!registryVars, Uniforms!deviceVars,
                   Uniforms!NewBlock
  <2>1. UniformTypes'
    <3>1. Uniforms!NewBlock \in Remembered
      BY DEF Remembered
    <3> HIDE DEF Uniforms!NewBlock
    <3> QED
      BY <3>1 DEF UniformTypes
  <2>2. Remembering'
    BY DEF UniformTypes, Remembered, Remembering, LookedUpNow, CopiedFrom,
           Registered
  <2>3. BufferFollows' /\ DrawsFollow'
    BY DEF UniformTypes, Remembered, BufferFollows, DrawsFollow, NotAhead
  <2> QED
    BY <2>1, <2>2, <2>3 DEF SyncedWithGlobal, Uniforms!SyncedWithGlobal,
       NeverOlder, Uniforms!NeverOlder
<1>6. ASSUME NEW b \in Blocks, Uniforms!RecordDraw(b)
      PROVE  UniformsInv'
  <2> DEFINE cached == Uniforms!Ensured(block[b])
             synced == Uniforms!Synced(cached)
             copied == IF Uniforms!Copies(cached)
                       THEN <<cached.uniform, version[cached.uniform]>>
                       ELSE source[b]
             upload == Uniforms!Uploaded(b, synced)
             draw == [block |-> b, version |-> synced.version]
  <2>1. /\ cached.uniform = Registered
        /\ synced \in Remembered /\ block[b].version <= synced.version
        /\ LookedUpNow(synced)
        /\ synced.uniform = Registered
        /\ CopiedFrom(synced, copied)
        /\ copied \in (0 .. MaxUniforms) \X Nat
        /\ Registered # Uniforms!None =>
             synced.last_version = version[Registered]
    BY BroughtUpToDate
  <2>2. /\ block' = [block EXCEPT ![b] = synced]
        /\ source' = [source EXCEPT ![b] = copied]
        /\ dangling' = (dangling \/ cached.uniform \notin {Uniforms!None, global})
        /\ buffer' = [buffer EXCEPT ![b] = upload]
        /\ batch' = {d \in batch : d.block # b} \cup {draw}
        /\ drawn' = b
        /\ UNCHANGED <<global, matches, version, m_generation, created, moved,
                       inFlight, frameCount, older>>
    BY <1>6 DEF Uniforms!RecordDraw, Uniforms!registryVars, UniformTypes
  <2>3. /\ upload \in [version : Nat, contents : Int]
        /\ upload.version = synced.version
        /\ \/ upload.contents = synced.version
           \/ upload = buffer[b]
    BY <2>1 DEF Uniforms!Uploaded, UniformTypes, Remembered
  <2> HIDE DEF cached, synced, copied, upload
  <2>4. UniformTypes'
    <3>1. draw \in [block : Blocks, version : Nat]
      BY <2>1 DEF Remembered
    <3>2. batch' \in RecordedDraws
      BY <2>2, <3>1 DEF UniformTypes, RecordedDraws
    <3> QED
      BY <2>1, <2>2, <2>3, <3>2 DEF UniformTypes
  <2>5. Remembering'
    BY <2>1, <2>2 DEF UniformTypes, Remembering, LookedUpNow, CopiedFrom,
                      Registered
  <2>6. /\ \A c \in Blocks \ {b} : block'[c] = block[c] /\ buffer'[c] = buffer[c]
        /\ block'[b] = synced /\ buffer'[b] = upload /\ source'[b] = copied
    BY <2>2 DEF UniformTypes
  <2>7. BufferFollows'
    BY <2>1, <2>2, <2>3, <2>6 DEF BufferFollows, Remembered
  <2>8. DrawsFollow'
    <3>1. b \notin moved => buffer[b].version <= upload.version
      BY <2>1, <2>3 DEF UniformTypes, BufferFollows, Remembered
    <3>2. ASSUME NEW d \in [block : Blocks, version : Nat], NotAhead(d)
          PROVE  NotAhead(d)'
      <4>1. CASE d.block = b
        <5>1. /\ buffer[b].version \in Nat /\ upload.version \in Nat
              /\ buffer'[d.block] = upload /\ moved' = moved
          BY <2>2, <2>3, <2>6, <4>1 DEF UniformTypes
        <5> QED
          BY <3>1, <3>2, <4>1, <5>1 DEF NotAhead
      <4>2. CASE d.block # b
        <5>1. buffer'[d.block] = buffer[d.block] /\ moved' = moved
          BY <2>2, <2>6, <4>2
        <5> QED
          BY <3>2, <5>1 DEF NotAhead
      <4> QED
        BY <4>1, <4>2
    <3>3. ASSUME NEW d, d = draw PROVE NotAhead(d)'
      <4>1. /\ d.block = b /\ d.version = synced.version
            /\ buffer'[b].version = synced.version /\ synced.version \in Nat
        BY <2>1, <2>3, <2>6, <3>3 DEF Remembered
      <4> QED
        BY <4>1 DEF NotAhead
    <3>4. /\ \A d \in batch : d \in [block : Blocks, version : Nat]
          /\ \A i \in 1 .. Len(inFlight) : \A d \in inFlight[i] :
               d \in [block : Blocks, version : Nat]
      BY DEF UniformTypes, RecordedDraws
    <3> HIDE DEF draw
    <3>5. \A d \in batch' : NotAhead(d)'
      BY <2>2, <3>2, <3>3, <3>4 DEF DrawsFollow
    <3>6. \A i \in 1 .. Len(inFlight) : \A d \in inFlight[i] : NotAhead(d)'
      BY <3>2, <3>4 DEF DrawsFollow
    <3> QED
      BY <2>2, <3>5, <3>6 DEF DrawsFollow
  <2>9. SyncedWithGlobal'
    <3>1. ~dangling'
      BY <2>1, <2>2 DEF SyncedWithGlobal, Uniforms!SyncedWithGlobal, Registered
    <3>2. ASSUME global # Uniforms!None, matches, version[global] > 0
          PROVE  copied = <<global, version[global]>>
      BY <2>1, <3>2 DEF Registered, CopiedFrom, UniformTypes
    <3> QED
      BY <2>2, <2>6, <3>1, <3>2 DEF SyncedWithGlobal, Uniforms!SyncedWithGlobal,
         Uniforms!Value
  <2> QED
    BY <2>2, <2>4, <2>5, <2>7, <2>8, <2>9 DEF NeverOlder, Uniforms!NeverOlder
<1>7. CASE Uniforms!SubmitFrame
  <2> USE <1>7 DEF Uniforms!SubmitFrame, Uniforms!registryVars,
                   Uniforms!blockVars
  <2>1. UniformTypes'
    BY DEF UniformTypes, RecordedDraws
  <2>2. Remembering'
    BY DEF Remembering, LookedUpNow, CopiedFrom, Registered
  <2>3. BufferFollows'
    BY DEF BufferFollows
  <2>4. DrawsFollow'
    BY DEF UniformTypes, DrawsFollow, NotAhead
  <2> QED
    BY <2>1, <2>2, <2>3, <2>4 DEF SyncedWithGlobal, Uniforms!SyncedWithGlobal,
       NeverOlder, Uniforms!NeverOlder
<1>8. CASE Uniforms!ExecuteFrame
  <2> USE <1>8 DEF Uniforms!ExecuteFrame, Uniforms!registryVars,
                   Uniforms!blockVars
  <2>1. UniformTypes'
    BY DEF UniformTypes
  <2>2. Remembering'
    BY DEF Remembering, LookedUpNow, CopiedFrom, Registered
  <2>3. BufferFollows'
    BY DEF BufferFollows
  <2>4. DrawsFollow'
    BY DEF UniformTypes, DrawsFollow, NotAhead
  <2>5. NeverOlder'
    <3>1. Head(inFlight) = inFlight[1] /\ Head(inFlight) \in RecordedDraws
          /\ 1 \in 1 .. Len(inFlight)
      BY DEF UniformTypes
    <3>2. \A d \in Head(inFlight) :
            d.version > 0 /\ d.block \notin moved =>
              ~(buffer[d.block].contents < d.version)
      BY <3>1 DEF UniformTypes, RecordedDraws, BufferFollows, DrawsFollow,
                  NotAhead
    <3> QED
      BY <3>2 DEF NeverOlder, Uniforms!NeverOlder
  <2> QED
    BY <2>1, <2>2, <2>3, <2>4, <2>5
       DEF SyncedWithGlobal, Uniforms!SyncedWithGlobal
<1>9. CASE UNCHANGED uniVars
  BY <1>9 DEF uniVars, Uniforms!Value, UniformTypes, Remembering, LookedUpNow, CopiedFrom,
     Registered, BufferFollows, DrawsFollow, NotAhead, SyncedWithGlobal,
     Uniforms!SyncedWithGlobal, NeverOlder, Uniforms!NeverOlder
<1> QED
  BY <1>1, <1>2, <1>3, <1>4, <1>5, <1>6, <1>7, <1>8, <1>9 DEF Uniforms!Next

LEMMA UniformsStart == ContextInit => UniformsInv
<1> SUFFICES ASSUME ContextInit PROVE UniformsInv
  OBVIOUS
<1> USE UniformsAssumption DEF ContextInit, Uniforms!Init, Uniforms!None, Uniforms!NewBlock
<1>1. UniformTypes
  BY DEF UniformTypes, Remembered, RecordedDraws, Uniforms!Junk
<1>2. Remembering
  BY DEF Remembering, LookedUpNow, CopiedFrom
<1>3. BufferFollows /\ DrawsFollow
  BY DEF BufferFollows, DrawsFollow
<1> QED
  BY <1>1, <1>2, <1>3 DEF UniformsInv, SyncedWithGlobal,
     Uniforms!SyncedWithGlobal, NeverOlder, Uniforms!NeverOlder

LEMMA UniformsPart == ContextNext => [Uniforms!Next]_uniVars
  BY DEF ContextNext, uniVars

LEMMA UniformsAlways == ContextSpec => []UniformsInv
<1>1. UniformsInv /\ [ContextNext]_<<part, vars, objectVars, loopVars, uniVars,
                                     setVars, cacheVars>> => UniformsInv'
  BY UniformsStep, UniformsPart
<1> QED
  BY UniformsStart, <1>1, PTL DEF ContextSpec

\* Whichever uniforms were destroyed and created under the name, a block has the
\* current value of the registered one when a draw with it is recorded, or data
\* the program has written over that very value, and no pointer to a destroyed
\* uniform is used (ensure_uniform_cache() and sync_from_globals()), for every
\* number of blocks, uniforms and versions.
THEOREM BlocksFollowGlobals == ContextSpec => []SyncedWithGlobal
  BY UniformsAlways, PTL DEF UniformsInv

\* A draw never reads older data than its block had when it was recorded, for
\* every number of blocks and of frames in flight (the buffers of the backends
\* that are overwritten when the version of the block has changed).
THEOREM DrawsReadNoOlderData == ContextSpec => []NeverOlder
  BY UniformsAlways, PTL DEF UniformsInv

------------------------------------------------------------------------------
(* Descriptor sets.                                                        *)

\* What the pool holds: sets with a block and textures.
SetContents == [block : SetBlocks \cup {Sets!None},
                textures : UNION {[S -> Textures] : S \in SUBSET Slots}]

\* A map of sets that leads into the pool, to a set with the buffer of the
\* block, if there is one in the key and the program reads it.
Leads(sets, all) ==
  /\ all \in Seq(SetContents)
  /\ \A k \in DOMAIN sets :
       /\ sets[k] \in 1 .. Len(all)
       /\ k[1].block /\ k[2] # Sets!None => all[sets[k]].block = k[2]

\* The last draw bound a set of the pool, with the buffer of its block.
LastBound ==
  last.set # Sets!None =>
    /\ last.set \in 1 .. Len(setContents)
    /\ last.block # Sets!None /\ last.program.block =>
         setContents[last.set].block = last.block

SetsInv == Leads(m_descriptor_sets, setContents) /\ LastBound

\* A set that is found or created for a key: the map still leads into the
\* pool, and the set has the block of the key, if new contents do.
LEMMA FoundOrCreated ==
  ASSUME NEW sets, NEW all, NEW key, NEW new \in SetContents,
         Leads(sets, all),
         key[1].block /\ key[2] # Sets!None =>
           new.block = key[2] \/ key \in DOMAIN sets \/ Len(all) = MaxSets
  PROVE  LET r == Sets!FindOrCreate(sets, all, key, new) IN
         /\ Leads(r.sets, r.all)
         /\ Len(all) <= Len(r.all)
         /\ \A i \in 1 .. Len(all) : r.all[i] = all[i]
         /\ r.set # Sets!None =>
              key \in DOMAIN r.sets /\ r.set = r.sets[key]
         /\ r.set = Sets!None => r.all = all /\ Len(all) = MaxSets
<1> DEFINE r == Sets!FindOrCreate(sets, all, key, new)
<1>1. CASE key \in DOMAIN sets
  BY <1>1 DEF Leads, Sets!FindOrCreate, Sets!Found, Sets!None
<1>2. CASE key \notin DOMAIN sets /\ Len(all) = MaxSets
  BY <1>2 DEF Leads, Sets!FindOrCreate, Sets!Found, Sets!None
<1>3. CASE key \notin DOMAIN sets /\ Len(all) # MaxSets
  <2> DEFINE n == Len(all) + 1
  <2>1. /\ r.sets = [k \in DOMAIN sets \cup {key} |->
                       IF k = key THEN n ELSE sets[k]]
        /\ r.all = Append(all, new) /\ r.set = n
    BY <1>3 DEF Sets!FindOrCreate, Sets!Found
  <2>2. /\ r.all \in Seq(SetContents) /\ Len(r.all) = n
        /\ \A i \in 1 .. Len(all) : r.all[i] = all[i]
        /\ r.all[n] = new
        /\ Len(all) \in Nat
    BY <2>1 DEF Leads
  <2>3. /\ DOMAIN r.sets = DOMAIN sets \cup {key}
        /\ r.sets[key] = n
        /\ \A k \in DOMAIN sets : r.sets[k] = sets[k]
    BY <2>1, <1>3
  <2> HIDE DEF n
  <2>4. n = Len(all) + 1
    BY DEF n
  <2>5. Leads(r.sets, r.all)
    BY <1>3, <2>2, <2>3, <2>4 DEF Leads
  <2> QED
    BY <2>1, <2>2, <2>3, <2>4, <2>5 DEF Sets!None
<1> QED
  BY <1>1, <1>2, <1>3


\* What a request writes for the textures is a function of slots.
LEMMA MatchedTextures ==
  ASSUME NEW p \in Sets!ProgramKinds, NEW l \in Sets!Bindings
  PROVE  Sets!Matched(p, l) \in UNION {[S -> Textures] : S \in SUBSET Slots}
<1> DEFINE S == {t \in p.samplers : \E i \in DOMAIN l : l[i].slot = t}
           bs == {l[i] : i \in DOMAIN l}
<1>1. S \in SUBSET Slots
  BY DEF Sets!ProgramKinds
<1>2. \A i \in DOMAIN l : l[i] \in [slot : Slots, texture : Textures]
  BY DEF Sets!Bindings
<1>3. \A s \in S : (CHOOSE b \in bs : b.slot = s).texture \in Textures
  <2> TAKE s \in S
  <2>1. PICK b \in bs : b.slot = s
    OBVIOUS
  <2>2. (CHOOSE c \in bs : c.slot = s) \in bs
    BY <2>1
  <2> QED
    BY <1>2, <2>2
<1>4. Sets!Matched(p, l) = [s \in S |-> (CHOOSE b \in bs : b.slot = s).texture]
  BY DEF Sets!Matched
<1> HIDE DEF S, bs
<1>5. Sets!Matched(p, l) \in [S -> Textures]
  BY <1>3, <1>4
<1> QED
  BY <1>1, <1>5

\* A request for the set of a block, alone.
LEMMA BlockPrepared ==
  ASSUME NEW sets, NEW all, NEW p \in Sets!ProgramKinds,
         NEW ub \in SetBlocks \cup {Sets!None},
         Leads(sets, all)
  PROVE  LET r == Sets!PrepareUniformBlock(sets, all, p, ub) IN
         /\ Leads(r.sets, r.all)
         /\ r.set # Sets!None =>
              /\ r.set \in 1 .. Len(r.all)
              /\ Sets!Key(p, ub, <<>>) \in DOMAIN r.sets
              /\ ub # Sets!None /\ p.block => r.all[r.set].block = ub
         /\ r.set = Sets!None => Len(r.all) = MaxSets
<1> DEFINE r == Sets!PrepareUniformBlock(sets, all, p, ub)
<1> DEFINE key == Sets!Key(p, ub, <<>>)
           new == [block |-> IF p.block THEN ub ELSE Sets!None,
                   textures |-> [s \in {} |-> Sets!None]]
<1>1. key[1] = p /\ key[2] = ub
  BY DEF Sets!Key
<1>2. new.textures \in [{} -> Textures]
  OBVIOUS
<1>3. new \in SetContents
  BY <1>2 DEF SetContents
<1>4. key[1].block /\ key[2] # Sets!None => new.block = key[2]
  BY <1>1
<1>5. r = Sets!FindOrCreate(sets, all, key, new)
  BY DEF Sets!PrepareUniformBlock
<1> HIDE DEF key, new
<1>6. /\ Leads(r.sets, r.all)
      /\ r.set # Sets!None =>
           key \in DOMAIN r.sets /\ r.set = r.sets[key]
      /\ r.set = Sets!None => r.all = all /\ Len(all) = MaxSets
  BY <1>3, <1>4, <1>5, FoundOrCreated
<1>7. r.set # Sets!None =>
        /\ r.set \in 1 .. Len(r.all)
        /\ ub # Sets!None /\ p.block => r.all[r.set].block = ub
  BY <1>1, <1>6 DEF Leads
<1> QED
  BY <1>6, <1>7 DEF key

\* A request for the set of a block with textures, when the set of the block
\* alone is there, unless the pool has run out.
LEMMA TexturePrepared ==
  ASSUME NEW sets, NEW all, NEW p \in Sets!ProgramKinds,
         NEW ub \in SetBlocks \cup {Sets!None}, NEW l \in Sets!Bindings,
         Leads(sets, all),
         ub # Sets!None =>
           Sets!Key(p, ub, <<>>) \in DOMAIN sets \/ Len(all) = MaxSets
  PROVE  LET r == Sets!PrepareTexture(sets, all, p, ub, l) IN
         /\ Leads(r.sets, r.all)
         /\ r.set # Sets!None =>
              /\ r.set \in 1 .. Len(r.all)
              /\ ub # Sets!None /\ p.block => r.all[r.set].block = ub
<1> DEFINE r == Sets!PrepareTexture(sets, all, p, ub, l)
<1>1. CASE p.samplers = {}
  BY <1>1 DEF Sets!PrepareTexture, Sets!Found
<1>2. CASE p.samplers # {}
  <2> DEFINE key == Sets!Key(p, ub, l)
             given == p.block /\ ub # Sets!None /\ Sets!Key(p, ub, <<>>) \in DOMAIN sets
             new == [block |-> IF given THEN ub ELSE Sets!None,
                     textures |-> Sets!Matched(p, l)]
  <2>1. key[1] = p /\ key[2] = ub
    BY DEF Sets!Key
  <2>2. new \in SetContents
    BY MatchedTextures DEF SetContents
  <2>3. key[1].block /\ key[2] # Sets!None =>
          new.block = key[2] \/ key \in DOMAIN sets \/ Len(all) = MaxSets
    BY <2>1
  <2>4. r = Sets!FindOrCreate(sets, all, key, new)
    BY <1>2 DEF Sets!PrepareTexture
  <2> HIDE DEF key, new
  <2>5. /\ Leads(r.sets, r.all)
        /\ r.set # Sets!None => key \in DOMAIN r.sets /\ r.set = r.sets[key]
    BY <2>2, <2>3, <2>4, FoundOrCreated
  <2> QED
    BY <2>1, <2>5 DEF Leads
<1> QED
  BY <1>1, <1>2

\* What a draw prepares.
LEMMA DrawPrepared ==
  ASSUME NEW sets, NEW all, NEW p \in Sets!ProgramKinds,
         NEW ub \in SetBlocks \cup {Sets!None}, NEW l \in Sets!Bindings,
         Leads(sets, all)
  PROVE  LET r == Sets!Prepared(sets, all, p, ub, l) IN
         /\ Leads(r.sets, r.all)
         /\ r.set # Sets!None =>
              /\ r.set \in 1 .. Len(r.all)
              /\ ub # Sets!None /\ p.block => r.all[r.set].block = ub
<1> DEFINE r == Sets!Prepared(sets, all, p, ub, l)
<1> DEFINE first == IF ub # Sets!None
                    THEN Sets!PrepareUniformBlock(sets, all, p, ub)
                    ELSE Sets!Found(sets, all, Sets!None)
<1>1. /\ Leads(first.sets, first.all)
      /\ first.set # Sets!None =>
           /\ first.set \in 1 .. Len(first.all)
           /\ ub # Sets!None /\ p.block => first.all[first.set].block = ub
      /\ ub # Sets!None =>
           \/ Sets!Key(p, ub, <<>>) \in DOMAIN first.sets
           \/ Len(first.all) = MaxSets
  <2>1. CASE ub # Sets!None
    <3>1. first = Sets!PrepareUniformBlock(sets, all, p, ub)
      BY <2>1
    <3> HIDE DEF first
    <3> QED
      BY <3>1, BlockPrepared
  <2>2. CASE ub = Sets!None
    BY <2>2 DEF Sets!Found
  <2> QED
    BY <2>1, <2>2
<1>2. r = IF l = <<>> THEN first
          ELSE Sets!PrepareTexture(first.sets, first.all, p, ub, l)
  BY DEF Sets!Prepared
<1> HIDE DEF first
<1>3. CASE l = <<>>
  BY <1>1, <1>2, <1>3
<1>4. CASE l # <<>>
  <2> DEFINE s1 == first.sets
             a1 == first.all
  <2>1. r = Sets!PrepareTexture(s1, a1, p, ub, l)
    BY <1>2, <1>4
  <2>2. /\ Leads(s1, a1)
        /\ ub # Sets!None =>
             Sets!Key(p, ub, <<>>) \in DOMAIN s1 \/ Len(a1) = MaxSets
    BY <1>1
  <2> HIDE DEF r, s1, a1
  <2>3. /\ Leads(r.sets, r.all)
        /\ r.set # Sets!None =>
             /\ r.set \in 1 .. Len(r.all)
             /\ ub # Sets!None /\ p.block => r.all[r.set].block = ub
    BY <2>1, <2>2, TexturePrepared
  <2> QED
    BY <2>3 DEF r
<1> QED
  BY <1>3, <1>4

LEMMA SetsStep ==
  ASSUME SetsInv, [Sets!Next]_setVars
  PROVE  SetsInv'
<1>1. ASSUME NEW p \in Sets!ProgramKinds, NEW ub \in SetBlocks \cup {Sets!None},
             NEW l \in Sets!Bindings, Sets!DrawGeometry(p, ub, l)
      PROVE  SetsInv'
  <2> DEFINE r == IF ub # Sets!None \/ l # <<>>
                  THEN Sets!Prepared(m_descriptor_sets, setContents, p, ub, l)
                  ELSE Sets!Found(m_descriptor_sets, setContents, Sets!None)
  <2>1. /\ m_descriptor_sets' = r.sets /\ setContents' = r.all
        /\ last' = [program |-> p, block |-> ub, textures |-> l, set |-> r.set]
    BY <1>1 DEF Sets!DrawGeometry
  <2>2. /\ Leads(r.sets, r.all)
        /\ r.set # Sets!None =>
             /\ r.set \in 1 .. Len(r.all)
             /\ ub # Sets!None /\ p.block => r.all[r.set].block = ub
    <3>1. CASE ub # Sets!None \/ l # <<>>
      <4>1. r = Sets!Prepared(m_descriptor_sets, setContents, p, ub, l)
        BY <3>1
      <4> HIDE DEF r
      <4> QED
        BY <4>1, DrawPrepared DEF SetsInv
    <3>2. CASE ~(ub # Sets!None \/ l # <<>>)
      BY <3>2 DEF Sets!Found, SetsInv
    <3> QED
      BY <3>1, <3>2
  <2> HIDE DEF r
  <2> QED
    BY <2>1, <2>2 DEF SetsInv, LastBound, Leads
<1>2. CASE Sets!BeginCommandBuffer
  BY <1>2 DEF Sets!BeginCommandBuffer, Sets!NoDraw, SetsInv, LastBound, Leads,
              SetContents, Sets!None
<1>3. CASE UNCHANGED setVars
  BY <1>3 DEF setVars, SetsInv, LastBound, Leads
<1> QED
  BY <1>1, <1>2, <1>3 DEF Sets!Next

\* A step of the composition is a step of the part, or leaves it alone.
LEMMA SetsPart == ContextNext => [Sets!Next]_setVars
  BY DEF ContextNext, setVars

\* If a draw with a block binds a set and its program reads a block, the set
\* has the buffer of this block, for every number of sets of the pool, also
\* when it runs out on the way (descriptor sets of the Vulkan context).
THEOREM SetsBindOwnBlock == ContextSpec => []OwnBlockBound
<1>1. ContextInit => SetsInv
  BY DEF ContextInit, Sets!Init, SetsInv, LastBound, Leads, Sets!NoDraw,
         Sets!None, SetContents
<1>2. SetsInv /\ [ContextNext]_<<part, vars, objectVars, loopVars, uniVars,
                                 setVars, cacheVars>> => SetsInv'
  BY SetsStep, SetsPart
<1>3. SetsInv => OwnBlockBound
  BY DEF SetsInv, LastBound, OwnBlockBound, Sets!OwnBlockBound
<1> QED
  BY <1>1, <1>2, <1>3, PTL DEF ContextSpec

------------------------------------------------------------------------------
(* Caches of pipelines.                                                    *)

\* The numbers that shaders and handles have had.
Given == 1 .. things + Cardinality(Addresses)

\* What the entries say of a handle holds for the thing that has it now, as long
\* as the handle was given out once.
ShadersOf(handle, shaders) ==
  /\ handle \in Given
  /\ \A p \in Addresses :
       cacheLinked[p].handle = handle =>
         shaders = cacheLinked[p].shaders \/ <<"program", handle>> \in reused

FormatOf(handle, format) ==
  /\ handle \in Given
  /\ \A v \in Addresses :
       vertices[v].handle = handle =>
         format = vertices[v].format \/ <<"buffer", handle>> \in reused

\* An entry of each backend.
VulkanEntry(k, made) ==
  /\ FormatOf(k[1], made.format) /\ ShadersOf(k[2], made.shaders)
  /\ made.state = k[3] /\ made.target = k[4]

\* (used: what the pipelines of the programs were drawn with).
Dx12Entry(k, made, used) ==
  /\ k[2] \in Nat /\ made.state = k[2] /\ made.target = k[3]
  /\ k[1] \in Addresses
  /\ \/ k[2] < Caches!DefaultState
     \/ /\ made.shaders = cacheLinked[k[1]].shaders \/ k[1] \in relinked
        /\ [key |-> k, format |-> made.format] \in used

Dx11Entry(k, made) ==
  ShadersOf(k[2], made.shaders) /\ made.format = k[1] /\ made.state = k[3]

OpenglEntry(k, made) == FormatOf(k[1], made.format)

CacheTypes ==
  /\ api \in {"vulkan", "dx12", "dx11", "opengl"} /\ things \in Nat
  /\ cacheLinked \in [Addresses -> [shaders : Given, handle : Given]]
  /\ vertices \in [Addresses -> [format : Formats, handle : Given]]

EntriesFit ==
  \A k \in DOMAIN cache :
    /\ api = "vulkan" => VulkanEntry(k, cache[k])
    /\ api = "dx12"   => Dx12Entry(k, cache[k], formatsOf)
    /\ api = "dx11"   => Dx11Entry(k, cache[k])
    /\ api = "opengl" => OpenglEntry(k, cache[k])

\* No two programs, and no two buffers, have the same handle.
HandlesApart ==
  \A p, q \in Addresses :
    /\ cacheLinked[p].handle = cacheLinked[q].handle => p = q
    /\ vertices[p].handle = vertices[q].handle => p = q

CachesInv == CacheTypes /\ EntriesFit /\ HandlesApart /\ PipelineFits

LEMMA AddressesCounted ==
  Cardinality(Addresses) \in Nat /\ Addresses = 1 .. Cardinality(Addresses)
BY CachesAssumption, FS_CardinalityType

LEMMA FreshIsNew ==
  ASSUME CacheTypes, things' = things + 1
  PROVE  /\ Caches!Fresh \notin Given /\ Caches!Fresh \in Given'
         /\ Given \subseteq Given'
<1>1. Caches!Fresh = things + 1 + Cardinality(Addresses)
  <2>1. Addresses \cup Addresses = Addresses
    OBVIOUS
  <2> QED
    BY <2>1, Zenon DEF Caches!Fresh, Caches!Cardinality, Cardinality
<1> QED
  BY <1>1, AddressesCounted DEF CacheTypes, Given

LEMMA CachesStep ==
  ASSUME CachesInv, [Caches!Next]_cacheVars
  PROVE  CachesInv'
<1> USE DEF CachesInv
<1>1. ASSUME NEW p \in Addresses, Caches!LinkAgain(p)
      PROVE  CachesInv'
  <2>1. /\ Caches!Fresh \notin Given /\ Caches!Fresh \in Given'
        /\ Given \subseteq Given'
    BY <1>1, FreshIsNew DEF Caches!LinkAgain
  <2>2. CacheTypes'
    BY <1>1, <2>1 DEF Caches!LinkAgain, CacheTypes
  <2>3. HandlesApart'
    BY <1>1, <2>1 DEF Caches!LinkAgain, CacheTypes, HandlesApart
  <2>4. EntriesFit'
    BY <1>1, <2>1 DEF Caches!LinkAgain, CacheTypes, EntriesFit,
                      VulkanEntry, Dx12Entry, Dx11Entry, OpenglEntry,
                      ShadersOf, FormatOf
  <2> QED
    BY <1>1, <2>2, <2>3, <2>4 DEF Caches!LinkAgain, PipelineFits,
                                  Caches!PipelineFits
<1>2. ASSUME NEW p \in Addresses, NEW again \in BOOLEAN,
             Caches!RecreateProgram(p, again)
      PROVE  CachesInv'
  <2>1. /\ Caches!Fresh \notin Given /\ Caches!Fresh \in Given'
        /\ Given \subseteq Given'
    BY <1>2, FreshIsNew DEF Caches!RecreateProgram
  <2>2. CacheTypes'
    BY <1>2, <2>1 DEF Caches!RecreateProgram, CacheTypes
  <2>3. HandlesApart'
    BY <1>2, <2>1 DEF Caches!RecreateProgram, CacheTypes, HandlesApart
  <2>4. /\ DOMAIN cache' = {k \in DOMAIN cache : ~Caches!Removable(p, k)}
        /\ \A k \in DOMAIN cache' : cache'[k] = cache[k]
    BY <1>2 DEF Caches!RecreateProgram, Caches!RemovedByDestructor, Caches!Restrict
  <2>5. EntriesFit'
    <3>1. CASE api = "dx12"
      BY <1>2, <2>1, <2>4, <3>1
         DEF Caches!RecreateProgram, CacheTypes, EntriesFit, Dx12Entry,
             Caches!Removable, Caches!DefaultState
    <3>2. CASE api = "opengl"
      BY <1>2, <2>1, <2>4, <3>2
         DEF Caches!RecreateProgram, CacheTypes, EntriesFit, OpenglEntry,
             FormatOf
    <3>3. CASE api = "dx11"
      BY <1>2, <2>1, <2>4, <3>3
         DEF Caches!RecreateProgram, CacheTypes, EntriesFit, Dx11Entry,
             ShadersOf
    <3>4. CASE api = "vulkan"
      BY <1>2, <2>1, <2>4, <3>4
         DEF Caches!RecreateProgram, CacheTypes, EntriesFit, VulkanEntry,
             ShadersOf, FormatOf
    <3> QED
      BY <3>1, <3>2, <3>3, <3>4 DEF CacheTypes
  <2> QED
    BY <1>2, <2>2, <2>3, <2>5 DEF Caches!RecreateProgram, PipelineFits,
                                  Caches!PipelineFits
<1>3. ASSUME NEW v \in Addresses, NEW f \in Formats, NEW again \in BOOLEAN,
             Caches!RecreateBuffer(v, f, again)
      PROVE  CachesInv'
  <2>1. /\ Caches!Fresh \notin Given /\ Caches!Fresh \in Given'
        /\ Given \subseteq Given'
    BY <1>3, FreshIsNew DEF Caches!RecreateBuffer
  <2>2. CacheTypes'
    BY <1>3, <2>1 DEF Caches!RecreateBuffer, CacheTypes
  <2>3. HandlesApart'
    BY <1>3, <2>1 DEF Caches!RecreateBuffer, CacheTypes, HandlesApart
  <2>4. EntriesFit'
    <3>1. CASE api = "dx12"
      BY <1>3, <3>1 DEF Caches!RecreateBuffer, EntriesFit, Dx12Entry
    <3>2. CASE api = "opengl"
      BY <1>3, <2>1, <3>2 DEF Caches!RecreateBuffer, CacheTypes, EntriesFit,
         OpenglEntry, FormatOf
    <3>3. CASE api = "dx11"
      BY <1>3, <2>1, <3>3 DEF Caches!RecreateBuffer, CacheTypes, EntriesFit,
         Dx11Entry, ShadersOf
    <3>4. CASE api = "vulkan"
      BY <1>3, <2>1, <3>4 DEF Caches!RecreateBuffer, CacheTypes, EntriesFit,
         VulkanEntry, ShadersOf, FormatOf
    <3> QED
      BY <3>1, <3>2, <3>3, <3>4 DEF CacheTypes
  <2> QED
    BY <1>3, <2>2, <2>3, <2>4 DEF Caches!RecreateBuffer, PipelineFits,
                                  Caches!PipelineFits
<1>4. ASSUME NEW p \in Addresses, NEW v \in Addresses, NEW s \in Caches!States,
             NEW t \in Targets, Caches!DrawWith(p, v, s, t)
      PROVE  CachesInv'
  <2> DEFINE key == Caches!Key(p, v, s, t)
             new == Caches!Made(p, v, s, t)
             Fits(k, made) ==
               /\ api = "vulkan" => VulkanEntry(k, made)
               /\ api = "dx12"   => Dx12Entry(k, made, formatsOf')
               /\ api = "dx11"   => Dx11Entry(k, made)
               /\ api = "opengl" => OpenglEntry(k, made)
  <2>1. /\ cache' = IF key \in DOMAIN cache THEN cache
                    ELSE [k \in DOMAIN cache \cup {key} |->
                            IF k = key THEN new ELSE cache[k]]
        /\ cacheDrawn' = [program |-> p, buffer |-> v, given |-> new,
                          got |-> cache'[key]]
        /\ formatsOf' = IF api = "dx12"
                        THEN formatsOf \cup {[key |-> key, format |-> new.format]}
                        ELSE formatsOf
        /\ UNCHANGED <<api, cacheLinked, vertices, things, reused, relinked>>
    BY <1>4 DEF Caches!DrawWith
  <2>2. /\ DOMAIN cache' = DOMAIN cache \cup {key}
        /\ \A k \in DOMAIN cache : cache'[k] = cache[k]
        /\ key \notin DOMAIN cache => cache'[key] = new
    BY <2>1
  <2>3. Fits(key, new)
    <3>1. CASE api # "dx12"
      BY <3>1, AddressesCounted
         DEF CacheTypes, HandlesApart, Caches!Key, Caches!VulkanKey,
             Caches!Dx11Key, Caches!OpenglKey, Caches!Made, VulkanEntry,
             Dx11Entry, OpenglEntry, ShadersOf, FormatOf
    <3>2. CASE api = "dx12"
      <4>1. /\ key = <<p, s, t>> /\ new.state = s /\ new.target = t
            /\ new.shaders = cacheLinked[p].shaders /\ s \in Nat
        BY <3>2 DEF Caches!Key, Caches!Dx12Key, Caches!Made, Caches!States
      <4>2. [key |-> key, format |-> new.format] \in formatsOf'
        BY <2>1, <3>2
      <4> HIDE DEF key, new
      <4> QED
        BY <3>2, <4>1, <4>2 DEF Dx12Entry
    <3> QED
      BY <3>1, <3>2
  <2>4. \A k \in DOMAIN cache' : Fits(k, cache'[k])
    <3>1. \A k \in DOMAIN cache : Fits(k, cache[k])
      <4>1. formatsOf \subseteq formatsOf'
        BY <2>1
      <4> QED
        BY <4>1 DEF EntriesFit, Dx12Entry
    <3> HIDE DEF Fits, key, new
    <3> QED
      BY <2>2, <2>3, <3>1
  <2>5. EntriesFit'
    <3> HIDE DEF key, new
    <3>1. CASE api = "dx12"
      BY <2>1, <2>4, <3>1 DEF EntriesFit, Dx12Entry
    <3>2. CASE api = "opengl"
      BY <2>1, <2>4, <3>2 DEF EntriesFit, OpenglEntry, FormatOf, Given
    <3>3. CASE api = "dx11"
      BY <2>1, <2>4, <3>3 DEF EntriesFit, Dx11Entry, ShadersOf, Given
    <3>4. CASE api = "vulkan"
      <4>1. \A k \in DOMAIN cache' :
              /\ FormatOf(k[1], cache'[k].format)
              /\ ShadersOf(k[2], cache'[k].shaders)
              /\ cache'[k].state = k[3] /\ cache'[k].target = k[4]
        BY <2>4, <3>4 DEF VulkanEntry
      <4>2. \A k \in DOMAIN cache' : FormatOf(k[1], cache[k].format)'
        BY <2>1, <4>1 DEF FormatOf, Given
      <4>3. \A k \in DOMAIN cache' : ShadersOf(k[2], cache[k].shaders)'
        BY <2>1, <4>1 DEF ShadersOf, Given
      <4> QED
        BY <2>1, <3>4, <4>1, <4>2, <4>3 DEF EntriesFit, VulkanEntry
    <3> QED
      BY <3>1, <3>2, <3>3, <3>4 DEF CacheTypes
  <2>6. PipelineFits'
    <3> DEFINE got == cache'[key]
    <3>1. Fits(key, got)
      BY <2>2, <2>4
    <3>2. /\ cacheDrawn'.program = p /\ cacheDrawn'.buffer = v
          /\ cacheDrawn'.given = new /\ cacheDrawn'.got = got
      BY <2>1
    <3>3. /\ new.state = s /\ new.target = t
          /\ new.shaders = cacheLinked[p].shaders
          /\ new.format = vertices[v].format
      BY DEF Caches!Made
    <3> HIDE DEF new, got
    <3>4. \A f \in Caches!MadeFor : got[f] = new[f] \/ Caches!Stale(f)'
      <4>1. CASE api = "vulkan"
        BY <2>1, <3>1, <3>2, <3>3, <4>1
           DEF Caches!Key, Caches!VulkanKey, VulkanEntry, ShadersOf, FormatOf,
               Caches!MadeFor, Caches!Stale
      <4>2. CASE api = "dx12"
        BY <2>1, <3>1, <3>2, <3>3, <4>2
           DEF Caches!Key, Caches!Dx12Key, Dx12Entry, Caches!MadeFor,
               Caches!Stale
      <4>3. CASE api = "dx11"
        BY <2>1, <3>1, <3>2, <3>3, <4>3
           DEF Caches!Key, Caches!Dx11Key, Dx11Entry, ShadersOf,
               Caches!MadeFor, Caches!Stale
      <4>4. CASE api = "opengl"
        BY <2>1, <3>1, <3>2, <3>3, <4>4
           DEF Caches!Key, Caches!OpenglKey, OpenglEntry, FormatOf,
               Caches!MadeFor, Caches!Stale
      <4> QED
        BY <4>1, <4>2, <4>3, <4>4 DEF CacheTypes
    <3>5. Caches!MadeFor' = Caches!MadeFor
      BY <2>1 DEF Caches!MadeFor
    <3> QED
      BY <3>2, <3>4, <3>5 DEF PipelineFits, Caches!PipelineFits
  <2> QED
    BY <2>1, <2>5, <2>6 DEF CacheTypes, HandlesApart, Given
<1>5. CASE UNCHANGED cacheVars
  BY <1>5 DEF cacheVars, CacheTypes, EntriesFit, HandlesApart, PipelineFits,
              Caches!PipelineFits, Caches!MadeFor, Caches!Stale, Given,
              VulkanEntry, Dx12Entry, Dx11Entry, OpenglEntry, ShadersOf,
              FormatOf
<1> QED
  BY <1>1, <1>2, <1>3, <1>4, <1>5 DEF Caches!Next

LEMMA CachesStart == ContextInit => CachesInv
<1> SUFFICES ASSUME ContextInit PROVE CachesInv
  OBVIOUS
<1>1. /\ api \in {"vulkan", "dx12", "dx11", "opengl"} /\ things = 0
      /\ cacheLinked = [p \in Addresses |-> [shaders |-> p, handle |-> p]]
      /\ \E f \in Formats :
           vertices = [v \in Addresses |-> [format |-> f, handle |-> v]]
      /\ DOMAIN cache = {} /\ cacheDrawn = Caches!NoDraw
  BY CachesAssumption DEF ContextInit, Caches!Init
<1>2. CacheTypes
  BY <1>1, AddressesCounted DEF CacheTypes, Given
<1>3. EntriesFit /\ PipelineFits
  BY <1>1 DEF EntriesFit, PipelineFits, Caches!PipelineFits
<1>4. HandlesApart
  BY <1>1 DEF HandlesApart
<1> QED
  BY <1>2, <1>3, <1>4 DEF CachesInv

LEMMA CachesPart == ContextNext => [Caches!Next]_cacheVars
  BY DEF ContextNext, cacheVars

\* What a draw finds in a cache was made for its shaders, its vertex format, its
\* pipeline state and its target, as far as the entry depends on them, except
\* where a handle came back (the caches of all backends), for every number of
\* programs, buffers and things created after the first ones.
THEOREM CachedPipelinesFit == ContextSpec => []PipelineFits
<1>1. ContextInit => CachesInv
  BY CachesStart
<1>2. CachesInv /\ [ContextNext]_<<part, vars, objectVars, loopVars, uniVars,
                                   setVars, cacheVars>> => CachesInv'
  BY CachesStep, CachesPart
<1>3. CachesInv => PipelineFits
  BY DEF CachesInv
<1> QED
  BY <1>1, <1>2, <1>3, PTL DEF ContextSpec
================================================================================
