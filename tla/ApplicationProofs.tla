--------------------------- MODULE ApplicationProofs ---------------------------
(***************************************************************************)
(* Proofs about the parts that MCApplication composes: the mounted assets, *)
(* the input of windows, the registry of components and trace topics.      *)
(***************************************************************************)
EXTENDS MCApplication, FiniteSetTheorems, SequenceTheorems, WellFoundedInduction,
        TLAPS

LEMMA LeastOf ==
  ASSUME NEW S \in SUBSET Nat, S # {}
  PROVE  \E k \in S : \A j \in S : k <= j
<1>1. IsWellFoundedOn(OpToRel(<, Nat), Nat)
  BY NatLessThanWellFounded
<1>2. PICK k \in S : \A j \in S : ~(<<j, k>> \in OpToRel(<, Nat))
  BY <1>1, WFMin
<1>3. ASSUME NEW j \in S, ~(k <= j) PROVE FALSE
  <2>1. <<j, k>> \in Nat \X Nat /\ <<j, k>>[1] < <<j, k>>[2]
    BY <1>3
  <2>2. <<j, k>> \in OpToRel(<, Nat)
    BY <2>1 DEF OpToRel
  <2> QED
    BY <1>2, <2>2
<1> QED
  BY <1>3

------------------------------------------------------------------------------
(* The mount table of the assets.                                          *)

LEMMA MountsStart == ApplicationInit => OneConfiguration
BY DEF ApplicationInit, Assets!Init, OneConfiguration, Assets!OneConfiguration

LEMMA MountsStep ==
  ASSUME OneConfiguration, [Assets!Next]_assetVars
  PROVE  OneConfiguration'
<1> USE DEF OneConfiguration, Assets!OneConfiguration
<1>1. CASE Assets!CreateTable
  BY <1>1 DEF Assets!CreateTable
<1>2. ASSUME NEW v, Assets!Notify(v)
      PROVE  OneConfiguration'
  <2>1. CASE UNCHANGED <<m_mounts, applied, retained, byClient>>
    BY <2>1
  <2>2. ASSUME NEW r,
               m_mounts' = [p \in DOMAIN r |->
                              IF Assets!Kept(p, r) THEN m_mounts[p] ELSE r[p]],
               Assets!Applied(r)
        PROVE  OneConfiguration'
    BY <2>2 DEF Assets!Applied, Assets!Kept
  <2>3. ASSUME NEW r, Assets!Configure(r)
        PROVE  OneConfiguration'
    BY <2>1, <2>2, <2>3 DEF Assets!Configure
  <2> QED
    BY <1>2, <2>1, <2>3 DEF Assets!Notify, Assets!ConfigureUnset
<1>3. ASSUME NEW p, NEW t, NEW m, Assets!Mount(p, t, m)
      PROVE  OneConfiguration'
  BY <1>3 DEF Assets!Mount
<1>4. ASSUME NEW p, Assets!Umount(p)
      PROVE  OneConfiguration'
  BY <1>4 DEF Assets!Umount
<1>5. CASE UNCHANGED assetVars
  BY <1>5 DEF assetVars
<1> QED
  BY <1>1, <1>2, <1>3, <1>4, <1>5 DEF Assets!Next

LEMMA AssetsPartSteps == ApplicationNext => [Assets!Next]_assetVars
BY DEF ApplicationNext, assetVars

\* Whatever repositories are configured, and wherever a configuration throws,
\* the table has the points and types of the last one that could be mounted as
\* a whole, but for what clients have mounted and unmounted since, and its modes
\* where a source was not taken over.
THEOREM TableIsOneConfiguration == ApplicationSpec => []OneConfiguration
<1>1. OneConfiguration /\ [ApplicationNext]_<<part, vars, mapVars, inputVars,
        registryVars, libraryVars, configVars, assetVars, luaVars, traceVars>>
        => OneConfiguration'
  BY MountsStep, AssetsPartSteps
<1> QED
  BY MountsStart, <1>1, PTL DEF ApplicationSpec

------------------------------------------------------------------------------
(* The handlers of a window's input.                                       *)

LEMMA LeastIsLeast ==
  ASSUME NEW S \in SUBSET Nat, S # {}
  PROVE  Input!Least(S) \in S /\ \A j \in S : Input!Least(S) <= j
BY LeastOf DEF Input!Least

InputCall == [kind : Input!Kinds, key : Input!Keys,
              action : {"PRESS", "REPEAT", "RELEASE"}]

Handled == Head(calls).kind

\* Keys of handlers are given in ascending order; the handler that runs is one
\* of the kind of the call, and those behind it have been called.
HandlersInv ==
  /\ m_next_key \in Nat
  /\ handlers \in [Input!Kinds -> SUBSET (1 .. m_next_key)]
  /\ calls \in Seq(InputCall)
  /\ running \in Nat /\ freedHandler \in BOOLEAN
  /\ down \subseteq Input!Keys
  /\ running # 0 => calls # <<>> /\ running <= m_next_key /\ running \in called
  /\ HandlersInOrder

LEMMA GoesOn ==
  ASSUME HandlersInv, calls # <<>>, Input!GoOn(running),
         UNCHANGED <<handlers, m_next_key, freedHandler, down>>, ~freedHandler
  PROVE  HandlersInv'
<1> DEFINE ahead == {k \in handlers[Handled] : k > running}
<1>1. Handled \in Input!Kinds /\ handlers[Handled] \subseteq 1 .. m_next_key
  <2>1. Head(calls) \in InputCall
    BY DEF HandlersInv
  <2> QED
    BY <2>1 DEF HandlersInv, Handled, InputCall
<1>2. CASE ahead = {}
  <2>1. running' = 0 /\ calls' = Tail(calls)
    BY <1>2 DEF Input!GoOn, Handled
  <2>2. calls' \in Seq(InputCall)
    BY <2>1 DEF HandlersInv, InputCall
  <2> QED
    BY <2>1, <2>2 DEF HandlersInv, HandlersInOrder, Input!HandlersInOrder, InputCall
<1>3. CASE ahead # {}
  <2>1. /\ running' = Input!Least(ahead) /\ called' = called \cup {running'}
        /\ calls' = calls
    BY <1>3 DEF Input!GoOn, Handled
  <2>0. ahead \in SUBSET Nat
    BY <1>1 DEF HandlersInv
  <2> HIDE DEF ahead
  <2>2. running' \in ahead /\ \A j \in ahead : running' <= j
    BY <1>3, <2>0, <2>1, LeastIsLeast
  <2> USE DEF ahead
  <2>3. running' \in Nat \ {0} /\ running' <= m_next_key
    BY <1>1, <2>2 DEF HandlersInv
  <2>4. ASSUME NEW k \in handlers[Handled], k < running' PROVE k \in called'
    <3>1. k \in Nat \ {0} /\ k <= running
      BY <1>1, <2>2, <2>3, <2>4 DEF HandlersInv
    <3>2. k \in called
      BY <3>1 DEF HandlersInv, HandlersInOrder, Input!HandlersInOrder, Handled
    <3> QED
      BY <2>1, <3>2
  <2> QED
    BY <2>1, <2>3, <2>4 DEF HandlersInv, HandlersInOrder, Input!HandlersInOrder,
       Handled
<1> QED
  BY <1>2, <1>3

\* The keys that are held, each once, in some order.
LEMMA KeysInOrder ==
  ASSUME NEW S \in SUBSET Input!Keys
  PROVE  /\ Input!Cardinality(S) \in Nat
         /\ Input!SetToSeq(S) \in [1 .. Input!Cardinality(S) -> S]
         /\ \A i, j \in 1 .. Input!Cardinality(S) :
              Input!SetToSeq(S)[i] = Input!SetToSeq(S)[j] => i = j
         /\ \A k \in S : \E i \in 1 .. Input!Cardinality(S) :
              Input!SetToSeq(S)[i] = k
<1> DEFINE n == Cardinality(S)
<1>1. IsFiniteSet({"LEFT_SHIFT", "RIGHT_SHIFT", "ENTER", "A"})
  <2>1. IsFiniteSet({})
    BY FS_EmptySet
  <2>2. IsFiniteSet({} \cup {"LEFT_SHIFT"})
    BY <2>1, FS_AddElement
  <2>3. IsFiniteSet(({} \cup {"LEFT_SHIFT"}) \cup {"RIGHT_SHIFT"})
    BY <2>2, FS_AddElement
  <2>4. IsFiniteSet((({} \cup {"LEFT_SHIFT"}) \cup {"RIGHT_SHIFT"}) \cup {"ENTER"})
    BY <2>3, FS_AddElement
  <2>5. IsFiniteSet(((({} \cup {"LEFT_SHIFT"}) \cup {"RIGHT_SHIFT"}) \cup {"ENTER"})
                      \cup {"A"})
    BY <2>4, FS_AddElement
  <2>6. ((({} \cup {"LEFT_SHIFT"}) \cup {"RIGHT_SHIFT"}) \cup {"ENTER"}) \cup {"A"}
          = {"LEFT_SHIFT", "RIGHT_SHIFT", "ENTER", "A"}
    OBVIOUS
  <2> QED
    BY <2>5, <2>6
<1>2. IsFiniteSet(S)
  <2>1. S \in SUBSET {"LEFT_SHIFT", "RIGHT_SHIFT", "ENTER", "A"}
    BY DEF Input!Keys, Input!ShiftKeys
  <2> QED
    BY <1>1, <2>1, FS_Subset
<1>3. n \in Nat /\ \E f : f \in Bijection(1 .. n, S)
  BY <1>2, FS_CardinalityType DEF ExistsBijection
<1>4. Input!Cardinality(S) = n
  BY Zenon DEF Input!Cardinality, Cardinality
<1> HIDE DEF n
<1>5. PICK f \in [1 .. n -> S] : Input!IsInjective(f)
  BY <1>3 DEF Bijection, Injection, IsInjective, Input!IsInjective
<1>6. /\ Input!SetToSeq(S) \in [1 .. n -> S]
      /\ Input!IsInjective(Input!SetToSeq(S))
  BY <1>4, <1>5, Zenon DEF Input!SetToSeq
<1>7. Input!SetToSeq(S) \in Injection(1 .. n, S)
  BY <1>6 DEF Injection, IsInjective, Input!IsInjective
<1>8. IsFiniteSet(1 .. n) /\ Cardinality(1 .. n) = n
  BY <1>3, FS_Interval
<1>9. Input!SetToSeq(S) \in Surjection(1 .. n, S)
  BY <1>2, <1>7, <1>8, FS_Injection DEF n
<1>10. \A k \in S : \E i \in 1 .. n : Input!SetToSeq(S)[i] = k
  BY <1>9 DEF Surjection
<1>11. \A i, j \in 1 .. n : Input!SetToSeq(S)[i] = Input!SetToSeq(S)[j] => i = j
  BY <1>6 DEF Input!IsInjective
<1> QED
  BY <1>3, <1>4, <1>6, <1>10, <1>11

\* A platform's message makes calls of the input handler, and nothing else.
LEMMA CallsAreCalls ==
  ASSUME NEW k \in Input!Keys, NEW action \in {"PRESS", "REPEAT", "RELEASE"}
  PROVE  Input!Calls(k, action) \in Seq(InputCall)
<1> DEFINE key == Input!KeyCall(k, action)
           press == Input!KeyCall(k, "PRESS")
           release == Input!KeyCall(k, "RELEASE")
<1>1. /\ key \in InputCall /\ press \in InputCall /\ release \in InputCall
      /\ Input!Character \in InputCall
  BY DEF Input!KeyCall, Input!Character, InputCall, Input!Kinds, Input!Keys
<1> HIDE DEF key, press, release
<1>2. Input!GlfwCalls(k, action) \in Seq(InputCall)
  <2>1. <<key>> \in Seq(InputCall) /\ <<Input!Character>> \in Seq(InputCall)
        /\ <<>> \in Seq(InputCall)
    BY <1>1
  <2> QED
    BY <2>1, ConcatProperties DEF Input!GlfwCalls, key
<1>3. Input!Win32Calls(k, action) \in Seq(InputCall)
  BY <1>1 DEF Input!Win32Calls, press, release
<1> QED
  BY <1>2, <1>3 DEF Input!Calls

LEMMA ReleasesAreCalls ==
  ASSUME down \subseteq Input!Keys, Input!LoseFocus
  PROVE  calls' \in Seq(InputCall)
<1> DEFINE releases == [i \in 1 .. Input!Cardinality(down) |->
                          Input!KeyCall(Input!SetToSeq(down)[i], "RELEASE")]
<1>1. releases \in Seq(InputCall)
  <2>1. Input!Cardinality(down) \in Nat
        /\ \A i \in 1 .. Input!Cardinality(down) : Input!SetToSeq(down)[i] \in down
    BY KeysInOrder
  <2>2. \A k \in down : Input!KeyCall(k, "RELEASE") \in InputCall
    BY DEF Input!KeyCall, InputCall, Input!Kinds
  <2> QED
    BY <2>1, <2>2
<1>2. calls' = IF platform = "glfw" THEN releases ELSE <<>>
  BY DEF Input!LoseFocus
<1> QED
  BY <1>1, <1>2

LEMMA HandlersStep ==
  ASSUME HandlersInv, [Input!Next]_inputVars
  PROVE  HandlersInv'
<1> USE DEF Input!keyVars, Input!handlerVars, Input!dispatchVars
<1>1. ASSUME calls' \in Seq(InputCall), ~(running # 0), down' \subseteq Input!Keys,
             UNCHANGED <<handlers, m_next_key, running, freedHandler, called>>
      PROVE  HandlersInv'
  BY <1>1 DEF HandlersInv, HandlersInOrder, Input!HandlersInOrder
<1>2. ASSUME NEW k \in Input!Keys,
             Input!PressKey(k) \/ Input!RepeatKey(k) \/ Input!ReleaseKey(k)
      PROVE  HandlersInv'
  BY <1>1, <1>2, CallsAreCalls DEF Input!PressKey, Input!RepeatKey,
     Input!ReleaseKey, Input!Idle, HandlersInv
<1>3. CASE Input!LoseFocus
  BY <1>1, <1>3, ReleasesAreCalls DEF Input!LoseFocus, Input!Idle, HandlersInv
<1>4. CASE Input!BeginCall
  <2>1. Input!GoOn(running)
    BY <1>4 DEF Input!BeginCall
  <2> QED
    BY <1>4, <2>1, GoesOn DEF Input!BeginCall
<1>5. ASSUME NEW result \in BOOLEAN, Input!HandlerReturns(result)
      PROVE  HandlersInv'
  <2>1. CASE result
    <3>1. calls' \in Seq(InputCall) /\ running' = 0
      BY <1>5, <2>1 DEF Input!HandlerReturns, HandlersInv
    <3> QED
      BY <1>5, <3>1 DEF Input!HandlerReturns, HandlersInv, HandlersInOrder,
         Input!HandlersInOrder
  <2>2. CASE ~result
    BY <1>5, <2>2, GoesOn DEF Input!HandlerReturns, HandlersInv
  <2> QED
    BY <2>1, <2>2
<1>6. ASSUME NEW kind \in Input!Kinds, Input!AddHandler(kind)
      PROVE  HandlersInv'
  <2>1. /\ m_next_key' = m_next_key + 1
        /\ handlers' = [handlers EXCEPT ![kind] = @ \cup {m_next_key + 1}]
        /\ UNCHANGED <<down, calls, running, called, freedHandler>>
        /\ running # 0 => m_next_key + 1 > running
    BY <1>6 DEF Input!AddHandler, Input!NextKey, HandlersInv
  <2>2. handlers' \in [Input!Kinds -> SUBSET (1 .. m_next_key')]
    BY <2>1 DEF HandlersInv
  <2>3. \A k \in handlers'[Handled] : k \in handlers[Handled] \/ k = m_next_key + 1
    BY <2>1 DEF HandlersInv
  <2> QED
    BY <2>1, <2>2, <2>3 DEF HandlersInv, HandlersInOrder, Input!HandlersInOrder,
       Handled
<1>7. ASSUME NEW kind \in Input!Kinds, NEW removed \in SUBSET handlers[kind],
             Input!RemoveHandlers(kind, removed)
      PROVE  HandlersInv'
  <2>1. /\ handlers' = [handlers EXCEPT ![kind] = @ \ removed]
        /\ freedHandler' \in BOOLEAN /\ ~freedHandler
        /\ UNCHANGED <<down, m_next_key, calls, running, called>>
    BY <1>7 DEF Input!RemoveHandlers, Input!Able
  <2>2. /\ handlers' \in [Input!Kinds -> SUBSET (1 .. m_next_key')]
        /\ \A x : handlers'[x] \subseteq handlers[x]
    BY <2>1 DEF HandlersInv
  <2> QED
    BY <2>1, <2>2 DEF HandlersInv, HandlersInOrder, Input!HandlersInOrder
<1>8. CASE UNCHANGED inputVars
  BY <1>8 DEF inputVars, HandlersInv, HandlersInOrder, Input!HandlersInOrder
<1> QED
  BY <1>2, <1>3, <1>4, <1>5, <1>6, <1>7, <1>8 DEF Input!Next

LEMMA HandlersStart == ApplicationInit => HandlersInv
<1> SUFFICES ASSUME Input!Init PROVE HandlersInv
  BY DEF ApplicationInit
<1>1. calls = <<>> /\ running = 0 /\ m_next_key = 0 /\ freedHandler = FALSE
      /\ down = {}
      /\ handlers = [k \in Input!Kinds |-> {}]
  BY DEF Input!Init
<1>2. calls \in Seq(InputCall)
  BY <1>1
<1>3. handlers \in [Input!Kinds -> SUBSET (1 .. m_next_key)]
  BY <1>1
<1> QED
  BY <1>1, <1>2, <1>3 DEF HandlersInv, HandlersInOrder, Input!HandlersInOrder

LEMMA InputSteps == ApplicationNext => [Input!Next]_inputVars
BY DEF ApplicationNext, inputVars

LEMMA HandlersAlways == ApplicationSpec => []HandlersInv
<1>1. HandlersInv /\ [ApplicationNext]_<<part, vars, mapVars, inputVars,
        registryVars, libraryVars, configVars, assetVars, luaVars, traceVars>>
        => HandlersInv'
  BY HandlersStep, InputSteps
<1> QED
  BY HandlersStart, <1>1, PTL DEF ApplicationSpec

\* Handlers add and remove handlers of their own and of the other kind while a
\* call is under way: it reaches a handler only after all present ones with
\* lower keys.
THEOREM CallsReachHandlersInOrder == ApplicationSpec => []HandlersInOrder
<1>1. HandlersInv => HandlersInOrder
  BY DEF HandlersInv
<1> QED
  BY <1>1, HandlersAlways, PTL

------------------------------------------------------------------------------
(* The state of the keyboard.                                              *)

\* The calls whose effect on the state is still to come, and the keys they
\* press and release.
ToCome == IF running = 0 THEN calls ELSE Tail(calls)
Coming(s, action) ==
  {k \in Input!Keys : \E i \in 1 .. Len(s) : s[i] = Input!KeyCall(k, action)}

\* Each key is in one call at most.
OnceEach(s) ==
  \A i, j \in 1 .. Len(s) :
    s[i].kind = "key" /\ s[j].kind = "key" /\ s[i].key = s[j].key => i = j

NoShift(s) == \A i \in 1 .. Len(s) : s[i].key \notin Input!ShiftKeys

\* GLFW: when the calls to come have been made, the state is that of the keys.
\* The modifier follows the state at all times.
GlfwFollows ==
  /\ OnceEach(ToCome)
  /\ down = (m_pressed \cup Coming(ToCome, "PRESS")) \ Coming(ToCome, "RELEASE")
  /\ Coming(ToCome, "PRESS") \cap m_pressed = {}
  /\ Coming(ToCome, "RELEASE") \subseteq m_pressed
  /\ ~overlapped =>
       /\ m_modifier <=> m_pressed \cap Input!ShiftKeys # {}
       /\ ~(Input!ShiftKeys \subseteq m_pressed)

\* Windows: no call is about a shift key; only a line end is pressed and
\* released by one message.
Win32Follows ==
  /\ NoShift(ToCome) /\ ~m_modifier /\ m_pressed \cap Input!ShiftKeys = {}
  /\ Coming(ToCome, "PRESS") \cap Coming(ToCome, "RELEASE") \subseteq {"ENTER"}
  /\ Coming(ToCome, "PRESS") \subseteq down
  /\ m_pressed \ Coming(ToCome, "RELEASE") \subseteq down \cup lost
  /\ down \ (Input!ShiftKeys \cup {"ENTER"}) \subseteq
       (m_pressed \cup Coming(ToCome, "PRESS")) \ Coming(ToCome, "RELEASE")

KeysInv ==
  /\ HandlersInv
  /\ m_pressed \subseteq Input!Keys /\ m_modifier \in BOOLEAN
  /\ overlapped \in BOOLEAN
  /\ platform = "glfw" => GlfwFollows
  /\ platform = "win32" => Win32Follows

\* The first of some calls is made.
LEMMA OneLessToCome ==
  ASSUME NEW s \in Seq(InputCall), s # <<>>, NEW action
  PROVE  /\ \A k \in Input!Keys : Head(s) = Input!KeyCall(k, action) =>
              Coming(s, action) = Coming(Tail(s), action) \cup {k}
         /\ (\A k \in Input!Keys : Head(s) # Input!KeyCall(k, action)) =>
              Coming(s, action) = Coming(Tail(s), action)
<1>1. /\ Head(s) = s[1] /\ Len(s) \in Nat \ {0} /\ Len(Tail(s)) = Len(s) - 1
      /\ \A i \in 1 .. Len(Tail(s)) : Tail(s)[i] = s[i + 1]
  OBVIOUS
<1>2. ASSUME NEW c PROVE (\E i \in 1 .. Len(s) : s[i] = c) <=>
        Head(s) = c \/ (\E i \in 1 .. Len(Tail(s)) : Tail(s)[i] = c)
  <2>1. ASSUME NEW i \in 1 .. Len(s), s[i] = c
        PROVE  Head(s) = c \/ (\E j \in 1 .. Len(Tail(s)) : Tail(s)[j] = c)
    <3>1. CASE i = 1
      BY <1>1, <2>1, <3>1
    <3>2. CASE i # 1
      <4>1. i - 1 \in 1 .. Len(Tail(s)) /\ (i - 1) + 1 = i
        BY <1>1, <3>2
      <4>2. Tail(s)[i - 1] = c
        BY <1>1, <2>1, <4>1
      <4> QED
        BY <4>1, <4>2
    <3> QED
      BY <3>1, <3>2
  <2>2. ASSUME NEW i \in 1 .. Len(Tail(s)), Tail(s)[i] = c
        PROVE  \E j \in 1 .. Len(s) : s[j] = c
    <3>1. i + 1 \in 1 .. Len(s) /\ s[i + 1] = c
      BY <1>1, <2>2
    <3> QED
      BY <3>1
  <2>3. Head(s) = c => \E i \in 1 .. Len(s) : s[i] = c
    <3>1. 1 \in 1 .. Len(s)
      BY <1>1
    <3> QED
      BY <1>1, <3>1
  <2> QED
    BY <2>1, <2>2, <2>3
<1>3. \A k \in Input!Keys : k \in Coming(s, action) <=>
        Head(s) = Input!KeyCall(k, action) \/ k \in Coming(Tail(s), action)
  BY <1>2 DEF Coming
<1>4. Coming(s, action) \subseteq Input!Keys
      /\ Coming(Tail(s), action) \subseteq Input!Keys
  BY DEF Coming
<1>5. \A k, j : Input!KeyCall(k, action) = Input!KeyCall(j, action) => k = j
  BY DEF Input!KeyCall
<1> QED
  BY <1>3, <1>4, <1>5

LEMMA OnceEachTail ==
  ASSUME NEW s \in Seq(InputCall), s # <<>>, OnceEach(s)
  PROVE  /\ OnceEach(Tail(s))
         /\ \A k, action : Head(s).kind = "key" /\ Head(s).key = k =>
              k \notin Coming(Tail(s), action)
<1>1. /\ Head(s) = s[1] /\ Len(s) \in Nat \ {0} /\ Len(Tail(s)) = Len(s) - 1
      /\ \A i \in 1 .. Len(Tail(s)) : i + 1 \in 1 .. Len(s) /\ Tail(s)[i] = s[i + 1]
  OBVIOUS
<1>2. OnceEach(Tail(s))
  BY <1>1 DEF OnceEach
<1>3. ASSUME NEW k, NEW action, s[1].kind = "key", s[1].key = k,
             NEW i \in 1 .. Len(Tail(s)), Tail(s)[i] = Input!KeyCall(k, action)
      PROVE  FALSE
  <2>1. s[i + 1].kind = "key" /\ s[i + 1].key = k /\ i + 1 \in 1 .. Len(s)
    BY <1>1, <1>3 DEF Input!KeyCall
  <2>2. 1 \in 1 .. Len(s) /\ i + 1 # 1
    BY <1>1
  <2> QED
    BY <1>3, <2>1, <2>2 DEF OnceEach
<1> QED
  BY <1>1, <1>2, <1>3 DEF Coming

\* What is to come of one call, of two and of none.
LEMMA FewToCome ==
  ASSUME NEW c \in InputCall, NEW d \in InputCall, NEW action
  PROVE  /\ Coming(<<>>, action) = {}
         /\ Coming(<<c>>, action) =
              {k \in Input!Keys : c = Input!KeyCall(k, action)}
         /\ Coming(<<c, d>>, action) =
              {k \in Input!Keys : c = Input!KeyCall(k, action)
                                   \/ d = Input!KeyCall(k, action)}
<1>1. Coming(<<>>, action) = {}
  BY DEF Coming
<1>2. Coming(<<c>>, action) = {k \in Input!Keys : c = Input!KeyCall(k, action)}
  <2>1. Len(<<c>>) = 1 /\ <<c>>[1] = c
    OBVIOUS
  <2> HIDE DEF Coming
  <2>2. \A x : (\E i \in 1 .. Len(<<c>>) : <<c>>[i] = x) <=> c = x
    BY <2>1
  <2> QED
    BY <2>2 DEF Coming
<1>3. Coming(<<c, d>>, action) =
        {k \in Input!Keys : c = Input!KeyCall(k, action)
                             \/ d = Input!KeyCall(k, action)}
  <2>1. Len(<<c, d>>) = 2 /\ <<c, d>>[1] = c /\ <<c, d>>[2] = d
    OBVIOUS
  <2>2. \A x : (\E i \in 1 .. Len(<<c, d>>) : <<c, d>>[i] = x) <=> c = x \/ d = x
    BY <2>1
  <2> QED
    BY <2>2 DEF Coming
<1> QED
  BY <1>1, <1>2, <1>3

LEMMA OneAndOne ==
  ASSUME NEW S, NEW c \in S, NEW d \in S
  PROVE  <<c>> \o <<d>> = <<c, d>>
<1>1. /\ <<c>> \in Seq(S) /\ <<d>> \in Seq(S) /\ <<c, d>> \in Seq(S)
      /\ Len(<<c>>) = 1 /\ Len(<<d>>) = 1 /\ Len(<<c, d>>) = 2
      /\ <<c>>[1] = c /\ <<d>>[1] = d /\ <<c, d>>[1] = c /\ <<c, d>>[2] = d
  OBVIOUS
<1> DEFINE a == <<c>>
           b == <<d>>
           e == <<c, d>>
<1> HIDE DEF a, b, e
<1>2. /\ a \in Seq(S) /\ b \in Seq(S) /\ e \in Seq(S)
      /\ Len(a) = 1 /\ Len(b) = 1 /\ Len(e) = 2
      /\ a[1] = c /\ b[1] = d /\ e[1] = c /\ e[2] = d
  BY <1>1 DEF a, b, e
<1>3. /\ a \o b \in Seq(S) /\ Len(a \o b) = 2
      /\ (a \o b)[1] = c /\ (a \o b)[2] = d
  BY <1>2, ConcatProperties
<1>4. a \o b = e
  BY <1>2, <1>3, SeqEqual
<1> QED
  BY <1>4 DEF a, b, e

\* The calls of a message.
LEMMA GlfwMessage ==
  ASSUME NEW k \in Input!Keys, NEW action \in {"PRESS", "REPEAT", "RELEASE"}
  PROVE  /\ OnceEach(Input!GlfwCalls(k, action))
         /\ \A other \in {"PRESS", "RELEASE"} :
              Coming(Input!GlfwCalls(k, action), other) =
                IF action = other THEN {k} ELSE {}
<1> DEFINE c == Input!KeyCall(k, action)
<1>1. /\ c \in InputCall /\ Input!Character \in InputCall
      /\ c.kind = "key" /\ Input!Character.kind = "character"
      /\ \A j, other : c = Input!KeyCall(j, other) <=> j = k /\ other = action
      /\ \A j, other : Input!Character # Input!KeyCall(j, other)
  BY DEF Input!KeyCall, Input!Character, InputCall, Input!Kinds, Input!Keys
<1>2. Input!GlfwCalls(k, action) = <<c>>
      \/ Input!GlfwCalls(k, action) = <<c, Input!Character>>
  <2>0. Input!GlfwCalls(k, action) \in {<<c>> \o <<>>, <<c>> \o <<Input!Character>>}
    BY DEF Input!GlfwCalls
  <2> HIDE DEF c
  <2>1. <<c>> \o <<>> = <<c>>
    BY <1>1, ConcatEmptySeq
  <2>2. <<c>> \o <<Input!Character>> = <<c, Input!Character>>
    BY <1>1, OneAndOne
  <2> QED
    BY <2>0, <2>1, <2>2
<1> HIDE DEF c
<1>3. OnceEach(<<c>>) /\ OnceEach(<<c, Input!Character>>)
  BY <1>1 DEF OnceEach
<1>4. \A other : Coming(<<c>>, other) = {j \in Input!Keys : c = Input!KeyCall(j, other)}
        /\ Coming(<<c, Input!Character>>, other) =
             {j \in Input!Keys : c = Input!KeyCall(j, other)}
  BY <1>1, FewToCome
<1>5. \A other : {j \in Input!Keys : c = Input!KeyCall(j, other)} =
        IF action = other THEN {k} ELSE {}
  BY <1>1
<1> QED
  BY <1>2, <1>3, <1>4, <1>5

LEMMA Win32Message ==
  ASSUME NEW k \in Input!Keys, NEW action \in {"PRESS", "REPEAT", "RELEASE"}
  PROVE  LET s == Input!Win32Calls(k, action)
         IN  /\ NoShift(s)
             /\ Coming(s, "PRESS") \cap Coming(s, "RELEASE") \subseteq {"ENTER"}
             /\ action = "RELEASE" => Coming(s, "PRESS") = {}
             /\ k \in Input!ShiftKeys =>
                  Coming(s, "PRESS") = {} /\ Coming(s, "RELEASE") = {}
             /\ k \notin Input!ShiftKeys =>
                  IF action = "RELEASE"
                    THEN Coming(s, "PRESS") = {} /\ Coming(s, "RELEASE") = {k}
                    ELSE Coming(s, "PRESS") = {k} /\ Coming(s, "RELEASE") =
                           IF k = "ENTER" THEN {k} ELSE {}
<1> DEFINE s == Input!Win32Calls(k, action)
           press == Input!KeyCall(k, "PRESS")
           release == Input!KeyCall(k, "RELEASE")
<1>1. /\ press \in InputCall /\ release \in InputCall
      /\ Input!Character \in InputCall
      /\ \A j, other : press = Input!KeyCall(j, other) <=> j = k /\ other = "PRESS"
      /\ \A j, other : release = Input!KeyCall(j, other) <=> j = k /\ other = "RELEASE"
      /\ \A j, other : Input!Character # Input!KeyCall(j, other)
      /\ press.key = k /\ release.key = k /\ Input!Character.key = "A"
  BY DEF Input!KeyCall, Input!Character, InputCall, Input!Kinds, Input!Keys
<1>2. CASE k \in Input!ShiftKeys
  <2>1. s = <<>>
    BY <1>2 DEF Input!Win32Calls
  <2>2. NoShift(<<>>)
    BY DEF NoShift
  <2>3. \A other : Coming(<<>>, other) = {}
    BY DEF Coming
  <2> QED
    BY <1>2, <2>1, <2>2, <2>3
<1>3. CASE k \notin Input!ShiftKeys /\ action = "RELEASE"
  <2>1. s = <<release>>
    BY <1>3 DEF Input!Win32Calls
  <2>2. NoShift(<<release>>)
    BY <1>1, <1>3 DEF NoShift
  <2>3. \A other : Coming(<<release>>, other) =
          {j \in Input!Keys : release = Input!KeyCall(j, other)}
    BY <1>1, FewToCome
  <2> HIDE DEF release
  <2>4. Coming(<<release>>, "PRESS") = {} /\ Coming(<<release>>, "RELEASE") = {k}
    BY <1>1, <2>3
  <2> QED
    BY <1>3, <2>1, <2>2, <2>4
<1>4. CASE k \notin Input!ShiftKeys /\ action # "RELEASE" /\ k # "ENTER"
  <2>1. s = <<press, Input!Character>>
    BY <1>4 DEF Input!Win32Calls
  <2>3. \A other : Coming(<<press, Input!Character>>, other) =
          {j \in Input!Keys : press = Input!KeyCall(j, other)
                              \/ Input!Character = Input!KeyCall(j, other)}
    <3>1. press \in InputCall /\ Input!Character \in InputCall
      BY <1>1
    <3> HIDE DEF press
    <3> QED
      BY <3>1, FewToCome
  <2> HIDE DEF press
  <2>2. NoShift(<<press, Input!Character>>)
    BY <1>1, <1>4 DEF NoShift, Input!ShiftKeys
  <2>4. /\ Coming(<<press, Input!Character>>, "PRESS") = {k}
        /\ Coming(<<press, Input!Character>>, "RELEASE") = {}
    BY <1>1, <2>3
  <2> QED
    BY <1>4, <2>1, <2>2, <2>4
<1>5. CASE action # "RELEASE" /\ k = "ENTER"
  <2> DEFINE four == <<press, press, Input!Character, release>>
  <2>1. s = four
    BY <1>5 DEF Input!Win32Calls, Input!ShiftKeys
  <2>2. Len(four) = 4 /\ four[1] = press /\ four[2] = press
        /\ four[3] = Input!Character /\ four[4] = release
    OBVIOUS
  <2> HIDE DEF four, press, release
  <2>3. NoShift(four)
    BY <1>1, <1>5, <2>2 DEF NoShift, Input!ShiftKeys
  <2>4. Coming(four, "PRESS") = {k} /\ Coming(four, "RELEASE") = {k}
    <3>1. \A x : (\E i \in 1 .. Len(four) : four[i] = x) <=>
                  x \in {press, Input!Character, release}
      BY <2>2
    <3>2. \A j : (\E i \in 1 .. Len(four) : four[i] = Input!KeyCall(j, "PRESS"))
                   <=> j = k
      BY <1>1, <3>1
    <3>3. \A j : (\E i \in 1 .. Len(four) : four[i] = Input!KeyCall(j, "RELEASE"))
                   <=> j = k
      BY <1>1, <3>1
    <3> QED
      BY <3>2, <3>3 DEF Coming
  <2>5. k \notin Input!ShiftKeys
    BY <1>5 DEF Input!ShiftKeys
  <2> QED
    BY <1>5, <2>1, <2>3, <2>4, <2>5
<1> QED
  BY <1>2, <1>3, <1>4, <1>5 DEF Input!ShiftKeys

\* A press or a release of a key that happens once among the calls to come.
LEMMA GlfwCall ==
  ASSUME KeysInv, platform = "glfw", Input!BeginCall,
         ToCome = calls, ToCome' = Tail(calls)
  PROVE  GlfwFollows'
<1> DEFINE c == Head(calls)
           P == Coming(calls, "PRESS")
           R == Coming(calls, "RELEASE")
           Q == Coming(Tail(calls), "PRESS")
           S == Coming(Tail(calls), "RELEASE")
<1>0. /\ calls \in Seq(InputCall) /\ calls # <<>> /\ c \in InputCall
      /\ OnceEach(calls) /\ down = (m_pressed \cup P) \ R
      /\ P \cap m_pressed = {} /\ R \subseteq m_pressed
      /\ ~overlapped =>
           /\ m_modifier <=> m_pressed \cap Input!ShiftKeys # {}
           /\ ~(Input!ShiftKeys \subseteq m_pressed)
      /\ down' = down
  BY DEF KeysInv, HandlersInv, GlfwFollows, Input!BeginCall
<1>1. /\ OnceEach(Tail(calls))
      /\ c.kind = "key" => c.key \notin Q /\ c.key \notin S
  BY <1>0, OnceEachTail
<1>2. CASE c.kind = "key" /\ c.action = "PRESS"
  <2>1. c = Input!KeyCall(c.key, "PRESS") /\ c.key \in Input!Keys
        /\ \A k : c # Input!KeyCall(k, "RELEASE")
    BY <1>0, <1>2 DEF InputCall, Input!KeyCall
  <2>2. P = Q \cup {c.key} /\ R = S
    BY <1>0, <2>1, OneLessToCome
  <2>3. /\ m_pressed' = m_pressed \cup {c.key}
        /\ m_modifier' = IF c.key \in Input!ShiftKeys THEN TRUE ELSE m_modifier
        /\ overlapped' = IF c.key \in Input!ShiftKeys
                          THEN m_pressed \cap (Input!ShiftKeys \ {c.key}) # {}
                          ELSE overlapped
    BY <1>2 DEF Input!BeginCall, Input!UpdateKeyState, Input!Overlap
  <2> HIDE DEF c, P, Q, R, S
  <2>4. /\ down' = (m_pressed' \cup Q) \ S
        /\ Q \cap m_pressed' = {} /\ S \subseteq m_pressed'
    BY <1>0, <1>1, <1>2, <2>2, <2>3
  <2>5. ~overlapped' =>
           /\ m_modifier' <=> m_pressed' \cap Input!ShiftKeys # {}
           /\ ~(Input!ShiftKeys \subseteq m_pressed')
    <3>1. CASE c.key \in Input!ShiftKeys
      <4> SUFFICES ASSUME m_pressed \cap (Input!ShiftKeys \ {c.key}) = {}
                   PROVE  /\ m_modifier' <=> m_pressed' \cap Input!ShiftKeys # {}
                          /\ ~(Input!ShiftKeys \subseteq m_pressed')
        BY <2>3, <3>1
      <4>1. PICK other \in Input!ShiftKeys : other # c.key
        BY DEF Input!ShiftKeys
      <4>2. other \notin m_pressed'
        BY <2>3, <4>1
      <4>3. c.key \in m_pressed' \cap Input!ShiftKeys /\ m_modifier' = TRUE
        BY <2>3, <3>1
      <4> QED
        BY <4>1, <4>2, <4>3
    <3>2. CASE c.key \notin Input!ShiftKeys
      BY <1>0, <2>3, <3>2 DEF Input!ShiftKeys
    <3> QED
      BY <3>1, <3>2
  <2> QED
    BY <1>1, <2>4, <2>5 DEF GlfwFollows, Q, S
<1>3. CASE c.kind = "key" /\ c.action = "RELEASE"
  <2>1. c = Input!KeyCall(c.key, "RELEASE") /\ c.key \in Input!Keys
        /\ \A k : c # Input!KeyCall(k, "PRESS")
    BY <1>0, <1>3 DEF InputCall, Input!KeyCall
  <2>2. P = Q /\ R = S \cup {c.key}
    BY <1>0, <2>1, OneLessToCome
  <2>3. /\ m_pressed' = m_pressed \ {c.key}
        /\ m_modifier' = IF c.key \in Input!ShiftKeys THEN ~m_modifier
                          ELSE m_modifier
        /\ overlapped' = overlapped
    BY <1>3 DEF Input!BeginCall, Input!UpdateKeyState, Input!Overlap
  <2> HIDE DEF c, P, Q, R, S
  <2>4. /\ down' = (m_pressed' \cup Q) \ S
        /\ Q \cap m_pressed' = {} /\ S \subseteq m_pressed'
    BY <1>0, <1>1, <1>3, <2>2, <2>3
  <2>5. ~overlapped' =>
           /\ m_modifier' <=> m_pressed' \cap Input!ShiftKeys # {}
           /\ ~(Input!ShiftKeys \subseteq m_pressed')
    <3>1. c.key \in m_pressed
      BY <1>0, <2>2
    <3>2. CASE c.key \in Input!ShiftKeys
      <4>1. ~overlapped => m_pressed \cap Input!ShiftKeys = {c.key}
        BY <1>0, <3>1, <3>2 DEF Input!ShiftKeys
      <4> QED
        BY <1>0, <2>3, <3>2, <4>1
    <3>3. CASE c.key \notin Input!ShiftKeys
      BY <1>0, <2>3, <3>3
    <3> QED
      BY <3>2, <3>3
  <2> QED
    BY <1>1, <2>4, <2>5 DEF GlfwFollows, Q, S
<1>4. CASE c.kind # "key" \/ c.action = "REPEAT"
  <2>1. /\ \A k : c # Input!KeyCall(k, "PRESS")
        /\ \A k : c # Input!KeyCall(k, "RELEASE")
    BY <1>4 DEF Input!KeyCall
  <2>2. P = Q /\ R = S
    BY <1>0, <2>1, OneLessToCome
  <2>3. m_pressed' = m_pressed /\ m_modifier' = m_modifier
        /\ overlapped' = overlapped
    BY <1>0, <1>4 DEF Input!BeginCall, Input!UpdateKeyState, Input!Overlap,
       Input!keyVars
  <2> HIDE DEF c, P, Q, R, S
  <2> QED
    BY <1>0, <1>1, <2>2, <2>3 DEF GlfwFollows, Q, S
<1> QED
  BY <1>0, <1>2, <1>3, <1>4 DEF InputCall

LEMMA Win32Call ==
  ASSUME KeysInv, platform = "win32", Input!BeginCall,
         ToCome = calls, ToCome' = Tail(calls)
  PROVE  Win32Follows'
<1> DEFINE c == Head(calls)
           P == Coming(calls, "PRESS")
           R == Coming(calls, "RELEASE")
           Q == Coming(Tail(calls), "PRESS")
           S == Coming(Tail(calls), "RELEASE")
<1>0. /\ calls \in Seq(InputCall) /\ calls # <<>> /\ c \in InputCall
      /\ NoShift(calls) /\ ~m_modifier /\ m_pressed \cap Input!ShiftKeys = {}
      /\ P \cap R \subseteq {"ENTER"} /\ P \subseteq down
      /\ m_pressed \ R \subseteq down \cup lost
      /\ down \ (Input!ShiftKeys \cup {"ENTER"}) \subseteq (m_pressed \cup P) \ R
      /\ down' = down /\ lost' = lost
  BY DEF KeysInv, HandlersInv, Win32Follows, Input!BeginCall
<1>1. NoShift(Tail(calls)) /\ c.key \notin Input!ShiftKeys
  BY <1>0 DEF NoShift
<1>2. CASE c.kind = "key" /\ c.action = "PRESS"
  <2>1. c = Input!KeyCall(c.key, "PRESS") /\ c.key \in Input!Keys
        /\ \A k : c # Input!KeyCall(k, "RELEASE")
    BY <1>0, <1>2 DEF InputCall, Input!KeyCall
  <2>2. P = Q \cup {c.key} /\ R = S
    BY <1>0, <2>1, OneLessToCome
  <2>3. m_pressed' = m_pressed \cup {c.key} /\ m_modifier' = m_modifier
    BY <1>1, <1>2 DEF Input!BeginCall, Input!UpdateKeyState
  <2> HIDE DEF c, P, Q, R, S
  <2> QED
    BY <1>0, <1>1, <2>2, <2>3 DEF Win32Follows, Q, S
<1>3. CASE c.kind = "key" /\ c.action = "RELEASE"
  <2>1. c = Input!KeyCall(c.key, "RELEASE") /\ c.key \in Input!Keys
        /\ \A k : c # Input!KeyCall(k, "PRESS")
    BY <1>0, <1>3 DEF InputCall, Input!KeyCall
  <2>2. P = Q /\ R = S \cup {c.key}
    BY <1>0, <2>1, OneLessToCome
  <2>3. m_pressed' = m_pressed \ {c.key} /\ m_modifier' = m_modifier
    BY <1>1, <1>3 DEF Input!BeginCall, Input!UpdateKeyState
  <2> HIDE DEF c, P, Q, R, S
  <2> QED
    BY <1>0, <1>1, <2>2, <2>3 DEF Win32Follows, Q, S
<1>4. CASE c.kind # "key" \/ c.action = "REPEAT"
  <2>1. /\ \A k : c # Input!KeyCall(k, "PRESS")
        /\ \A k : c # Input!KeyCall(k, "RELEASE")
    BY <1>4 DEF Input!KeyCall
  <2>2. P = Q /\ R = S
    BY <1>0, <2>1, OneLessToCome
  <2>3. m_pressed' = m_pressed /\ m_modifier' = m_modifier
    BY <1>0, <1>4 DEF Input!BeginCall, Input!UpdateKeyState, Input!keyVars
  <2> HIDE DEF c, P, Q, R, S
  <2> QED
    BY <1>0, <1>1, <2>2, <2>3 DEF Win32Follows, Q, S
<1> QED
  BY <1>0, <1>2, <1>3, <1>4 DEF InputCall

\* Held keys are released together, by GLFW each once.
LEMMA FocusLost ==
  ASSUME KeysInv, Input!LoseFocus, running = 0
  PROVE  KeysInv'
<1> DEFINE n == Input!Cardinality(down)
           releases == [i \in 1 .. n |->
                          Input!KeyCall(Input!SetToSeq(down)[i], "RELEASE")]
<1>0. /\ calls = <<>> /\ down' = {} /\ running' = 0
      /\ calls' = IF platform = "glfw" THEN releases ELSE <<>>
      /\ lost' = IF platform = "win32" THEN lost \cup down ELSE lost
      /\ UNCHANGED <<platform, m_pressed, m_modifier, overlapped>>
      /\ down \subseteq Input!Keys /\ ToCome = <<>> /\ ToCome' = calls'
  BY DEF Input!LoseFocus, Input!Idle, Input!keyVars, KeysInv, HandlersInv, ToCome
<1>1. HandlersInv'
  BY HandlersStep DEF KeysInv, Input!Next
<1>2. \A action : Coming(<<>>, action) = {}
  BY DEF Coming
<1>3. CASE platform = "glfw"
  <2>1. /\ n \in Nat
        /\ \A i \in 1 .. n : Input!SetToSeq(down)[i] \in down
        /\ \A i, j \in 1 .. n :
             Input!SetToSeq(down)[i] = Input!SetToSeq(down)[j] => i = j
        /\ \A k \in down : \E i \in 1 .. n : Input!SetToSeq(down)[i] = k
    BY <1>0, KeysInOrder
  <2>2. /\ Len(releases) = n
        /\ \A i \in 1 .. n : releases[i] =
              Input!KeyCall(Input!SetToSeq(down)[i], "RELEASE")
    BY <2>1
  <2> HIDE DEF n, releases
  <2>3. OnceEach(releases)
    BY <2>1, <2>2 DEF OnceEach, Input!KeyCall
  <2>4. Coming(releases, "PRESS") = {}
    BY <2>2 DEF Coming, Input!KeyCall
  <2>5. Coming(releases, "RELEASE") = down
    <3>1. \A j, k : Input!KeyCall(j, "RELEASE") = Input!KeyCall(k, "RELEASE") => j = k
      BY DEF Input!KeyCall
    <3> QED
      BY <1>0, <2>1, <2>2, <3>1 DEF Coming
  <2>6. m_pressed = down
    BY <1>0, <1>2, <1>3 DEF KeysInv, GlfwFollows
  <2> QED
    BY <1>0, <1>1, <1>3, <2>3, <2>4, <2>5, <2>6 DEF KeysInv, GlfwFollows
<1>4. CASE platform = "win32"
  <2>1. NoShift(<<>>)
    BY DEF NoShift
  <2>2. calls' = <<>> /\ m_pressed \subseteq down \cup lost /\ ~m_modifier
        /\ m_pressed \cap Input!ShiftKeys = {}
    BY <1>0, <1>2, <1>4 DEF KeysInv, Win32Follows
  <2>3. Win32Follows'
    BY <1>0, <1>2, <1>4, <2>1, <2>2 DEF Win32Follows
  <2> QED
    BY <1>0, <1>1, <1>4, <2>3 DEF KeysInv
<1> QED
  BY <1>0, <1>1, <1>3, <1>4 DEF KeysInv

LEMMA KeysStep ==
  ASSUME KeysInv, [Input!Next]_inputVars
  PROVE  KeysInv'
<1> USE DEF Input!keyVars, Input!handlerVars, Input!dispatchVars
<1>0. HandlersInv'
  BY HandlersStep DEF KeysInv
<1>e. /\ \A action : Coming(<<>>, action) = {}
      /\ calls = <<>> => running = 0 /\ ToCome = <<>>
  BY DEF Coming, ToCome, KeysInv, HandlersInv
<1>u. ASSUME UNCHANGED <<platform, down, lost, m_pressed, m_modifier, overlapped>>,
             ToCome' = ToCome
      PROVE  KeysInv'
  BY <1>0, <1>u DEF KeysInv, GlfwFollows, Win32Follows
<1>m. ASSUME NEW k \in Input!Keys, NEW action \in {"PRESS", "REPEAT", "RELEASE"},
             calls = <<>>, calls' = Input!Calls(k, action),
             UNCHANGED <<platform, m_pressed, m_modifier, overlapped, running>>,
             \/ action = "PRESS" /\ k \notin down /\ down' = down \cup {k}
                /\ lost' = lost \ {k}
             \/ action = "REPEAT" /\ k \in down /\ down' = down /\ lost' = lost
             \/ action = "RELEASE" /\ k \in down /\ down' = down \ {k} /\ lost' = lost
      PROVE  KeysInv'
  <2>1. ToCome = <<>> /\ ToCome' = Input!Calls(k, action)
    BY <1>e, <1>m DEF ToCome
  <2>2. CASE platform = "glfw"
    <3> DEFINE s == Input!GlfwCalls(k, action)
    <3>1. /\ ToCome' = s /\ OnceEach(s)
          /\ Coming(s, "PRESS") = IF action = "PRESS" THEN {k} ELSE {}
          /\ Coming(s, "RELEASE") = IF action = "RELEASE" THEN {k} ELSE {}
      BY <2>1, <2>2, GlfwMessage DEF Input!Calls
    <3>2. m_pressed = down
      BY <1>e, <2>1, <2>2 DEF KeysInv, GlfwFollows
    <3> HIDE DEF s
    <3>3. GlfwFollows'
      BY <1>m, <2>2, <3>1, <3>2 DEF KeysInv, GlfwFollows
    <3> QED
      BY <1>0, <1>m, <2>2, <3>3 DEF KeysInv
  <2>3. CASE platform = "win32"
    <3> DEFINE s == Input!Win32Calls(k, action)
    <3>1. /\ ToCome' = s /\ NoShift(s)
          /\ Coming(s, "PRESS") \cap Coming(s, "RELEASE") \subseteq {"ENTER"}
          /\ k \in Input!ShiftKeys =>
               Coming(s, "PRESS") = {} /\ Coming(s, "RELEASE") = {}
          /\ k \notin Input!ShiftKeys =>
               IF action = "RELEASE"
                 THEN Coming(s, "PRESS") = {} /\ Coming(s, "RELEASE") = {k}
                 ELSE Coming(s, "PRESS") = {k} /\ Coming(s, "RELEASE") =
                        IF k = "ENTER" THEN {k} ELSE {}
      BY <2>1, <2>3, Win32Message DEF Input!Calls
    <3>2. /\ m_pressed \subseteq down \cup lost
          /\ down \ (Input!ShiftKeys \cup {"ENTER"}) \subseteq m_pressed
          /\ ~m_modifier /\ m_pressed \cap Input!ShiftKeys = {}
      BY <1>e, <2>1, <2>3 DEF KeysInv, Win32Follows
    <3> HIDE DEF s
    <3>3. /\ Coming(s, "PRESS") \subseteq down'
          /\ m_pressed \ Coming(s, "RELEASE") \subseteq down' \cup lost'
          /\ down' \ (Input!ShiftKeys \cup {"ENTER"}) \subseteq
               (m_pressed \cup Coming(s, "PRESS")) \ Coming(s, "RELEASE")
      <4>1. CASE k \in Input!ShiftKeys
        BY <1>m, <3>1, <3>2, <4>1
      <4>2. CASE k \notin Input!ShiftKeys /\ action = "RELEASE"
        BY <1>m, <3>1, <3>2, <4>2
      <4>3. CASE k \notin Input!ShiftKeys /\ action # "RELEASE"
        <5>1. /\ k \in down' /\ down' \ {k} \subseteq down
              /\ down \subseteq down' /\ lost \subseteq lost' \cup {k}
          BY <1>m, <4>3
        <5> QED
          BY <3>1, <3>2, <4>3, <5>1
      <4> QED
        BY <4>1, <4>2, <4>3
    <3>4. Win32Follows'
      BY <1>m, <3>1, <3>2, <3>3 DEF Win32Follows
    <3> QED
      BY <1>0, <1>m, <2>3, <3>4 DEF KeysInv
  <2> QED
    BY <1>0, <1>m, <2>2, <2>3 DEF KeysInv
<1>1. ASSUME NEW k \in Input!Keys,
             Input!PressKey(k) \/ Input!RepeatKey(k) \/ Input!ReleaseKey(k)
      PROVE  KeysInv'
  <2>1. CASE Input!PressKey(k)
    BY <1>m, <2>1 DEF Input!PressKey, Input!Idle
  <2>2. CASE Input!RepeatKey(k)
    BY <1>m, <2>2 DEF Input!RepeatKey, Input!Idle
  <2>3. CASE Input!ReleaseKey(k)
    BY <1>m, <2>3 DEF Input!ReleaseKey, Input!Idle
  <2> QED
    BY <1>1, <2>1, <2>2, <2>3
<1>2. CASE Input!LoseFocus
  BY <1>2, <1>e, FocusLost DEF Input!LoseFocus, Input!Idle
<1>3. CASE Input!BeginCall
  <2>1. ToCome = calls /\ ToCome' = Tail(calls)
    <3>1. ASSUME calls' = calls PROVE running' # 0
      <4> DEFINE ahead == {k \in handlers[Head(calls).kind] : k > 0}
      <4>1. Head(calls).kind \in Input!Kinds
        <5>1. Head(calls) \in InputCall
          BY <1>3 DEF Input!BeginCall, KeysInv, HandlersInv
        <5> QED
          BY <5>1 DEF InputCall
      <4>2. ahead \in SUBSET Nat
        BY <4>1 DEF KeysInv, HandlersInv
      <4>3. Tail(calls) # calls
        BY <1>3 DEF Input!BeginCall, KeysInv, HandlersInv
      <4>4. ahead # {} /\ running' = Input!Least(ahead)
        BY <1>3, <3>1, <4>3 DEF Input!BeginCall, Input!GoOn
      <4>5. \A k \in ahead : k # 0
        OBVIOUS
      <4> HIDE DEF ahead
      <4> QED
        BY <4>2, <4>4, <4>5, LeastIsLeast
    <3> QED
      BY <1>3, <3>1 DEF Input!BeginCall, Input!GoOn, ToCome
  <2>2. /\ m_pressed' \subseteq Input!Keys /\ m_modifier' \in BOOLEAN
        /\ overlapped' \in BOOLEAN /\ platform' = platform
    <3>1. Head(calls) \in InputCall
      BY <1>3 DEF Input!BeginCall, KeysInv, HandlersInv
    <3> QED
      BY <1>3, <3>1 DEF Input!BeginCall, KeysInv, Input!UpdateKeyState,
         Input!Overlap, InputCall
  <2> QED
    BY <1>0, <1>3, <2>1, <2>2, GlfwCall, Win32Call DEF KeysInv
<1>4. ASSUME NEW result \in BOOLEAN, Input!HandlerReturns(result)
      PROVE  KeysInv'
  <2>1. ToCome' = ToCome
    <3>1. ASSUME calls' = calls, ~result PROVE running' # 0
      <4> DEFINE ahead == {k \in handlers[Head(calls).kind] : k > running}
      <4>1. Head(calls).kind \in Input!Kinds
        <5>1. Head(calls) \in InputCall
          BY <1>4 DEF Input!HandlerReturns, KeysInv, HandlersInv
        <5> QED
          BY <5>1 DEF InputCall
      <4>2. ahead \in SUBSET Nat
        BY <4>1 DEF KeysInv, HandlersInv
      <4>3. Tail(calls) # calls
        BY <1>4 DEF Input!HandlerReturns, KeysInv, HandlersInv
      <4>4. ahead # {} /\ running' = Input!Least(ahead)
        BY <1>4, <3>1, <4>3 DEF Input!HandlerReturns, Input!GoOn
      <4>5. running \in Nat /\ \A k \in ahead : k > running
        BY DEF KeysInv, HandlersInv
      <4> HIDE DEF ahead
      <4> QED
        BY <4>2, <4>4, <4>5, LeastIsLeast
    <3> QED
      BY <1>4, <3>1 DEF Input!HandlerReturns, Input!GoOn, ToCome
  <2> QED
    BY <1>4, <1>u, <2>1 DEF Input!HandlerReturns
<1>5. ASSUME NEW kind \in Input!Kinds, Input!AddHandler(kind)
      PROVE  KeysInv'
  BY <1>5, <1>u DEF Input!AddHandler, ToCome
<1>6. ASSUME NEW kind \in Input!Kinds, NEW removed \in SUBSET handlers[kind],
             Input!RemoveHandlers(kind, removed)
      PROVE  KeysInv'
  BY <1>6, <1>u DEF Input!RemoveHandlers, ToCome
<1>7. CASE UNCHANGED inputVars
  BY <1>7, <1>u DEF inputVars, ToCome
<1> QED
  BY <1>1, <1>2, <1>3, <1>4, <1>5, <1>6, <1>7 DEF Input!Next

LEMMA KeysStart == ApplicationInit => KeysInv
<1> SUFFICES ASSUME ApplicationInit, Input!Init PROVE KeysInv
  BY DEF ApplicationInit
<1>1. /\ calls = <<>> /\ running = 0 /\ down = {} /\ lost = {} /\ m_pressed = {}
      /\ m_modifier = FALSE /\ overlapped = FALSE
  BY DEF Input!Init
<1>2. ToCome = <<>> /\ OnceEach(ToCome) /\ NoShift(ToCome)
  BY <1>1 DEF ToCome, OnceEach, NoShift
<1>3. \A action : Coming(ToCome, action) = {}
  BY <1>2 DEF Coming
<1> QED
  BY <1>1, <1>2, <1>3, HandlersStart DEF KeysInv, GlfwFollows, Win32Follows,
     Input!ShiftKeys

\* With any number of handlers, that are added and removed while they run:
\* between the messages of the platform the state of the keyboard is that of
\* the keys, as far as the platform tells.
THEOREM KeyboardFollowsKeys == ApplicationSpec => []StateFollowsKeys
<1>1. KeysInv /\ [ApplicationNext]_<<part, vars, mapVars, inputVars,
        registryVars, libraryVars, configVars, assetVars, luaVars, traceVars>>
        => KeysInv'
  BY KeysStep, InputSteps
<1>2. KeysInv => StateFollowsKeys
  <2> SUFFICES ASSUME KeysInv, calls = <<>>
               PROVE  StateFollowsKeys
    BY DEF StateFollowsKeys, Input!StateFollowsKeys, Input!Idle
  <2>1. ToCome = <<>> /\ \A action : Coming(ToCome, action) = {}
    BY DEF ToCome, Coming, KeysInv, HandlersInv
  <2> QED
    BY <2>1 DEF KeysInv, GlfwFollows, Win32Follows, StateFollowsKeys,
       Input!StateFollowsKeys
<1> QED
  BY KeysStart, <1>1, <1>2, PTL DEF ApplicationSpec

------------------------------------------------------------------------------
(* The registry of components.                                             *)

LEMMA GreatestOf ==
  ASSUME NEW n \in Nat, NEW S \in SUBSET (1 .. n), S # {}
  PROVE  \E k \in S : \A j \in S : j <= k
<1> DEFINE T == {m \in 0 .. n : n - m \in S}
<1>1. PICK k \in S : TRUE
  OBVIOUS
<1>2. n - k \in T /\ T \in SUBSET Nat
  OBVIOUS
<1>3. PICK m \in T : \A j \in T : m <= j
  BY <1>2, LeastOf
<1>4. ASSUME NEW j \in S PROVE j <= n - m
  <2>1. n - j \in T
    OBVIOUS
  <2>2. m <= n - j
    BY <1>3, <2>1
  <2> QED
    BY <1>3, <2>2
<1> QED
  BY <1>3, <1>4

\* How many indices of a set are at most k.
LEMMA CountUpTo ==
  ASSUME NEW size \in Nat, NEW I \in SUBSET (1 .. size)
  PROVE  /\ IsFiniteSet(I) /\ Cardinality(I) \in Nat
         /\ {j \in I : j <= 0} = {} /\ {j \in I : j <= size} = I
         /\ \A k \in 0 .. size :
              /\ IsFiniteSet({j \in I : j <= k})
              /\ Cardinality({j \in I : j <= k}) \in Nat
<1>1. IsFiniteSet(I) /\ Cardinality(I) \in Nat
  <2>1. IsFiniteSet(1 .. size)
    BY FS_Interval, 1 \in Int, size \in Int
  <2> QED
    BY <2>1, FS_Subset, FS_CardinalityType
<1>2. {j \in I : j <= 0} = {}
  <2>1. \A j \in I : j \in Int /\ ~(j <= 0)
    OBVIOUS
  <2> QED
    BY <2>1
<1>6. {j \in I : j <= size} = I
  <2>1. \A j \in I : j <= size
    OBVIOUS
  <2> QED
    BY <2>1
<1>3. ASSUME NEW k
      PROVE  /\ IsFiniteSet({j \in I : j <= k})
             /\ Cardinality({j \in I : j <= k}) \in Nat
  <2>1. {j \in I : j <= k} \subseteq I
    OBVIOUS
  <2> QED
    BY <1>1, <2>1, FS_Subset, FS_CardinalityType
<1> QED
  BY <1>1, <1>2, <1>3, <1>6

\* A number that is no index adds none; an index adds at most one.
LEMMA CountSame ==
  ASSUME NEW size \in Nat, NEW I \in SUBSET (1 .. size),
         NEW k \in (1 .. size) \ I
  PROVE  {j \in I : j <= k} = {j \in I : j <= k - 1}
<1>1. \A j \in I : j \in Int /\ j # k
  OBVIOUS
<1>2. \A j \in I : (j <= k) <=> (j <= k - 1)
  BY <1>1
<1> QED
  BY <1>2

LEMMA CountNext ==
  ASSUME NEW size \in Nat, NEW I \in SUBSET (1 .. size), NEW k \in 1 .. size
  PROVE  Cardinality({j \in I : j <= k}) <=
           Cardinality({j \in I : j <= k - 1}) + 1
<1> DEFINE A == {j \in I : j <= k}
           B == {j \in I : j <= k - 1}
<1>1. IsFiniteSet(B) /\ Cardinality(A) \in Nat /\ Cardinality(B) \in Nat
  BY CountUpTo, k \in 0 .. size, k - 1 \in 0 .. size, Zenon
<1>2. CASE k \in I
  <2>3. \A j \in I : j \in Int
    OBVIOUS
  <2>4. \A j \in I : (j <= k) <=> (j <= k - 1 \/ j = k)
    BY <2>3
  <2>5. A = B \cup {k}
    BY <1>2, <2>4
  <2>1. A = B \cup {k} /\ k \notin B
    BY <2>5
  <2> HIDE DEF A, B
  <2>2. Cardinality(A) = Cardinality(B) + 1
    BY <1>1, <2>1, FS_AddElement
  <2>6. Cardinality(A) <= Cardinality(B) + 1
    BY <1>1, <2>2
  <2> QED
    BY <2>6 DEF A, B
<1>3. CASE k \notin I
  <2>1. A = B
    BY <1>3, CountSame
  <2> HIDE DEF A, B
  <2>2. Cardinality(A) <= Cardinality(B) + 1
    BY <1>1, <2>1
  <2> QED
    BY <2>2 DEF A, B
<1> QED
  BY <1>2, <1>3

\* The n-th of a set of indices.
LEMMA NthOf ==
  ASSUME NEW size \in Nat, NEW I \in SUBSET (1 .. size),
         NEW n \in 1 .. Cardinality(I)
  PROVE  \E i \in I : Cardinality({j \in I : j <= i}) = n
<1> DEFINE Up == [k \in 0 .. size |-> Cardinality({j \in I : j <= k})]
           K == {k \in 0 .. size : n <= Up[k]}
<1>1. n \in Nat /\ n # 0 /\ n <= Cardinality(I) /\ Cardinality(I) \in Nat
  <2>1. Cardinality(I) \in Nat
    BY CountUpTo, Zenon
  <2> QED
    BY <2>1
<1>2. Up[0] = 0 /\ Up[size] = Cardinality(I)
  <2>1. {j \in I : j <= 0} = {} /\ {j \in I : j <= size} = I
    BY CountUpTo, Zenon
  <2>2. 0 \in 0 .. size /\ size \in 0 .. size
    OBVIOUS
  <2> QED
    BY <2>1, <2>2, FS_EmptySet, Zenon
<1>3. \A k \in 0 .. size : Up[k] \in Nat
  BY CountUpTo, Zenon
<1>4. ASSUME NEW k \in 1 .. size PROVE Up[k] <= Up[k - 1] + 1
  <2>1. k \in 0 .. size /\ k - 1 \in 0 .. size
    OBVIOUS
  <2>2. Cardinality({j \in I : j <= k}) <=
          Cardinality({j \in I : j <= k - 1}) + 1
    BY CountNext
  <2> QED
    BY <2>1, <2>2
<1>5. ASSUME NEW k \in 1 .. size, k \notin I PROVE Up[k] = Up[k - 1]
  <2>1. k \in 0 .. size /\ k - 1 \in 0 .. size
    OBVIOUS
  <2>2. {j \in I : j <= k} = {j \in I : j <= k - 1}
    BY <1>5, CountSame
  <2> QED
    BY <2>1, <2>2
<1>6. \A i \in I : i \in 0 .. size /\ Up[i] = Cardinality({j \in I : j <= i})
  OBVIOUS
<1> HIDE DEF Up
<1>7. K \in SUBSET Nat /\ size \in K
  BY <1>1, <1>2
<1> HIDE DEF K
<1>8. PICK k \in K : \A j \in K : k <= j
  BY <1>7, LeastOf
<1>9. k \in 0 .. size /\ n <= Up[k]
  BY DEF K
<1>10. k \in 1 .. size
  <2>1. k # 0
    BY <1>1, <1>2, <1>9
  <2> QED
    BY <1>9, <2>1
<1>11. Up[k - 1] < n
  <2>1. k - 1 \in 0 .. size
    BY <1>10
  <2>2. k - 1 \notin K
    BY <1>8, <1>10
  <2> QED
    BY <1>1, <1>3, <2>1, <2>2 DEF K
<1>12. Up[k] \in Nat /\ Up[k - 1] \in Nat
  BY <1>3, <1>10
<1>13. k \in I
  BY <1>1, <1>5, <1>9, <1>10, <1>11, <1>12
<1>14. Up[k] = n
  BY <1>1, <1>4, <1>9, <1>10, <1>11, <1>12
<1> QED
  BY <1>6, <1>13, <1>14

LEMMA OnlyKeeps ==
  ASSUME NEW V, NEW s \in Seq(V), NEW S
  PROVE  Registry!Only(s, S) \in Seq(V \cap S)
<1> DEFINE I == {i \in 1 .. Len(s) : s[i] \in S}
           Nth(n) == CHOOSE i \in I : Registry!Cardinality({j \in I : j <= i}) = n
<1>1. \A T : Registry!Cardinality(T) = Cardinality(T)
  BY Zenon DEF Registry!Cardinality, Cardinality
<1>2. Cardinality(I) \in Nat
  <2>1. IsFiniteSet(1 .. Len(s))
    BY FS_Interval
  <2> QED
    BY <2>1, FS_Subset, FS_CardinalityType
<1>3. ASSUME NEW n \in 1 .. Cardinality(I) PROVE Nth(n) \in I
  <2>1. \E i \in I : Cardinality({j \in I : j <= i}) = n
    <3>1. Len(s) \in Nat /\ I \in SUBSET (1 .. Len(s))
      OBVIOUS
    <3>2. n \in 1 .. Cardinality(I)
      BY <1>3
    <3> HIDE DEF I
    <3> QED
      BY <3>1, <3>2, NthOf
  <2>2. \E i \in I : Registry!Cardinality({j \in I : j <= i}) = n
    BY <1>1, <2>1
  <2> HIDE DEF I
  <2> QED
    BY <2>2
<1>4. \A i \in I : s[i] \in V \cap S
  OBVIOUS
<1>5. Registry!Only(s, S) = [n \in 1 .. Cardinality(I) |-> s[Nth(n)]]
  BY <1>1 DEF Registry!Only
<1> HIDE DEF I, Nth
<1> QED
  BY <1>2, <1>3, <1>4, <1>5

\* Entries that are registered in turn: the keys they write, each with the value
\* of an entry that writes it.
KeysOf(keys, s) == UNION {keys[s[i]] : i \in 1 .. Len(s)}

WrittenInTurn(new, map, s, keys, written) ==
  /\ DOMAIN new = DOMAIN map \cup KeysOf(keys, s)
  /\ \A k \in DOMAIN map : k \notin KeysOf(keys, s) => new[k] = map[k]
  /\ \A k \in KeysOf(keys, s) : \E i \in 1 .. Len(s) :
       k \in keys[s[i]] /\ new[k] = written[s[i]]

LEMMA PutWrites ==
  ASSUME NEW s, NEW map, NEW keys, NEW written, Len(s) \in Nat
  PROVE  WrittenInTurn(Registry!Put(map, s, keys, written), map, s, keys, written)
<1> DEFINE all == KeysOf(keys, s)
           new == Registry!Put(map, s, keys, written)
           With(k) == {i \in 1 .. Len(s) : k \in keys[s[i]]}
           Last(k) == CHOOSE i \in With(k) : \A j \in With(k) : j <= i
<1>1. new = [k \in DOMAIN map \cup all |->
               IF k \in all THEN written[s[Last(k)]] ELSE map[k]]
  BY DEF Registry!Put, KeysOf
<1>2. ASSUME NEW k \in all
      PROVE  Last(k) \in With(k)
  <2>1. With(k) # {} /\ With(k) \in SUBSET (1 .. Len(s))
    BY DEF KeysOf
  <2>2. Len(s) \in Nat
    OBVIOUS
  <2> HIDE DEF With
  <2>3. \E i \in With(k) : \A j \in With(k) : j <= i
    BY <2>1, <2>2, GreatestOf
  <2> QED
    BY <2>3
<1>3. \A k \in all : \E i \in 1 .. Len(s) : k \in keys[s[i]] /\ new[k] = written[s[i]]
  <2> SUFFICES ASSUME NEW k \in all
               PROVE  \E i \in 1 .. Len(s) : k \in keys[s[i]] /\ new[k] = written[s[i]]
    OBVIOUS
  <2>1. Last(k) \in 1 .. Len(s) /\ k \in keys[s[Last(k)]]
    BY <1>2
  <2> HIDE DEF Last, all, new
  <2>2. new[k] = written[s[Last(k)]]
    BY <1>1
  <2> QED
    BY <2>1, <2>2
<1>4. DOMAIN new = DOMAIN map \cup all
  <2> HIDE DEF Last, all, new
  <2> QED
    BY <1>1
<1>5. \A k \in DOMAIN map : k \notin all => new[k] = map[k]
  <2> HIDE DEF Last, all, new
  <2> QED
    BY <1>1
<1> QED
  BY <1>3, <1>4, <1>5 DEF WrittenInTurn

RegistryTypes ==
  /\ m_components \in SUBSET Component /\ m_registered \in SUBSET Entry
  /\ constructed \in SUBSET Entry /\ m_registered \subseteq constructed
  /\ keyOf \in [Component -> SUBSET Entry]
  /\ m_pending_implementations \in Seq(m_registered)
  /\ DOMAIN m_implementations = Component /\ DOMAIN m_aliases = Component

\* An entry is found under its own name, in its own component.
NamesFit ==
  \A c \in Component : \A n \in DOMAIN m_implementations[c] :
    /\ m_implementations[c][n] \in m_registered
    /\ ComponentOf[m_implementations[c][n]] = c
    /\ NameOf[m_implementations[c][n]] = n

NobodyElse(e) ==
  \A f \in Entry \ {e} : <<ComponentOf[f], NameOf[f]>> #
                           <<ComponentOf[e], NameOf[e]>>

OwnNameStays ==
  \A e \in m_registered : NobodyElse(e) =>
    NameOf[e] \in DOMAIN m_implementations[ComponentOf[e]]

RegistryInv ==
  /\ RegistryTypes /\ NamesFit /\ Registry!AliasesResolve /\ OwnNameStays
  /\ Registry!KeysOfFirst

\* What the registration of some entries of a component writes.
LEMMA RegisteredFit ==
  ASSUME RegistryAssumption, RegistryTypes, NamesFit, Registry!AliasesResolve,
         NEW c \in Component, NEW S \in SUBSET {e \in Entry : ComponentOf[e] = c},
         NEW s \in Seq(S), Registry!DoRegister(c, s)
  PROVE  /\ DOMAIN m_implementations' = Component
         /\ DOMAIN m_aliases' = Component
         /\ \A d \in Component \ {c} :
              /\ m_implementations'[d] = m_implementations[d]
              /\ m_aliases'[d] = m_aliases[d]
         /\ DOMAIN m_implementations'[c] =
              DOMAIN m_implementations[c] \cup {NameOf[s[i]] : i \in 1 .. Len(s)}
         /\ \A n \in DOMAIN m_implementations'[c] :
              LET e == m_implementations'[c][n]
              IN  e \in m_registered \cup S /\ ComponentOf[e] = c /\ NameOf[e] = n
         /\ \A a \in DOMAIN m_aliases'[c] :
              m_aliases'[c][a] \in DOMAIN m_implementations'[c]
<1> DEFINE keys == [e \in Entry |-> {NameOf[e]}]
           self == [e \in Entry |-> e]
           names == KeysOf(keys, s)
           all == KeysOf(AliasesOf, s)
           imps == Registry!Put(m_implementations[c], s, keys, self)
           als == Registry!Put(m_aliases[c], s, AliasesOf, NameOf)
<1>1. /\ m_implementations' = [m_implementations EXCEPT ![c] = imps]
      /\ m_aliases' = [m_aliases EXCEPT ![c] = als]
  BY DEF Registry!DoRegister
<1>2. /\ DOMAIN imps = DOMAIN m_implementations[c] \cup names
      /\ \A k \in DOMAIN m_implementations[c] :
           k \notin names => imps[k] = m_implementations[c][k]
      /\ \A k \in names : \E i \in 1 .. Len(s) :
           k \in keys[s[i]] /\ imps[k] = self[s[i]]
  <2>1. WrittenInTurn(imps, m_implementations[c], s, keys, self)
    BY PutWrites, Len(s) \in Nat
  <2> HIDE DEF imps, names, keys, self
  <2> QED
    BY <2>1, Zenon DEF WrittenInTurn, names
<1>3. /\ DOMAIN als = DOMAIN m_aliases[c] \cup all
      /\ \A k \in DOMAIN m_aliases[c] : k \notin all => als[k] = m_aliases[c][k]
      /\ \A k \in all : \E i \in 1 .. Len(s) :
           k \in AliasesOf[s[i]] /\ als[k] = NameOf[s[i]]
  <2>1. WrittenInTurn(als, m_aliases[c], s, AliasesOf, NameOf)
    BY PutWrites, Len(s) \in Nat
  <2> HIDE DEF als, all
  <2> QED
    BY <2>1, Zenon DEF WrittenInTurn, all
<1>4. \A i \in 1 .. Len(s) : s[i] \in S /\ s[i] \in Entry /\ ComponentOf[s[i]] = c
  OBVIOUS
<1>5. \A i \in 1 .. Len(s) : keys[s[i]] = {NameOf[s[i]]} /\ self[s[i]] = s[i]
  BY <1>4
<1> HIDE DEF imps, als, keys, self
<1>6. names = {NameOf[s[i]] : i \in 1 .. Len(s)}
  <2>1. ASSUME NEW n PROVE n \in names <=>
                            \E i \in 1 .. Len(s) : n \in keys[s[i]]
    BY Zenon DEF KeysOf
  <2>2. ASSUME NEW n, NEW i \in 1 .. Len(s)
        PROVE  n \in keys[s[i]] <=> n = NameOf[s[i]]
    BY <1>5
  <2> HIDE DEF names
  <2> QED
    BY <2>1, <2>2
<1> HIDE DEF names, all
<1>7. /\ DOMAIN m_implementations' = Component /\ DOMAIN m_aliases' = Component
      /\ m_implementations'[c] = imps /\ m_aliases'[c] = als
  BY <1>1 DEF RegistryTypes
<1>8. \A d \in Component \ {c} :
        /\ m_implementations'[d] = m_implementations[d]
        /\ m_aliases'[d] = m_aliases[d]
  BY <1>1 DEF RegistryTypes
<1>9. ASSUME NEW n \in DOMAIN imps
      PROVE  imps[n] \in m_registered \cup S /\ ComponentOf[imps[n]] = c
               /\ NameOf[imps[n]] = n
  <2>1. CASE n \in names
    <3>1. PICK i \in 1 .. Len(s) : n \in keys[s[i]] /\ imps[n] = self[s[i]]
      BY <1>2, <2>1
    <3>2. n = NameOf[s[i]] /\ imps[n] = s[i]
      BY <1>5, <3>1
    <3> QED
      BY <1>4, <3>2
  <2>2. CASE n \notin names
    <3>1. n \in DOMAIN m_implementations[c] /\ imps[n] = m_implementations[c][n]
      BY <1>2, <2>2
    <3>2. /\ m_implementations[c][n] \in m_registered
          /\ ComponentOf[m_implementations[c][n]] = c
          /\ NameOf[m_implementations[c][n]] = n
      BY <3>1, Zenon DEF NamesFit
    <3> QED
      BY <3>1, <3>2
  <2> QED
    BY <2>1, <2>2
<1>10. ASSUME NEW a \in DOMAIN als PROVE als[a] \in DOMAIN imps
  <2>1. CASE a \in all
    <3>1. PICK i \in 1 .. Len(s) : als[a] = NameOf[s[i]]
      BY <1>3, <2>1
    <3> QED
      BY <1>2, <1>6, <3>1
  <2>2. CASE a \notin all
    <3>1. a \in DOMAIN m_aliases[c] /\ als[a] = m_aliases[c][a]
      BY <1>3, <2>2
    <3> QED
      BY <1>2, <3>1 DEF Registry!AliasesResolve
  <2> QED
    BY <2>1, <2>2
<1> QED
  BY <1>2, <1>6, <1>7, <1>8, <1>9, <1>10

\* The key of the component is that of the first entry, or the old one.
LEMMA KeyRegistered ==
  ASSUME RegistryTypes, NEW c \in Component, NEW s \in Seq(Entry),
         Registry!DoRegister(c, s)
  PROVE  /\ keyOf' \in [Component -> SUBSET Entry]
         /\ \A d \in Component \ {c} : keyOf'[d] = keyOf[d]
         /\ keyOf[c] # {} \/ s = << >> => keyOf'[c] = keyOf[c]
         /\ keyOf[c] = {} /\ s # << >> => keyOf'[c] = {s[1]}
<1>1. s # << >> => s[1] \in Entry
  OBVIOUS
<1>2. keyOf' = [keyOf EXCEPT ![c] =
        IF @ = {} /\ s # << >> THEN {s[1]} ELSE @]
  BY DEF Registry!DoRegister
<1> QED
  BY <1>1, <1>2 DEF RegistryTypes

LEMMA RegistryStarts ==
  ASSUME Registry!Init PROVE RegistryInv
<1>1. RegistryTypes
  BY DEF Registry!Init, RegistryTypes
<1>2. \A c \in Component :
        DOMAIN m_implementations[c] = {} /\ DOMAIN m_aliases[c] = {}
  <2>1. DOMAIN << >> = {}
    OBVIOUS
  <2> QED
    BY <2>1, Zenon DEF Registry!Init
<1>3. m_registered = {} /\ \A c \in Component : keyOf[c] = {}
  BY DEF Registry!Init
<1> QED
  BY <1>1, <1>2, <1>3
  DEF RegistryInv, NamesFit, Registry!AliasesResolve, OwnNameStays,
      Registry!KeysOfFirst

LEMMA RegisterComponentKeeps ==
  ASSUME RegistryAssumption, RegistryInv, NEW c \in Component,
         Registry!RegisterComponent(c)
  PROVE  RegistryInv'
<1> DEFINE S == m_registered \cap Registry!EntriesOf(c)
           s == Registry!Only(m_pending_implementations, Registry!EntriesOf(c))
<1>1. RegistryTypes /\ NamesFit /\ Registry!AliasesResolve /\ OwnNameStays
        /\ Registry!KeysOfFirst
  BY DEF RegistryInv
<1>2. S \in SUBSET {e \in Entry : ComponentOf[e] = c} /\ s \in Seq(S)
  <2>1. s \in Seq(S)
    BY <1>1, OnlyKeeps DEF RegistryTypes
  <2> QED
    BY <1>1, <2>1 DEF RegistryTypes, Registry!EntriesOf
<1>3. /\ Registry!DoRegister(c, s) /\ m_registered' = m_registered
      /\ constructed' = constructed
  BY DEF Registry!RegisterComponent
<1> HIDE DEF s
<1>4. /\ DOMAIN m_implementations' = Component
      /\ DOMAIN m_aliases' = Component
      /\ \A d \in Component \ {c} :
           /\ m_implementations'[d] = m_implementations[d]
           /\ m_aliases'[d] = m_aliases[d]
      /\ DOMAIN m_implementations[c] \subseteq DOMAIN m_implementations'[c]
      /\ \A n \in DOMAIN m_implementations'[c] :
           LET e == m_implementations'[c][n]
           IN  e \in m_registered \cup S /\ ComponentOf[e] = c /\ NameOf[e] = n
      /\ \A a \in DOMAIN m_aliases'[c] :
           m_aliases'[c][a] \in DOMAIN m_implementations'[c]
  <2> HIDE DEF S
  <2> QED
    BY <1>1, <1>2, <1>3, RegisteredFit
<1>10. /\ keyOf' \in [Component -> SUBSET Entry]
       /\ \A d \in Component \ {c} : keyOf'[d] = keyOf[d]
       /\ keyOf[c] # {} \/ s = << >> => keyOf'[c] = keyOf[c]
       /\ keyOf[c] = {} /\ s # << >> => keyOf'[c] = {s[1]}
  <2>1. S \subseteq Entry
    BY <1>2
  <2> HIDE DEF S
  <2>2. s \in Seq(Entry)
    BY <1>2, <2>1
  <2> QED
    BY <1>1, <1>3, <2>2, KeyRegistered
<1>11. s = << >> => DOMAIN m_implementations'[c] = DOMAIN m_implementations[c]
  <2>1. DOMAIN m_implementations'[c] =
          DOMAIN m_implementations[c] \cup {NameOf[s[i]] : i \in 1 .. Len(s)}
    <3> HIDE DEF S
    <3> QED
      BY <1>1, <1>2, <1>3, RegisteredFit
  <2>2. s = << >> => {NameOf[s[i]] : i \in 1 .. Len(s)} = {}
    <3>1. s = << >> => 1 .. Len(s) = {}
      OBVIOUS
    <3> QED
      BY <3>1
  <2> QED
    BY <2>1, <2>2
<1>5. RegistryTypes'
  <2>1. /\ m_components' \in SUBSET Component /\ m_registered' \in SUBSET Entry
        /\ constructed' \in SUBSET Entry /\ m_registered' \subseteq constructed'
    BY <1>1, <1>3 DEF RegistryTypes, Registry!RegisterComponent
  <2>2. m_pending_implementations' \in
          Seq(m_registered \cap (Entry \ Registry!EntriesOf(c)))
    BY <1>1, OnlyKeeps DEF RegistryTypes, Registry!RegisterComponent
  <2>3. m_pending_implementations' \in Seq(m_registered')
    BY <1>3, <2>2
  <2> QED
    BY <1>4, <1>10, <2>1, <2>3 DEF RegistryTypes
<1>6. NamesFit'
  <2>1. \A n \in DOMAIN m_implementations'[c] :
          /\ m_implementations'[c][n] \in m_registered'
          /\ ComponentOf[m_implementations'[c][n]] = c
          /\ NameOf[m_implementations'[c][n]] = n
    BY <1>3, <1>4
  <2> HIDE DEF S
  <2>2. \A d \in Component \ {c} : \A n \in DOMAIN m_implementations'[d] :
          /\ m_implementations'[d][n] \in m_registered'
          /\ ComponentOf[m_implementations'[d][n]] = d
          /\ NameOf[m_implementations'[d][n]] = n
    BY <1>1, <1>3, <1>4 DEF NamesFit
  <2> QED
    BY <2>1, <2>2 DEF NamesFit
<1>7. Registry!AliasesResolve'
  BY <1>1, <1>4 DEF Registry!AliasesResolve
<1>8. OwnNameStays'
  <2>1. \A e \in m_registered : ComponentOf[e] \in Component
    BY <1>1 DEF RegistryAssumption, RegistryTypes
  <2> QED
    BY <1>1, <1>3, <1>4, <2>1 DEF OwnNameStays, NobodyElse
<1>9. Registry!KeysOfFirst'
  <2> SUFFICES ASSUME NEW d \in Component
               PROVE  /\ DOMAIN m_implementations'[d] # {} => keyOf'[d] # {}
                      /\ keyOf'[d] \subseteq constructed' \cup DynamicEntry
    BY DEF Registry!KeysOfFirst
  <2>1. CASE d # c
    BY <1>1, <1>3, <1>4, <1>10, <2>1 DEF Registry!KeysOfFirst
  <2>2. CASE d = c
    <3>1. s # << >> => s[1] \in constructed
      <4>1. S \subseteq constructed
        BY <1>1 DEF RegistryTypes
      <4> HIDE DEF S
      <4> QED
        BY <1>2, <4>1
    <3>2. /\ DOMAIN m_implementations[c] # {} => keyOf[c] # {}
          /\ keyOf[c] \subseteq constructed \cup DynamicEntry
      BY <1>1 DEF Registry!KeysOfFirst
    <3>3. CASE keyOf[c] # {} \/ s = << >>
      <4>1. keyOf'[c] = keyOf[c]
        BY <1>10, <3>3
      <4>2. keyOf[c] = {} => DOMAIN m_implementations'[c] = {}
        BY <1>11, <3>2, <3>3
      <4> QED
        BY <1>3, <2>2, <3>2, <4>1, <4>2
    <3>4. CASE keyOf[c] = {} /\ s # << >>
      <4>1. keyOf'[c] = {s[1]}
        BY <1>10, <3>4
      <4> QED
        BY <1>3, <2>2, <3>1, <3>4, <4>1
    <3> QED
      BY <3>3, <3>4
  <2> QED
    BY <2>1, <2>2
<1> QED
  BY <1>5, <1>6, <1>7, <1>8, <1>9 DEF RegistryInv

LEMMA RegisterImplementationKeeps ==
  ASSUME RegistryAssumption, RegistryInv, NEW e \in Entry,
         Registry!RegisterImplementation(e)
  PROVE  RegistryInv'
<1> DEFINE c == ComponentOf[e]
<1>1. RegistryTypes /\ NamesFit /\ Registry!AliasesResolve /\ OwnNameStays
        /\ Registry!KeysOfFirst
  BY DEF RegistryInv
<1>2. c \in Component /\ {e} \in SUBSET {f \in Entry : ComponentOf[f] = c}
        /\ <<e>> \in Seq({e})
  BY DEF RegistryAssumption
<1>3. /\ Registry!DoRegister(c, <<e>>) /\ m_registered' = m_registered \cup {e}
      /\ constructed' = constructed \cup {e}
  BY DEF Registry!RegisterImplementation
<1> HIDE DEF c
<1>4. /\ DOMAIN m_implementations' = Component
      /\ DOMAIN m_aliases' = Component
      /\ \A d \in Component \ {c} :
           /\ m_implementations'[d] = m_implementations[d]
           /\ m_aliases'[d] = m_aliases[d]
      /\ DOMAIN m_implementations'[c] = DOMAIN m_implementations[c] \cup
           {NameOf[<<e>>[i]] : i \in 1 .. Len(<<e>>)}
      /\ \A n \in DOMAIN m_implementations'[c] :
           LET f == m_implementations'[c][n]
           IN  f \in m_registered \cup {e} /\ ComponentOf[f] = c /\ NameOf[f] = n
      /\ \A a \in DOMAIN m_aliases'[c] :
           m_aliases'[c][a] \in DOMAIN m_implementations'[c]
  BY <1>1, <1>2, <1>3, RegisteredFit
<1>11. /\ keyOf' \in [Component -> SUBSET Entry]
       /\ \A d \in Component \ {c} : keyOf'[d] = keyOf[d]
       /\ keyOf[c] # {} => keyOf'[c] = keyOf[c]
       /\ keyOf[c] = {} => keyOf'[c] = {e}
  <2>1. <<e>> \in Seq(Entry) /\ <<e>> # << >> /\ <<e>>[1] = e
    OBVIOUS
  <2> QED
    BY <1>1, <1>2, <1>3, <2>1, KeyRegistered, Zenon
<1>5. DOMAIN m_implementations'[c] = DOMAIN m_implementations[c] \cup {NameOf[e]}
  <2>1. {NameOf[<<e>>[i]] : i \in 1 .. Len(<<e>>)} = {NameOf[e]}
    <3>1. Len(<<e>>) = 1 /\ <<e>>[1] = e
      OBVIOUS
    <3>2. 1 .. Len(<<e>>) = {1}
      BY <3>1
    <3> QED
      BY <3>1, <3>2, Zenon
  <2> QED
    BY <1>4, <2>1
<1>6. RegistryTypes'
  <2>1. /\ m_components' \in SUBSET Component /\ m_registered' \in SUBSET Entry
        /\ constructed' \in SUBSET Entry /\ m_registered' \subseteq constructed'
    BY <1>1, <1>3 DEF RegistryTypes, Registry!RegisterImplementation
  <2>2. m_pending_implementations \in Seq(m_registered')
    BY <1>1, <1>3 DEF RegistryTypes
  <2>3. e \in m_registered'
    BY <1>3
  <2>4. Append(m_pending_implementations, e) \in Seq(m_registered')
    BY <2>2, <2>3
  <2>5. \/ m_pending_implementations' = m_pending_implementations
        \/ m_pending_implementations' = Append(m_pending_implementations, e)
    BY DEF Registry!RegisterImplementation
  <2>6. m_pending_implementations' \in Seq(m_registered')
    BY <2>2, <2>4, <2>5
  <2> QED
    BY <1>4, <1>11, <2>1, <2>6 DEF RegistryTypes
<1>7. NamesFit'
  BY <1>1, <1>3, <1>4 DEF NamesFit
<1>8. Registry!AliasesResolve'
  BY <1>1, <1>4 DEF Registry!AliasesResolve
<1>9. OwnNameStays'
  <2> SUFFICES ASSUME NEW f \in m_registered', NobodyElse(f)
               PROVE  NameOf[f] \in DOMAIN m_implementations'[ComponentOf[f]]
    BY DEF OwnNameStays, NobodyElse
  <2>1. CASE f = e
    BY <1>5, <2>1 DEF c
  <2>2. CASE f # e
    <3>1. f \in m_registered /\ ComponentOf[f] \in Component
      BY <1>1, <1>3, <2>2 DEF RegistryAssumption, RegistryTypes
    <3>2. NameOf[f] \in DOMAIN m_implementations[ComponentOf[f]]
      BY <1>1, <3>1 DEF OwnNameStays
    <3> QED
      BY <1>4, <1>5, <3>1, <3>2
  <2> QED
    BY <2>1, <2>2
<1>10. Registry!KeysOfFirst'
  BY <1>1, <1>2, <1>3, <1>4, <1>11 DEF Registry!KeysOfFirst
<1> QED
  BY <1>6, <1>7, <1>8, <1>9, <1>10 DEF RegistryInv

LEMMA UnregisterKeeps ==
  ASSUME RegistryAssumption, RegistryInv, NEW e \in Entry,
         Registry!UnregisterImplementation(e),
         m_registered' = m_registered \ {e},
         UNCHANGED <<m_components, keyOf>>,
         constructed' \in SUBSET constructed,
         \A f \in constructed \ constructed' : f \in DynamicEntry,
         m_registered' \subseteq constructed'
  PROVE  RegistryInv'
<1> DEFINE c == ComponentOf[e]
           Named == [n \in DOMAIN m_implementations[c] |-> n = NameOf[e]]
           Leading == [a \in DOMAIN m_aliases[c] |-> m_aliases[c][a] = NameOf[e]]
           imps == Registry!Without(m_implementations[c], Named)
           als == Registry!Without(m_aliases[c], Leading)
<1>1. RegistryTypes /\ NamesFit /\ Registry!AliasesResolve /\ OwnNameStays
        /\ Registry!KeysOfFirst
  BY DEF RegistryInv
<1>2. c \in Component
  BY DEF RegistryAssumption
<1>3. /\ m_implementations' = [m_implementations EXCEPT ![c] = imps]
      /\ m_aliases' = [m_aliases EXCEPT ![c] = als]
      /\ m_registered' = m_registered \ {e}
      /\ m_components' = m_components /\ keyOf' = keyOf
      /\ m_pending_implementations' =
           Registry!Only(m_pending_implementations, Entry \ {e})
  BY DEF Registry!UnregisterImplementation
<1>4. imps = [n \in {n \in DOMAIN m_implementations[c] : n # NameOf[e]} |->
                m_implementations[c][n]]
  <2>1. {n \in DOMAIN m_implementations[c] : ~Named[n]} =
          {n \in DOMAIN m_implementations[c] : n # NameOf[e]}
    BY Zenon
  <2> QED
    BY <2>1, Zenon DEF Registry!Without
<1>5. als = [a \in {a \in DOMAIN m_aliases[c] : m_aliases[c][a] # NameOf[e]} |->
               m_aliases[c][a]]
  <2>1. {a \in DOMAIN m_aliases[c] : ~Leading[a]} =
          {a \in DOMAIN m_aliases[c] : m_aliases[c][a] # NameOf[e]}
    BY Zenon
  <2> QED
    BY <2>1, Zenon DEF Registry!Without
<1> HIDE DEF Named, Leading, imps, als
<1>6. /\ \A n \in DOMAIN imps : n \in DOMAIN m_implementations[c]
           /\ n # NameOf[e] /\ imps[n] = m_implementations[c][n]
      /\ \A n \in DOMAIN m_implementations[c] : n # NameOf[e] => n \in DOMAIN imps
      /\ \A a \in DOMAIN als : a \in DOMAIN m_aliases[c]
           /\ m_aliases[c][a] # NameOf[e] /\ als[a] = m_aliases[c][a]
  BY <1>4, <1>5
<1> HIDE DEF c
<1>7. /\ DOMAIN m_implementations' = Component /\ DOMAIN m_aliases' = Component
      /\ m_implementations'[c] = imps /\ m_aliases'[c] = als
      /\ \A d \in Component \ {c} :
           /\ m_implementations'[d] = m_implementations[d]
           /\ m_aliases'[d] = m_aliases[d]
  BY <1>1, <1>2, <1>3 DEF RegistryTypes
<1>8. RegistryTypes'
  <2>1. /\ m_components' \in SUBSET Component /\ m_registered' \in SUBSET Entry
        /\ constructed' \in SUBSET Entry /\ m_registered' \subseteq constructed'
        /\ keyOf' \in [Component -> SUBSET Entry]
    BY <1>1, <1>3 DEF RegistryTypes
  <2>2. m_pending_implementations' \in Seq(m_registered \cap (Entry \ {e}))
    BY <1>1, <1>3, OnlyKeeps DEF RegistryTypes
  <2>3. m_pending_implementations' \in Seq(m_registered')
    <3>1. m_registered \cap (Entry \ {e}) = m_registered'
      BY <1>1, <1>3 DEF RegistryTypes
    <3> QED
      BY <2>2, <3>1
  <2> QED
    BY <1>7, <2>1, <2>3 DEF RegistryTypes
<1>9. NamesFit'
  <2> SUFFICES ASSUME NEW d \in Component, NEW n \in DOMAIN m_implementations'[d]
               PROVE  /\ m_implementations'[d][n] \in m_registered'
                      /\ ComponentOf[m_implementations'[d][n]] = d
                      /\ NameOf[m_implementations'[d][n]] = n
    BY DEF NamesFit
  <2>1. n \in DOMAIN m_implementations[d]
          /\ m_implementations'[d][n] = m_implementations[d][n]
    BY <1>6, <1>7
  <2>2. /\ m_implementations[d][n] \in m_registered
        /\ ComponentOf[m_implementations[d][n]] = d
        /\ NameOf[m_implementations[d][n]] = n
    BY <1>1, <2>1 DEF NamesFit
  <2>3. m_implementations[d][n] # e
    <3>1. CASE d = c
      BY <1>6, <1>7, <2>2, <3>1
    <3>2. CASE d # c
      BY <2>2, <3>2 DEF c
    <3> QED
      BY <3>1, <3>2
  <2> QED
    BY <1>3, <2>1, <2>2, <2>3
<1>10. Registry!AliasesResolve'
  <2> SUFFICES ASSUME NEW d \in Component, NEW a \in DOMAIN m_aliases'[d]
               PROVE  m_aliases'[d][a] \in DOMAIN m_implementations'[d]
    BY DEF Registry!AliasesResolve
  <2>1. CASE d = c
    BY <1>1, <1>2, <1>6, <1>7, <2>1 DEF Registry!AliasesResolve
  <2>2. CASE d # c
    BY <1>1, <1>7, <2>2 DEF Registry!AliasesResolve
  <2> QED
    BY <2>1, <2>2
<1>11. OwnNameStays'
  <2> SUFFICES ASSUME NEW f \in m_registered', NobodyElse(f)
               PROVE  NameOf[f] \in DOMAIN m_implementations'[ComponentOf[f]]
    BY DEF OwnNameStays, NobodyElse
  <2>1. f \in m_registered /\ f # e /\ ComponentOf[f] \in Component
    BY <1>1, <1>3 DEF RegistryAssumption, RegistryTypes
  <2>2. NameOf[f] \in DOMAIN m_implementations[ComponentOf[f]]
    BY <1>1, <2>1 DEF OwnNameStays
  <2>3. <<c, NameOf[e]>> # <<ComponentOf[f], NameOf[f]>>
    BY <2>1 DEF NobodyElse, c
  <2> QED
    BY <1>6, <1>7, <2>1, <2>2, <2>3
<1>12. Registry!KeysOfFirst'
  <2> SUFFICES ASSUME NEW d \in Component
               PROVE  /\ DOMAIN m_implementations'[d] # {} => keyOf'[d] # {}
                      /\ keyOf'[d] \subseteq constructed' \cup DynamicEntry
    BY DEF Registry!KeysOfFirst
  <2>1. DOMAIN m_implementations'[d] # {} => DOMAIN m_implementations[d] # {}
    <3>1. CASE d = c
      BY <1>6, <1>7, <3>1
    <3>2. CASE d # c
      BY <1>7, <3>2
    <3> QED
      BY <3>1, <3>2
  <2>2. keyOf[d] \subseteq constructed \cup DynamicEntry
    BY <1>1 DEF Registry!KeysOfFirst
  <2>3. keyOf'[d] = keyOf[d]
    BY <1>3
  <2>4. keyOf'[d] \subseteq constructed' \cup DynamicEntry
    BY <2>2, <2>3
  <2> QED
    BY <1>1, <2>1, <2>3, <2>4 DEF Registry!KeysOfFirst
<1> QED
  BY <1>8, <1>9, <1>10, <1>11, <1>12 DEF RegistryInv

\* unregister() with the object, and the destructor without it.
LEMMA EntryGoes ==
  ASSUME RegistryAssumption, RegistryInv, NEW e \in Entry,
         Registry!Unregister(e) \/ Registry!Destroy(e)
  PROVE  RegistryInv'
<1>1. RegistryTypes /\ e \in DynamicEntry
  BY DEF RegistryInv, Registry!Unregister, Registry!Destroy
<1>2. /\ m_registered' = m_registered \ {e}
      /\ UNCHANGED <<m_components, keyOf>>
      /\ constructed' \in SUBSET constructed
      /\ \A f \in constructed \ constructed' : f \in DynamicEntry
      /\ m_registered' \subseteq constructed'
  BY <1>1 DEF RegistryTypes, Registry!Unregister, Registry!Destroy
<1>3. CASE Registry!UnregisterImplementation(e)
  BY <1>2, <1>3, UnregisterKeeps
<1>4. CASE e \notin m_registered /\ Registry!Destroy(e)
  <2>1. /\ UNCHANGED <<m_implementations, m_aliases, m_pending_implementations>>
        /\ m_registered' = m_registered
    BY <1>2, <1>4 DEF Registry!Destroy
  <2>2. RegistryTypes'
    BY <1>1, <1>2, <2>1 DEF RegistryTypes
  <2>3. \A c \in Component : keyOf[c] \subseteq constructed' \cup DynamicEntry
    BY <1>2 DEF RegistryInv, Registry!KeysOfFirst
  <2> QED
    BY <1>2, <2>1, <2>2, <2>3 DEF RegistryInv, NamesFit, OwnNameStays,
       Registry!AliasesResolve, Registry!KeysOfFirst
<1> QED
  BY <1>3, <1>4 DEF Registry!Unregister, Registry!Destroy

LEMMA RegistryInvHolds == ApplicationSpec => []RegistryInv
<1>1. ASSUME ApplicationInit PROVE RegistryInv
  BY <1>1, RegistryStarts DEF ApplicationInit
<1>2. ASSUME RegistryInv,
             [ApplicationNext]_<<part, vars, mapVars, inputVars, registryVars,
                                 libraryVars, configVars, assetVars, luaVars,
                                 traceVars>>
      PROVE  RegistryInv'
  <2>1. CASE Registry!Next
    BY <1>2, <2>1, RegistryAssumption, RegisterComponentKeeps,
       RegisterImplementationKeeps, EntryGoes DEF Registry!Next
  <2>2. CASE UNCHANGED registryVars
    BY <1>2, <2>2 DEF registryVars, RegistryInv, RegistryTypes, NamesFit,
         Registry!AliasesResolve, OwnNameStays, NobodyElse,
         Registry!KeysOfFirst
  <2>3. Registry!Next \/ UNCHANGED registryVars
    BY <1>2, Zenon DEF ApplicationNext
  <2> QED
    BY <2>1, <2>2, <2>3
<1> QED
  BY <1>1, <1>2, PTL DEF ApplicationSpec

\* ComponentRegistry: for any components, entries, names and aliases, in
\* whatever order libraries register and scripting contexts close, names and
\* aliases lead to entries that are registered, and an entry that has its name
\* alone is what create() of that name finds, as long as the entry that was
\* registered first for each component exists; if one does not, it was dynamic.
THEOREM NamesOutliveEntries == ApplicationSpec => []NamesLeadToEntries
<1>1. ASSUME RegistryInv PROVE NamesLeadToEntries
  <2>1. RegistryTypes /\ NamesFit /\ Registry!AliasesResolve /\ OwnNameStays
          /\ Registry!KeysOfFirst
    BY <1>1 DEF RegistryInv
  <2>2. Registry!EntriesExist
    BY <2>1 DEF Registry!EntriesExist, RegistryTypes, NamesFit
  <2>3. Registry!FoundByName
    <3> SUFFICES ASSUME NEW e \in m_registered, NobodyElse(e)
                 PROVE  Registry!Creates(ComponentOf[e], NameOf[e]) = {e}
      BY DEF Registry!FoundByName, NobodyElse
    <3> DEFINE c == ComponentOf[e]
               n == NameOf[e]
               f == m_implementations[c][n]
    <3>1. n \in DOMAIN m_implementations[c] /\ c \in Component
      BY <2>1, RegistryAssumption DEF OwnNameStays, RegistryTypes,
         RegistryAssumption
    <3>2. Registry!Creates(c, n) = {f}
      BY <3>1, Zenon DEF Registry!Creates
    <3>3. f \in m_registered /\ ComponentOf[f] = c /\ NameOf[f] = n
      BY <2>1, <3>1 DEF NamesFit
    <3>4. f = e
      BY <2>1, <3>3 DEF NobodyElse, RegistryTypes
    <3> QED
      BY <3>2, <3>4
  <2> QED
    BY <2>1, <2>2, <2>3 DEF NamesLeadToEntries, Registry!NamesLeadToEntries
<1> QED
  BY <1>1, RegistryInvHolds, PTL

------------------------------------------------------------------------------
(* Trace topics: once loaded, each value is that of its setting, and levels *)
(* are those of the values, but for MGE while its switches have changed.   *)

Words == {"absent", "null", "INFO", "ERROR", "true", "false"}
Sink == {"memory", "stdout", "client"}

Tracing(s) ==
  /\ s \in [value : [Trace!Parameters -> SUBSET Words],
            levels : [Trace!Topic -> SUBSET Words],
            configured : BOOLEAN, handled : BOOLEAN, sinks : Seq(Sink),
            changed : SUBSET Trace!Topic, clients : BOOLEAN]
  /\ s.configured => s.handled
  /\ ~s.clients => Len(s.sinks) = 1

TraceTypes ==
  /\ Tracing(tracing)
  /\ settings \in [Trace!Parameters -> SUBSET Words]
  /\ topics \subseteq Trace!Topic /\ "MGE" \in topics
  /\ lateTopics \subseteq Topics

\* The values that differ from their settings are of parameters in ps.
ValuesSet(s, raw, ps) ==
  \A p \in Trace!Parameters :
    /\ raw[p] = Trace!Absent => s.value[p] = Trace!Null
    /\ p \notin ps /\ raw[p] # Trace!Absent => s.value[p] = raw[p]

\* Topics have the levels of their values, and MGE, when configured, the sinks.
LevelsSet(s, ts) ==
  /\ \A t \in ts : t \notin s.changed => s.levels[t] = Trace!LevelsOf(s.value, t)
  /\ s.configured =>
       /\ "MGE" \notin s.changed =>
            s.levels["MGE"] = Trace!LevelsOf(s.value, "MGE")
       /\ ~s.clients /\ Trace!On(s.value, "print_to_stdout") =>
            s.sinks = <<"stdout">>

\* Before load() all values may be others than their settings, later those of
\* topics that are new or destroyed.
Differing ==
  IF configLoaded THEN Trace!Topic \ (topics \ lateTopics)
  ELSE Trace!Parameters

Known == IF configLoaded THEN topics \ ({"MGE"} \cup lateTopics) ELSE {}

\* MGE has one sink, which prints only if it was to print, as b says.
PrintsOnlyIf(s, b) ==
  /\ Trace!On(s.value, "print_to_stdout") => b
  /\ ~s.clients => \/ s.sinks = <<"memory">>
                   \/ s.sinks = <<"stdout">> /\ b

PrintInv ==
  /\ toPrint \in BOOLEAN
  /\ Trace!On(settings, "print_to_stdout") => toPrint
  /\ PrintsOnlyIf(tracing, toPrint)

TraceInv ==
  /\ TraceTypes
  /\ ~configLoaded => ~tracing.configured
  /\ ValuesSet(tracing, settings, Differing)
  /\ LevelsSet(tracing, Known)

LEMMA TraceStarts == ApplicationInit => TraceInv
<1> SUFFICES ASSUME ApplicationInit PROVE TraceInv
  OBVIOUS
<1> USE DEF Trace!Absent, Trace!Null, Trace!Levels, Trace!NoSettings
<1>1. Trace!Init
  BY DEF ApplicationInit
<1>2. settings \in [Trace!Parameters -> SUBSET Words]
  BY <1>1 DEF Trace!Init, Words
<1>3. Tracing(tracing)
  <2>1. <<"memory">> \in Seq(Sink) /\ Len(<<"memory">>) = 1
    BY DEF Sink
  <2> QED
    BY <1>1, <2>1 DEF Trace!Init, Tracing, Words
<1>4. TraceTypes
  BY <1>1, <1>2, <1>3 DEF Trace!Init, TraceTypes, Trace!Topic
<1>5. ValuesSet(tracing, settings, Trace!Parameters)
  BY <1>1 DEF Trace!Init, ValuesSet
<1>6. Differing = Trace!Parameters /\ Known = {} /\ ~configLoaded
      /\ ~tracing.configured
  BY <1>1 DEF Trace!Init, Differing, Known
<1> QED
  BY <1>4, <1>5, <1>6 DEF TraceInv, LevelsSet

\* What update_configuration() of t makes of s.
Updated(s, t, n) ==
  /\ Tracing(n)
  /\ n.value = s.value /\ n.clients = s.clients
  /\ n.levels = [s.levels EXCEPT ![t] = Trace!LevelsOf(s.value, t)]
  /\ n.changed = s.changed \ {t}
  /\ t # "MGE" => n.configured = s.configured /\ n.sinks = s.sinks
  /\ t = "MGE" =>
       /\ n.configured
       /\ s.configured => n.sinks = s.sinks
       /\ ~s.configured /\ ~s.clients /\ Trace!On(s.value, "print_to_stdout") =>
            n.sinks = <<"stdout">>

LEMMA LevelsAreWords ==
  ASSUME NEW v \in [Trace!Parameters -> SUBSET Words], NEW t \in Trace!Topic
  PROVE  Trace!LevelsOf(v, t) \in SUBSET Words
BY DEF Trace!LevelsOf, Trace!Levels, Trace!Parameters, Words

LEMMA SinksAreSinks ==
  ASSUME NEW s, Tracing(s)
  PROVE  /\ Trace!SinksOf(s) \in Seq(Sink)
         /\ ~s.clients => Len(Trace!SinksOf(s)) = 1
<1>1. s.sinks \in Seq(Sink) /\ (~s.clients => Len(s.sinks) = 1)
  BY DEF Tracing
<1>2. "stdout" \in Sink
  BY DEF Sink
<1>3. Append(s.sinks, "stdout") \in Seq(Sink)
  BY <1>1, <1>2
<1>4. <<"stdout">> \in Seq(Sink) /\ Len(<<"stdout">>) = 1
  BY <1>2
<1>5. \/ Trace!SinksOf(s) = s.sinks
      \/ Trace!SinksOf(s) = <<"stdout">>
      \/ Trace!SinksOf(s) = Append(s.sinks, "stdout") /\ Len(s.sinks) # 1
  BY Zenon DEF Trace!SinksOf
<1> QED
  BY <1>1, <1>3, <1>4, <1>5

LEMMA UpdateUpdates ==
  ASSUME NEW s, NEW t \in Trace!Topic, Tracing(s)
  PROVE  Updated(s, t, Trace!UpdateConfiguration(s, t))
<1> DEFINE n == Trace!UpdateConfiguration(s, t)
           new == [s EXCEPT !.levels[t] = Trace!LevelsOf(s.value, t),
                            !.changed = @ \ {t}]
<1> SUFFICES Updated(s, t, n)
  OBVIOUS
<1>1. Trace!LevelsOf(s.value, t) \in SUBSET Words
  BY LevelsAreWords DEF Tracing
<1>2. /\ Tracing(new)
      /\ new.value = s.value /\ new.clients = s.clients
      /\ new.levels = [s.levels EXCEPT ![t] = Trace!LevelsOf(s.value, t)]
      /\ new.changed = s.changed \ {t}
      /\ new.configured = s.configured /\ new.sinks = s.sinks
  BY <1>1 DEF Tracing
<1>3. CASE t # "MGE"
  <2>1. n = new
    BY <1>3 DEF Trace!UpdateConfiguration
  <2> HIDE DEF n, new
  <2> QED
    BY <1>2, <1>3, <2>1 DEF Updated
<1>4. CASE t = "MGE"
  <2> DEFINE sinks == Trace!SinksOf(s)
  <2>1. sinks \in Seq(Sink) /\ (~s.clients => Len(sinks) = 1)
    BY SinksAreSinks
  <2>2. n = [new EXCEPT !.handled = TRUE, !.configured = TRUE, !.sinks = sinks]
    BY <1>4 DEF Trace!UpdateConfiguration
  <2>3. s.configured => sinks = s.sinks
    BY DEF Trace!SinksOf
  <2>4. ~s.configured /\ ~s.clients /\ Trace!On(s.value, "print_to_stdout") =>
          sinks = <<"stdout">>
    BY DEF Trace!SinksOf, Tracing
  <2> HIDE DEF n, new, sinks
  <2>5. /\ Tracing(n) /\ n.value = new.value /\ n.clients = new.clients
        /\ n.levels = new.levels /\ n.changed = new.changed
        /\ n.configured /\ n.sinks = sinks
    BY <1>2, <2>1, <2>2 DEF Tracing
  <2> HIDE DEF Tracing, Trace!On, Trace!LevelsOf
  <2> QED
    BY <1>2, <1>4, <2>3, <2>4, <2>5 DEF Updated
<1> QED
  BY <1>3, <1>4

\* Levels of a topic depend on its value only, those of MGE on a switch too.
LEMMA LevelsOfOwnValue ==
  ASSUME NEW v, NEW w, NEW t \in Topics, v[t] = w[t]
  PROVE  Trace!LevelsOf(v, t) = Trace!LevelsOf(w, t)
BY TraceAssumption DEF Trace!LevelsOf, TraceAssumption

LEMMA UpdateSetsLevels ==
  ASSUME NEW s, NEW t \in Trace!Topic, NEW n, NEW ts \in SUBSET Topics,
         Updated(s, t, n), Tracing(s), LevelsSet(s, ts)
  PROVE  LevelsSet(n, ts \cup ({t} \cap Topics))
<1> USE TraceAssumption DEF TraceAssumption, Tracing, LevelsSet, Updated, Trace!Topic
<1>1. CASE t = "MGE"
  BY <1>1
<1>2. CASE t # "MGE"
  BY <1>2
<1> QED
  BY <1>1, <1>2

\* The value of p is that of its setting, if there is one.
Given(s, p, raw) ==
  IF raw[p] = Trace!Absent THEN s ELSE [s EXCEPT !.value[p] = raw[p]]

LEMMA GivenKeeps ==
  ASSUME NEW s, NEW p \in Trace!Parameters,
         NEW raw \in [Trace!Parameters -> SUBSET Words], NEW ps,
         Tracing(s), ValuesSet(s, raw, ps)
  PROVE  LET n == Given(s, p, raw)
         IN  /\ Tracing(n) /\ ValuesSet(n, raw, ps \ {p})
             /\ \A q \in Trace!Parameters \ {p} : n.value[q] = s.value[q]
             /\ n.levels = s.levels /\ n.changed = s.changed
             /\ n.configured = s.configured /\ n.handled = s.handled
             /\ n.sinks = s.sinks /\ n.clients = s.clients
<1>1. CASE raw[p] = Trace!Absent
  BY <1>1 DEF Given, Tracing, ValuesSet
<1>2. CASE raw[p] # Trace!Absent
  <2> DEFINE n == [s EXCEPT !.value[p] = raw[p]]
  <2>1. Given(s, p, raw) = n
    BY <1>2 DEF Given
  <2>2. n.value = [s.value EXCEPT ![p] = raw[p]]
    BY DEF Tracing
  <2>3. Tracing(n)
    BY DEF Tracing
  <2>4. ValuesSet(n, raw, ps \ {p})
    BY <1>2, <2>2 DEF ValuesSet, Tracing
  <2> QED
    BY <2>1, <2>2, <2>3, <2>4 DEF Tracing
<1> QED
  BY <1>1, <1>2

\* What fetch_parameter() of p makes of s.
ParameterIs(s, p, raw, ps, ts, n) ==
  /\ Tracing(n)
  /\ ValuesSet(n, raw, ps \ {p})
  /\ LevelsSet(n, ts \cup ({p} \cap Topics))
  /\ p \in Trace!Switch => ~n.configured
  /\ p \in Topics /\ ~s.configured => ~n.configured

LEMMA FetchFetches ==
  ASSUME NEW s, NEW p \in Trace!Parameters,
         NEW raw \in [Trace!Parameters -> SUBSET Words],
         NEW ps, NEW ts \in SUBSET Topics,
         Tracing(s), ValuesSet(s, raw, ps), LevelsSet(s, ts)
  PROVE  ParameterIs(s, p, raw, ps, ts, Trace!Fetch(s, p, raw))
<1> DEFINE g == Given(s, p, raw)
           n == Trace!Fetch(s, p, raw)
<1> SUFFICES ParameterIs(s, p, raw, ps, ts, n)
  OBVIOUS
<1>1. /\ Tracing(g) /\ ValuesSet(g, raw, ps \ {p})
      /\ \A q \in Trace!Parameters \ {p} : g.value[q] = s.value[q]
      /\ g.levels = s.levels /\ g.changed = s.changed
      /\ g.configured = s.configured /\ g.handled = s.handled
      /\ g.sinks = s.sinks /\ g.clients = s.clients
  BY GivenKeeps
<1>2. n = Trace!Notify(g, p)
  BY DEF Trace!Fetch, Given
<1> HIDE DEF g, n
<1>3. \A t \in Topics \ {p} : Trace!LevelsOf(g.value, t) = Trace!LevelsOf(s.value, t)
  BY <1>1, LevelsOfOwnValue DEF Trace!Parameters, Trace!Topic
<1>4. CASE p \in Trace!Switch
  <2>1. n = IF g.handled THEN [g EXCEPT !.configured = FALSE] ELSE g
    BY <1>2, <1>4, TraceAssumption
    DEF Trace!Notify, Trace!Switch, Trace!Topic, TraceAssumption
  <2>2. /\ Tracing(n) /\ ~n.configured /\ n.value = g.value
        /\ n.levels = g.levels /\ n.changed = g.changed
    BY <1>1, <2>1 DEF Tracing
  <2>3. {p} \cap Topics = {}
    BY <1>4, TraceAssumption DEF Trace!Switch, TraceAssumption
  <2>4. LevelsSet(n, ts)
    BY <1>1, <1>3, <2>2, <2>3 DEF LevelsSet
  <2>5. ValuesSet(n, raw, ps \ {p})
    BY <1>1, <2>2 DEF ValuesSet
  <2> QED
    BY <1>4, <2>2, <2>3, <2>4, <2>5 DEF ParameterIs
<1>5. CASE p \in Trace!Topic
  <2>1. Updated(g, p, n)
    BY <1>1, <1>2, <1>5, UpdateUpdates DEF Trace!Notify
  <2>2. ValuesSet(n, raw, ps \ {p})
    BY <1>1, <2>1 DEF ValuesSet, Updated
  <2>3. p \notin Trace!Switch
    BY <1>5, TraceAssumption DEF Trace!Switch, Trace!Topic, TraceAssumption
  <2>4. LevelsSet(n, ts \cup ({p} \cap Topics))
    <3>1. CASE p = "MGE"
      <4>1. Trace!On(g.value, "print_to_stdout") = Trace!On(s.value, "print_to_stdout")
        BY <1>1, <3>1 DEF Trace!On, Trace!Parameters, Trace!Switch
      <4>2. {p} \cap Topics = {} /\ "MGE" \notin ts
        BY <3>1, TraceAssumption DEF TraceAssumption
      <4>3. \A t \in ts : t \notin n.changed =>
              n.levels[t] = Trace!LevelsOf(n.value, t)
        BY <1>1, <1>3, <2>1, <3>1, <4>2 DEF LevelsSet, Updated, Tracing, Trace!Topic
      <4>4. n.levels["MGE"] = Trace!LevelsOf(n.value, "MGE")
        BY <1>1, <2>1, <3>1 DEF Updated, Tracing, Trace!Topic
      <4>5. ~n.clients /\ Trace!On(n.value, "print_to_stdout") =>
              n.sinks = <<"stdout">>
        BY <1>1, <2>1, <3>1, <4>1 DEF LevelsSet, Updated, Tracing
      <4>6. ts \cup ({p} \cap Topics) = ts
        BY <4>2
      <4> QED
        BY <4>3, <4>4, <4>5, <4>6 DEF LevelsSet
    <3>2. CASE p # "MGE"
      <4>1. /\ Trace!On(g.value, "print_to_stdout") = Trace!On(s.value, "print_to_stdout")
            /\ Trace!LevelsOf(g.value, "MGE") = Trace!LevelsOf(s.value, "MGE")
        BY <1>1, <2>3, <3>2
        DEF Trace!On, Trace!LevelsOf, Trace!Parameters, Trace!Switch, Trace!Topic
      <4> QED
        BY <1>1, <1>3, <1>5, <2>1, <3>2, <4>1, TraceAssumption
        DEF LevelsSet, Updated, TraceAssumption, Tracing, Trace!Topic
    <3> QED
      BY <3>1, <3>2
  <2> QED
    BY <1>1, <2>1, <2>2, <2>3, <2>4, TraceAssumption
    DEF ParameterIs, Updated, TraceAssumption
<1> QED
  BY <1>4, <1>5 DEF Trace!Parameters

LEMMA OthersFetch ==
  ASSUME NEW s, NEW raw \in [Trace!Parameters -> SUBSET Words], NEW ps,
         TraceTypes, Tracing(s), ValuesSet(s, raw, ps), LevelsSet(s, {})
  PROVE  LET n  == Trace!FetchOthers(s, raw)
             ts == topics \ {"MGE"}
         IN  Tracing(n) /\ ValuesSet(n, raw, ps \ ts) /\ LevelsSet(n, ts)
<1> DEFINE ts == topics \ {"MGE"}
           after(t) == IF t \in ts THEN Trace!Fetch(s, t, raw) ELSE s
           val  == [p \in Trace!Parameters |-> after(p).value[p]]
           lev == [t \in Trace!Topic |-> after(t).levels[t]]
           chg == {t \in Trace!Topic : t \in after(t).changed}
           n == [s EXCEPT !.value = val, !.levels = lev, !.changed = chg]
<1>1. Trace!FetchOthers(s, raw) = n
  BY DEF Trace!FetchOthers
<1>2. ts \subseteq Topics /\ ts \subseteq Trace!Parameters /\ "MGE" \notin ts
  BY DEF TraceTypes, Trace!Topic, Trace!Parameters
<1>3. ASSUME NEW t \in ts
      PROVE  /\ Tracing(after(t)) /\ ValuesSet(after(t), raw, ps \ {t})
             /\ LevelsSet(after(t), {t})
  <2>1. ParameterIs(s, t, raw, ps, {}, Trace!Fetch(s, t, raw))
    BY <1>2, FetchFetches
  <2>2. {} \cup ({t} \cap Topics) = {t}
    BY <1>2
  <2> QED
    BY <2>1, <2>2 DEF ParameterIs
<1>4. \A t : t \notin ts => after(t) = s
  OBVIOUS
<1>5. \A t : Tracing(after(t))
  BY <1>3, <1>4
<1> HIDE DEF after, ts
<1>6. /\ val \in [Trace!Parameters -> SUBSET Words]
      /\ lev \in [Trace!Topic -> SUBSET Words]
  BY <1>5 DEF Tracing
<1>7. Tracing(n)
  BY <1>6 DEF Tracing
<1>8. ValuesSet(n, raw, ps \ ts)
  <2> SUFFICES ASSUME NEW p \in Trace!Parameters
      PROVE /\ raw[p] = Trace!Absent => val[p] = Trace!Null
            /\ p \notin ps \ ts /\ raw[p] # Trace!Absent => val[p] = raw[p]
    BY DEF ValuesSet, Tracing
  <2>1. CASE p \in ts
    BY <1>3, <2>1 DEF ValuesSet
  <2>2. CASE p \notin ts
    BY <1>4, <2>2 DEF ValuesSet
  <2> QED
    BY <2>1, <2>2
<1>9. LevelsSet(n, ts)
  <2>1. ASSUME NEW t \in ts, t \notin chg
        PROVE  lev[t] = Trace!LevelsOf(val, t)
    <3>1. t \in Topics /\ t \in Trace!Topic /\ t \in Trace!Parameters
      BY <1>2 DEF Trace!Topic
    <3>2. after(t).levels[t] = Trace!LevelsOf(after(t).value, t)
      BY <1>3, <2>1, <3>1 DEF LevelsSet
    <3>3. val[t] = after(t).value[t] /\ lev[t] = after(t).levels[t]
      BY <3>1
    <3> HIDE DEF val, lev
    <3> QED
      BY <3>1, <3>2, <3>3, LevelsOfOwnValue
  <2>2. "MGE" \in Trace!Topic /\ Trace!Switch \subseteq Trace!Parameters
        /\ "MGE" \in Trace!Parameters
    BY DEF Trace!Topic, Trace!Parameters
  <2>3. Trace!Switch \cap ts = {}
    BY <1>2, TraceAssumption DEF Trace!Switch, TraceAssumption
  <2>4. /\ val["MGE"] = s.value["MGE"] /\ lev["MGE"] = s.levels["MGE"]
        /\ "MGE" \notin chg => "MGE" \notin s.changed
        /\ \A w \in Trace!Switch : val[w] = s.value[w]
    BY <1>2, <1>4, <2>2, <2>3
  <2>5. /\ Trace!LevelsOf(val, "MGE") = Trace!LevelsOf(s.value, "MGE")
        /\ Trace!On(val, "print_to_stdout") = Trace!On(s.value, "print_to_stdout")
    BY <2>4 DEF Trace!LevelsOf, Trace!On, Trace!Switch
  <2>6. /\ n.value = val /\ n.levels = lev /\ n.changed = chg
        /\ n.configured = s.configured /\ n.sinks = s.sinks
        /\ n.clients = s.clients
    BY DEF Tracing
  <2> HIDE DEF n, val, lev, chg
  <2> QED
    BY <2>1, <2>4, <2>5, <2>6 DEF LevelsSet
<1> QED
  BY <1>1, <1>7, <1>8, <1>9 DEF ts

\* What set_registered_parameters() makes of s.
AllFetched(raw, ps, n) ==
  /\ Tracing(n)
  /\ ValuesSet(n, raw, ps \ (topics \cup Trace!Switch))
  /\ LevelsSet(n, topics \ {"MGE"})
  /\ ~n.configured

LEMMA AllFetch ==
  ASSUME NEW s, NEW raw \in [Trace!Parameters -> SUBSET Words], NEW ps,
         NEW asked,
         TraceTypes, Tracing(s), ValuesSet(s, raw, ps), LevelsSet(s, {})
  PROVE  AllFetched(raw, ps, Trace!FetchAll(s, raw, asked))
<1> DEFINE ts == topics \ {"MGE"}
           others == Trace!FetchOthers(s, raw)
           all == Trace!FetchTopics(s, raw)
           one == Trace!Fetch(all, "globally_enabled", raw)
           ask == asked /\ raw["print_to_stdout"] # Trace!Absent
           two == IF ask THEN Trace!UpdateConfiguration(one, "MGE") ELSE one
           n == Trace!Fetch(two, "print_to_stdout", raw)
           p1 == ps \ ts
           p2 == p1 \ {"MGE"}
           p3 == p2 \ {"globally_enabled"}
<1>1. Trace!FetchAll(s, raw, asked) = n
  BY DEF Trace!FetchAll
<1>2. Tracing(others) /\ ValuesSet(others, raw, p1) /\ LevelsSet(others, ts)
  BY OthersFetch
<1>3. ts \in SUBSET Topics /\ "MGE" \in Trace!Parameters /\ "MGE" \in Trace!Topic
      /\ {"globally_enabled", "print_to_stdout"} = Trace!Switch
      /\ Trace!Switch \subseteq Trace!Parameters
      /\ Topics \cap {"MGE", "globally_enabled", "print_to_stdout"} = {}
  BY TraceAssumption
  DEF TraceTypes, Trace!Topic, Trace!Parameters, Trace!Switch, TraceAssumption
<1>4. all = Trace!Fetch(others, "MGE", raw)
  BY DEF Trace!FetchTopics
<1> HIDE DEF ts, others, all, p1, p2, p3, one, two, n, ask
<1>5. ParameterIs(others, "MGE", raw, p1, ts, all)
  BY <1>2, <1>3, <1>4, FetchFetches
<1>6. Tracing(all) /\ ValuesSet(all, raw, p2) /\ LevelsSet(all, ts)
  <2>1. ts \cup ({"MGE"} \cap Topics) = ts
    BY <1>3
  <2> QED
    BY <1>5, <2>1 DEF ParameterIs, p2
<1>7. ParameterIs(all, "globally_enabled", raw, p2, ts, one)
  <2>1. "globally_enabled" \in Trace!Parameters
    BY <1>3
  <2> QED
    BY <1>3, <1>6, <2>1, FetchFetches DEF one
<1>8. Tracing(one) /\ ValuesSet(one, raw, p3) /\ LevelsSet(one, ts)
  <2>1. ts \cup ({"globally_enabled"} \cap Topics) = ts
    BY <1>3
  <2> QED
    BY <1>7, <2>1 DEF ParameterIs, p3
<1>9. Tracing(two) /\ ValuesSet(two, raw, p3) /\ LevelsSet(two, ts)
  <2>1. CASE ~ask
    BY <1>8, <2>1 DEF two
  <2>2. CASE ask
    <3>1. Updated(one, "MGE", two)
      BY <1>3, <1>8, <2>2, UpdateUpdates DEF two
    <3>2. ts \cup ({"MGE"} \cap Topics) = ts
      BY <1>3
    <3>3. LevelsSet(two, ts \cup ({"MGE"} \cap Topics))
      BY <1>3, <1>8, <3>1, UpdateSetsLevels
    <3>4. Tracing(two) /\ two.value = one.value
      BY <3>1 DEF Updated
    <3> QED
      BY <1>8, <3>2, <3>3, <3>4 DEF ValuesSet
  <2> QED
    BY <2>1, <2>2
<1>10. ParameterIs(two, "print_to_stdout", raw, p3, ts, n)
  <2>1. "print_to_stdout" \in Trace!Parameters
    BY <1>3
  <2> QED
    BY <1>3, <1>9, <2>1, FetchFetches DEF n
<1>11. /\ ts \cup ({"print_to_stdout"} \cap Topics) = ts
       /\ p3 \ {"print_to_stdout"} = ps \ (topics \cup Trace!Switch)
       /\ "print_to_stdout" \in Trace!Switch
  BY <1>3 DEF p1, p2, p3, ts, TraceTypes
<1>12. AllFetched(raw, ps, n)
  BY <1>10, <1>11 DEF ParameterIs, AllFetched, ts
<1> QED
  BY <1>1, <1>12

LEMMA TraceWeaker ==
  ASSUME NEW s, NEW raw, NEW ps, NEW qs, NEW us \in SUBSET Topics,
         NEW ts \in SUBSET us
  PROVE  /\ ValuesSet(s, raw, ps) /\ ps \subseteq qs => ValuesSet(s, raw, qs)
         /\ LevelsSet(s, us) => LevelsSet(s, ts)
BY DEF ValuesSet, LevelsSet

\* Asking a topic makes MGE follow its value and the switches.
LEMMA ConfiguredFollows ==
  ASSUME TraceInv
  PROVE  LET n == Trace!Configured
         IN  /\ Tracing(n) /\ n.value = tracing.value
             /\ n.clients = tracing.clients
             /\ n.changed \cup {"MGE"} = tracing.changed \cup {"MGE"}
             /\ ~configLoaded => n = tracing
             /\ configLoaded => LevelsSet(n, Known) /\ n.configured
<1> DEFINE n == Trace!Configured
<1>1. CASE ~tracing.configured /\ configLoaded
  <2> DEFINE u == Trace!UpdateConfiguration(tracing, "MGE")
  <2>1. n = u
    BY <1>1 DEF Trace!Configured
  <2>2. "MGE" \in Trace!Topic
    BY DEF Trace!Topic
  <2>3. Updated(tracing, "MGE", u)
    BY <2>2, UpdateUpdates DEF TraceInv, TraceTypes
  <2> HIDE DEF u, n
  <2>4. Known \in SUBSET Topics /\ Known \cup ({"MGE"} \cap Topics) = Known
    BY TraceAssumption DEF Known, TraceInv, TraceTypes, Trace!Topic, TraceAssumption
  <2>5. LevelsSet(u, Known \cup ({"MGE"} \cap Topics))
    BY <1>1, <2>2, <2>3, <2>4, UpdateSetsLevels DEF TraceInv, TraceTypes
  <2> QED
    BY <1>1, <2>1, <2>3, <2>4, <2>5 DEF Updated, n
<1>2. CASE tracing.configured \/ ~configLoaded
  <2>1. n = tracing
    BY <1>2 DEF Trace!Configured
  <2> QED
    BY <1>2, <2>1 DEF TraceInv, TraceTypes
<1> QED
  BY <1>1, <1>2

\* Levels and sinks follow the environment too, which does not change.
LEMMA SameEnvironment ==
  ASSUME environment' = environment, LevelsSet(tracing', Known')
  PROVE  LevelsSet(tracing, Known)'
BY DEF LevelsSet, Trace!LevelsOf, Trace!On

LEMMA ConstructTopicKeeps ==
  ASSUME TraceInv, NEW t \in Trace!Topic, Trace!ConstructTopic(t)
  PROVE  TraceInv'
<1> USE DEF Trace!ConstructTopic
<1>1. t \in Topics /\ t # "MGE" /\ t \in Trace!Parameters
  BY DEF TraceInv, TraceTypes, Trace!Topic, Trace!Parameters
<1>2. t \notin Trace!Switch
  BY <1>1, TraceAssumption DEF Trace!Switch, TraceAssumption
<1>3. /\ tracing'.value = [tracing.value EXCEPT ![t] = Trace!Null]
      /\ tracing'.levels = [tracing.levels EXCEPT ![t] = {}]
      /\ tracing'.changed = tracing.changed \ {t}
      /\ tracing'.configured = tracing.configured
      /\ tracing'.sinks = tracing.sinks /\ tracing'.clients = tracing.clients
  BY DEF TraceInv, TraceTypes, Tracing
<1>4. TraceTypes'
  BY <1>1 DEF TraceInv, TraceTypes, Tracing, Trace!Null, Words, Trace!Topic
<1>5. ValuesSet(tracing', settings', Differing')
  <2>1. Differing' = Differing \cup {t}
    BY <1>1 DEF Differing, TraceInv, TraceTypes, Trace!Topic
  <2>2. \A p \in Trace!Parameters \ {t} : tracing'.value[p] = tracing.value[p]
    BY <1>3 DEF TraceInv, TraceTypes, Tracing
  <2>3. tracing'.value[t] = Trace!Null
    BY <1>1, <1>3 DEF TraceInv, TraceTypes, Tracing
  <2>4. ValuesSet(tracing, settings, Differing)
    BY DEF TraceInv
  <2>5. ValuesSet(tracing', settings, Differing \cup {t})
    BY <1>1, <2>2, <2>3, <2>4 DEF ValuesSet
  <2> QED
    BY <2>1, <2>5
<1>6. LevelsSet(tracing', Known')
  <2>1. Known' = Known \ {t} /\ Known \subseteq Topics
    BY <1>1 DEF Known, TraceInv, TraceTypes, Trace!Topic
  <2>2. \A u \in Known \ {t} :
          Trace!LevelsOf(tracing'.value, u) = Trace!LevelsOf(tracing.value, u)
    BY <1>3, <2>1, LevelsOfOwnValue DEF TraceInv, TraceTypes, Tracing, Trace!Topic,
       Trace!Parameters
  <2>3. /\ Trace!LevelsOf(tracing'.value, "MGE") = Trace!LevelsOf(tracing.value, "MGE")
        /\ Trace!On(tracing'.value, "print_to_stdout")
              = Trace!On(tracing.value, "print_to_stdout")
    BY <1>1, <1>2, <1>3 DEF Trace!LevelsOf, Trace!On, Trace!Switch, TraceInv,
       TraceTypes, Tracing, Trace!Parameters, Trace!Topic
  <2>4. LevelsSet(tracing, Known)
    BY DEF TraceInv
  <2>5. "MGE" \in Trace!Topic /\ tracing.levels \in [Trace!Topic -> SUBSET Words]
        /\ Known \subseteq Trace!Topic
    BY <2>1 DEF Trace!Topic, TraceInv, TraceTypes, Tracing
  <2>6. /\ \A u \in Known \ {t} : tracing'.levels[u] = tracing.levels[u]
        /\ tracing'.levels["MGE"] = tracing.levels["MGE"]
    BY <1>1, <1>3, <2>5
  <2> HIDE DEF Trace!ConstructTopic
  <2>7. LevelsSet(tracing', Known \ {t})
    BY <1>1, <1>3, <2>2, <2>3, <2>4, <2>6 DEF LevelsSet
  <2> QED
    BY <2>1, <2>7
<1>7. LevelsSet(tracing, Known)'
  BY <1>6, SameEnvironment
<1>8. ValuesSet(tracing, settings, Differing)'
  BY <1>5
<1> QED
  BY <1>3, <1>4, <1>7, <1>8 DEF TraceInv

LEMMA DestroyTopicKeeps ==
  ASSUME TraceInv, NEW t \in Trace!Topic, Trace!DestroyTopic(t)
  PROVE  TraceInv'
<1> USE DEF Trace!DestroyTopic
<1>1. TraceTypes'
  BY DEF TraceInv, TraceTypes
<1>2. Differing \subseteq Differing' /\ Known' \subseteq Known
      /\ Known \subseteq Topics
  BY DEF Differing, Known, TraceInv, TraceTypes, Trace!Topic
<1>3. ValuesSet(tracing, settings, Differing') /\ LevelsSet(tracing, Known')
  BY <1>2, TraceWeaker DEF TraceInv
<1>4. ValuesSet(tracing, settings, Differing)' /\ LevelsSet(tracing, Known)'
  BY <1>3, SameEnvironment
<1> QED
  BY <1>1, <1>4 DEF TraceInv

LEMMA SetLevelKeeps ==
  ASSUME TraceInv, NEW t \in Trace!Topic, Trace!SetLevel(t, {"ERROR"})
  PROVE  TraceInv'
<1> USE DEF Trace!SetLevel
<1>1. /\ tracing'.levels = [tracing.levels EXCEPT ![t] = {"ERROR"}]
      /\ tracing'.changed = tracing.changed \cup {t}
      /\ tracing'.value = tracing.value
      /\ tracing'.configured = tracing.configured
      /\ tracing'.sinks = tracing.sinks /\ tracing'.clients = tracing.clients
  BY DEF TraceInv, TraceTypes, Tracing
<1>2. TraceTypes'
  BY DEF TraceInv, TraceTypes, Tracing, Words
<1>3. Differing' = Differing /\ Known' = Known /\ Known \subseteq Topics
  BY DEF Differing, Known, TraceInv, TraceTypes, Trace!Topic
<1>4. LevelsSet(tracing', Known)
  <2>1. LevelsSet(tracing, Known) /\ tracing.levels \in [Trace!Topic -> SUBSET Words]
        /\ Known \subseteq Trace!Topic /\ "MGE" \in Trace!Topic
    BY <1>3 DEF TraceInv, TraceTypes, Tracing, Trace!Topic
  <2> HIDE DEF Trace!SetLevel
  <2> QED
    BY <1>1, <2>1 DEF LevelsSet
<1>5. ValuesSet(tracing', settings, Differing)
  BY <1>1 DEF ValuesSet, TraceInv
<1>6. ValuesSet(tracing, settings, Differing)' /\ LevelsSet(tracing, Known)'
  BY <1>3, <1>4, <1>5, SameEnvironment
<1> QED
  BY <1>1, <1>2, <1>6 DEF TraceInv

LEMMA ChangeSinksKeeps ==
  ASSUME TraceInv, NEW sinks \in Trace!OtherSinks, Trace!ChangeSinks(sinks)
  PROVE  TraceInv'
<1> USE DEF Trace!ChangeSinks
<1>1. tracing.sinks \in Seq(Sink) /\ "client" \in Sink
  BY DEF TraceInv, TraceTypes, Tracing, Sink
<1>2. sinks \in Seq(Sink)
  <2>1. CASE sinks = Append(tracing.sinks, "client")
    BY <1>1, <2>1
  <2>2. ASSUME NEW n \in DOMAIN tracing.sinks, sinks = Trace!RemoveAt(tracing.sinks, n)
        PROVE  sinks \in Seq(Sink)
    <3> DEFINE l == tracing.sinks
    <3>1. n \in 1 .. Len(l) /\ l \in Seq(Sink)
      BY <1>1, <2>2
    <3>2. sinks = SubSeq(l, 1, n - 1) \o SubSeq(l, n + 1, Len(l))
      BY <2>2 DEF Trace!RemoveAt
    <3> HIDE DEF l
    <3>3. SubSeq(l, 1, n - 1) \in Seq(Sink) /\ SubSeq(l, n + 1, Len(l)) \in Seq(Sink)
      BY <3>1
    <3> QED
      BY <3>2, <3>3
  <2>3. \/ sinks = Append(tracing.sinks, "client")
        \/ \E n \in DOMAIN tracing.sinks : sinks = Trace!RemoveAt(tracing.sinks, n)
    BY Zenon DEF Trace!OtherSinks
  <2> QED
    BY <2>1, <2>2, <2>3
<1>3. /\ tracing'.levels = tracing.levels /\ tracing'.changed = tracing.changed
      /\ tracing'.value = tracing.value
      /\ tracing'.configured = tracing.configured /\ tracing'.clients
  BY DEF TraceInv, TraceTypes, Tracing
<1>4. TraceTypes'
  BY <1>2 DEF TraceInv, TraceTypes, Tracing
<1>5. Differing' = Differing /\ Known' = Known
  BY DEF Differing, Known
<1>6. LevelsSet(tracing', Known)
  BY <1>3 DEF LevelsSet, TraceInv
<1>7. ValuesSet(tracing', settings, Differing)
  BY <1>3 DEF ValuesSet, TraceInv
<1>8. ValuesSet(tracing, settings, Differing)' /\ LevelsSet(tracing, Known)'
  BY <1>5, <1>6, <1>7, SameEnvironment
<1> QED
  BY <1>3, <1>4, <1>8 DEF TraceInv

LEMMA AskKeeps ==
  ASSUME TraceInv, NEW t, NEW l, Trace!Ask(t, l)
  PROVE  TraceInv'
<1> USE DEF Trace!Ask
<1>1. /\ Tracing(tracing') /\ tracing'.value = tracing.value
      /\ ~configLoaded => tracing' = tracing
      /\ LevelsSet(tracing', Known)
  BY ConfiguredFollows DEF TraceInv
<1>2. Differing' = Differing /\ Known' = Known
  BY DEF Differing, Known
<1>3. ValuesSet(tracing', settings, Differing)
  BY <1>1 DEF ValuesSet, TraceInv
<1>4. ValuesSet(tracing, settings, Differing)' /\ LevelsSet(tracing, Known)'
  BY <1>1, <1>2, <1>3, SameEnvironment
<1>5. TraceTypes'
  BY <1>1 DEF TraceInv, TraceTypes, Tracing
<1> QED
  BY <1>1, <1>4, <1>5 DEF TraceInv

\* All values are those of the settings raw but of parameters outside topics.
LEMMA FetchedKeeps ==
  ASSUME TraceTypes', environment' = environment, configLoaded',
         lateTopics' = {}, Trace!Topic \ topics' \subseteq Differing',
         ValuesSet(tracing', settings', Trace!Topic \ topics'),
         LevelsSet(tracing', topics' \ {"MGE"})
  PROVE  TraceInv'
<1>1. Known' = topics' \ {"MGE"}
  BY DEF Known
<1>2. Differing' = Trace!Topic \ topics'
  BY DEF Differing, TraceTypes
<1>3. ValuesSet(tracing, settings, Differing)' /\ LevelsSet(tracing, Known)'
  BY <1>1, <1>2, SameEnvironment
<1> QED
  BY <1>3 DEF TraceInv

LEMMA SwitchesNoTopics ==
  ASSUME NEW ps, NEW ts \in SUBSET Trace!Topic,
         ps \subseteq Trace!Parameters
  PROVE  /\ ps \ (ts \cup Trace!Switch) \subseteq Trace!Topic \ ts
         /\ Trace!Topic \cap Trace!Switch = {}
BY TraceAssumption
DEF Trace!Parameters, Trace!Topic, Trace!Switch, TraceAssumption

LEMMA NoLevelsToKeep ==
  ASSUME TraceInv
  PROVE  LevelsSet(tracing, {})
BY DEF TraceInv, LevelsSet

LEMMA FetchAllKeeps ==
  ASSUME TraceInv, NEW asked, tracing' = Trace!FetchAll(tracing, settings, asked),
         UNCHANGED <<environment, settings, topics>>, configLoaded',
         lateTopics' = {}
  PROVE  TraceInv'
<1>1. Differing \subseteq Trace!Parameters
  BY DEF Differing, Trace!Parameters
<1>2. AllFetched(settings, Differing, tracing')
  BY AllFetch, NoLevelsToKeep DEF TraceInv, TraceTypes
<1>3. Differing \ (topics \cup Trace!Switch) \subseteq Trace!Topic \ topics
  BY <1>1, SwitchesNoTopics DEF TraceInv, TraceTypes
<1>4. ValuesSet(tracing', settings, Trace!Topic \ topics)
  BY <1>2, <1>3, TraceWeaker DEF AllFetched
<1>5. Differing' = Trace!Topic \ topics
  BY DEF Differing
<1>6. TraceTypes'
  BY <1>2 DEF AllFetched, TraceInv, TraceTypes, Tracing
<1> QED
  BY <1>2, <1>4, <1>5, <1>6, FetchedKeeps DEF AllFetched

LEMMA SettingsAreWords ==
  ASSUME NEW p \in Trace!Parameters, NEW v \in Trace!SettingOf(p)
  PROVE  v \in SUBSET Words /\ v # Trace!Absent
BY DEF Trace!SettingOf, Trace!Null, Trace!Absent, Words

LEMMA SetRawKeeps ==
  ASSUME TraceInv, NEW p \in Trace!Parameters, NEW v \in Trace!SettingOf(p),
         Trace!SetRaw(p, v)
  PROVE  TraceInv'
<1> DEFINE raw == [settings EXCEPT ![p] = v]
           ps == Differing \cup {p}
<1>1. /\ configLoaded /\ configLoaded' /\ settings' = raw
      /\ topics' = topics /\ environment' = environment
      /\ lateTopics' = IF updateNeeded THEN {} ELSE lateTopics
  BY DEF Trace!SetRaw
<1>2. PICK asked \in BOOLEAN :
        LET found == IF updateNeeded THEN Trace!FetchAll(tracing, raw, asked)
                     ELSE tracing
        IN  tracing' = IF p \in topics \cup Trace!Switch
                         THEN Trace!Fetch(found, p, raw) ELSE found
  BY <1>1 DEF Trace!SetRaw
<1> DEFINE found == IF updateNeeded THEN Trace!FetchAll(tracing, raw, asked)
                    ELSE tracing
           qs == IF updateNeeded THEN ps \ (topics \cup Trace!Switch) ELSE ps
<1>3. raw \in [Trace!Parameters -> SUBSET Words] /\ raw[p] # Trace!Absent
      /\ \A q \in Trace!Parameters \ {p} : raw[q] = settings[q]
  BY SettingsAreWords DEF TraceInv, TraceTypes
<1>4. tracing' = IF p \in topics \cup Trace!Switch
                   THEN Trace!Fetch(found, p, raw) ELSE found
  BY <1>2
<1> HIDE DEF raw
<1>5. ValuesSet(tracing, raw, ps)
  BY <1>3 DEF ValuesSet, TraceInv
<1>6. Known' \subseteq Topics /\ topics \subseteq Trace!Topic
      /\ Known' = topics \ ({"MGE"} \cup lateTopics')
  BY <1>1 DEF Known, TraceInv, TraceTypes, Trace!Topic
<1>7. Tracing(found) /\ ValuesSet(found, raw, qs) /\ LevelsSet(found, Known')
  <2>1. CASE updateNeeded
    <3>1. AllFetched(raw, ps, found)
      BY <1>3, <1>5, <2>1, AllFetch, NoLevelsToKeep DEF TraceInv, TraceTypes
    <3>2. Known' = topics \ {"MGE"}
      BY <1>1, <1>6, <2>1
    <3> QED
      BY <2>1, <3>1, <3>2 DEF AllFetched
  <2>2. CASE ~updateNeeded
    <3>1. Known' = Known /\ found = tracing /\ qs = ps
      BY <1>1, <2>2 DEF Known
    <3> QED
      BY <1>5, <3>1 DEF TraceInv, TraceTypes
  <2> QED
    BY <2>1, <2>2
<1>8. Differing \subseteq Trace!Topic /\ Differing' \subseteq Trace!Topic
      /\ Differing' = Trace!Topic \ (topics \ lateTopics')
  BY <1>1 DEF Differing
<1>9. /\ qs \ {p} \subseteq Differing'
      /\ p \notin topics \cup Trace!Switch => qs \subseteq Differing'
  <2>1. Differing = Trace!Topic \ (topics \ lateTopics)
        /\ (p \in Trace!Topic \/ p \in Trace!Switch)
    BY <1>1 DEF Differing, Trace!Parameters
  <2>2. CASE updateNeeded
    BY <1>1, <1>8, <2>1, <2>2
  <2>3. CASE ~updateNeeded
    BY <1>1, <1>8, <2>1, <2>3
  <2> QED
    BY <2>2, <2>3
<1> HIDE DEF found, qs, ps
<1>10. Tracing(tracing') /\ ValuesSet(tracing', raw, Differing')
       /\ LevelsSet(tracing', Known')
  <2>1. CASE p \in topics \cup Trace!Switch
    <3>1. ParameterIs(found, p, raw, qs, Known', tracing')
      BY <1>3, <1>4, <1>6, <1>7, <2>1, FetchFetches
    <3>2. Known' \in SUBSET (Known' \cup ({p} \cap Topics))
          /\ Known' \cup ({p} \cap Topics) \in SUBSET Topics
      BY <1>6
    <3> QED
      BY <1>9, <3>1, <3>2, TraceWeaker DEF ParameterIs
  <2>2. CASE p \notin topics \cup Trace!Switch
    <3>1. Known' \in SUBSET Topics /\ Known' \in SUBSET Known'
      BY <1>6
    <3> QED
      BY <1>4, <1>7, <1>9, <2>2, <3>1, TraceWeaker
  <2> QED
    BY <2>1, <2>2
<1>11. TraceTypes'
  BY <1>1, <1>3, <1>10 DEF TraceInv, TraceTypes, Tracing
<1>12. ValuesSet(tracing, settings, Differing)' /\ LevelsSet(tracing, Known)'
  BY <1>1, <1>10, SameEnvironment
<1> QED
  BY <1>1, <1>11, <1>12 DEF TraceInv

LEMMA UpdatePrints ==
  ASSUME NEW s, NEW b \in BOOLEAN, NEW t \in Trace!Topic, Tracing(s), PrintsOnlyIf(s, b)
  PROVE  PrintsOnlyIf(Trace!UpdateConfiguration(s, t), b)
<1> DEFINE n == Trace!UpdateConfiguration(s, t)
           sinks == Trace!SinksOf(s)
<1> SUFFICES PrintsOnlyIf(n, b)
  OBVIOUS
<1>1. Updated(s, t, n)
  BY UpdateUpdates
<1>2. n.value = s.value /\ n.clients = s.clients
  BY <1>1 DEF Updated
<1>3. n.sinks = s.sinks \/ n.sinks = sinks
  <2>1. CASE t # "MGE"
    BY <1>1, <2>1 DEF Updated
  <2>2. CASE t = "MGE"
    <3> DEFINE new == [s EXCEPT !.levels[t] = Trace!LevelsOf(s.value, t),
                                !.changed = @ \ {t}]
    <3>1. n = [new EXCEPT !.handled = TRUE, !.configured = TRUE, !.sinks = sinks]
      BY <2>2 DEF Trace!UpdateConfiguration
    <3> HIDE DEF n, sinks
    <3> QED
      BY <3>1 DEF Tracing
  <2> QED
    BY <2>1, <2>2
<1>4. \/ sinks = s.sinks
      \/ sinks = <<"stdout">> /\ Trace!On(s.value, "print_to_stdout")
      \/ Len(s.sinks) # 1
  BY Zenon DEF Trace!SinksOf
<1>5. ~s.clients => Len(s.sinks) = 1
  BY DEF Tracing
<1> HIDE DEF n, sinks
<1> QED
  BY <1>2, <1>3, <1>4, <1>5 DEF PrintsOnlyIf

LEMMA FetchPrints ==
  ASSUME NEW s, NEW b \in BOOLEAN, NEW p \in Trace!Parameters,
         NEW raw \in [Trace!Parameters -> SUBSET Words],
         Tracing(s), PrintsOnlyIf(s, b), Trace!On(raw, "print_to_stdout") => b
  PROVE  Tracing(Trace!Fetch(s, p, raw)) /\ PrintsOnlyIf(Trace!Fetch(s, p, raw), b)
<1> DEFINE g == Given(s, p, raw)
           n == Trace!Fetch(s, p, raw)
<1> SUFFICES Tracing(n) /\ PrintsOnlyIf(n, b)
  OBVIOUS
<1>1. Tracing(g) /\ PrintsOnlyIf(g, b)
  <2>1. CASE raw[p] = Trace!Absent
    BY <2>1 DEF Given
  <2>2. CASE raw[p] # Trace!Absent
    <3> DEFINE h == [s EXCEPT !.value[p] = raw[p]]
    <3>1. g = h
      BY <2>2 DEF Given
    <3>2. /\ Tracing(h) /\ h.value = [s.value EXCEPT ![p] = raw[p]]
          /\ h.sinks = s.sinks /\ h.clients = s.clients
          /\ s.value \in [Trace!Parameters -> SUBSET Words]
      BY DEF Tracing
    <3> HIDE DEF g, h
    <3>3. "print_to_stdout" \in Trace!Parameters
      BY DEF Trace!Parameters, Trace!Switch
    <3>4. Trace!On(h.value, "print_to_stdout") => b
      BY <3>2, <3>3 DEF PrintsOnlyIf, Trace!On
    <3> QED
      BY <3>1, <3>2, <3>4 DEF PrintsOnlyIf
  <2> QED
    BY <2>1, <2>2
<1>2. n = Trace!Notify(g, p)
  BY DEF Trace!Fetch, Given
<1> HIDE DEF g, n
<1>3. CASE p \in Trace!Topic
  <2>1. n = Trace!UpdateConfiguration(g, p)
    BY <1>2, <1>3 DEF Trace!Notify
  <2>2. Tracing(n)
    BY <1>1, <1>3, <2>1, UpdateUpdates DEF Updated
  <2> QED
    BY <1>1, <1>3, <2>1, <2>2, UpdatePrints
<1>4. CASE p \notin Trace!Topic
  <2>1. n = IF g.handled THEN [g EXCEPT !.configured = FALSE] ELSE g
    BY <1>2, <1>4 DEF Trace!Notify
  <2>2. Tracing(n) /\ n.value = g.value /\ n.sinks = g.sinks /\ n.clients = g.clients
    BY <1>1, <2>1 DEF Tracing
  <2> QED
    BY <1>1, <2>2 DEF PrintsOnlyIf
<1> QED
  BY <1>3, <1>4

LEMMA FetchAllPrints ==
  ASSUME NEW s, NEW b \in BOOLEAN, NEW asked,
         NEW raw \in [Trace!Parameters -> SUBSET Words], TraceTypes,
         Tracing(s), PrintsOnlyIf(s, b), Trace!On(raw, "print_to_stdout") => b
  PROVE  LET n == Trace!FetchAll(s, raw, asked)
         IN  Tracing(n) /\ PrintsOnlyIf(n, b)
<1> DEFINE after(t) == IF t \in topics \ {"MGE"} THEN Trace!Fetch(s, t, raw) ELSE s
           val == [p \in Trace!Parameters |-> after(p).value[p]]
           lev == [t \in Trace!Topic |-> after(t).levels[t]]
           chg == {t \in Trace!Topic : t \in after(t).changed}
           others == [s EXCEPT !.value = val, !.levels = lev, !.changed = chg]
           all == Trace!Fetch(others, "MGE", raw)
           one == Trace!Fetch(all, "globally_enabled", raw)
           two == IF asked /\ raw["print_to_stdout"] # Trace!Absent
                    THEN Trace!UpdateConfiguration(one, "MGE") ELSE one
           n == Trace!Fetch(two, "print_to_stdout", raw)
<1>1. Trace!FetchAll(s, raw, asked) = n
  BY DEF Trace!FetchAll, Trace!FetchTopics, Trace!FetchOthers
<1>2. topics \subseteq Trace!Topic /\ Trace!Topic \subseteq Trace!Parameters
      /\ {"MGE", "globally_enabled", "print_to_stdout"} \subseteq Trace!Parameters
      /\ "MGE" \in Trace!Topic /\ "print_to_stdout" \notin Trace!Topic
  BY TraceAssumption
  DEF TraceTypes, Trace!Topic, Trace!Parameters, Trace!Switch, TraceAssumption
<1>3. \A t : Tracing(after(t))
  BY <1>2, FetchPrints
<1>4. after("print_to_stdout") = s
  BY <1>2
<1> HIDE DEF after
<1>5. val \in [Trace!Parameters -> SUBSET Words] /\ lev \in [Trace!Topic -> SUBSET Words]
      /\ val["print_to_stdout"] = s.value["print_to_stdout"]
  BY <1>2, <1>3, <1>4 DEF Tracing
<1> HIDE DEF val, lev
<1>6. /\ Tracing(others) /\ others.value = val /\ others.sinks = s.sinks
      /\ others.clients = s.clients
  BY <1>5 DEF Tracing
<1> HIDE DEF others
<1>7. PrintsOnlyIf(others, b)
  BY <1>5, <1>6 DEF PrintsOnlyIf, Trace!On
<1>8. Tracing(all) /\ PrintsOnlyIf(all, b)
  BY <1>2, <1>6, <1>7, FetchPrints
<1> HIDE DEF all
<1>9. Tracing(one) /\ PrintsOnlyIf(one, b)
  BY <1>2, <1>8, FetchPrints
<1> HIDE DEF one
<1>10. Tracing(two) /\ PrintsOnlyIf(two, b)
  BY <1>2, <1>9, UpdateUpdates, UpdatePrints DEF Updated
<1> HIDE DEF two
<1>11. Tracing(n) /\ PrintsOnlyIf(n, b)
  BY <1>2, <1>10, FetchPrints
<1> QED
  BY <1>1, <1>11

\* Asking a topic makes MGE print only if it was to.
LEMMA ConfiguredPrints ==
  ASSUME TraceTypes, toPrint \in BOOLEAN, PrintsOnlyIf(tracing, toPrint)
  PROVE  PrintsOnlyIf(Trace!Configured, toPrint)
<1>1. "MGE" \in Trace!Topic
  BY DEF Trace!Topic
<1>2. PrintsOnlyIf(Trace!UpdateConfiguration(tracing, "MGE"), toPrint)
  BY <1>1, UpdatePrints DEF TraceTypes
<1> QED
  BY <1>2 DEF Trace!Configured

\* What MGE prints depends on the environment too, which does not change.
LEMMA PrintsInNext ==
  ASSUME environment' = environment, toPrint' \in BOOLEAN,
         Trace!On(settings', "print_to_stdout") => toPrint',
         PrintsOnlyIf(tracing', toPrint')
  PROVE  PrintInv'
BY DEF PrintInv, PrintsOnlyIf, Trace!On

LEMMA PrintStep ==
  ASSUME TraceTypes, PrintInv, [Trace!Next]_traceVars
  PROVE  PrintInv'
<1>1. /\ toPrint \in BOOLEAN /\ PrintsOnlyIf(tracing, toPrint)
      /\ Trace!On(settings, "print_to_stdout") => toPrint
  BY DEF PrintInv
<1>2. ASSUME UNCHANGED <<environment, settings, toPrint>>,
             PrintsOnlyIf(tracing', toPrint)
      PROVE  PrintInv'
  BY <1>1, <1>2, PrintsInNext
<1>3. CASE UNCHANGED traceVars
  BY <1>1, <1>2, <1>3 DEF traceVars
<1>4. ASSUME NEW t \in Trace!Topic, Trace!ConstructTopic(t)
      PROVE  PrintInv'
  <2>1. /\ tracing'.value = [tracing.value EXCEPT ![t] = Trace!Null]
        /\ tracing'.sinks = tracing.sinks /\ tracing'.clients = tracing.clients
    BY <1>4 DEF Trace!ConstructTopic, TraceTypes, Tracing
  <2>2. t # "print_to_stdout" /\ "print_to_stdout" \in Trace!Parameters
        /\ tracing.value \in [Trace!Parameters -> SUBSET Words]
    BY TraceAssumption
    DEF Trace!Topic, Trace!Parameters, Trace!Switch, TraceAssumption, TraceTypes,
        Tracing
  <2>3. PrintsOnlyIf(tracing', toPrint)
    BY <1>1, <2>1, <2>2 DEF PrintsOnlyIf, Trace!On
  <2> QED
    BY <1>2, <1>4, <2>3 DEF Trace!ConstructTopic
<1>5. ASSUME NEW t \in Trace!Topic,
             \/ Trace!DestroyTopic(t) \/ Trace!SetLevel(t, {"ERROR"})
      PROVE  PrintInv'
  <2>1. /\ tracing'.value = tracing.value
        /\ tracing'.sinks = tracing.sinks /\ tracing'.clients = tracing.clients
        /\ UNCHANGED <<environment, settings, toPrint>>
    BY <1>5 DEF Trace!DestroyTopic, Trace!SetLevel, TraceTypes, Tracing
  <2>2. PrintsOnlyIf(tracing', toPrint)
    BY <1>1, <2>1 DEF PrintsOnlyIf
  <2> QED
    BY <1>2, <2>1, <2>2
<1>6. ASSUME NEW t, NEW l, Trace!Ask(t, l)
      PROVE  PrintInv'
  BY <1>1, <1>2, <1>6, ConfiguredPrints DEF Trace!Ask
<1>7. ASSUME NEW sinks \in Trace!OtherSinks, Trace!ChangeSinks(sinks)
      PROVE  PrintInv'
  <2>1. tracing'.value = tracing.value /\ tracing'.clients
        /\ UNCHANGED <<environment, settings, toPrint>>
    BY <1>7 DEF Trace!ChangeSinks, TraceTypes, Tracing
  <2>2. PrintsOnlyIf(tracing', toPrint)
    BY <1>1, <2>1 DEF PrintsOnlyIf
  <2> QED
    BY <1>2, <2>1, <2>2
<1>8. ASSUME NEW asked, tracing' = Trace!FetchAll(tracing, settings, asked),
             UNCHANGED <<environment, settings, toPrint>>
      PROVE  PrintInv'
  BY <1>1, <1>2, <1>8, FetchAllPrints DEF TraceTypes
<1>9. ASSUME NEW p \in Trace!Parameters, NEW v \in Trace!SettingOf(p),
             Trace!SetRaw(p, v)
      PROVE  PrintInv'
  <2> DEFINE raw == [settings EXCEPT ![p] = v]
             b == toPrint \/ Trace!On(raw, "print_to_stdout")
  <2>1. settings' = raw /\ toPrint' = b /\ environment' = environment
    BY <1>9 DEF Trace!SetRaw, Trace!On
  <2>2. PICK asked \in BOOLEAN :
          LET found == IF updateNeeded THEN Trace!FetchAll(tracing, raw, asked)
                       ELSE tracing
          IN  tracing' = IF p \in topics \cup Trace!Switch
                           THEN Trace!Fetch(found, p, raw) ELSE found
    BY <1>9, <2>1 DEF Trace!SetRaw
  <2> DEFINE found == IF updateNeeded THEN Trace!FetchAll(tracing, raw, asked)
                      ELSE tracing
  <2>3. tracing' = IF p \in topics \cup Trace!Switch
                     THEN Trace!Fetch(found, p, raw) ELSE found
    BY <2>2
  <2>4. raw \in [Trace!Parameters -> SUBSET Words]
    BY SettingsAreWords DEF TraceTypes
  <2>5. b \in BOOLEAN /\ (Trace!On(raw, "print_to_stdout") => b)
    BY <1>1 DEF Trace!On
  <2>6. PrintsOnlyIf(tracing, b)
    BY <1>1 DEF PrintsOnlyIf
  <2> HIDE DEF raw, b
  <2>7. Tracing(found) /\ PrintsOnlyIf(found, b)
    <3>1. CASE updateNeeded
      BY <2>4, <2>5, <2>6, <3>1, FetchAllPrints DEF TraceTypes
    <3>2. CASE ~updateNeeded
      BY <2>6, <3>2 DEF TraceTypes
    <3> QED
      BY <3>1, <3>2
  <2> HIDE DEF found
  <2>8. PrintsOnlyIf(tracing', b)
    BY <2>3, <2>4, <2>5, <2>7, FetchPrints
  <2> QED
    BY <2>1, <2>5, <2>8, PrintsInNext
<1> QED
  BY <1>3, <1>4, <1>5, <1>6, <1>7, <1>8, <1>9
  DEF Trace!Next, Trace!Load, Trace!Find

LEMMA PrintStarts == ApplicationInit => PrintInv
<1> SUFFICES ASSUME ApplicationInit PROVE PrintInv
  OBVIOUS
<1>1. Trace!Init
  BY DEF ApplicationInit
<1>2. toPrint = Trace!On(settings, "print_to_stdout") /\ toPrint \in BOOLEAN
  BY <1>1 DEF Trace!Init, Trace!On
<1>3. /\ tracing.value = [p \in Trace!Parameters |-> Trace!Null]
      /\ tracing.sinks = <<"memory">> /\ "print_to_stdout" \in Trace!Parameters
  BY <1>1 DEF Trace!Init, Trace!Parameters, Trace!Switch
<1>4. Trace!On(tracing.value, "print_to_stdout") => toPrint
  BY <1>2, <1>3 DEF Trace!On, Trace!Null
<1> QED
  BY <1>2, <1>3, <1>4 DEF PrintInv, PrintsOnlyIf

LEMMA TraceStep == TraceInv /\ [Trace!Next]_traceVars => TraceInv'
<1> SUFFICES ASSUME TraceInv, [Trace!Next]_traceVars PROVE TraceInv'
  OBVIOUS
<1>1. CASE UNCHANGED traceVars
  <2>1. Differing' = Differing /\ Known' = Known
    BY <1>1 DEF Differing, Known, traceVars
  <2>2. ValuesSet(tracing', settings', Differing') /\ LevelsSet(tracing', Known')
    BY <1>1, <2>1 DEF TraceInv, traceVars
  <2>3. ValuesSet(tracing, settings, Differing)' /\ LevelsSet(tracing, Known)'
    BY <1>1, <2>2, SameEnvironment DEF traceVars
  <2> QED
    BY <1>1, <2>3 DEF TraceInv, TraceTypes, traceVars
<1>2. ASSUME NEW t \in Trace!Topic,
             \/ Trace!ConstructTopic(t) \/ Trace!DestroyTopic(t)
             \/ Trace!SetLevel(t, {"ERROR"})
             \/ \E l \in Trace!Levels : Trace!Ask(t, l)
      PROVE  TraceInv'
  BY <1>2, ConstructTopicKeeps, DestroyTopicKeeps, SetLevelKeeps, AskKeeps
<1>3. CASE \E sinks \in Trace!OtherSinks : Trace!ChangeSinks(sinks)
  BY <1>3, ChangeSinksKeeps
<1>4. CASE Trace!Load
  BY <1>4, FetchAllKeeps DEF Trace!Load
<1>5. CASE Trace!Find
  BY <1>5, FetchAllKeeps DEF Trace!Find
<1>6. CASE \E p \in Trace!Parameters : \E v \in Trace!SettingOf(p) :
             Trace!SetRaw(p, v)
  BY <1>6, SetRawKeeps
<1> QED
  BY <1>1, <1>2, <1>3, <1>4, <1>5, <1>6 DEF Trace!Next

LEMMA TracePartSteps == ApplicationNext => [Trace!Next]_traceVars
BY DEF ApplicationNext

LEMMA TraceFollows == TraceInv /\ PrintInv => TraceFollowsConfiguration
<1> SUFFICES ASSUME TraceInv, PrintInv, configLoaded
             PROVE  Trace!TraceFollowsConfiguration
  BY DEF TraceFollowsConfiguration, Trace!TraceFollowsConfiguration
<1> DEFINE n == Trace!Configured
           set == [p \in Trace!Parameters |-> Trace!Setting(p)]
<1>1. /\ Tracing(n) /\ n.value = tracing.value /\ n.clients = tracing.clients
      /\ n.changed \cup {"MGE"} = tracing.changed \cup {"MGE"}
      /\ LevelsSet(n, Known) /\ n.configured
  BY ConfiguredFollows
<1>2. \A p \in Trace!Parameters \ (Trace!Topic \ (topics \ lateTopics)) :
        tracing.value[p] = Trace!Setting(p)
  BY DEF TraceInv, ValuesSet, Differing, Trace!Setting
<1>3. "MGE" \in topics \ lateTopics /\ "MGE" \in Trace!Parameters
      /\ Trace!Switch \subseteq Trace!Parameters
      /\ Trace!Switch \cap Trace!Topic = {}
  BY TraceAssumption
  DEF TraceInv, TraceTypes, Trace!Parameters, Trace!Topic, Trace!Switch,
      TraceAssumption
<1>4. tracing.value["MGE"] = Trace!Setting("MGE")
      /\ \A w \in Trace!Switch : tracing.value[w] = Trace!Setting(w)
  BY <1>2, <1>3
<1>5. Trace!LevelsOf(set, "MGE") = Trace!LevelsOf(n.value, "MGE")
  BY <1>1, <1>3, <1>4 DEF Trace!LevelsOf, Trace!On, Trace!Switch
<1> HIDE DEF n
<1>6. ASSUME NEW t \in topics \ ({"MGE"} \cup lateTopics), NEW l \in Trace!Levels,
             {t, "MGE"} \cap n.changed = {}
      PROVE  Trace!Enabled(t, l) <=>
               l \in Trace!LevelsOf(set, t) \cup Trace!LevelsOf(set, "MGE")
  <2>1. t \in Known /\ t \in Topics /\ t \in Trace!Parameters
        /\ t \in topics \ lateTopics
    BY DEF Known, TraceInv, TraceTypes, Trace!Topic, Trace!Parameters
  <2>2. Trace!LevelsOf(set, t) = Trace!LevelsOf(tracing.value, t)
    BY <1>2, <2>1, LevelsOfOwnValue
  <2>3. t \notin tracing.changed /\ "MGE" \notin n.changed
    BY <1>1, <1>6
  <2>4. tracing.levels[t] = Trace!LevelsOf(tracing.value, t)
    BY <2>1, <2>3 DEF TraceInv, LevelsSet
  <2>5. n.levels["MGE"] = Trace!LevelsOf(n.value, "MGE")
    BY <1>1, <2>3 DEF LevelsSet
  <2>6. Trace!Enabled(t, l) <=> l \in tracing.levels[t] \/ l \in n.levels["MGE"]
    BY <2>1 DEF Trace!Enabled, Trace!Asks, n
  <2> QED
    BY <1>5, <2>2, <2>4, <2>5, <2>6
<1>7. ASSUME ~tracing.clients
      PROVE  /\ n.sinks \in {<<"memory">>, <<"stdout">>}
             /\ Trace!On(settings, "print_to_stdout") => n.sinks = <<"stdout">>
             /\ n.sinks = <<"stdout">> => toPrint
  <2>1. Trace!On(settings, "print_to_stdout") => Trace!On(n.value, "print_to_stdout")
    BY <1>1, <1>4 DEF Trace!On, Trace!Setting, Trace!Switch, Trace!Absent
  <2>2. PrintsOnlyIf(n, toPrint)
    BY ConfiguredPrints DEF n, TraceInv, PrintInv
  <2>3. <<"memory">> # <<"stdout">>
    OBVIOUS
  <2> QED
    BY <1>1, <1>7, <2>1, <2>2, <2>3 DEF LevelsSet, PrintsOnlyIf
<1> QED
  BY <1>6, <1>7 DEF Trace!TraceFollowsConfiguration, n

\* trace_topic.cpp: whichever topics come and go and whoever asks first, the
\* levels are those of the settings, the switches included, and MGE prints to
\* stdout when it is to, and only when it was to at some time.
THEOREM LevelsFollowSettings == ApplicationSpec => []TraceFollowsConfiguration
<1>1. TraceInv /\ PrintInv /\ [ApplicationNext]_<<part, vars, mapVars, inputVars,
        registryVars, libraryVars, configVars, assetVars, luaVars, traceVars>>
        => TraceInv' /\ PrintInv'
  <2>1. TraceInv => TraceTypes
    BY DEF TraceInv
  <2> QED
    BY <2>1, TracePartSteps, TraceStep, PrintStep
<1> QED
  BY <1>1, TraceStarts, PrintStarts, TraceFollows, PTL DEF ApplicationSpec
================================================================================
