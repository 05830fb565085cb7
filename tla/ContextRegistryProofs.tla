------------------------- MODULE ContextRegistryProofs -------------------------
(***************************************************************************)
(* Proofs about ContextRegistry for all constants: type correctness, that  *)
(* a live context stays at its index, what a handle resolves to, and that  *)
(* the registry implements IndexAllocator.                                 *)
(***************************************************************************)
EXTENDS ContextRegistry, TLAPS

\* Every entry is null or a live context at its own index, and every live
\* context is such an entry: the second half alone is not inductive, since
\* trimming must not remove an entry that is not null.
Entries ==
  /\ \A i \in 1 .. Len(m_contexts) :
       m_contexts[i] # Null =>
         m_contexts[i] \in Live /\ m_index[m_contexts[i]] = i - 1
  /\ \A c \in Live :
       m_index[c] + 1 \in 1 .. Len(m_contexts) /\ m_contexts[m_index[c] + 1] = c

\* A context that is not live has a slot destroyed only through its handles.
Slots ==
  /\ \A c \in Contexts : stage[c] = "new" => objects[c] = <<>>
  /\ \A c \in Contexts : Len(objects[c]) <= MaxObjects
  /\ DropHandles =>
       \A h \in Issued :
         objects[h.owner][h.object] = "live" <=> h \notin destroyed

IInv == TypeOK /\ Entries /\ Slots

LEMMA InitInv == Init => IInv
<1> SUFFICES ASSUME Init PROVE IInv
  OBVIOUS
<1> USE RegistryAssumption DEF Init
<1>1. TypeOK
  <2>1. <<>> \in Seq(Contexts \union {Null}) /\ Len(<<>>) = 0
    OBVIOUS
  <2>2. <<>> \in Seq({"live", "destroyed"})
    OBVIOUS
  <2>3. objects \in [Contexts -> Seq({"live", "destroyed"})]
    BY <2>2
  <2>4. m_contexts \in Seq(Contexts \union {Null}) /\ Len(m_contexts) <= Limit
    BY <2>1
  <2>5. stage \in [Contexts -> {"new", "live", "gone"}]
    OBVIOUS
  <2>6. m_index \in [Contexts -> Nat]
    OBVIOUS
  <2> QED
    BY <2>3, <2>4, <2>5, <2>6 DEF TypeOK
<1>2. Entries
  BY DEF Entries, Live
<1>3. Slots
  BY DEF Slots, Issued
<1> QED
  BY <1>1, <1>2, <1>3 DEF IInv

LEMMA RegisterInv ==
  ASSUME IInv, NEW c \in Contexts, RegisterContext(c)
  PROVE  IInv'
<1> USE RegistryAssumption
<1>1. PICK n \in 0 .. Len(m_contexts) :
        /\ Room(n)
        /\ IF Full(n)
             THEN crashed' = TRUE /\ UNCHANGED <<m_contexts, m_index, stage>>
             ELSE /\ m_contexts' = Append(SubSeq(m_contexts, 1, n), c)
                  /\ m_index' = [m_index EXCEPT ![c] = n]
                  /\ stage' = [stage EXCEPT ![c] = "live"]
                  /\ UNCHANGED crashed
  BY DEF RegisterContext
<1>2. UNCHANGED <<objects, destroyed>>
  BY DEF RegisterContext
<1>3. CASE Full(n)
  BY <1>1, <1>2, <1>3 DEF IInv, TypeOK, Entries, Slots, Live, Issued
<1>4. CASE ~Full(n)
  <2>1. /\ m_contexts' = Append(SubSeq(m_contexts, 1, n), c)
        /\ m_index' = [m_index EXCEPT ![c] = n]
        /\ stage' = [stage EXCEPT ![c] = "live"]
        /\ UNCHANGED crashed
    BY <1>1, <1>4
  <2>2. c \in Contexts /\ stage[c] = "new" /\ c # Null
    BY DEF RegisterContext, Unborn
  <2>3. /\ m_contexts \in Seq(Contexts \union {Null})
        /\ m_index \in [Contexts -> Nat]
        /\ stage \in [Contexts -> {"new", "live", "gone"}]
    BY DEF IInv, TypeOK
  <2>4. \A i \in n + 1 .. Len(m_contexts) : m_contexts[i] = Null
    BY <1>1, <2>3 DEF Room, TrimsTo
  <2>5. n < Limit
    BY <1>4 DEF Full
  <2>6. /\ m_contexts' \in Seq(Contexts \union {Null})
        /\ Len(m_contexts') = n + 1
        /\ m_contexts'[n + 1] = c
        /\ \A i \in 1 .. n : m_contexts'[i] = m_contexts[i]
    BY <2>1, <2>2, <2>3
  <2>7. TypeOK'
    BY <1>2, <2>1, <2>2, <2>3, <2>5, <2>6 DEF IInv, TypeOK, Issued
  <2>8. Live' = Live \union {c} /\ c \notin Live
    BY <2>1, <2>2, <2>3 DEF Live
  <2>9. Entries'
    <3>1. \A i \in 1 .. n :
            m_contexts[i] # Null =>
              m_contexts[i] \in Live /\ m_index[m_contexts[i]] = i - 1
      BY <2>3 DEF IInv, Entries
    <3>2. \A d \in Live :
            /\ m_index[d] + 1 \in 1 .. Len(m_contexts)
            /\ m_contexts[m_index[d] + 1] = d
            /\ d \in Contexts /\ d # Null
      BY DEF IInv, Entries, Live
    <3>3. \A d \in Live : m_index[d] + 1 \in 1 .. n
      BY <2>3, <2>4, <3>2
    <3>4. \A i \in 1 .. Len(m_contexts') :
            m_contexts'[i] # Null =>
              m_contexts'[i] \in Live' /\ m_index'[m_contexts'[i]] = i - 1
      BY <2>1, <2>3, <2>6, <2>8, <3>1 DEF Live
    <3>5. \A d \in Live' :
            /\ m_index'[d] + 1 \in 1 .. Len(m_contexts')
            /\ m_contexts'[m_index'[d] + 1] = d
      BY <2>1, <2>3, <2>6, <2>8, <3>2, <3>3
    <3> QED
      BY <3>4, <3>5 DEF Entries
  <2>10. Slots'
    BY <1>2, <2>1, <2>2, <2>3 DEF IInv, Slots, Issued
  <2> QED
    BY <2>7, <2>9, <2>10 DEF IInv
<1> QED
  BY <1>3, <1>4

LEMMA UnregisterInv ==
  ASSUME IInv, NEW c \in Contexts, UnregisterContext(c)
  PROVE  IInv'
<1> USE RegistryAssumption
<1> DEFINE i == m_index[c]
<1>1. /\ c \in Live /\ c # Null
      /\ i \in Nat /\ i + 1 \in 1 .. Len(m_contexts) /\ m_contexts[i + 1] = c
  BY DEF IInv, TypeOK, Entries, UnregisterContext
<1>2. /\ m_contexts \in Seq(Contexts \union {Null})
      /\ Len(m_contexts) <= Limit
      /\ m_index \in [Contexts -> Nat]
      /\ stage \in [Contexts -> {"new", "live", "gone"}]
  BY DEF IInv, TypeOK
<1>3. /\ stage' = [stage EXCEPT ![c] = "gone"]
      /\ UNCHANGED <<m_index, objects, destroyed, crashed>>
      /\ Live' = Live \ {c}
  BY <1>1, <1>2 DEF UnregisterContext, Live
<1>4. PICK n \in 0 .. Len(m_contexts) :
        /\ m_contexts' \in Seq(Contexts \union {Null})
        /\ Len(m_contexts') = n
        /\ \A k \in 1 .. n :
             m_contexts'[k] = IF k = i + 1 THEN Null ELSE m_contexts[k]
        /\ \A k \in n + 1 .. Len(m_contexts) : k = i + 1 \/ m_contexts[k] = Null
  <2>1. CASE i = Len(m_contexts) - 1
    <3> DEFINE rest == SubSeq(m_contexts, 1, i)
    <3>1. PICK n \in 0 .. i :
            TrimsTo(rest, n) /\ m_contexts' = SubSeq(m_contexts, 1, n)
      BY <1>1, <2>1 DEF UnregisterContext
    <3>2. Len(rest) = i /\ \A k \in 1 .. i : rest[k] = m_contexts[k]
      BY <1>1, <1>2
    <3>3. \A k \in n + 1 .. i : m_contexts[k] = Null
      BY <1>1, <3>1, <3>2 DEF TrimsTo
    <3>4. /\ m_contexts' \in Seq(Contexts \union {Null})
          /\ Len(m_contexts') = n
          /\ \A k \in 1 .. n : m_contexts'[k] = m_contexts[k]
      BY <1>1, <1>2, <3>1
    <3>5. n \in 0 .. Len(m_contexts)
      BY <1>1, <1>2, <2>1
    <3>6. \A k \in n + 1 .. Len(m_contexts) :
            k = i + 1 \/ m_contexts[k] = Null
      BY <1>1, <1>2, <2>1, <3>3
    <3> QED
      BY <1>1, <1>2, <3>4, <3>5, <3>6
  <2>2. CASE i # Len(m_contexts) - 1
    <3>1. m_contexts' = [m_contexts EXCEPT ![i + 1] = Null]
      BY <1>1, <2>2 DEF UnregisterContext
    <3> QED
      BY <1>1, <1>2, <3>1
  <2> QED
    BY <2>1, <2>2
<1>5. TypeOK'
  BY <1>2, <1>3, <1>4 DEF IInv, TypeOK, Issued
<1>6. Entries'
  <2>1. \A d \in Live' : d \in Live /\ d # c /\ d # Null /\ m_index[d] # i
    BY <1>1, <1>3 DEF IInv, Entries, Live
  <2>2. \A d \in Live' :
          /\ m_index[d] + 1 \in 1 .. Len(m_contexts)
          /\ m_contexts[m_index[d] + 1] = d
    BY <2>1 DEF IInv, Entries
  <2>3. \A d \in Live' : m_index[d] \in Nat
    BY <1>2, <1>3 DEF Live
  <2>4. \A d \in Live' :
          m_index[d] + 1 \in 1 .. n /\ m_contexts'[m_index[d] + 1] = d
    BY <1>1, <1>4, <2>1, <2>2, <2>3
  <2>5. \A k \in 1 .. n :
          m_contexts'[k] # Null =>
            m_contexts'[k] \in Live' /\ m_index[m_contexts'[k]] = k - 1
    <3> SUFFICES ASSUME NEW k \in 1 .. n, m_contexts'[k] # Null
                 PROVE  /\ m_contexts'[k] \in Live'
                        /\ m_index[m_contexts'[k]] = k - 1
      OBVIOUS
    <3>1. k # i + 1 /\ m_contexts'[k] = m_contexts[k]
      BY <1>4
    <3>2. m_contexts[k] \in Live /\ m_index[m_contexts[k]] = k - 1
      BY <1>4, <3>1 DEF IInv, Entries
    <3> QED
      BY <1>1, <1>3, <3>1, <3>2
  <2> QED
    BY <1>3, <1>4, <2>4, <2>5 DEF Entries
<1>7. Slots'
  BY <1>2, <1>3 DEF IInv, Slots, Issued
<1> QED
  BY <1>5, <1>6, <1>7 DEF IInv

LEMMA CreateObjectInv ==
  ASSUME IInv, NEW c \in Contexts, CreateObject(c)
  PROVE  IInv'
<1> USE RegistryAssumption
<1>1. /\ UNCHANGED <<m_contexts, m_index, stage, destroyed, crashed>>
      /\ objects' = [objects EXCEPT ![c] = Append(@, "live")]
      /\ stage[c] = "live" /\ Len(objects[c]) < MaxObjects
  BY DEF CreateObject, Live
<1>2. objects \in [Contexts -> Seq({"live", "destroyed"})]
  BY DEF IInv, TypeOK
<1>3. /\ objects' \in [Contexts -> Seq({"live", "destroyed"})]
      /\ \A d \in Contexts : d # c => objects'[d] = objects[d]
      /\ Len(objects'[c]) = Len(objects[c]) + 1
      /\ objects'[c][Len(objects[c]) + 1] = "live"
      /\ \A k \in 1 .. Len(objects[c]) : objects'[c][k] = objects[c][k]
      /\ \A d \in Contexts : Len(objects[d]) \in Nat
  BY <1>1, <1>2
<1>4. ASSUME NEW h \in Issued'
      PROVE  \/ /\ h \in Issued
                /\ objects'[h.owner][h.object] = objects[h.owner][h.object]
             \/ /\ h \notin Issued
                /\ objects'[h.owner][h.object] = "live"
  <2>1. /\ h \in [owner : Contexts, object : 1 .. MaxObjects]
        /\ h.owner \in Contexts /\ h.object \in 1 .. MaxObjects
        /\ h.object <= Len(objects'[h.owner])
    BY DEF Issued
  <2>2. h \in Issued <=> h.object <= Len(objects[h.owner])
    BY <2>1 DEF Issued
  <2> QED
    BY <1>3, <2>1, <2>2
<1>5. Issued \subseteq Issued'
  <2> SUFFICES ASSUME NEW h \in Issued PROVE h \in Issued'
    OBVIOUS
  <2>1. /\ h \in [owner : Contexts, object : 1 .. MaxObjects]
        /\ h.owner \in Contexts /\ h.object \in 1 .. MaxObjects
        /\ h.object <= Len(objects[h.owner])
    BY DEF Issued
  <2>2. h.object <= Len(objects'[h.owner])
    BY <1>3, <2>1
  <2> QED
    BY <2>1, <2>2 DEF Issued
<1>6. TypeOK'
  BY <1>1, <1>3, <1>5 DEF IInv, TypeOK
<1>7. Entries'
  BY <1>1 DEF IInv, Entries, Live
<1>8. destroyed \subseteq Issued
  BY DEF IInv, TypeOK
<1>9. Slots'
  <2>1. \A d \in Contexts : stage'[d] = "new" => objects'[d] = <<>>
    BY <1>1, <1>3 DEF IInv, Slots
  <2>2. \A d \in Contexts : Len(objects'[d]) <= MaxObjects
    BY <1>1, <1>3 DEF IInv, Slots
  <2>3. DropHandles =>
          \A h \in Issued' :
            objects'[h.owner][h.object] = "live" <=> h \notin destroyed'
    BY <1>1, <1>4, <1>8 DEF IInv, Slots
  <2> QED
    BY <2>1, <2>2, <2>3 DEF Slots
<1> QED
  BY <1>6, <1>7, <1>9 DEF IInv

\* A handle of a live context finds the slot it was made for.
LEMMA FoundOwn ==
  ASSUME IInv, NEW h \in Issued, stage[h.owner] = "live"
  PROVE  /\ Get(m_index[h.owner]) = h.owner
         /\ h.owner # Null /\ h.owner \in Contexts
         /\ Found(h)
<1>1. h.owner \in Live /\ h.owner \in Contexts /\ h.object <= Len(objects[h.owner])
  BY DEF Live, Issued
<1>2. /\ m_index[h.owner] \in Nat
      /\ Len(m_contexts) \in Nat
  BY <1>1 DEF IInv, TypeOK
<1>3. Get(m_index[h.owner]) = h.owner
  BY <1>1, <1>2 DEF IInv, Entries, Get
<1> QED
  BY <1>1, <1>3, RegistryAssumption DEF Found

LEMMA DestroyInv ==
  ASSUME IInv, NEW h \in Issued, Destroy(h)
  PROVE  IInv'
<1> USE RegistryAssumption
<1> DEFINE c == Get(m_index[h.owner])
<1>1. /\ UNCHANGED <<m_contexts, m_index, stage, crashed>>
      /\ objects' = [objects EXCEPT ![c][h.object] = "destroyed"]
      /\ destroyed' = destroyed \union {h}
      /\ Found(h)
  BY DEF Destroy
<1>2. /\ objects \in [Contexts -> Seq({"live", "destroyed"})]
      /\ m_contexts \in Seq(Contexts \union {Null})
      /\ m_index \in [Contexts -> Nat]
      /\ h.owner \in Contexts /\ h.object \in Nat \ {0}
  BY DEF IInv, TypeOK, Issued
<1>3. c \in Live /\ c \in Contexts /\ h.object \in 1 .. Len(objects[c])
  BY <1>1, <1>2 DEF Found, Get, IInv, Entries, Live
<1> HIDE DEF c
<1>4. /\ objects' \in [Contexts -> Seq({"live", "destroyed"})]
      /\ \A d \in Contexts : Len(objects'[d]) = Len(objects[d])
      /\ \A d \in Contexts : \A k \in 1 .. Len(objects[d]) :
           objects'[d][k] = IF d = c /\ k = h.object THEN "destroyed"
                                                    ELSE objects[d][k]
  BY <1>1, <1>2, <1>3
<1>5. Issued' = Issued
  BY <1>4 DEF Issued
<1>6. TypeOK'
  BY <1>1, <1>4, <1>5 DEF IInv, TypeOK
<1>7. Entries'
  BY <1>1 DEF IInv, Entries, Live
<1>8. Slots'
  <2>1. \A d \in Contexts : stage'[d] = "new" => objects'[d] = <<>>
    BY <1>1, <1>2, <1>3 DEF IInv, Slots, Live
  <2>2. \A d \in Contexts : Len(objects'[d]) <= MaxObjects
    BY <1>4 DEF IInv, Slots
  <2>3. ASSUME DropHandles, NEW g \in Issued
        PROVE  objects'[g.owner][g.object] = "live" <=> g \notin destroyed'
    <3>1. stage[h.owner] = "live"
      BY <2>3 DEF Destroy, Held
    <3>2. c = h.owner
      BY <3>1, FoundOwn DEF c
    <3>3. /\ g.owner \in Contexts /\ g.object \in 1 .. Len(objects[g.owner])
          /\ g = [owner |-> g.owner, object |-> g.object]
          /\ h = [owner |-> h.owner, object |-> h.object]
      BY <1>2 DEF Issued
    <3>4. objects[g.owner][g.object] = "live" <=> g \notin destroyed
      BY <2>3 DEF IInv, Slots
    <3>5. objects'[g.owner][g.object] =
            IF g = h THEN "destroyed" ELSE objects[g.owner][g.object]
      BY <1>4, <3>2, <3>3
    <3> QED
      BY <1>1, <3>4, <3>5
  <2> QED
    BY <1>5, <2>1, <2>2, <2>3 DEF Slots
<1> QED
  BY <1>6, <1>7, <1>8 DEF IInv

LEMMA Invariance == Spec => []IInv
<1>1. IInv /\ [Next]_vars => IInv'
  <2> SUFFICES ASSUME IInv, [Next]_vars PROVE IInv'
    OBVIOUS
  <2>1. CASE UNCHANGED vars
    BY <2>1 DEF vars, IInv, TypeOK, Entries, Slots, Live, Issued
  <2> QED
    BY <2>1, RegisterInv, UnregisterInv, CreateObjectInv, DestroyInv DEF Next
<1> QED
  BY InitInv, <1>1, PTL DEF Spec

\* Every variable of the registry has its type for any number of contexts.
THEOREM TypeCorrect == Spec => []TypeOK
<1>1. IInv => TypeOK
  BY DEF IInv
<1> QED
  BY <1>1, Invariance, PTL

\* A live context is found at its index, however the vector is trimmed.
THEOREM Registered == Spec => []RegisteredWhileLive
<1>1. IInv => RegisteredWhileLive
  BY DEF IInv, TypeOK, Entries, RegisteredWhileLive, Get, Live
<1> QED
  BY <1>1, Invariance, PTL

\* Of clients that drop the handles of a context they destroy, a handle of a
\* live context resolves exactly until destroy() is called on it.
THEOREM HandlesFollow ==
  ASSUME DropHandles
  PROVE  Spec => []HandleFollowsObject
<1>1. IInv => HandleFollowsObject
  <2> SUFFICES ASSUME IInv, NEW h \in Issued, h.owner \in Live
               PROVE  Resolves(h) <=> h \notin destroyed
    BY DEF HandleFollowsObject
  <2>1. Found(h) /\ Get(m_index[h.owner]) = h.owner
    BY FoundOwn DEF Live
  <2> QED
    BY <2>1 DEF Resolves, IInv, Slots
<1> QED
  BY <1>1, Invariance, PTL

\* Live contexts have different indices, all of them within the limit.
HolderFacts ==
  /\ \A c \in Live : m_index[c] \in 0 .. Limit - 1
  /\ \A c, d \in Live : m_index[c] = m_index[d] => c = d

LEMMA HolderIs == IInv => HolderFacts
<1> SUFFICES ASSUME IInv PROVE HolderFacts
  OBVIOUS
<1> USE RegistryAssumption
<1>1. \A c, d \in Live : m_index[c] = m_index[d] => c = d
  BY DEF IInv, Entries
<1>2. \A c \in Live : m_index[c] \in 0 .. Limit - 1
  BY DEF IInv, TypeOK, Entries, Live
<1> QED
  BY <1>1, <1>2 DEF HolderFacts

\* Every step of the registry allocates an index, releases one or leaves the
\* indices in use as they are.
LEMMA AllocatorStep ==
  ASSUME IInv, HolderFacts, HolderFacts', [Next]_vars
  PROVE  Allocator!Next \/ UNCHANGED Holder
<1> USE RegistryAssumption
<1>1. ASSUME UNCHANGED <<m_index, stage>>
      PROVE  UNCHANGED Holder
  BY <1>1 DEF Holder, Live
<1>2. ASSUME NEW c \in Contexts, RegisterContext(c), stage' # stage
      PROVE  Allocator!Next
  <2>1. PICK n \in 0 .. Len(m_contexts) :
          m_index' = [m_index EXCEPT ![c] = n] /\ Room(n) /\ ~Full(n)
    BY <1>2 DEF RegisterContext
  <2>2. stage[c] = "new" /\ stage' = [stage EXCEPT ![c] = "live"]
    BY <1>2 DEF RegisterContext, Unborn
  <2>3. /\ m_index \in [Contexts -> Nat]
        /\ stage \in [Contexts -> {"new", "live", "gone"}]
    BY DEF IInv, TypeOK
  <2>4. Live' = Live \union {c} /\ c \notin Live
    BY <2>2, <2>3 DEF Live
  <2>5. m_index'[c] = n /\ \A d \in Live : m_index'[d] = m_index[d] /\ d # c
    BY <2>1, <2>3, <2>4 DEF Live
  <2>6. \A d \in Live : m_index[d] # n
    BY <2>4, <2>5 DEF HolderFacts
  <2>7. \A h \in Holder : h[1] # n /\ h[2] # c
    BY <2>4, <2>6 DEF Holder
  <2>8. Holder' = Holder \union {<<n, c>>}
    BY <2>4, <2>5 DEF Holder
  <2>9. n \in 0 .. Limit - 1
    BY <2>1 DEF Full
  <2>10. Allocator!Allocate(c, n)
    BY <2>7, <2>8 DEF Allocator!Allocate
  <2> QED
    BY <2>9, <2>10 DEF Allocator!Next
<1>3. ASSUME NEW c \in Contexts, UnregisterContext(c)
      PROVE  Allocator!Next
  <2> DEFINE i == m_index[c]
  <2>1. c \in Live /\ i \in 0 .. Limit - 1
    BY <1>3 DEF UnregisterContext, HolderFacts
  <2>2. /\ stage' = [stage EXCEPT ![c] = "gone"]
        /\ m_index' = m_index
        /\ stage \in [Contexts -> {"new", "live", "gone"}]
    <3>1. /\ i + 1 \in 1 .. Len(m_contexts) /\ i \in Nat
          /\ m_contexts[i + 1] = c
      BY <2>1 DEF IInv, TypeOK, Entries
    <3> QED
      BY <1>3, <3>1 DEF UnregisterContext, IInv, TypeOK
  <2>3. Live' = Live \ {c}
    BY <2>1, <2>2 DEF Live
  <2>4. Holder' = Holder \ {<<i, c>>} /\ <<i, c>> \in Holder
    BY <2>1, <2>2, <2>3 DEF Holder
  <2>5. Allocator!Release(c, i)
    BY <2>4 DEF Allocator!Release
  <2> QED
    BY <2>1, <2>5 DEF Allocator!Next
<1>4. ASSUME NEW c \in Contexts, RegisterContext(c), stage' = stage
      PROVE  UNCHANGED Holder
  <2>1. UNCHANGED <<m_index, stage>>
    BY <1>4 DEF RegisterContext, Unborn, IInv, TypeOK
  <2> QED
    BY <2>1, <1>1
<1>5. ASSUME \/ \E c \in Contexts : CreateObject(c)
             \/ \E h \in Issued : Destroy(h)
             \/ UNCHANGED vars
      PROVE  UNCHANGED Holder
  BY <1>1, <1>5 DEF CreateObject, Destroy, vars
<1> QED
  BY <1>2, <1>3, <1>4, <1>5 DEF Next

\* The registry implements the allocator of IndexAllocator.
THEOREM RegistryAllocates == Spec => AllocatorSpec
<1>1. Init => Allocator!Init
  <2> SUFFICES ASSUME Init PROVE Allocator!Init
    OBVIOUS
  <2>1. Live = {}
    BY DEF Init, Live
  <2> QED
    BY <2>1 DEF Holder, Allocator!Init
<1>2. IInv /\ HolderFacts /\ HolderFacts' /\ [Next]_vars
        => [Allocator!Next]_Holder
  BY AllocatorStep
<1> QED
  BY <1>1, <1>2, HolderIs, Invariance, PTL DEF Spec, AllocatorSpec, Allocator!Spec
==============================================================================
