---------------------------- MODULE DescriptorSets ----------------------------
(***************************************************************************)
(* The descriptor sets of a Vulkan context: found by block, textures and   *)
(* layout, created when a draw needs them, written once and never freed.   *)
(* A draw for which no set is found leaves the set of the draw before it.  *)
(* Each program has a layout of its own: the program stands for both.      *)
(***************************************************************************)
EXTENDS Naturals, Sequences, FiniteSets

CONSTANTS
  SetBlocks, Textures,  \* addresses
  Slots,                \* slots of textures, and bindings of samplers
  MaxSets,              \* sets of the pool: 1000 in the code
  MaxSetDraws           \* bound: draws

None == 0

\* What a program reads: a block and samplers, the block, or the samplers.
ProgramKinds == [block : BOOLEAN, samplers : {{}, Slots}]
              \ {[block |-> FALSE, samplers |-> {}]}

\* The list that command_buffer::bind_texture() builds: a texture per slot, in
\* the order in which the slots were bound first.
Bindings == {l \in UNION {[1 .. n -> [slot : Slots, texture : Textures]] :
                          n \in 0 .. Cardinality(Slots)} :
               \A i, j \in DOMAIN l : i # j => l[i].slot # l[j].slot}

VARIABLES
  m_descriptor_sets,  \* key -> set
  contents,           \* set -> block and textures by slot
  bound,              \* the set bound in the command buffer
  last,               \* history: the last draw, with the set it bound itself
  draws_done          \* history: number of draws

setVars == <<m_descriptor_sets, contents, bound, last, draws_done>>

NoDraw == [program |-> None, block |-> None, textures |-> <<>>, set |-> None]

Init ==
  /\ m_descriptor_sets = [k \in {} |-> None] /\ contents = <<>>
  /\ bound = None /\ last = NoDraw /\ draws_done = 0

Key(p, ub, textures) ==
  <<p, ub, [i \in DOMAIN textures |-> textures[i].texture]>>

\* A pair of the map of sets and the contents of all of them, with the set the
\* request has returned.
Found(sets, all, set) == [sets |-> sets, all |-> all, set |-> set]

\* A set for the key: the one of the map, or a new one with these contents,
\* if the pool has one left.
FindOrCreate(sets, all, key, new) ==
  IF key \in DOMAIN sets THEN Found(sets, all, sets[key])
  ELSE IF Len(all) = MaxSets THEN Found(sets, all, None)
  ELSE LET set == Len(all) + 1
       IN  Found([k \in DOMAIN sets \cup {key} |->
                    IF k = key THEN set ELSE sets[k]],
                 Append(all, new), set)

\* A program without block has nothing to write the buffer to: binding 0 of its
\* layout is no uniform buffer.
PrepareUniformBlock(sets, all, p, ub) ==
  FindOrCreate(sets, all, Key(p, ub, <<>>),
               [block |-> IF p.block THEN ub ELSE None,
                textures |-> [s \in {} |-> None]])

Matched(p, textures) ==
  [s \in {t \in p.samplers : \E i \in DOMAIN textures : textures[i].slot = t} |->
     (CHOOSE b \in {textures[i] : i \in DOMAIN textures} : b.slot = s).texture]

\* The buffer is written if the block has a set of its own for the layout.
PrepareTexture(sets, all, p, ub, textures) ==
  IF p.samplers = {} THEN Found(sets, all, None)
  ELSE FindOrCreate(sets, all, Key(p, ub, textures),
         [block |-> IF p.block /\ ub # None /\ Key(p, ub, <<>>) \in DOMAIN sets
                    THEN ub ELSE None,
          textures |-> Matched(p, textures)])

\* Mutant: the block is prepared only for draws without textures.
PreparedApart(sets, all, p, ub, textures) ==
  IF textures # <<>> THEN PrepareTexture(sets, all, p, ub, textures)
  ELSE PrepareUniformBlock(sets, all, p, ub)

\* draw_geometry(): the set of the textures replaces that of the block.
Prepared(sets, all, p, ub, textures) ==
  LET first == IF ub # None THEN PrepareUniformBlock(sets, all, p, ub)
               ELSE Found(sets, all, None)
  IN  IF textures = <<>> THEN first
      ELSE PrepareTexture(first.sets, first.all, p, ub, textures)

DrawGeometry(p, ub, textures) ==
  /\ draws_done < MaxSetDraws
  /\ LET r == IF ub # None \/ textures # <<>>
              THEN Prepared(m_descriptor_sets, contents, p, ub, textures)
              ELSE Found(m_descriptor_sets, contents, None)
     IN /\ m_descriptor_sets' = r.sets /\ contents' = r.all
        /\ bound' = IF r.set # None THEN r.set ELSE bound
        /\ last' = [program |-> p, block |-> ub, textures |-> textures,
                    set |-> r.set]
  /\ draws_done' = draws_done + 1

\* The next frame records into a command buffer that was reset.
BeginCommandBuffer ==
  /\ bound' = None /\ last' = NoDraw
  /\ UNCHANGED <<m_descriptor_sets, contents, draws_done>>

Next ==
  \/ \E p \in ProgramKinds, ub \in SetBlocks \cup {None}, l \in Bindings :
       DrawGeometry(p, ub, l)
  \/ BeginCommandBuffer

Spec == Init /\ [][Next]_setVars

------------------------------------------------------------------------------
(* Properties.                                                             *)

\* If a draw with a block binds a set, and its program reads a block, the set
\* has the buffer of this block: whatever was drawn before, and also when the
\* pool ran out of sets on the way.
OwnBlockBound ==
  last.set # None /\ last.block # None /\ last.program.block =>
    contents[last.set].block = last.block
==============================================================================
