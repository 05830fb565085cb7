----------------------------- MODULE UniformBlocks -----------------------------
(***************************************************************************)
(* The way of uniform data to the device.  A global uniform is assigned;   *)
(* a block that has a member of its name copies it when a draw with the    *)
(* block is recorded; the buffer of the block on the device is overwritten *)
(* when the block has changed.  Each of the three remembers a version.     *)
(* Versions stand for the data.  One name and one member are modelled; the *)
(* buffers of a context are found by the address of the block and stay.    *)
(***************************************************************************)
EXTENDS Integers, Sequences

CONSTANTS
  Blocks,      \* addresses of uniform blocks
  InFlight,    \* frames recorded or executed at a time: 1 where the context
               \* waits for the queue (Direct3D 12), else the images (Vulkan)
  MaxUniforms, MaxVersion, MaxFrames  \* bounds: uniforms created, versions of
                                      \* a uniform and of a block, frames

None == 0
Junk == -1      \* contents of a buffer nobody has written

VARIABLES
  global,        \* the uniform registered under the name, by number, or None
  matches,       \* does its type match the member?
  version,       \* uniform -> m_version
  m_generation,  \* of the registry
  created,       \* uniforms created
  block,         \* block -> version, cache: uniform, last_version, checked,
                 \* and the generation of the cache
  buffer,        \* block -> version and contents of its buffer (the version of
                 \* the block that was copied last)
  batch,         \* draws of the frame: block and its version when recorded
  inFlight,      \* frames submitted and not executed, of such draws
  frameCount,
  drawn,         \* history: the block of the last step, if it recorded a draw
  source,        \* history: block -> uniform and version copied last
  own,           \* history: blocks the program has written to since that copy
  dangling,      \* history: a destroyed uniform was read
  older,         \* history: a draw read older contents than recorded
  moved          \* history: blocks whose address was given to a new block

registryVars == <<global, matches, version, m_generation, created>>
blockVars == <<block, source, own, moved>>
deviceVars == <<buffer, batch, inFlight, frameCount, older>>
uniVars == <<registryVars, blockVars, deviceVars, drawn, dangling>>

NewBlock == [version |-> 0, uniform |-> None, last_version |-> 0,
             checked |-> FALSE, generation |-> 0]

Init ==
  /\ global = None /\ matches = TRUE /\ m_generation = 0 /\ created = 0
  /\ version = [u \in 1 .. MaxUniforms |-> 0]
  /\ block = [b \in Blocks |-> NewBlock]
  /\ buffer = [b \in Blocks |-> [version |-> 0, contents |-> Junk]]
  /\ batch = {} /\ inFlight = <<>> /\ frameCount = 0
  /\ drawn = None /\ source = [b \in Blocks |-> <<None, 0>>]
  /\ own = {} /\ dangling = FALSE /\ older = FALSE /\ moved = {}

------------------------------------------------------------------------------
(* Global uniforms.                                                        *)

RegisterUniform(fits) ==
  /\ global = None /\ created < MaxUniforms
  /\ created' = created + 1 /\ global' = created + 1 /\ matches' = fits
  /\ m_generation' = m_generation + 1 /\ drawn' = None
  /\ UNCHANGED <<version, blockVars, deviceVars, dangling>>

\* Mutant: only a registration is counted.
GenerationKept == m_generation
GenerationAfterErase == m_generation + 1

UnregisterUniform ==
  /\ global # None
  /\ global' = None /\ m_generation' = GenerationAfterErase /\ drawn' = None
  /\ UNCHANGED <<matches, version, created, blockVars, deviceVars, dangling>>

Assign ==
  /\ global # None /\ version[global] < MaxVersion
  /\ version' = [version EXCEPT ![global] = @ + 1] /\ drawn' = None
  /\ UNCHANGED <<global, matches, m_generation, created, blockVars, deviceVars,
                 dangling>>

------------------------------------------------------------------------------
(* Blocks.                                                                 *)

\* The program writes the member itself; what was copied from the global and
\* the version remembered of it stay as they are.
SetData(b) ==
  /\ block[b].version < MaxVersion
  /\ block' = [block EXCEPT ![b].version = @ + 1]
  /\ own' = own \cup {b} /\ drawn' = None
  /\ UNCHANGED <<registryVars, source, moved, deviceVars, dangling>>

\* A block is destroyed and another one is created at its address.
Recreate(b) ==
  /\ block' = [block EXCEPT ![b] = NewBlock] /\ moved' = moved \cup {b}
  /\ source' = [source EXCEPT ![b] = <<None, 0>>]
  /\ own' = own \ {b} /\ drawn' = None
  /\ UNCHANGED <<registryVars, deviceVars, dangling>>

\* update_uniform_cache() for the member: the uniform of the name, if it has
\* the type of the member; version 0 forces a copy.
LookedUp(k) ==
  LET found == global # None /\ matches
  IN  [k EXCEPT !.checked      = TRUE,
                !.uniform      = IF found THEN global ELSE None,
                !.last_version = IF found THEN 0 ELSE @]

\* ensure_uniform_cache(): another generation of the registry asks for a new
\* look-up; a cache of no entries is filled in any case.
Ensured(k) ==
  IF k.checked /\ k.generation = m_generation THEN k
  ELSE [LookedUp(k) EXCEPT !.generation = m_generation]

\* sync_from_globals(): copies the member if the uniform has another version.
Copies(k) == k.uniform # None /\ version[k.uniform] # k.last_version
Synced(k) ==
  IF Copies(k) THEN [k EXCEPT !.last_version = version[k.uniform],
                              !.version      = @ + 1]
  ELSE k

------------------------------------------------------------------------------
(* Recording and execution.                                                *)

\* Mutant: the buffer is written before the block is brought up to date.
UploadedEarly(b, k) ==
  IF buffer[b].version # block[b].version
  THEN [version |-> k.version, contents |-> block[b].version] ELSE buffer[b]

\* The mapped buffer is overwritten if its version is not that of the block.
Uploaded(b, k) ==
  IF buffer[b].version # k.version
  THEN [version |-> k.version, contents |-> k.version] ELSE buffer[b]

\* A draw with the block is recorded: bind_uniform_block() and its like.
RecordDraw(b) ==
  /\ frameCount < MaxFrames /\ Len(inFlight) < InFlight
  /\ block[b].version <= MaxVersion
  /\ LET cached == Ensured(block[b])
         synced == Synced(cached)
     IN /\ block' = [block EXCEPT ![b] = synced]
        /\ source' = IF Copies(cached)
                     THEN [source EXCEPT ![b] =
                             <<cached.uniform, version[cached.uniform]>>]
                     ELSE source
        /\ own' = IF Copies(cached) THEN own \ {b} ELSE own
        /\ dangling' = (dangling \/ cached.uniform \notin {None, global})
        /\ buffer' = [buffer EXCEPT ![b] = Uploaded(b, synced)]
        /\ batch' = {d \in batch : d.block # b}
                      \cup {[block |-> b, version |-> synced.version]}
  /\ drawn' = b
  /\ UNCHANGED <<registryVars, moved, inFlight, frameCount, older>>

\* The frame is submitted; InFlight bounds how many there are when the next
\* one is recorded.
SubmitFrame ==
  /\ batch # {}
  /\ inFlight' = Append(inFlight, batch) /\ batch' = {}
  /\ frameCount' = frameCount + 1 /\ drawn' = None
  /\ UNCHANGED <<registryVars, blockVars, buffer, older, dangling>>

\* The device executes a frame: its draws read what the buffers hold now.
ExecuteFrame ==
  /\ inFlight # <<>>
  /\ LET read == {d \in Head(inFlight) : d.version > 0 /\ d.block \notin moved}
     IN older' = (older \/ \E d \in read : buffer[d.block].contents < d.version)
  /\ inFlight' = Tail(inFlight) /\ drawn' = None
  /\ UNCHANGED <<registryVars, blockVars, buffer, batch, frameCount, dangling>>

Next ==
  \/ \E fits \in BOOLEAN : RegisterUniform(fits)
  \/ UnregisterUniform \/ Assign
  \/ \E b \in Blocks : SetData(b) \/ Recreate(b) \/ RecordDraw(b)
  \/ SubmitFrame \/ ExecuteFrame

Spec == Init /\ [][Next]_uniVars

------------------------------------------------------------------------------
(* Properties.                                                             *)

\* The uniform and the version of it whose value the member of a block has,
\* none if the program wrote it.
Value(b) == IF b \in own THEN <<None, 0>> ELSE source[b]

\* Whichever uniforms were destroyed and created under the name since, a block
\* has the current value of the registered one when a draw is recorded, if that
\* was ever assigned and has the type of the member, unless the program has
\* written over that very value: only then set_data() prevails, and only until
\* the global is assigned again.  The cached pointer to a destroyed uniform is
\* never used.
SyncedWithGlobal ==
  /\ ~dangling
  /\ drawn # None /\ global # None /\ matches /\ version[global] > 0 =>
       LET current == <<global, version[global]>>
       IN  Value(drawn) = current \/ (drawn \in own /\ source[drawn] = current)

\* A draw never reads older data than its block had when it was recorded (of a
\* block that was ever written and whose address no earlier block had).
NeverOlder == ~older
==============================================================================
