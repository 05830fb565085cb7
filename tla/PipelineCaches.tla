---------------------------- MODULE PipelineCaches ----------------------------
(***************************************************************************)
(* The caches in which the backends keep what a draw is executed with: the *)
(* pipelines of Vulkan and Direct3D 12, the input layouts and the state    *)
(* objects of Direct3D 11, the vertex arrays of OpenGL.  Keys name things  *)
(* by address or handle, which may come back after the thing is gone; only *)
(* Direct3D 12 drops entries, when a program is destroyed.                 *)
(***************************************************************************)
EXTENDS Naturals, FiniteSets, Functions

CONSTANTS
  CacheBackends,     \* the backends the program may use
  Programs, Buffers, \* addresses of programs and vertex buffers, from 1
  Formats, Targets,  \* vertex layouts; render passes or formats of targets
  MaxThings, MaxEntries  \* bounds: shaders and handles created after the
                         \* first ones, entries of the cache

\* Pipeline states in the order of their bits: below the default one, such as
\* the default without depth write, and not below it.
DefaultState == 1
States == {0, 1}

VARIABLES
  api,
  linked,     \* program -> its shaders, and the handle they are known by: the
              \* pipeline layout of Vulkan, the shader code of Direct3D 11
  vertices,   \* vertex buffer -> its format and its handle
  cache,      \* key -> what the entry was made of
  things,     \* shaders and handles created so far
  reused,     \* history: handles given to a second thing
  relinked,   \* history: programs linked again since they were created
  formatsOf,  \* history: keys of Direct3D 12 with the formats they were drawn
              \* with since their program was created
  drawn       \* history: what the last draw was given, and what it got

cacheVars == <<api, linked, vertices, cache, things, reused, relinked,
               formatsOf, drawn>>

NoDraw == <<>>

\* A number no shader and no handle has had.
Fresh == things + 1 + Cardinality(Programs \cup Buffers)

Init ==
  /\ api \in CacheBackends
  /\ linked = [p \in Programs |-> [shaders |-> p, handle |-> p]]
  /\ \E f \in Formats :
       vertices = [v \in Buffers |-> [format |-> f, handle |-> v]]
  /\ cache = [k \in {} |-> NoDraw]
  /\ things = 0 /\ reused = {} /\ relinked = {} /\ formatsOf = {}
  /\ drawn = NoDraw

------------------------------------------------------------------------------
(* Programs and buffers between draws.                                     *)

\* on_link() again: the old layout and the old code are still there, so the new
\* ones have other handles.
LinkAgain(p) ==
  /\ things < MaxThings
  /\ things' = things + 1 /\ relinked' = relinked \cup {p} /\ drawn' = NoDraw
  /\ linked' = [linked EXCEPT ![p] = [shaders |-> Fresh, handle |-> Fresh]]
  /\ UNCHANGED <<api, vertices, cache, reused, formatsOf>>

\* remove_pipeline_state(): from the key of the default state on.
Removable(p, key) == api = "dx12" /\ key[1] = p /\ key[2] >= DefaultState

\* Mutant: the destructor of a program removes nothing.
KeptByDestructor(p) == cache
RemovedByDestructor(p) ==
  Restrict(cache, {k \in DOMAIN cache : ~Removable(p, k)})

\* A program is destroyed, and another one created at its address and linked;
\* it may get the handle of the old one.
RecreateProgram(p, again) ==
  /\ things < MaxThings
  /\ things' = things + 1 /\ drawn' = NoDraw
  /\ linked' = [linked EXCEPT ![p] = [shaders |-> Fresh,
                  handle |-> IF again THEN @.handle ELSE Fresh]]
  /\ reused' = IF again THEN reused \cup {<<"program", linked[p].handle>>} ELSE reused
  /\ cache' = RemovedByDestructor(p) /\ relinked' = relinked \ {p}
  /\ formatsOf' = {u \in formatsOf : u.key[1] # p}
  /\ UNCHANGED <<api, vertices>>

RecreateBuffer(v, format, again) ==
  /\ things < MaxThings
  /\ things' = things + 1 /\ drawn' = NoDraw
  /\ vertices' = [vertices EXCEPT ![v] = [format |-> format,
                    handle |-> IF again THEN @.handle ELSE Fresh]]
  /\ reused' = IF again THEN reused \cup {<<"buffer", vertices[v].handle>>} ELSE reused
  /\ UNCHANGED <<api, linked, cache, relinked, formatsOf>>

------------------------------------------------------------------------------
(* A draw.                                                                 *)

Made(p, v, s, t) ==
  [shaders |-> linked[p].shaders, format |-> vertices[v].format, state |-> s,
   target |-> t]

VulkanKey(p, v, s, t) == <<vertices[v].handle, linked[p].handle, s, t>>

\* The input layout of the buffer goes into the pipeline, but not into the key.
Dx12Key(p, v, s, t) == <<p, s, t>>

\* An input layout is found by vertex layout and code, the state objects by the
\* state; the target is set apart.
Dx11Key(p, v, s, t) == <<vertices[v].format, linked[p].handle, s>>

\* A vertex array is found by the names of its buffers.
OpenglKey(p, v, s, t) == <<vertices[v].handle>>

Key(p, v, s, t) == CASE api = "vulkan" -> VulkanKey(p, v, s, t)
                     [] api = "dx12"   -> Dx12Key(p, v, s, t)
                     [] api = "dx11"   -> Dx11Key(p, v, s, t)
                     [] api = "opengl" -> OpenglKey(p, v, s, t)

DrawWith(p, v, s, t) ==
  LET key == Key(p, v, s, t)
      new == Made(p, v, s, t)
  IN  /\ key \in DOMAIN cache \/ Cardinality(DOMAIN cache) < MaxEntries
      /\ cache' = IF key \in DOMAIN cache THEN cache
                  ELSE [k \in DOMAIN cache \cup {key} |->
                          IF k = key THEN new ELSE cache[k]]
      /\ drawn' = [program |-> p, buffer |-> v, given |-> new,
                   got |-> cache'[key]]
      /\ formatsOf' = IF api = "dx12"
                      THEN formatsOf \cup {[key |-> key, format |-> new.format]}
                      ELSE formatsOf
      /\ UNCHANGED <<api, linked, vertices, things, reused, relinked>>

Next ==
  \/ \E p \in Programs : LinkAgain(p)
  \/ \E p \in Programs, again \in BOOLEAN : RecreateProgram(p, again)
  \/ \E v \in Buffers, f \in Formats, again \in BOOLEAN :
       RecreateBuffer(v, f, again)
  \/ \E p \in Programs, v \in Buffers, s \in States, t \in Targets :
       DrawWith(p, v, s, t)

Spec == Init /\ [][Next]_cacheVars

------------------------------------------------------------------------------
(* Properties.                                                             *)

\* What an entry of the cache was made of.
MadeFor == CASE api = "vulkan" -> {"shaders", "format", "state", "target"}
             [] api = "dx12"   -> {"shaders", "format", "state", "target"}
             [] api = "dx11"   -> {"shaders", "format", "state"}
             [] api = "opengl" -> {"format"}

\* Where an entry may be that of another.  A handle was given out twice.  A
\* Direct3D 12 program was linked twice, has been drawn with two formats, or
\* has a pipeline state below the one its destructor begins with.
Stale(f) ==
  LET p   == drawn.program
      new == drawn.given
  IN  IF api = "dx12"
      THEN \/ f = "shaders" /\ p \in relinked
           \/ f = "format" /\ \E u \in formatsOf :
                u.key = <<p, new.state, new.target>> /\ u.format # new.format
           \/ f \in {"shaders", "format"} /\ new.state < DefaultState
      ELSE \/ f = "shaders" /\ <<"program", linked[p].handle>> \in reused
           \/ f = "format" /\ <<"buffer", vertices[drawn.buffer].handle>> \in reused

\* What a draw finds in a cache was made for its pipeline state, its target,
\* its shaders and its vertex format, all that the entry depends on, whichever
\* programs and buffers were linked, destroyed and created before; the
\* exceptions are those of Stale.
PipelineFits ==
  drawn # NoDraw =>
    \A f \in MadeFor : drawn.got[f] = drawn.given[f] \/ Stale(f)

\* command_buffer.hpp:186 calls the argument of draw() the "program to use for
\* drawing": a draw is executed with the shaders of its program.
DrawnWithProgram == drawn # NoDraw => drawn.got.shaders = drawn.given.shaders
==============================================================================
