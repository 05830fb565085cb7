# mge: a TLA+ verification of the engine's control logic

This directory holds TLA+ models of the parts of mge ("Modern Game Engine")
whose correctness depends on order, exceptions, re-entrancy or concurrency, the
TLC configurations that check them on small instances, and theorems about them
for all instances, with proofs checked by TLAPS. `PROJECT.json` is the index:
components, runs, the mutants that show each property can fail, the source lines
every definition models, findings, hazards and theorems.

Paths below are relative to the C++ sources, `src/src/`.

    tlc -workers 2 -config Frames.cfg MCFrames.tla
    tlapm RenderContextProofs.tla

## 1. The system

mge is a C++ engine of libraries (`mge/core`, `application`, `graphics`, `asset`,
`input`, `reflection`, `script`, `ui`, ...) and modules loaded at run time
(`modules/vulkan`, `directx11`, `directx12`, `opengl`, `lua`, `python`, ...).

    application::main ── interaction loop ── input / update / present callbacks
            │                                     │  (callback_map)
            │                                     ▼
    configuration, modules              render_context::frame()
            │                              │            │
            ▼                              ▼            ▼
    component registry          prepare-frame actions   render(pass), on_frame_present
                                (shader, program, buffer)      (a backend module)
                                           ▲
                     handles ── render_context_registry

| Component | State | Operations | Interacts with | What is hard | What makes it correct |
|---|---|---|---|---|---|
| application, loops (`mge/application`) | quit flag, return code, stop cycle, accumulator | `main`, `initialize`, `run`, `input`, `update`, `present`, `set_quit` | callback maps, configuration, clock | exceptions of any stage, quit from anywhere, order of clock and input | a quit ends the loop in its cycle, no time is lost or simulated twice, configuration stored after complete runs only |
| callback map (`mge/core/callback_map.hpp`) | entries, delayed erases, the calling flag | `insert`, `erase`, `operator()`, `clear` | listeners that call back into it | re-entrancy, throwing listeners | nothing running is freed, erases take effect, an invocation calls what was there |
| render context (`mge/graphics/render_context`, `pass`, `command_buffer`) | passes, a command buffer per thread, actions, frame counter | `pass`, `command_buffer`, `draw`, `prepare_frame`, `frame` | backend, context objects, loop | `frame()` can be left by an exception in four places | draws are taken as one batch or not at all |
| context objects (`program`, `shader`, `index_buffer`, `vertex_buffer`) | initialized, ready and needs-link flags | `compile`, `set_code`, `set_shader`, `link`, `set_data`, `destroy` | register actions with raw pointers | flags tested at the call, changed when the action runs; objects destroyed meanwhile | flags tell the truth, data arrive, nothing freed is used |
| context registry, handles (`render_context.cpp`, `core/handle.hpp`) | vector of contexts, object slots | register, unregister, `get`, `destroy` | every handle | positions are used again | a handle finds its object and no other |
| Vulkan window context (`modules/vulkan/render_context`) | fences, semaphores, command buffers, swap chain | `render`, `on_frame_present`, `screenshot` | `frame()`, GPU, presentation engine | frames in flight, images in any order, failed acquisition | nothing in use is reused, no wait for ever |
| Vulkan render system, devices, contexts (`modules/vulkan`) | what exists on the device, functions resolved, contexts that hold the system | constructors, `teardown`, destructors | driver, windows, frames in flight | any call of a constructor throws | everything goes, children first, nothing while it is used |
| recording a pass (`modules/*/render_context*`) | state of the device, current scissor, is a second loop needed | `record_render_pass`, `render`, `draw_geometry` | passes, command buffers | state set and undone around draws, draws that throw, blended draws | each draw with the state recorded for it, each blended one once and after all opaque ones |
| uniform data (`uniform_block`, `uniform`, backends) | versions of uniforms, blocks and buffers, a look-up cache | assign, `sync_from_globals`, upload | recorded draws, frames in flight | pointers to uniforms that may be gone, versions that `set_data()` bypasses, one buffer for all frames | a draw reads no older data than recorded |
| descriptor sets (`modules/vulkan`) | map of sets, one pool | `get_or_create_descriptor_set`, bind | draws | the pool runs out, failures leave what was bound before | the set a draw reads is of its own block and textures |
| caches of pipelines, layouts, vertex arrays, state objects (backends) | maps, keyed by address, handle and state | look-up, creation on a miss | programs, buffers | addresses and handles that come back | what is found fits what is drawn |
| Direct3D 12 (`modules/directx12`) | draw state, fence value, one event, command lists | `render`, `on_frame_present`, `wait_for_command_queue`, transfers | `frame()`, GPU, threads that load | several waiting threads, timeout, targets in any order | allocators are reset only when executed, barriers fit the state of the buffers |
| Direct3D 11, OpenGL | immediate contexts | the same | `frame()` | little beyond the calls | as RenderContext |
| other graphics (textures, frame buffers, layouts, images, meshes, windows) | descriptions, handles | creation, access | contexts | close listeners | see callback map and registry |
| input (`mge/input`) | pressed keys, modifiers, handler maps | key and mouse events, add, remove | windows, listeners | releases that flip a modifier, keys that are lost, handler removed while called | the state follows the messages, but for what is known to be lost (section 5) |
| configuration (`mge/core/configuration`, `parameter`) | JSON settings, parameters, loaded and update flags | load, set, find, store, change handlers | all libraries | parameters of libraries loaded later, a file that is emptied before it is written | settings reach parameters, what was stored is read again |
| component registry (`mge/core/component`) | components, implementations, aliases, pending | register, unregister, create | modules | any order of registration, entries that go with their names | an implementation is found when both halves are there, none that is gone |
| assets (`mge/asset`) | mount table, handler tables | mount, umount, configure, resolve | configuration | configurations that fail half-way or find nothing, explicit mounts, prefixes | the table is that of one configuration, a path resolves to the longest mount point above it |
| singletons, libraries, modules (`mge/core`) | one pointer, a dictionary | first use, load, unload | everything static | first use by several threads, exit | one instance, each library loaded once |
| trace (`mge/core/trace_topic`) | levels, sinks of the global topic, two switches | configure, `enabled`, `set_level`, `add_sink` | configuration | levels and switches are fetched one by one, topics are configured when asked | a topic that is asked answers by the configuration |
| memory, caches, utilities (`mge/core`, `mge/math`) | memory resources, an unused `lru_cache` | allocate, put, get | everything | little beyond the standard library's containers | as their tests say |
| applications in Lua (`modules/lua`) | proxies, userdata, references in the registry of Lua | class call, `create_component`, method calls, `__gc`, closing | application, component registry, listeners | two kinds of owners, a collector that sees one of them | an application lives exactly as long as its last owner |
| reflection, binding of types, Python, Slang, ui, win32, glfw, assimp, stb_image, renderdoc | state of third-party libraries | binding, compilation, translation | engine API | ownership across languages | proxies live as long as their objects |

Not code the models are about: `cmake`, `docsrc`, `assets`, `tools`, tests. Tests
and manual were read for what they say of the program.

## 2. Modules and how they correspond to the code

| Module | Models | Kind |
|---|---|---|
| `RenderContext` | passes, command buffers, `frame()` | component |
| `FrameBatches` | what `frame()` promises of draws | abstract specification |
| `VulkanFrame` | synchronization of a Vulkan frame | component, details `RenderPass` and `Present` of RenderContext |
| `Dx12Frame` | fence, event, barriers and presents of Direct3D 12 | component, the same on another backend |
| `VulkanDevices` | construction and teardown on Vulkan | component |
| `MCFrames` | frames and what they run on: the four above that are components | composition, run `frames` |
| `ContextRegistry` | registry, handles | component |
| `IndexAllocator` | what the registry promises | abstract specification |
| `ContextObjects` | shaders, programs, buffers and the prepare phase of `frame()` | component, details RenderContext's prepare phase |
| `DrawLoops` | the loops over the draws of a pass, four backends | component, details one `RenderPass` |
| `UniformBlocks` | uniforms, blocks, their buffers, frames in flight | component |
| `DescriptorSets` | sets of a Vulkan context and their pool | component |
| `PipelineCaches` | caches under addresses and handles, four backends | component |
| `MCContext` | the six between here and `MCFrames` | composition, run `context` |
| `ApplicationLoop` | `main`, simple and fixed-step loop | component |
| `CallbackMap` | `callback_map` | component |
| `WindowInput` | messages of two platforms, keyboard, input handlers | component |
| `ComponentRegistry` | components, implementations, aliases | component |
| `SharedLibraries` | singleton, dictionary of libraries | component |
| `Configuration` | settings, files, parameters | component |
| `AssetMounts` | mount table | component |
| `LuaApplications` | ownership of applications written in Lua | component |
| `TraceTopics` | levels, switches and sinks of the trace | component |
| `MCApplication` | the nine between here and `MCContext` | composition, run `application` |
| `RenderContextProofs`, `VulkanFrameProofs`, `ContextRegistryProofs` | theorems about the module of that name | proofs |
| `LoopProofs` | theorems about `ApplicationLoop` and `CallbackMap` | proofs |
| `RuntimeProofs` | theorems about `SharedLibraries`, `Configuration`, `LuaApplications` | proofs |
| `ContextProofs` | theorems about `ContextObjects`, `DrawLoops`, `UniformBlocks`, `DescriptorSets`, `PipelineCaches`, as `MCContext` composes them | proofs |
| `FramesProofs` | theorems about `Dx12Frame` and `VulkanDevices`, as `MCFrames` composes them | proofs |
| `ApplicationProofs` | theorems about `WindowInput`, `ComponentRegistry`, `AssetMounts`, `TraceTopics`, as `MCApplication` composes them | proofs |

Names are the source's where TLA+ allows it: `m_active`, `m_delayed_erase`,
`m_frame_finished_fences` are the members of those names; an action has the name
of the function or of the step of it. Variables called *history* in the
declarations remember the past for properties; no guard reads them except to
count a bound. Definitions commented "Mutant" are plausible faults; no
specification uses them.

**Compositions.** The parts of a composition use each other through calls that
return, and share no state: `frame()` calls the backend, `main()` the
configuration. A product of their states would only multiply interleavings that
no property can tell apart, so a variable (`part`, `system`) says which part a
behaviour is about, and the others stay at rest. Where the order of two components
matters, one module has both: `Configuration` has the parameters of libraries
that load late, `AssetMounts` the notification of the parameter it listens to,
`LuaApplications` the stages of `main()`, `TraceTopics` the fetch of its
parameters, `VulkanFrame` and `Dx12Frame` the queue of the device.

**RenderContext.** One action per call of the application (`CreatePass`,
`TouchPass`, `ClearCommandBuffer`, `RecordDraw`, `RegisterAction`,
`SetScreenshotAtFrame`) and one per stretch of `frame()` between two points where
an exception can leave it (`PrepareDone`/`PrepareThrows`, `RenderPass`/`SkipPass`/
`RenderThrows`, `ResetPassesAndBuffers`, `Present`/`PresentThrows`). Only the
prepare phase has a handler in the code; the other exits leave what they find.
Recording happens between frames, as the manual prescribes; the command buffers
themselves are not locked.

**ContextObjects.** Calls register actions; the actions hold raw pointers, so an
object may be gone when they run (`RunOnFreedObject`, after which behaviour is
undefined and the model stops). `careless` remembers that a client destroyed an
object that an action or a program referred to; `NoFreedUse` is about clients that
do not. Compiling, linking and uploading may fail at any time, for reasons of the
device too (`RunCompileFails`, `RunLinkFails`, `RunSetDataFails`); a failure drops the
actions behind it, so `dropped` remembers whose data were lost, and `failedAgain`
which programs were linked before in the frame in which a link of them failed. Slots of
an object vector are never used again, so an object is its slot.

**ContextRegistry.** `gc()` is the relation `TrimsTo`, the vector without its
trailing nulls. `DropHandles` says that clients drop the handles of a context they
destroy; a kept handle resolves in the context that gets the index next, as the
documentation of handles allows.

**DrawLoops.** `device` is the state the next draw call uses. `Execute` is the body
of a loop with what the backend sets and undoes around it, `SecondLoop` the test
for blended draws, `DrawThrows` leaves the frame with the device as it is. Vulkan
and Direct3D 12 keep state in pipelines and repeat every draw in the second loop
(`Pipelined`, `Times`).

**UniformBlocks.** Versions stand for data. `RecordDraw` runs `sync_from_globals()`
and keeps the version in the batch, `SubmitFrame` copies into the one buffer of a
block, `ExecuteFrame` is the device reading it. `SetData` writes over what was copied
from a global and leaves the remembered version alone, so the program's data prevail
until the global is assigned again (`own`). `Recreate` gives the address of a
destroyed block to a new one; `Junk` is what nobody has written.

**DescriptorSets.** A draw finds its set, creates one while the pool has some, or
keeps what is bound. Sets are never dropped, `BeginCommandBuffer` unbinds.

**PipelineCaches.** A key is what the backend puts into it (`Key`), an entry
remembers what it was made of: with Direct3D 12 the vertex format too, which its key
leaves out (`formatsOf`). `RecreateProgram` and `RecreateBuffer` give an
address to a new object, with the old driver handle or another one.

**VulkanFrame.** The thread, the graphics queue (`RunBatch`) and the presentation
engine (`ImageAvailable`, `ShowImage`) run concurrently. The last two are
external, modelled by the synchronization the code asks them for. Assumption: the
presentation engine takes presentations in order and hands out an image only
when its presentation is over, that is, shown and replaced.

**VulkanDevices.** A step is a call of a constructor or of `teardown()`, on the
thread that renders. Owners are the system and its contexts; a context holds the
system. A call throws before it created anything (`ConstructorThrows`); `teardown()`
then finds what was created so far, and the functions of the device only after
they are resolved, which is why they count as an object. `DestroyContext` waits for
the device, which is what a batch in `rendering` is about. What clients create in
a context is the subject of `ContextRegistry` and not of this module. No code
destroys pipelines, nor the staging buffer of an upload that failed:
`NothingLeaked` is about everything else.

**Dx12Frame.** `wait_for_command_queue()` is `Signal`, `Check`, `Wake` or `TimeOut`,
and `ResetEvent`; other threads come in through `Copy`. `Device` executes the
queue and sets the event for the values armed. The state of each back buffer is
that of the Direct3D resource.

**ApplicationLoop.** `pc` is the stage of `main` or the phase of a cycle. Both
loops share the actions whose code they share. The clock ticks at any point, a
listener or thread sets the quit flag at any point, every stage may throw.

**CallbackMap.** `stack` holds the running invocations; `MaxDepth = 1` means that
no listener invokes the map that calls it.

**WindowInput.** A message queues the calls it makes (`calls`), each updates the
keyboard and then runs handlers one by one (`BeginCall`, `HandlerReturns`), in the
middle of which handlers are added and removed. GLFW releases keys when the
window loses the focus, Windows does not; both shift keys are one modifier.

**ComponentRegistry.** `Put` is what registration does when both halves are there,
`Creates(c, n)` what `create()` finds. Static entries register once, dynamic ones
also unregister and are destroyed, in one step or in two. The maps are keyed by
the text of the first entry of a component (`keyOf`), which nothing erases: once that
entry is destroyed (`KeysExist` is false) any search is undefined and the model
stops. `Only` keeps the entries of a vector that a loop looks for, in
their order; where several entries write one name, the last one in that order
stays.

**SharedLibraries.** `ptr()` of the singleton is `HasInstance`, `NoInstance` and
`Exchange` (construct, compare and exchange, delete the loser's object); `load()`
is `Get`, `Open` or `OpenFails`, `TryPut`. After the static destructor `ptr()`
crashes instead of creating a second instance.

**Configuration.** A setting is absent, null, a value, or one the parameter's type
refuses. `Fetch` hands settings to parameters in the order of their paths and ends the
process (`alive`) at a refused one, as the exception does; `Find` is the lazy fetch of
all after a registration, `Written` what `store()` makes of a parameter. `Load` looks
for the file of the executable's name in `config/` and then in the current directory,
or for the one that `--config-name` names; `store()` always writes that in the current
directory, which it empties first (`StoreBegins`) and then writes, unless that fails
(`StoreEnds`). A process may end between the two, and the next one cannot read the
file (`LoadFails`). `Restart` begins another process, wherever the last one was, with
the files as they are.

**AssetMounts.** `Configure` is one action, as it holds the lock: it builds the new
table and swaps it in, or throws, also when the parameter has no value
(`ConfigureUnset`). A source that is there with the same type and properties is taken
over with its old mode (`Kept`, `retained`). Paths are sequences of names in lexicographic
order, the order in which `std::map` keeps `std::filesystem::path`.

**LuaApplications.** `Own` is the one operator that changes owners: what is left
decides who is destroyed and what the registry gets back. `Collect` may run when
nothing of Lua's own refers to a userdata. `main()` is called by a script, so the
state of Lua outlives it; `CloseState` ends it.

**TraceTopics.** `Enabled` is what `enabled()` leaves when it was asked: the first
question of a topic configures it, and any question looks at the switches.
`FetchAll` goes over the parameters in the order of their paths, so the levels of
MGE come before the switches. The other topics come before MGE, and the fetch of one
changes only what is its own: `FetchOthers` fetches them in one go. `toPrint` remembers
that MGE was to print at some time: nothing removes the sink for stdout again.

## 3. What the runs check

| Run | Bounds | Shows |
|---|---|---|
| `frames` | 2 threads, 2 passes, 2 draws, 1 action, 1 exception of each phase, frame counter to 2; 3 images, 6 frames; 5 fence values; a window of 2 images, a headless context, 2 blocks | a waiting draw has an active pass, none is lost or executed twice without an aborted frame, wiped draws are not presented, `frame()` refines `FrameBatches`, every draw is handled in the end; command buffers, semaphores and allocators are idle when used, images are held, barriers fit, frames return; what a constructor created is taken down in order wherever it threw |
| `context` | 3 contexts in a vector of 3, 2 objects; 2 shaders of which one set links, 1 program, 1 buffer, 2 actions; 2 draws in 2 frames on 4 backends; 2 uniforms of a name, 2 versions, 2 frames in flight, 3 frames; a pool of 3 sets, 3 draws; 2 things of each kind at one address | a handle finds its object, the registry refines `IndexAllocator`, so a live context keeps its index; no freed memory is used by careful clients, flags of programs and shaders are current, the last data win; draws have their own state, and each blended one is executed once, after all opaque ones; data are in step with uniforms and never older; sets and pipelines fit the draw |
| `application` | 4 ticks, steps of 2, at most 3 a frame, 3 cycles; 4 callbacks without nesting; 3 handlers, both platforms; 4 entries of 2 components; 2 threads, 2 names of a library; 2 parameters, 1 value of the program, 2 settings of the command line; 5 repositories; 3 applications; 1 topic and MGE, 3 sinks | a quit ends the loop in its cycle, storing means complete, no time is lost, the loop ends in time; nothing running is freed, erases take effect, an invocation calls what was there; the keyboard follows the keys, handlers run in order; names lead to entries; libraries are loaded once; settings reach parameters and outlive the process; mounts are of one configuration; applications live with their owners; topics follow the configuration |
| `context_objects_link` | 3 actions, every set links | *violated*: finding 1 |
| `opengl_culling` | 2 draws, 1 frame | *violated*: finding 2 |
| `dx12_pipelines` | 1 program, 2 links | *violated*: finding 3 |
| `callback_map_nested` | 3 keys, depth 2 | *violated*: finding 4 |
| `loop_fixed_time` | 6 ticks | *violated*: finding 5 |
| `vulkan_screenshot` | 3 images, 4 frames | *violated*: finding 6 |
| `dx12_wait` | one loading thread, no time-out | *violated*: finding 7 |
| `assets_prefix` | as `application`, 1 application | *violated*: finding 8 |
| `lua_self` | 1 application | *violated*: finding 9 |

**Why the bounds are enough.** A property about draws needs two threads (the buffers
are cleared together), two passes (one rendered before the other throws) and two draws
(one of each); one exception of each kind followed by a complete frame shows what a
retry does. The frame counter stays at its bound 2 once it is there; a screenshot is
asked for frame 1 or none, so that the bound repeats no screenshot. Six frames over
three images use each slot and each image at least twice, so fences of two rounds
meet; five waits reset each Direct3D 12 allocator twice. Two images are enough for
objects created in pairs, of which only the first exists when a call throws; two
contexts share the system, one of each kind. In the registry a hole below the last
entry, a trim over two entries and a re-used index need three places; the branch of a
full vector takes a fourth context, is not reached here and is in the proof. Two draws
of every kind show every change of state between neighbours; a second frame shows what
the first left behind, complete or not. Two uniforms of one name are the one a block
knows and the one that replaced it; three frames with two in flight overwrite a buffer
that is being read. Three sets and three draws let the pool run out, then draw once
more. One address suffices for an address that comes back. Four ticks let a frame be
shorter than a step, exactly one, and longer than the cap. Four callbacks are one
before, one at, one behind the invocation's place, and one inserted. Of the four
implementations one has the same name as another and aliases overlap, with each other
and with names. Two threads and two names of one file meet in every step of loading.
Two parameters differ in having a default and in their order; the program gives them
one of the two values, the command line the other one or one that is refused; files
have every setting, `null` and none included. The five repositories fail
before, in the middle and never. Three applications are one of the script, one of
`main()`, and one after them. The theorems of section 4 remove the bounds for what
they state.

**Fairness.** `FramesSpec` has weak fairness of: `FrameBegin` and `Frame` (the
application's loop calls `frame()` for ever, and it runs on, as
`interaction_loop` does; nothing is assumed of recording or clearing), `Thread`
(the thread that renders goes on when it is not waiting), `RunBatch`,
`ImageAvailable` and `ShowImage` (device and presentation engine work off what
they have, as their interfaces promise). `ApplicationSpec` has weak fairness of
`MainThread` in the part of the loop: the thread of `main()` is scheduled; clock,
listeners and exceptions are free. No fairness is assumed of clients, of failures
or of other threads, and none is strong. Deadlock is not checked: each model may stop
at a bound, at the end of `main`, after a crash or where behaviour becomes
undefined.

## 4. What is proved

All theorems are about the specification of their module or of the composition it
is part of, for every value of the constants that the named assumptions allow.

| Module | Theorems |
|---|---|
| `RenderContextProofs` | `TypeCorrect`, `PendingActive`, `DrawsKept`, `OncePerAttempt`, `WipedStaysUnseen`, `FrameIsBatch` (refinement of `FrameBatches`) |
| `ContextRegistryProofs` | `TypeCorrect`, `Registered`, `HandlesFollow` (assumes `DropHandles`), `RegistryAllocates` (refinement of `IndexAllocator`) |
| `VulkanFrameProofs` | `TypeCorrect`, `AcquireIdle`, `SubmitIdle`, `SlotSemaphoresIdle`, `Held`, `BufferIdle` |
| `FramesProofs` | `BackBufferBarriersFit`; `AllocatorsAreIdle`, assuming that no other thread transfers data (`Loaders = {}`: finding 7 is what happens with them); `TeardownInOrder` |
| `ContextProofs` | `CarefulClientsAreSafe`, `ObjectFlagsAreCurrent`, `BuffersHoldLastData`; `DrawsHaveOwnState`, `BlendedDrawsComeLast` (each for what the backend keeps of it: see the statement); `BlocksFollowGlobals`, `DrawsReadNoOlderData`; `SetsBindOwnBlock`; `CachedPipelinesFit` |
| `LoopProofs` | `LoopTypeCorrect`, `QuitEnds`, `StopsAt`, `StoredComplete`, `TimeKept`, `NoStepLeft`; `MapTypeCorrect`, `RunningKept`, `ErasesApplied`, `CallsAll`, the last four assuming `MaxDepth = 1` |
| `RuntimeProofs` | `Loaded`, assuming finitely many threads and names and that the null pointer is no thread (`Assumed`); `SettingsReach`, `Restored`; `Owned`, assuming `MaxApps \in Nat` |
| `ApplicationProofs` | `TableIsOneConfiguration`; `CallsReachHandlersInOrder`, `KeyboardFollowsKeys`; `NamesOutliveEntries`; `LevelsFollowSettings` |

The assumptions on constants are named in the modules that declare them: bounds are
numbers, backends are the four there are (`LoopsAssumption`, `CachesAssumption`),
addresses are numbered so that a new handle can be told from them
(`CachesAssumption`), an entry is of one component (`RegistryAssumption`), the
system is no context and a swap chain has an image (`DevicesAssumption`), a program
gives parameters values of their type and a command line gives settings
(`ProgramAssumption`), and parameters have different names (`TraceAssumption`).

The inductive invariants, each a conjunction of named parts:

* *RenderContext*: every draw has one place and an identifier below the counter
  (`IdsUnique`), its pass is active (`WaitingActive`), and while `frame()` renders the
  draws of the passes behind it have been executed (`RenderProgress`). `NoDrawLost`
  alone is not inductive: the buffers are emptied when every pass was looked at, and
  only an active pass that was looked at was executed. Refinement: a step that empties
  the buffers maps to `CompleteBatch` or, for one thread before a frame, to `Wipe`;
  every other step of `frame()` stutters. For `OncePerAttempt` and `WipedStaysUnseen`
  (`OnceInv`) a waiting draw was executed at most once for each frame that `render()`
  aborted, and once more when this frame is past its pass (`WaitingNotDone`);
  screenshots are counted against the presents that failed (`ShotsCounted`), and what
  is to be presented was executed (`PresentedExecuted`).
* *ContextRegistry*: every entry of the vector is null or a live context at its
  own index, and every live context is such an entry (`Entries`). "A live
  context is found at its index" alone does not survive trimming, because
  nothing says that the entries trimmed are null. A
  slot is destroyed exactly if `destroy()` was called on its handle, as long as
  clients drop handles (`Slots`).
* *VulkanFrame*: a signaled fence means that no batch of its slot is in the queue and
  its acquire semaphore is idle (`FenceGuards`, `SlotFree`); a batch that is not done
  waits to be presented (`BatchesToPresent`); waiting presentations are of different
  images (`ImagesDiffer`) and of consecutive slots that end just before the current
  one (`SlotsInOrder`); a `render_finished` semaphore in use belongs to one of them
  (`SignalsToPresent`). No fence protects the `render_finished` semaphore: lemma
  `FewPresents` shows by counting images that fewer presentations wait than there are
  images while one is acquired, so none is of the current slot.
* *CallbackMap*: without nesting the flag is set exactly while an invocation
  runs, its place is in the map, and what it called is what it started with up
  to its place.
* *ApplicationLoop*: as many cycles as presents before the current one, the loop
  is left only by a quit, the last cycle sets the flag, and simulated time,
  remainder and time since the last look add up.
* *SharedLibraries* (`LibInv`): the count of a file is the number of its entries in
  dictionaries plus the threads that carry a handle (`LibrariesBalanced`), where a
  thread stands tells whether it carries one (`InPlace`), and until the destructor
  runs only the dictionary of the instance has entries (`Shared`). `LoadedOnce` speaks
  of the entries alone, which a thread between `open` and `try_put` would break.
* *Configuration* (`ConfigInv`): a parameter the program left alone has its
  setting unless it came after the last fetch (`Settled`), or nothing if there is
  no key (`Untouched`), and a registration leaves a mark (`Marked`): without the last
  part a fetch could be omitted. For `Restored`, `Preserved` says where what was
  stored is at present: in the file, and in the settings once it was read and as
  long as the process has not changed them; and `Collected`, that between its steps
  `store()` has in the settings what it should preserve, of registered parameters and
  of others.
* *LuaApplications* (`OwnerInv`): the application that exists is exactly the one
  `main()` or a userdata owns (`OneOwned`), only it has listeners (`Silent`), and
  the registry holds the class, two references of its context and one for each
  listener (`LuaBalanced`).
* *ContextObjects* (`ObjectsInv`): what waiting actions point to was named since the
  last frame (`NamedByActions`) and lives while clients are careful, as does what a
  live program has attached (`CarefulKeepsAlive`): `NoFreedUse` says nothing of
  actions that have not run. `LinkedIsCurrent` alone is not inductive: a link that waits
  is one of a program that needs it, or the second of a frame (`LinksWaiting`), and only
  the failure of such a second one leaves `m_needs_link` as the first one left it. The
  data last given are in the buffer or in the last action waiting for it, unless an
  upload was lost (`DataOnTheWay`).
* *DrawLoops* (`LoopsInv`): between two draws the device is in the state the loop
  takes for granted, unless a draw has thrown (`DeviceFollows`); every call made had
  the state of its draw (`CallsHaveState`); and how often each loop has executed which
  draw, in which order (`Progress`). The last part is what makes `BlendedOverOpaque`
  inductive: the second loop starts when all opaque draws have been executed.
* *UniformBlocks* (`UniformsInv`): a block looked up in this generation has the uniform
  that is registered now, and what it remembers to have copied it has copied
  (`Remembering`); no buffer is ahead of its block (`BufferFollows`), no draw that was
  recorded or is in flight ahead of the buffer (`DrawsFollow`).
* *DescriptorSets* (`SetsInv`): the map leads into the pool, to a set with the block
  of its key (`Leads`).
* *PipelineCaches* (`CachesInv`): each backend's entries agree with the thing that has
  the handle or address now, or it is on record that the handle was given twice, the
  program linked twice, or the key drawn with another format (`EntriesFit`); no two
  things have one handle (`HandlesApart`).
* *Dx12Frame*: the list has a barrier exactly when the frame draws into the back
  buffer (`ListFollowsState`), and between two commands of the queue all buffers are
  ready to be presented (`BackBuffersPresentable`). For the allocators, until a wait
  gave up: while the thread waits, its signal is the only one and the last
  command of the queue, or it has been reached and the queue is empty
  (`WaitProgress`); so the thread wakes to an empty queue.
* *VulkanDevices* (`DevicesInv`): what an owner has fits where it stands (`Fits`). Each
  constructor is a concatenation of sequences of which every object comes after
  those it is created from (lemmas `Built...`), and `teardown()` destroys every kind
  it knows before its parents (`TearsDown`); what is left after either is closed
  under parents wherever it stopped.
* *WindowInput*: for the order of handlers (`HandlersInv`) keys of handlers are below
  the next one and the one that runs is remembered. For the keyboard (`KeysInv`) the
  state and the calls still to come give the keys that are down (`GlfwFollows`,
  `Win32Follows`); on Windows only up to shift and what the losses of focus cost.
* *AssetMounts*: `OneConfiguration` is inductive as it stands, with what was taken over
  (`retained`) as part of the state.
* *ComponentRegistry* (`RegistryInv`): what a name leads to was registered for it
  (`NamesFit`), an alias leads to a name (`AliasesResolve`), and a name nobody else
  has is not taken away (`OwnNameStays`); and the key of a component is that of an
  entry which existed, so that only a dynamic entry takes it away. Lemmas say what
  `Only` keeps and what a registration writes.
* *TraceTopics* (`TraceInv`): values follow their settings but for topics that are
  new or gone (`Differing`), and levels follow the values (`LevelsSet`), those of MGE
  and its sinks only while it is configured; it is configured only once the
  switches have their handlers, so no change of them goes unnoticed. For the sinks
  `PrintInv` says besides that what prints, or is about to, was to print at some time.

`StopsAt` and `NoStepLeft` state that the loop respects the parameter `stop_at_cycle`
and that less than a step remains after `update()`; the runs do not repeat them, nor
`RegisteredWhileLive` of `ContextRegistry` (theorem `Registered`), which follows from
its refinement. The theorem `Registered` also covers the crash at a full vector of
contexts.

**Only model-checked.** Everything about liveness (`EveryDrawHandled`,
`StopsEventually`, `FrameReturns`), which is out of reach of TLAPS. The allocators
of Direct3D 12 with other threads that transfer data, and callbacks that invoke
the map they are called from: there the properties do not hold (findings 7 and 4).
Every other property that a run expects to hold is stated by a theorem.

## 5. Findings

Nine runs end in a counterexample to what the code, its comments or the manual say;
`PROJECT.json` quotes the lines.

1. `program::link()` tests `m_needs_link` when called, `set_shader()` sets it when
   its action runs: after a first link, `set_shader(); link();` in one frame
   leaves the program unlinked (`context_objects_link`).
2. OpenGL draws a blended draw that does not write depth without culling, and
   leaves culling on for the next after one that does (`opengl_culling`).
3. A Direct3D 12 program that is linked again is drawn with its first pipeline
   (`dx12_pipelines`).
4. A nested invocation resets `m_calling`; the outer loop then iterates over a map
   that accepts insertions and immediate erasures (`callback_map_nested`).
5. The fixed-step loop measures every frame from the start of `run()`
   (`loop_fixed_time`).
6. Vulkan `screenshot()` runs before the frame's commands are submitted
   (`vulkan_screenshot`).
7. Two threads wait for the Direct3D 12 queue with one event: one wakes the other
   before its fence is reached (`dx12_wait`).
8. `mount_table::resolve()` takes the mount point before a path in the order of
   paths, which need not be a prefix (`assets_prefix`).
9. Methods of an application in Lua that only `application::main()` owns get nil as
   self after a collection (`lua_self`).

Seen while reading, and without a run of its own because one look at the code
settles it. The first ten are in the models, and the properties say what holds
besides:

* `program.cpp:44`: two `link()` calls in one frame queue two actions; when the
  second one fails (a Vulkan call or the reflection, `vulkan/program.cpp:103,124`),
  `m_needs_link` stays false although `on_link` has dropped what was linked, against
  `program.hpp:121` "Return whether this program needs the link step". The data of
  an upload that fails (`vulkan/vertex_buffer.cpp:57`, a time-out of the Direct3D 12
  transfer) are lost; nobody tries again.
* The second loop of Vulkan (`render_context_base.cpp:615`) and of Direct3D 12
  (`render_context_base.cpp:881`) executes all draws of the pass, so opaque draws are
  drawn again, over the blended ones recorded before them. Direct3D 11 and OpenGL
  leave them out. Direct3D 11 ignores the depth function of a draw that writes depth
  (`render_context_base.cpp:351`).
* `uniform_block.cpp:96`: `set_data()` over a member that follows a global uniform
  leaves the remembered version alone, so `sync_from_globals()` (195) skips the member
  until the global is assigned again, against `uniform.hpp:15`, where globals are
  "automatically bound" and consistent for all shaders.
* The key of a Direct3D 12 pipeline (`render_context_base.cpp:1068`) lacks the vertex
  layout, which goes into the pipeline (1087): a program drawn with buffers of two
  layouts uses the pipeline of the first for both.
* The maps of the component registry (`component.cpp:23`) are keyed by string views of
  the first entry of a component. Nothing erases the key, so once that entry was a
  dynamic one and is destroyed (`component.hpp:278`) every search compares with text
  that is gone.
* `configuration.cpp:271`: `store()` empties the file before it writes it. A crash
  between, a write that fails or `dump()` that throws leaves a file which the next
  `load()` refuses (198), and the program does not start. With `--config-name`
  (`application.cpp:190`) `load()` reads another file than `store()` writes (266), so
  what is stored is not what the next start reads.
* `configuration.cpp:110`: the fetch after a late registration also fetches the
  parameters the program has changed since, whose changes are lost.
* `docsrc/manual/asset/loadingstoring.rst` against `asset.cpp`: "Modified mount points
  are remounted with new settings" (101), but one of which only the mode was changed
  keeps the old (197); repositories "are automatically mounted at application startup"
  (378), but a parameter that was fetched before the first use of the table configures
  nothing; programmatic mounts "persist until explicitly unmounted" (386), but
  `configure()` replaces the whole table (218). A parameter without a value, null in
  the file for example, makes `configure()` throw (150).
* Once `print_to_stdout` (`trace_topic.cpp:22`, "Whether all trace shall be printed to
  stdout") was on when MGE was configured, its sink stays when the parameter is
  switched off (168).
* Both keys of a modifier down, one released: `release()` flips the modifier
  (`keyboard_state.cpp:55`) and it is gone; the release of the other sets it although
  none is down. On Windows the shift keys are unknown keys, and keys that are down
  when the focus is lost stay down.
* `docsrc/manual/core/tracing.rst:28` names the variable `MGE_ENABLE_TRACE` and the
  value 1; the code reads `MGE_TRACE_ENABLED` with any value (`trace_topic.cpp:90`).
* `asset.cpp:208`: sources mounted by `configure()` are not told their mode with
  `set_mode()`, as `mount()` tells them.
* `invocation_context.hpp:34` documents an exception for calls that fail; none is
  thrown.
* An exception that leaves `main()` skips `clear_listeners()`: a listener that
  refers to its application keeps it alive, and the next application is refused.
* `application::argv(index)` accepts `index == size` (`application.cpp:98`).
* Vulkan: pipelines are never destroyed; uploads and screenshots that throw leave
  staging and command buffers behind; constructors of textures and frame buffers
  that throw leave what they made. The flag of the shader compiler is static, so a
  second render system whose constructor fails finalizes the compiler of the first.
  `render_system.hpp:60` says that the destructor of the system stops recording of
  frames; it is the window context's that does, and no headless context ends a capture.
* In the trace: the default memory sink has capacity 0 and keeps nothing; publishing
  on MGE sends twice; a sink added to MGE makes each later configuration append
  another sink for stdout; MGE itself, when asked, may answer by levels from before.
* `small_vector`, which no other code uses: an insertion in the middle
  overwrites one element without moving the others; after `pop_back()` to no
  elements `empty()` is still false; resizing one
  that still fits into its local part from a smaller size reads past the end.
* Handles of a destroyed context resolve in a context created later, and a context
  always created before the old one is destroyed climbs to the end of the index
  range: both follow from `ContextRegistry`, neither is excluded by the documentation.

## 6. What is not modelled, and why

* Data races on unlocked structures (`render_context_registry::get`, command
  buffers recorded while `frame()` runs, `trace_topic::enabled` on two threads):
  the code states no more than the contract that avoids them; a model would restate
  that the lock is missing.
* What happens after undefined behaviour: the models stop there.
* Layout of images, pixel and vertex formats, mathematics, parsing and text: data
  that no property here tells apart. So are the names of Direct3D messages, the
  tables of formats, the templates that bind C++ types to scripts and the wrapper
  of the user interface, which make up most of the lines of the repository and have
  no state over several steps.
* Calls of third-party libraries without state of the engine's own: the front end of
  the shader compiler, readers of assets and images, the frame debugger, reflection
  of linked programs.
* Construction and teardown of native windows and on Direct3D and OpenGL: reference
  counts of the driver's interfaces, and straight lines of calls.
* Memory resources: allocation as such is out of reach; `lru_cache` and `small_vector`
  are used by nothing but their tests. The components of section 1
  without a module are listed in `PROJECT.json` with the reason.

## 7. Plan

What is worth doing next, in this order; each module with invariants in named parts,
constants with assumptions, no recursive operators.

1. More about what is proved: that `DrawLoops`, `Dx12Frame` and `VulkanFrame` carry
   out what `RenderContext` leaves to a backend, as refinements; types of the parts of
   `MCContext` and `MCApplication` as theorems of their own.
2. Stages of a program on each backend (`program.cpp` of the modules): what is
   reflected, when stages of an earlier link go, uniform buffers found by block
   index; it joins `ContextObjects` and `PipelineCaches`.
3. An abstract registry for `ComponentRegistry` that knows the two halves, and its
   refinement.
4. Applications written in Python, whose proxies are owned by reference counts.
5. Asset handlers: the refinement of types and the order in which they are asked.
