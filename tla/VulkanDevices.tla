----------------------------- MODULE VulkanDevices -----------------------------
(***************************************************************************)
(* What the Vulkan render system and its contexts create on the device,    *)
(* and take down again: in a constructor any call may throw, and what was  *)
(* created so far is taken down by the function the destructor uses, too.  *)
(* Constructors and destructors run to their end on the thread that        *)
(* renders; each step is a call of theirs.                                 *)
(***************************************************************************)
EXTENDS Naturals, Sequences

CONSTANTS
  Windows, Headless,   \* contexts that may be created
  SwapImages,          \* images of a swap chain
  Blocks               \* uniform blocks that a draw may use

Contexts == Windows \cup Headless
System == "system"
Owners == Contexts \cup {System}

VARIABLES
  life,      \* owner -> "none", "constructor", "ready", "teardown" or "gone"
  at,        \* owner -> the next call of its constructor or of its teardown
  alive,     \* owner -> its objects on the device, each <<kind, number>>
  held,      \* does the program hold the render system?
  rendering  \* contexts with a batch that is not done

deviceVars == <<life, at, alive, held, rendering>>

------------------------------------------------------------------------------
(* Constructors: the objects in the order in which they are created.       *)

One(kind) == <<<<kind, 1>>>>
PerImage(kind) == [i \in 1 .. SwapImages |-> <<kind, i>>]
InTurn(a, b) == [n \in 1 .. 2 * SwapImages |->
                   <<IF n % 2 = 1 THEN a ELSE b, (n + 1) \div 2>>]

SystemObjects ==
  One("library") \o One("instance") \o One("messenger") \o One("compiler")

\* Mutant: functions are resolved when they are needed first.
ResolvedLate == One("device") \o One("allocator") \o One("functions")

DeviceObjects == One("device") \o One("functions") \o One("allocator")

SwapChainObjects ==
  One("swap_chain") \o PerImage("image_view")
    \o InTurn("depth_image", "depth_view")

TargetObjects ==
  One("render_pass") \o One("command_pool") \o One("command_buffers")
    \o PerImage("framebuffer")

SyncObjects ==
  PerImage("fence") \o InTurn("image_available", "render_finished")
    \o One("descriptor_pool")

WindowObjects ==
  One("surface") \o DeviceObjects \o SwapChainObjects \o TargetObjects
    \o SyncObjects

HeadlessObjects ==
  DeviceObjects \o One("command_pool") \o One("command_buffers")
    \o One("fence") \o One("descriptor_pool")

Objects(o) ==
  IF o = System THEN SystemObjects
  ELSE IF o \in Windows THEN WindowObjects ELSE HeadlessObjects

------------------------------------------------------------------------------
(* Teardown: one kind of objects after the other, as far as they exist.    *)

TeardownShared ==
  <<"uniform_buffer", "descriptor_pool", "command_pool", "allocator",
    "device", "functions">>

TeardownWindow ==
  <<"image_available", "render_finished", "fence", "framebuffer",
    "command_buffers", "render_pass", "image_view", "depth_view",
    "depth_image", "swap_chain">>

\* Mutant: what all contexts share goes first, as the comment at its head says.
SharedFirst(o) ==
  IF o = System THEN <<"compiler", "messenger", "instance", "library">>
  ELSE IF o \in Windows
    THEN TeardownShared \o TeardownWindow \o <<"surface">>
    ELSE <<"fence", "command_buffers">> \o TeardownShared

Teardown(o) ==
  IF o = System THEN <<"compiler", "messenger", "instance", "library">>
  ELSE IF o \in Windows
    THEN TeardownWindow \o TeardownShared \o <<"surface">>
    ELSE <<"fence", "command_buffers">> \o TeardownShared

Kinds(o) == {x[1] : x \in alive[o]}

\* These are destroyed by the allocator or the system, all others by functions
\* of the device, which are null until they are resolved.
ByOthers == {"uniform_buffer", "depth_image", "allocator", "functions",
             "surface", "compiler", "messenger", "instance", "library"}

Destroyed(o, kind) ==
  IF kind \in ByOthers \/ "functions" \in Kinds(o)
  THEN {x \in alive[o] : x[1] = kind} ELSE {}

------------------------------------------------------------------------------
Init ==
  /\ life = [o \in Owners |-> "none"] /\ at = [o \in Owners |-> 1]
  /\ alive = [o \in Owners |-> {}]
  /\ held = FALSE /\ rendering = {}

\* No constructor or destructor runs.
ThreadIdle == \A o \in Owners : life[o] \notin {"constructor", "teardown"}

Enter(o, state) ==
  /\ life' = [life EXCEPT ![o] = state] /\ at' = [at EXCEPT ![o] = 1]

CreateSystem ==
  /\ life[System] = "none" /\ ThreadIdle
  /\ Enter(System, "constructor") /\ held' = TRUE
  /\ UNCHANGED <<alive, rendering>>

\* create_window() and create_headless_render_context() are called on a system
\* the program holds; from here on the context holds it, too.
CreateContext(c) ==
  /\ life[c] = "none" /\ ThreadIdle /\ held /\ life[System] = "ready"
  /\ Enter(c, "constructor")
  /\ UNCHANGED <<alive, held, rendering>>

CreateObject(o) ==
  /\ life[o] = "constructor" /\ at[o] <= Len(Objects(o))
  /\ alive' = [alive EXCEPT ![o] = @ \cup {Objects(o)[at[o]]}]
  /\ at' = [at EXCEPT ![o] = @ + 1]
  /\ UNCHANGED <<life, held, rendering>>

Constructed(o) ==
  /\ life[o] = "constructor" /\ at[o] = Len(Objects(o)) + 1
  /\ Enter(o, "ready")
  /\ UNCHANGED <<alive, held, rendering>>

\* A call throws, also one that only asks the device: teardown() runs.  Only
\* the functions are resolved without a call that could throw.
ConstructorThrows(o) ==
  /\ life[o] = "constructor"
  /\ at[o] <= Len(Objects(o)) => Objects(o)[at[o]][1] # "functions"
  /\ Enter(o, "teardown")
  /\ held' = (held /\ o # System)
  /\ UNCHANGED <<alive, rendering>>

TeardownStep(o) ==
  /\ life[o] = "teardown" /\ at[o] <= Len(Teardown(o))
  /\ alive' = [alive EXCEPT ![o] = @ \ Destroyed(o, Teardown(o)[at[o]])]
  /\ at' = [at EXCEPT ![o] = @ + 1]
  /\ UNCHANGED <<life, held, rendering>>

TornDown(o) ==
  /\ life[o] = "teardown" /\ at[o] = Len(Teardown(o)) + 1
  /\ Enter(o, "gone")
  /\ UNCHANGED <<alive, held, rendering>>

\* A draw creates the buffer of its block and its pipeline, if they are not
\* there, and goes to the queue with the frame.
Render(c) ==
  /\ life[c] = "ready" /\ ThreadIdle
  /\ \E b \in Blocks :
       alive' = [alive EXCEPT ![c] = @ \cup {<<"uniform_buffer", b>>,
                                             <<"pipeline", 1>>}]
  /\ rendering' = rendering \cup {c}
  /\ UNCHANGED <<life, at, held>>

\* The data of a texture are uploaded, and a call behind the creation of the
\* staging buffer throws: the buffer stays.  Otherwise nothing does.
UploadThrows(c) ==
  /\ life[c] = "ready" /\ ThreadIdle
  /\ alive' = [alive EXCEPT ![c] = @ \cup {<<"staging_buffer", 1>>}]
  /\ UNCHANGED <<life, at, held, rendering>>

BatchDone(c) ==
  /\ c \in rendering /\ rendering' = rendering \ {c}
  /\ UNCHANGED <<life, at, alive, held>>

\* Mutant: the destructor does not wait for the device.
DestroyAtOnce(c) ==
  /\ life[c] = "ready" /\ ThreadIdle
  /\ Enter(c, "teardown")
  /\ UNCHANGED <<alive, held, rendering>>

\* The last reference to a context goes; vkDeviceWaitIdle() has returned.
DestroyContext(c) ==
  /\ life[c] = "ready" /\ ThreadIdle /\ c \notin rendering
  /\ Enter(c, "teardown")
  /\ UNCHANGED <<alive, held, rendering>>

ReleaseSystem ==
  /\ held /\ life[System] = "ready" /\ ThreadIdle /\ held' = FALSE
  /\ UNCHANGED <<life, at, alive, rendering>>

\* Mutant: contexts refer to the system and do not hold it.
DestroySystemReleased ==
  /\ ~held /\ life[System] = "ready" /\ ThreadIdle
  /\ Enter(System, "teardown")
  /\ UNCHANGED <<alive, held, rendering>>

DestroySystem ==
  /\ ~held /\ life[System] = "ready" /\ ThreadIdle
  /\ \A c \in Contexts : life[c] \in {"none", "gone"}
  /\ Enter(System, "teardown")
  /\ UNCHANGED <<alive, held, rendering>>

Next ==
  \/ CreateSystem \/ ReleaseSystem \/ DestroySystem
  \/ \E o \in Owners : \/ CreateObject(o) \/ Constructed(o)
                       \/ ConstructorThrows(o) \/ TeardownStep(o) \/ TornDown(o)
  \/ \E c \in Contexts : \/ CreateContext(c) \/ Render(c) \/ UploadThrows(c)
                         \/ BatchDone(c) \/ DestroyContext(c)

Spec == Init /\ [][Next]_deviceVars

------------------------------------------------------------------------------
(* Properties.                                                             *)

\* What an object was created from, by kind; nothing for the kinds not named.
Parents(kind) ==
  CASE kind \in {"messenger", "device", "surface"} -> {"instance"}
    [] kind = "instance" -> {"library"}
    [] kind \in {"allocator", "command_pool", "descriptor_pool", "render_pass",
                 "fence", "image_available", "render_finished"} -> {"device"}
    [] kind = "swap_chain" -> {"device", "surface"}
    [] kind = "image_view" -> {"device", "swap_chain"}
    [] kind \in {"depth_image", "uniform_buffer"} -> {"allocator"}
    [] kind = "depth_view" -> {"device", "depth_image"}
    [] kind = "framebuffer" -> {"device", "render_pass", "image_view",
                                "depth_view"}
    [] kind = "command_buffers" -> {"command_pool"}
    [] OTHER -> {}

ParentsOutlive ==
  \A o \in Owners : \A kind \in Kinds(o) :
    Parents(kind) \subseteq Kinds(o) \cup Kinds(System)

\* No code destroys a pipeline, nor the staging buffer of an upload that threw.
NothingLeaked ==
  \A o \in Owners :
    life[o] = "gone" => Kinds(o) \subseteq {"pipeline", "staging_buffer"}

UsedByBatch(c) == {Objects(c)[i] : i \in DOMAIN Objects(c)}
BatchesKeepObjects == \A c \in rendering : UsedByBatch(c) \subseteq alive[c]

\* Wherever a constructor threw and however the program lets go of contexts and
\* of the system: what they created is destroyed, nothing before what was
\* created from it, and nothing while a batch uses it.
TornDownInOrder == ParentsOutlive /\ NothingLeaked /\ BatchesKeepObjects
==============================================================================
