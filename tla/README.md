# GLGE_Graphic in TLA+

TLA+ models of the graphics library in this repository, checked with TLC and, for
most of the components, proved with TLAPS. The reference for every definition is the
C++ source; `PROJECT.json` ("map") names the lines each definition stands for.

Run a configuration with `tlc -config MCPipeline.cfg MCPipeline`, and the proofs with
`tlapm M.tla` for `M` each of `PipelineProofs`, `BufferQueueProofs`, `CycleProofs`,
`ArenaProofs`, `RenderObjectProofs`, `GraphicProofs`, `InstanceProofs` and `FrameProofs`.

## 1. Inventory of the system

The application owns the main loop. Each round calls `Instance::update()` (poll SDL
events, then `API::Instance::tick()` and `onUpdate()`) and `RenderPipeline::play()`.
Frontend objects (buffers, textures, shaders, framebuffers, meshes) may be used from
other threads; what they want from GL is queued and done by the next tick, on the
thread that holds the GL context. A render pipeline is translated into commands by a
recording thread of its own. There are no tests and no documents in the repository:
the promises are in the comments.

| component | state it keeps | operations | hard behaviour | what makes it correct |
|---|---|---|---|---|
| Render pipeline (`RenderPipeline.cpp`, `OGL_RenderPipeline.cpp`, `OGL_CommandBuffer.cpp`) | stages, todo list, command buffer, recording flag, condition variable, `std::thread` handle | record, waitForRecording, play, getStage, destruction | a thread handle and two vectors shared without a lock; one notification for several waiters | play never overlaps a recording; frames execute the newest recording; nobody sleeps for ever; the recorder never outlives the backend |
| its table of stages (`RenderPipeline.cpp:20-63`) | stages in order, a map from names to places | two constructors, getStage | names that come twice | the order of the list; a name leads to its last place |
| its clock (`RenderPipeline.cpp:104-136`) | start of the last frame, delta, rate | play, setIterationRate | a sleep after the measurement, rates that change | the rate is never exceeded; deltas add up to the time that passes |
| Memory arena (`API_MemoryArena.cpp`) | size, list of free regions | allocate, release, setResizable | an unsorted, partly coalesced list; growth; null and empty pointers | owners never share a byte; no byte is lost |
| Upload queue of Buffer (`API_Buffer.cpp`, `OGL_Buffer.cpp`, `API_Instance.cpp`) | CPU copy, queued flag, static queue, two mutexes, GL storage and mapping | set, write, resize, append, tick | locks nested in both orders; a flag tested outside its lock | no deadlock; queue and flags agree; writes reach the GPU |
| Cycle buffers (`API_CycleBuffer.cpp`, `OGL_CycleBuffer.cpp`) | CPU copy and version; per GPU buffer a version, size, fence, mapping; the static lists of buffers and of backends to create | set, write, resize, tick, onUpdate, construction and destruction on any thread | CPU and GPU use the same bytes at different times; two lists under two mutexes | frames never go back; data is drawn in the end; a tick meets only whole buffers |
| Render objects (`RenderObjectSystem.cpp`, `Renderer.cpp`) | handle table, free list, transform buffer; a handle per Renderer | create, destroy, copies, setObject, reupload | reuse of indices, versions that wrap, copies of owners | living handles differ; nothing is freed twice; a transform is its owner's |
| Transform compression (`CompressedTransform.h`) | none | compressFloat, decompressFloat | a modulus at the end of the range | what the GPU unpacks is what was set, within a step |
| Texture queue (`OGL_Texture.cpp`) | requested and current settings, dirty flags, queued flag, static queue | construction, setters, enqueue, tickGPU | the flag is read outside the lock; two flags share a bit; all flags are cleared at once | flags and queue agree; what was asked for last reaches the GL texture |
| Shader queue (`OGL_Shader.cpp`) | compile queue, state, program | construct, destroy, compileAll | compilation may end at any stage; destroyed while queued | each shader compiled once; programs and shader objects are accounted for |
| Framebuffer queue (`OGL_Framebuffer.cpp`, `OGL_Instance.cpp`) | list of requests with raw pointers, GL framebuffer and attachments | construct, recreate, destroy, onUpdate | requests that outlive the object; textures whose GL object changes later than the call | attachments are current; no GL framebuffer is lost or deleted twice |
| Instance (`Backend/Instance.cpp`) | API instance, window count, the loop over events | registerWindow, deregisterWindow, update | objects that outlive the instance; `m_inst` that is null or 1 | calls reach a living instance; every event reaches its layer |
| Window settings (`Window.cpp`, `OGL_Window.cpp`) | current and requested settings, size, viewport | setters, events, update | events that overwrite newer requests | settings, SDL and viewport agree once nothing is on its way |
| Keyboard and mouse layers (`Keys.cpp`, `Mouse.cpp`) | bit sets; mice, their mapping | events, onUpdate, sampling | several events in one tick; two ways to compute one bit; mice that are plugged in later | edges are neither lost nor invented; what is held is down |
| Mesh registry (`RenderMeshRegistry.cpp`, `API_RenderMesh.cpp`) | meshes, versions, free list; arena regions | create, destroy, isValid | a handle checked before the lock; new arenas after a restart | a handle never reaches another mesh; regions are the meshes' own |
| Render commands (`OGL_RenderPipeline.cpp`, `OGL_Commands.cpp`, `draw.cs`) | the commands of a recording, GL buffers for batches and draw calls | compile, execute, the batch shader | a scene that changes between recording, compiling and drawing; one buffer of draw calls for all batches | a frame draws each mesh of the compiled scene once in each scene stage, and nothing else |
| Materials and compute objects (`OGL_Commands.cpp`, `Material.h`, `Compute.cpp`) | program, textures, buffers, settings; what the GL context has bound | bind, draw, dispatch | whatever a command does not set was set by an earlier one | every draw and dispatch finds its own program, data, settings and target |
| Camera and render targets (`Camera.cpp`, `RenderTarget.h`) | type, three shared words, a flag, remembered transform and aspect, the buffer | setters, setType, setObject, update | an early return that relies on every setter to raise the flag | the buffer has the matrices of the present parameters after each update |
| Textures from files, assets, C interface, vendored code | files, wrappers | loading | none that interleaves | out of scope, see section 7 |

Interactions: the tick walks the cycle buffers, the texture queue and the upload queue in
that order (`API_Instance.cpp:22-54`); `onUpdate` serves the first-update queue of the cycle
buffers and the framebuffer list (`OGL_Instance.cpp:121-155`); a framebuffer attaches the GL
textures that the texture queue creates; a mesh owns two arena regions, in arenas that live
as long as the instance; a Renderer writes its transform into a cycle buffer at the index of
its handle; a camera writes its matrices into one; a pipeline's commands bind the current
GPU buffer of each cycle buffer and capture the GL names of framebuffers.

The hazards, each at its line and with the properties that watch it, are in
`PROJECT.json` ("hazards").

## 2. Modules

| module | contents |
|---|---|
| `RenderPipeline`, `PipelineProps` | the record / wait / play protocol, its properties |
| `RecordedPipeline` | the abstract pipeline it implements: a picture of the list, shown frame by frame |
| `StageTable` | the constructors of a pipeline and `getStage()`; properties at the end of the module |
| `FramePacing` | the clock of `play()`; properties at the end of the module |
| `PipelineProofs` | proofs about these three |
| `FrameCommands`, `FrameProps` | from stages and a scene to commands, and from commands to what a frame draws |
| `DrawState`, `DrawProps` | what the GL context has bound when a command draws |
| `Camera` | a camera and its buffer; properties at the end of the module |
| `FrameProofs` | proofs about these: the commands, what they bind, the camera |
| `BufferQueue`, `BufferQueueProps`, `BufferQueueProofs` | the upload queue |
| `CycleBuffer`, `CycleProps` | cycle buffers and the GPU that reads them |
| `CycleLifetime` | cycle buffers that come and go beside the main loop; properties at the end of the module |
| `CycleProofs` | proofs about these two |
| `MemoryArena`, `RegionAllocator`, `ArenaProps`, `ArenaProofs` | the arena, the abstract allocator it implements |
| `RenderObjectSystem`, `CompressedTransform`, `RenderObjectProps`, `RenderObjectProofs` | handles, Renderers and the compression of their transforms |
| `TextureQueue`, `FramebufferQueue`, `ShaderQueue`, `GraphicTick`, `GraphicProps`, `GraphicProofs` | what waits for the thread with the GL context; `FramebufferQueue` is built on `TextureQueue`, `GraphicTick` composes it with `ShaderQueue` |
| `KeyLayer`, `MouseLayer`, `WindowSettings`, `MeshRegistry`, `InstanceUpdate`, `InstanceProps`, `InstanceProofs` | the parts that `Instance::update()` drives; `InstanceUpdate` is the loop over them |
| `MCPipeline` | instances of `RenderPipeline`, `StageTable` and `FramePacing` |
| `MCFrame` | instances of `FrameCommands`, `DrawState` and `Camera` |
| `MCCycle` | instances of `CycleBuffer` and `CycleLifetime` |
| `MCInstance` | instances of `InstanceUpdate` and `GraphicTick` |
| `MCObjects` | instances of `MemoryArena` and `RenderObjectSystem` |

Where two parts share no variable, their product would only multiply states: a behaviour
of `MCPipeline`, `MCFrame`, `MCCycle` and `MCObjects` exercises one of them, which `Init` chooses
(`part`; `side` in `MCInstance`), while the others keep an initial state. Parts that do
interact are composed: textures with the framebuffers that attach them, the layers with
the loop that serves them, the meshes with the instance that owns their memory.

A configuration choice of the environment (do clients resize, do they run on the
ticking thread, how far may the GPU lag) is a variable that `Init` chooses and no step
changes, so that one run covers all of them and a property can name its assumption.

**RenderPipeline.** A call of a client is a start action (`Record`, `Play`, ...) and the
steps that follow it: `WaitForRecordingState` is the critical section under `m_mut`,
`Join` and `Spawn` are the two uses of `m_thread`, `Compile` and `Draw` the two halves of
the backend's `play()`. `WakeOne` is `notify_one()`: it moves one sleeper, any, to its
test. `Recorder` is the recording thread: clear, then per stage first the payload and
then the type, as `execute()` reads them, then the final entry and the notification.
Assigning to a joinable thread, joining an empty one, or walking a vector the recorder
writes sets `terminated`. A stage's payload carries a tag for the union member that was
written and a version for the edit that wrote it; of the seven stage types two are kept,
one with and one without GL buffers of its own. The caller owes the pipeline one thing:
no call overlaps the destructor (`Destroy`, `Call`).

**RecordedPipeline** forgets threads, todo list and command buffer: `Edit` changes the
list, `Record` takes a picture of it, a frame that was asked for (`Play`) shows the picture
or, minimized, nothing (`Show`); an edit during a recording ends the promise (`disturbed`).
`Promised` in `PipelineProps` is the mapping: `asked` is the picture once something was
recorded, a call of `play()` that has not returned is a frame that was asked for, `raced`
is `disturbed`. A frame always ends a `Play`, so that showing an old picture once more
cannot pass for a stutter.

**StageTable.** One step for each round of a constructor's loop. `AddPair` is the
constructor from a vector of pairs, `AddElement` the one that takes a C array and reads
`namedStages->name` in every round, so that every stage becomes the first: the properties
speak of pairs only. A name that comes again is added as a stage of its own, as in the
code; what the assertion beside it says of such a name is in section 5.

**FramePacing.** Time is counted in ticks; work and lateness of a sleep are chosen. The
wait is `ToWait(t) == period - (start - t)` as in the code: `start` lies before `t`, so the
time a frame took is added to the wait, not taken off it.

**FrameCommands.** `Record` empties the commands and leaves a todo list; `Play` with such a
list compiles it. The elements of a scene are batched by material in the order in which
they are found, each batch with a GL buffer of its own, all batches of a scene stage with
one buffer of draw calls. The batch shader writes them, and with `lazy` GL lands what it
wrote at any later time, at a barrier at the latest. `compiled` remembers the scene of the
compilation. `rerecord` is an application that records after it re-created a framebuffer.

**DrawState.** A command reads and writes `gl`: program, vertex array, texture units,
binding points, enabled settings, target and viewport. `turn` changes in each tick, so that
the GL object behind a name is another one: nothing bound by an earlier frame passes for
fresh. `GLGE_SKIP_SLOT` steps the counter of its kind and binds nothing.

**Camera.** Matrices are the tuple of what they are computed from. `words` is the union:
three parameters of either type. `asked` remembers what the setters of the present type
were given, `mixed` that a setter of the other type was called, which changes a word of the
union without looking at the type.

**BufferQueue.** What a buffer is to be is the number of calls that changed it. A call takes
`m_dataMtx`, changes the copy, tests `m_queued` and, if it is clear, pushes under
`m_mutex`: three steps. The tick holds `m_mutex` from `BeginTick` to `EndTick` and takes
each buffer through the unlocked size test, the upload under `m_dataMtx`, and the
clearing of the flag. `growth` says that sizes change after a buffer has one, `serial`
that the writers run on the ticking thread. GL storage is immutable once it exists and a
mapped buffer cannot be mapped again (external behaviour of OpenGL, taken from how
`OGL_Buffer.cpp` uses it): an upload with another size leaves the old bytes in GL, so `sent`
stays, and a null mapping, and the next upload through that sets `crashed`. `alloc` is the
block behind `m_data`: `set()` without data stores a size and no block.

**CycleBuffer.** `tick`, `set`, `write` and `resize` hold `m_mtx` throughout and are one
step each; the main thread alternates tick, onUpdate, draw. Draws and fences go into
`pending`, which the GPU executes in order; a fence is signaled when it has left the
list. `shown` is the version of the newest frame the GPU drew. `lag` bounds the frames
the GPU may be behind when a tick starts (swap chains impose such a bound).

**CycleLifetime.** A constructor makes its backends, each of which queues itself under
`m_updateMtx`, and registers the buffer under `s_mtx`; a destructor takes them back in the
opposite order, on any thread, a step at a time. The main thread holds one mutex or the
other for a whole loop. A backend deleted before its first update stays in
`m_updateQueue`; when `onUpdate()` comes to it the model ends (`touchedDeleted`).

**MemoryArena.** `m_free` is the sequence it is in the code, in the code's order, with
the search for the insertion index as it is written. `erase(end())` is undefined:
the model either drops the last element or crashes. Holders release a pointer once,
whatever `release` answers. `RegionAllocator` forgets the list: owned and spare bytes are
sets, an allocation takes spare or new bytes in a row, a release returns all of them.

**RenderObjectSystem.** Indices and versions have the widths of the code, 22 and 10 bits,
and wrap. `Copy` is the implicit copy of a Renderer, `ConstructDefault` leaves the handle
0. `StoredVersion` is the expression of `Renderer.cpp:46` as C++ parses it. A transform
passes through `CompressedTransform`: a component is `n / Unit`, compression and
decompression are integer operators over such fractions, with 16 bits.

**TextureQueue.** A setter is two or three steps, as in the code: store the request, set
the bit, read `m_queued`, push. `tickGPU()` is one step per bit, then the store of 0, then
the store of the queued flag. GL textures are numbers that are never used again, so one
that is deleted, leaked or still attached somewhere can be told apart. `serial` says that
the client is the ticking thread. One client thread: two that push at once under the
shared lock write one vector without exclusion, which has no defined outcome.

**FramebufferQueue** adds framebuffers on the ticking thread (their list has no lock) and
`onUpdate()`, which follows the tick. `changed` remembers that a texture was replaced since
the framebuffer was last created, which is what the caller must react to. A request served
for a destroyed object ends the model (`crashed`).

**ShaderQueue.** `compileAll()` is a step per shader object, most significant stage first;
GL may refuse any stage or the link. A destroyed shader stays in the queue, and touching it
ends the model (`shCrashed`). `GraphicTick` runs either textures and framebuffers or
shaders: they share no state, so a product would only multiply states.

**InstanceUpdate.** One behaviour has one subject (`driven`: keys, mice, the window or
meshes), chosen in `Init`, under the loop of `update()`: forget edges, deliver the SDL events in
order, sample the mice, tick. `sendEvent()` is the core library's and is taken to call the
layer at once. The user, the window manager (`WindowSettings.CarryOut`, later than the
request, because the code clears `SDL_HINT_VIDEO_SYNC_WINDOW_OPERATIONS`) and, for meshes,
other threads act between any two steps; the application's calls to the window come
between two updates, on the main thread. Events of a second, foreign window are delivered
too. `KeyLayer` computes the place of a key in a register by both of the code's formulas;
the shift by an offset of 64 or more takes the low six bits, as the compilers for x86-64
make it. `MouseLayer` leaves out `addMouse` and `removeMouse` after `init`: no code sends
the plug events that would call them, so a mouse that is plugged in later only shows as
the default entry of `m_mapping`.

**MeshRegistry.** `CheckHandle` and `DestroyMesh` are the two looks `destroy()` takes at its
handle, the first without the lock. The first window makes the instance and its empty
arenas, the last one deletes them. One number stands for the regions of a mesh in both
arenas; that two regions never meet is `MemoryArena`'s promise.

## 3. Runs

| run | instance | result |
|---|---|---|
| `MCPipeline` | one client thread, two stages, two recordings, one edit; or lists of up to three of three stages under two names; or 14 ticks of the clock | 8 properties hold |
| `MCPipelineWake` | one thread records and waits, another plays | `WaitersWake` violated |
| `MCBufferQueue` (`BufferQueueProps`) | a new and an uploaded buffer, two writers, two writes of each | 6 properties hold |
| `MCBufferQueueLost` (`BufferQueueProps`) | one buffer, one writer | `UnqueuedIsCurrent` violated |
| `MCCycle` | one to three GPU buffers, lag 0 or 1, two versions; or two cycle buffers that come and go | 7 properties hold |
| `MCCycleFence` | two GPU buffers, lag 1 | `NoWriteWhileRead` violated |
| `MCCycleResize` | one or two GPU buffers, two sizes | `SeenIsHeld` violated |
| `MCCycleSet` | one GPU buffer, two sizes | `SetReturns` violated |
| `MCObjects` | three holders of 0 to 2 units, an arena of at most 5; or three Renderers, three handles, an index before its wrap | 7 properties hold |
| `MCObjectsVersion` | one Renderer | `TransformCarriesVersion` violated |
| `MCInstance` | four keys, two mice, a window, or three meshes with two threads; or a color and a depth texture with a framebuffer, or two shaders of up to two stages | 7 properties hold |
| `MCFrame` | three objects of two materials, two scene stages, two recordings; or two pipelines of commands over two materials and three compute objects; or a camera | 5 properties hold |

What the passing runs show:

* **MCPipeline**: in every order of calls of one thread, record never assigns a live thread
  handle, nothing is raced on, the recorder is gone before the backend is, no command reads
  the wrong union member unless an edit overlapped the recorder, each frame executes exactly
  the stages of the newest `record()` (or nothing while minimized or before the first one),
  that is, the pipeline implements `RecordedPipeline` (`ShowsWhatWasRecorded`), and every
  call returns. A pipeline made from pairs with different names keeps their order, and a
  name leads to its last place in every list. Frames never begin less than a period apart,
  however the rate changes, and the deltas lose and double no time.
* **MCBufferQueue**: the nesting of the two mutexes in both orders never becomes a
  circular wait, because a writer that waits for the queue has found its own buffer
  unqueued; no buffer is queued twice; a buffer that keeps its size and has a block is
  never uploaded through a null pointer, whatever threads write it (`MappingsLast`); with all
  writers on the ticking thread a buffer that is not queued has nothing left to upload
  between calls (`SerialIsCurrent`, the promise that `MCBufferQueueLost` finds broken
  without that assumption), unless it was given another size, which GL refuses; and writes
  of buffers that keep their size reach the GPU.
* **MCCycle**: while the size stays no copy is written through a null mapping; with a GPU
  that keeps up and a fixed size no frame shows older data than the one before; with more
  copies than frames in flight the copy that the next tick hands out was brought up to date
  by this one (`NextIsFresh`), and data is drawn in the end. What `tick()` comes to
  in `s_buffers` has all its backends, and each queued backend gets its GL buffer, is
  deleted, or the program has touched a deleted one.
* **MCObjects**, the arena: over every order of allocations and releases no two owners share a byte,
  every byte is free or held, once, and no release of a held region is
  refused (until a null pointer was released: a segment without bytes may then stand in
  the way of a region that starts where it does). The
  arena implements `RegionAllocator` through the mapping from lists to sets of bytes.
* **MCObjects**, the handles: while every handle came from `create()`, an index is free or held
  and living handles differ; only index 0 is ever lost, when its version wraps to 0.
  With copies and default construction it still holds that nothing is freed twice. The
  GPU unpacks the rotation its Renderer set, within a step of 16 bits, up to but without
  1.0, which is restored as -1.0 (`OneIsLost` states it, the hazard quotes the line).
* **MCInstance**: after the events of an update a key or button is down exactly if it is
  held (for keys that share no bit and mice that share no entry; buttons under the numbers
  SDL gives them), and every change shows as an edge or a repeat; when nothing is on its
  way, the window's settings, SDL's state and the viewport agree (borderless excepted), in
  whatever order requests, events and the window manager came; two threads that destroy
  meshes through one handle destroy each once, and the regions of the meshes of an instance
  are what its arenas hold (unless a mesh that outlived its instance was destroyed in a
  later one, which gives back somebody else's region). In the tick, no texture is queued
  twice and one is queued exactly while its flag is set; with the client on the ticking
  thread the GL texture is, in the end, what was asked for last, and a framebuffer that was
  created or re-created after the last change of its textures draws into their present GL
  textures; no GL framebuffer is lost or deleted while in use; every shader is compiled
  once, and a compilation that fails at any stage leaves nothing behind.
* **MCFrame**: every scene stage draws each mesh of the compiled scene as often as its
  renderer has it, hidden or not, with its own material, handle and, where GL has landed
  what the batch shader wrote, mesh; no batch overruns its buffer or the shared draw calls;
  an object that is attached when the application records is drawn at last. A blit or clear
  names the living framebuffer in the frame that compiled it, and in every frame if the
  application records again after a re-creation. Every draw and dispatch finds its own
  program, textures, buffers, settings, target and viewport bound, in either pipeline and
  from frame to frame. A camera's `update()` returns early only if the buffer has the
  matrices of the present parameters, and only its own setters decide these unless one of
  the other type is called.

What the violations show is under "findings": a wake-up that two waiters compete for, a
write lost between the upload and the clearing of its flag, a fence that is placed before
the draws it stands for, a copy that stores the version of bytes that GL refused when it
was resized, `set()` that waits for itself, and an operator precedence that
stores bits of the index as the version. Each contradicts the comment quoted there.

**Bounds, and why they are enough.** Two stages let an entry be first, last, or of another
type than its neighbour; two recordings are the least for something old to survive; the
number of plays is unbounded. Two buffers and two writers give every overlap of locks, two
writes a newer and an older version. A buffer that starts uploaded (`Loaded`) stands for one
constructed with data some ticks ago, and makes a second size reachable. Three GPU buffers
are one in use, one just used, one older; the code allows four
(`GLGE_BUFFER_MAX_RING_BUFFER_COUNT`) and itself asks for three. Three holders in five units
reach lists of up to three segments with every order and adjacency, which are all the cases
`release` distinguishes. Three Renderers are an owner, a copy and a stranger; the number of
lives before the wrap is skipped by starting at it (`Lives`), in a system whose other
indices are fresh. Three calls on textures (`MaxCalls`) are a construction, a change before
its tick and one during or after it; two requests (`MaxRequests`) a creation followed by a
re-creation or a destruction. Two shaders with two stages have a stage that fails first,
later, or not, and a successor that must still be compiled. Four inputs (`MaxInputs`) are
press, repeat and release of one key with another key in between, or two changes of the
window with an answer each; the four keys are two with a code of their own in different
words of the register and two that share the code 0. Three meshes and two windows
(`MaxMeshes`, `MaxWindows`) are a mesh before and two after an index is used again, in two
instances one after the other. Rotations are the lowest and the highest value that is
restored, with `Unit` 3, so that both divisions of the compression round. Lists of three
stages under two names have a name twice, next to each other and apart; two changes hit one
place twice or two places. Periods of 0, 2 and 4 ticks are shorter than, like and longer
than the work of a frame (`MaxWork`), a sleep may be late (`MaxLate`), and `MaxTime` leaves
room for four frames after a change of the rate. Three renderers have one mesh twice, two
materials, and two meshes, so that batches of different lengths share one buffer of draw
calls; `Group` is 2 where the shader has 64, which leaves a group full, begun, or begun and
not filled; one change of the scene (`MaxChanges`) is enough because every starting scene is
tried; `MaxInflight` 1 is a write that lands between any two commands; `MaxRecords` and
`MaxFbos` are two recordings and a re-creation in between. The two pipelines of commands
have a scene into a framebuffer before one into the window with a dispatch between them, and
single meshes before and after batches of two materials; three binding points (`Slots`) and
two units (`Units`) are what their objects use, and two changes (`MaxDrawChanges`) are one
of the settings and one of the size, or two of either. Two values of a camera's parameters
and two proportions are an old and a new one. Two cycle buffers with one and two backends
(`Used`) have a destructor that is between two deletions while the other buffer is
constructed. The bounds are the constants whose comment says "bound"; nothing else is cut
off.

**Fairness.** A thread inside a call goes on (`WF` on `Continue`, `SF` where it must get a
mutex that others release again and again), the recorder runs, the main loop ticks and the
GPU executes what was submitted. Nobody has to call anything: starting an operation is never
fair. The operating system's scheduler and the main loop justify this; nothing in the code
gives up on its own. `AttachedIsShown` assumes a render thread that plays frame after frame
and a GL that lands every write at last; the fairness of `Play` is stated for the step from
`idle` to `next`, which only `Play` takes, so that TLC need not compile a pipeline to
evaluate it. `QueuedGetTheirBuffer` assumes that the main thread ticks on. A spurious
wake-up is possible but not fair, so it never rescues a sleeper.

**Deadlock** is checked in every run. `Finished` lets the system stop where it really
does: after a crash, after the destructor, when the bound on creations is used up
(`Filled`, `LoopOver` and `Touched` do the same in their parts).

## 4. Proofs

TLAPS proves, for all values of the constants:

* **`BufferQueueProofs`**, any number of buffers and writers (assumptions: the sizes and
  bounds are naturals, the sizes asked for are within the bound, `Null` is neither a buffer
  nor a writer, the tick is not a writer or `Null`). `IInv` strengthens `TypeOK` with: a
  writer inside a call holds the `m_dataMtx` of its buffer; a writer about to push found the
  flag clear and it still is; the tick holds `m_mutex` exactly while it runs and stays
  inside the queue; flags and queue agree.
  `NoLockCycle` is not inductive by itself: it needs that a buffer whose writer waits is
  unqueued, that needs that only the holder of `m_dataMtx` sets the flag, and that the flags
  agree with the queue. `Invariance` proves `IInv`; `TypeCorrect`, `LocksNeverCycle` and
  `QueueIsASet` follow. `FixedSizesKeepMappings` is `MappingsLast`: while sizes stay, a
  buffer whose size the last upload has seen is mapped (`MappedAsSized`), so that only a
  missing block can end an upload. `NothingLeftBehind` is `SerialIsCurrent`: on one thread
  calls and the tick take turns (`TakeTurns`), so each buffer is at every step up to date,
  without a mapping because GL refused it another size, queued, in the hands of a writer on
  its way to queue it, or of the tick on its way to upload it (`Accounted`); a second thread
  can be on its way while the tick clears the flag, which is the write that
  `MCBufferQueueLost` loses. `NobodyWaitsForever` (`WaitedForMoves`) says of every wait that
  the one waited for can go on: what liveness needs of the locks, as an invariant. It adds
  that a mutex is held by a writer inside a call only (`HeldByCaller`).
* **`PipelineProofs`**, any number of stages and players. `PInv` says at which step which
  operation can be, what a thread knows of the handle there (joinable before a join, empty
  before an assignment or a deletion), and that a running recorder is in the handle with
  the flag up. It is inductive when one thread records and destroys (`LoneRecorder`), which
  is what `m_thread` without a lock requires; TLC refutes the theorems without it.
  `Protocol`, `ProtocolTypes` and `HandleIsSafe` (the handle, and that the recorder has
  ended when the backend is deleted) need only that, and so does `CommandsAreWhole`: `RInv`
  follows the entries of the buffer and of the command list while the recorder fills them
  in two steps, and every edit up to the two writes it consists of. `LoneClientIsSafe`
  adds that the same thread plays (`LoneClient`), and then play never overlaps the
  recorder and the program never terminates in the pipeline. `RecordingIsShown`, the
  refinement, builds on both (`DInv`): from the moment a recorder is joined the buffer has
  the stages of the newest `record()`, until the next one, so that a `Draw` is a `Show`
  (`NewestIsDrawn`); each of the two writes of an edit is an `Edit`, since the list keeps
  its shape even where edits and recordings overlap (`Shaped`, `EditWrites`); and no step of
  the recorder can be seen (`ClientSteps`, `OtherSteps`). `NoWakeupIsLost` says where
  `notify_one()` is enough: a single thread sleeps only while a recorder runs that has
  still to notify (`SleepersAreWoken`), because the flag is up from the thread's own
  `ArmRecording` to the recorder's last step (`FlagFollowsRecorder`). `MCPipelineWake` shows
  that two threads break it.
  For the table of stages, any lists, names and changes: `TableInv` adds to types and
  properties that nothing is changed while the table is being filled, and states the order
  of every list (`StagesFollowTheList`), repeated names included; `OrderIsRetained` and
  `TableKeepsTypes` follow. For the clock, any rates, works and delays: `PacingInv` adds
  that a delta is 0 only until the first frame has been measured, because every frame takes
  time (this is why `play()` may take 0 for "not known"), and that a sleep that was slept
  through is over; `NoTimeLost` and `RateIsMaximal` follow.
* **`CycleProofs`**, any number of GPU buffers, sizes and writes. `Behind` (no copy is ahead
  of the CPU) is inductive for every GPU and every client. `FixedCopiesAreMapped` is
  `CopiesAreMapped`: while the size stays, a copy that has seen it is mapped
  (`FixedCopies`), so an update has bytes to write to; `MCCycleResize` shows what a resize
  does to it. With a GPU that keeps up, `Drained` lists the at most two commands that are
  pending at each step of the frame; so every fence but the one in use has been reached when
  a tick starts, every other copy is synchronised, and `Agree` follows. `Forward` adds, for
  a fixed size and writes between the frames, that every copy has at least the bytes shown
  and that the one in use has the oldest: `ShownMovesForward`. For a GPU that lags,
  `NextCopyIsFresh`: behind a fence that is pending are the draws of its copy and of every
  copy handed out after it (`DrawsFollowFence`, with `Age` the ticks since a copy was handed
  out), and at most `lag` draws are pending when a tick starts. The copy that comes next is
  the oldest; were its fence still pending, the draws of `used - 1` copies would be, more
  than `lag`. So it is polled and synchronised in this tick. For the lives of cycle buffers,
  any buffers, backends and threads: `LifeInv` says which backends live at which step of a
  constructor or destructor, and that the list has exactly the buffers that are between
  registration and deregistration, once each. With it every listed buffer is whole
  (`RegisteredStaysWhole`), and the tick, which walks the list a step at a time, uses no
  deleted backend (`TickStaysSafe`).
* **`ArenaProofs`**, any holders, requests and sizes with a start size within `MaxBytes`.
  A list of regions stands for its set of bytes (`SegBytes`), and every list operation of
  the code for a set operation: `Loses` (cut, remove, drop the last) and `Gains` (extend
  either neighbour, merge both, insert anywhere), proved for lists in any order, since
  `release` keeps none. Each action then `Takes` or `Gives` bytes, which keeps `AInv`:
  types, holders apart, list disjoint, every byte accounted for. `OwnersApart`,
  `FreeAndHeld` and `ArenaTypes` follow, and so does the refinement (`Implements`):
  a take or a give is a step of `RegionAllocator`, everything else a stutter.
  `NeverRefused` needs more: that segments have bytes (`Solid`), because the test of
  `release` calls two regions with the same start a collision even if one is empty.
* **`RenderObjectProofs`**, any number of Renderers. `HInv`: as long as every handle came
  from `create()`, indices are free or held, never twice, and a living handle has the
  version of its index (`HandlesOwn`, from `LiveDiffer` and `FreeOrHeld`), if the indices
  and versions fit their fields (`FieldsFit`). `RoundTrip` bounds the error of the
  compression for every value and scale, `OneIsLost` says what happens to 1.0.
  `EntriesAreOwn` puts the two together (`TInv`: the entry at the index of a Renderer with
  an object is the one it wrote last; a step of another Renderer writes at another index).
  `FreesOnce` holds with copies and default handles too, but only while fewer handles are
  created than an index has versions (`VersionsLast`): then every handle in circulation is
  at most as new as its index, and only the living ones are as new (`FInv`). TLC shows that
  without it a stale handle is valid again.
* **`GraphicProofs`**, any textures, framebuffers, calls, shaders and stages (assumed: there
  is a size and a level of anisotropy a texture may have). `QInv` says
  that a client about to push has found the flag clear and that the flags are those of the
  part of the queue still to be ticked: `TextureQueueMatches`. `SInv` says which shader is
  at work and that the others wait or are done, with a program exactly if they succeeded:
  `ShadersCounted`. `GInv` follows a setting from the request to the GL texture: what
  differs is flagged, or the client is on its way to flag it (`Flagged`), and what is
  flagged is queued, or the client is on its way to queue it (`Follows`), although two
  settings share a bit and `tickGPU()` clears all bits at once; with the client on the
  ticking thread `SettingsArrive`. `FInv` and `NInv` number GL names: those in requests and
  in living framebuffers differ, and each GL texture belongs to one texture; `AInv` says of
  a framebuffer without a request that it has the GL texture of each of its textures, or
  that this texture still has to be ticked, before the requests are served (`Steady`,
  `Due`). `AttachmentsAreAccounted` follows, and with what is left (`RestTypes`) the types
  (`GraphicKeepsTypes`).
* **`InstanceProofs`**, any keys, mice, windows, meshes, inputs and threads (assumed: there
  is an extent a window may have). The queue of SDL events is what makes the three parts
  hard: what a layer believes is what the last event in the queue of that kind, or without
  one the layer itself, says. `WindowInv` states this of the minimized and the maximized
  flag, the size and the other settings, and `WindowAlwaysSettles` is its case of an empty
  queue; `KeyInv` and `MiceInv` state it of keys and buttons with the edges of the tick
  (`InputIsFollowed`). `MeshInv` says that the versions of the handles are as old as their
  meshes, that a thread between the two looks of `destroy()` changes nothing, and that
  the arenas of an instance hold the regions of its meshes: `MeshesStayApart`. All of it
  together gives the types (`LoopKeepsTypes`).
* **`FrameProofs`**, any cameras, materials, compute objects and pipelines of commands
  (`DrawAssumption`: buffers and textures fit the binding points, the commands refer to
  what exists). `CameraInv`: while no update is required the buffer has the matrices for
  what `update()` remembers; `CameraStaysCurrent` and `CameraKeepsTypes` follow.
  `BuffersAreBound` says what the loop over the buffers of an object does, whose two
  counters run side by side: each buffer gets its slot, no later one takes it, and a marker
  leaves what is there. The loop is a recursive function; that the function exists and what
  its rounds do is shown by the least round that would not (`UpTo`). `DrawInv` then says
  what each command leaves bound for the next: a bind for the mesh after it, a batch shader
  for the draw, a resize for the next frame. `BindingsStayOwn` and `DrawKeepsTypes` follow.

  Of the commands themselves `FrameAssumption` asks that the renderers are finitely many
  and that what they have and the stages are lists. A frame is counted over sequences that
  are concatenated, filtered and listed in some order, so the lemmas speak of bijections
  (`OneToOne`): `FlattenIsWhole` (a concatenation has each place of its parts once), hence
  `ElementsAreThePieces` (the element list has each mesh of each renderer of the scene
  once) and `BatchesAreWhole` (the batches have each element once, under its material);
  `MaxMeshCountFits` bounds the shared draw buffer, and `EveryObjectIsInvoked` says that
  enough work groups are dispatched for any group size. `CompilationIsWhole` joins them:
  whatever the order of the renderers, the commands are `Orderly` (own batch buffers, draw
  buffers long enough, the present framebuffer) and `Complete` (a bijection from the places
  in the batches of a scene stage to the pieces of the compiled scene). `FrameInv` then
  follows a frame: what was drawn so far is, one to one, what the executed commands have in
  their batches (`Follows`), and a draw finds the calls its batch shader wrote unless GL may
  land them late (`DrawIsReady`). `CommandsAlwaysFit` is read off; `FrameAlwaysShowsTheScene`
  counts through the two bijections. TLC cannot evaluate `FrameInv`, which asks for a
  bijection among all functions; it checks the two consequences.

Each proof has a lemma for the initial state, one per group of actions, and a theorem
that combines them.

Every safety property of the passing runs is thereby a theorem, the two refinements
included, and so are the type invariants of all components, which no run needs to check.

Only model-checked: liveness under fairness (`CallsReturn`, `WritesReachTheGPU`,
`WritesAreShown`, `QueuedGetTheirBuffer`, `AttachedIsShown`), which is out of the prover's
reach, as is `ENABLED`. The library's induction theorems take an operator as parameter and
cannot be used; where an induction is needed it is made by a least counterexample.
Recursive operators are not used in the modules proved about.

## 5. Deviations without a run of their own

Each of these is a place where the code does not do what a comment beside it says, met
while the models were written. The models follow the code; the properties are worded so
that they hold of it.

* `executeStage_DrawScene` (`OGL_RenderPipeline.cpp:101`) never asks `isShown()`: hidden
  renderers are drawn, although `Renderer.h:49` says "if the `shown` bool is true".
  `FrameShowsTheScene` states the rest of that sentence, of hidden renderers too.
* The assertion at `RenderPipeline.cpp:31` (and `:54`) says of a name that comes
  twice "overriding the original stage"; the code appends the stage, and the original stays in
  the list and is drawn, but can no longer be reached by its name. `TableFollowsTheList`
  states the order of lists of different names only.
* `Mouse.h:28` gives the left button the index 0, the middle 1 and the right 2; the mouse
  layer stores the index of SDL, which counts from 1 with the middle as 2, so
  `mouse_isPressed(GLGE_MOUSE_LEFT)` is never true of a mouse of the layer, and
  `GLGE_MOUSE_MIDDLE` asks for its left button. The global mouse has the mask of SDL, whose
  bits do count from 0, and agrees with `Mouse.h`. `MiceFollowButtons`
  states each of the two as it is.
* `Keys.h:369` calls `m_enabled` "the keys that where pressed this tick", but a key that is
  repeated in the update in which it went down is moved from there to the repeated ones
  (`Keys.cpp:76`); `KeysFollowKeyboard` asks for either.
* `WindowSettings.h:31` says "say if the window is borderless", and `OGL_Window.cpp:115` hands
  that flag to `SDL_SetWindowBordered()` as it is: a window that was made borderless keeps
  its border. `WindowSettles` states what happens to it.
* `OGL_Buffer.cpp:102` says "if the size is not correct, resize". GL refuses new storage and
  a second mapping for a buffer that has them: the old bytes stay, `m_mappedPtr` is null and
  the next upload crashes. `SerialIsCurrent` excepts such a buffer, `MappingsLast`, like
  `CopiesAreMapped` for cycle buffers, speaks of sizes that stay.
* No barrier stands between the batch shader and the draw that reads its draw calls
  (`OGL_Commands.cpp:457`, `:467`); `FrameShowsTheScene` counts what was meant where GL
  lands writes late.
* `draw.cs:41` lets the index that equals the number of objects pass.
* `Command_Blit` computes the far corner of the target from the offset of the source
  (`OGL_Commands.h:342`).
* The constructor from a C array never advances in the array (`RenderPipeline.cpp:51`).
* A single mesh that is drawn after a scene in a framebuffer is drawn into that framebuffer
  (`OGL_Commands.cpp:345`); `MeshesFillTheWindow` speaks of pipelines without such scenes.
* `clearWindow()` clears depths under the depth mask of the last material, and its test for
  NaN is true of every value (`OGL_Window.cpp:73`); `Command_Clear` clears stencils with a
  call that GL refuses for them (`OGL_Commands.cpp:246`); `MATERIAL_SETTING_ENABLE_MIXING` is
  never looked at.
* `setFOV`, `setNear` and `setFar` of an orthographic camera change its scale
  (`Camera.cpp:38`).
* The wait of `play()` adds the time a frame took to the period (`RenderPipeline.cpp:131`).
* A cycle buffer destroyed before its first update leaves deleted backends in
  `m_updateQueue` (`API_CycleBuffer.cpp:68`); no destructor deletes the GL buffer of a
  backend; `executeStage_DrawScene` never puts its GL buffers on the list that cleanup
  deletes (`OGL_RenderPipeline.cpp:124`).

## 6. Plan

1. *(done)* pipeline protocol, upload queue, cycle buffers, arena, render objects.
2. *(done)* the other queues of the graphic tick, the loop of `Instance::update()` with
   keyboard, mice, window settings and meshes, the compression of transforms, the stage
   table and the clock of a pipeline, the commands of a frame, what they bind, the camera,
   the construction and destruction of cycle buffers.
3. *(done)* proofs of the pipeline protocol with its refinement, its table and its clock,
the upload queue, the cycle buffers and their lives, the arena with its refinement, the
handles and transforms of Renderers, the texture, framebuffer and shader queues, the loop of
`Instance::update()`, the camera, the commands of a frame, what they draw and what they
bind.
4. *(open)* models: callbacks and custom stages, the layers of the core library with the
   order in which they get events, and the product of the frame commands with
   `RecordedPipeline`, which now stands for the protocol.

## 7. Not modelled

The arithmetic of matrices and floats, image files and the asset manager, the thin C
interface, vendored code (glad, stb), what a clear or a blit writes, callbacks of stages,
the creation of the GL context. The two icon arrays (`GLGEWindowIcon.h`, `Icon.c`) are
58,158 of the repository's 70,825 lines and hold nothing but pixels, so the share of lines
that any model could cover is below a fifth. SDL, OpenGL and GLGE_Core are external: their
behaviour is modelled only where `src/` relies on it (fences, immutable storage, persistent
mappings, the order of SDL events, the delivery of `sendEvent`); callbacks registered with
SDL are not modelled. Memory is a version number or a set of bytes, so overruns inside a
copy are not modelled. Each component's share is in `PROJECT.json` ("components").
