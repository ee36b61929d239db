# A verification of bombyx3d

bombyx3d is a C++ game engine for OpenGL ES 2: a window with a frame loop, a
worker thread that loads files, a scene graph with touch input, and an
immediate-mode renderer. This directory holds TLA+ models of the parts of
`src/engine/` where order, sharing and re-entrance decide whether the engine is
correct, the TLC runs that check them on small instances, and proofs that TLAPS
checks for every instance.

The repository has no unit tests and hardly a comment; the code itself is the
reference. `PROJECT.json` lists for each definition the lines it models, and for
each property a *mutant*: a plausible bug in one of those definitions that makes
TLC report the property as violated. (The mutants stand next to the definitions
they change, marked `\* Mutant:`; no specification uses them.)

## 1. Inventory

| Component | State | Operations | What is hard about it |
|---|---|---|---|
| **Producer/consumer queue** `utility/ProducerConsumerQueue.*` | mutex, condition variable, `std::list` of closures | `enqueue`, `dequeue`, `tryDequeue`, `clear` | destructors of closures run inside its functions and may enqueue again; `notify_one`, spurious wake-ups |
| **Worker thread** `utility/WorkerThread.*` | its queue, `mShouldExit`, `mExited` | `perform`, `stop`, the loop, join | `stop` is a job among jobs; who waits for whom at exit |
| **Thread manager** `platform/shared/CxxThreadManager.*` | one worker, one render-thread queue | `performIn{Render,Background}Thread`, `flush`, `stopWorkerThreads` | the render queue is cleared, not run, at shutdown |
| **Program** `platform/linux/main.cpp`, `GlfwWrapper`, `Application`, `Services` | window, GL context, global service pointers | set-up, frame loop, tear-down | order of tear-down against closures still under way |
| **Resource manager** `core/ResourceManager.*` | weak maps per kind, three atomic counters | `get*`, `loadResource{Sync,Async}`, `resourceLoadProgress` | a load crosses two queues and two threads, may fail in either, and its setup requests more loads |
| **Loading scene** `scene/AbstractLoadingScene.*` | progress shown, `mLoadingComplete` | `beginLoading`, `update` | reads the counters one by one while they change |
| **GL resources** `render/gles2/GLES2{Texture,Buffer,Shader}.*` | a GL handle each | create, destroy | destroyed on any thread; the GL call must happen on the render thread |
| **Observer lists, events** `utility/ObserverList.h`, `core/EventDispatcher.*`, `scene/AbstractScene.*` | slots, nesting count, handlers by key | `add`, `remove`, `forEach`, `sendEvent`, `*EventObserver*` | callbacks add, remove and send while the list is walked and compacted by swapping |
| **Input manager** `input/InputManager.*` | pressed buttons, fingers and keys, two emulation flags | `inject*`, `emit*`, `reset*`, `setEmulate*` | a callback may reset everything in the middle of a notification; mouse and finger 0 imitate each other |
| **Scene manager** `scene/SceneManager.*` | current scene, active touches | `setCurrentScene`, `resize`, `runFrame`, touch forwarding | a switch in the middle of touches, or of the frame |
| **Scenes, child lists** `scene/AbstractScene.*`, `scene/components/ChildrenListComponent.*` | children, touched child, its index and fingers | `insert/remove/...Child`, touch routing, update and draw loops | the touched child against the list it is in; the list against its iteration |
| **Buttons** `ui/UIButton.*` | fingers down, fingers inside, pending click, press time | touch handlers, `update` | when a touch is a click, and that a click is sent |
| **Canvas, immediate renderer** `render/*` | matrix stacks, material, current batch | `begin`, `end`, `flush`, `emitVertex`, `set*`, push and pop, direct rendering | a change of state must flush what was drawn before it; a batch has no limit but its indices have |
| **GLES2 renderer** `render/gles2/GLES2{Renderer,VertexSource,Shader}.*` | cached bindings, pending uniforms, linked programs | `useShader`, `setUniform`, `bindVertexSource`, `drawPrimitive` | a cached binding that is no longer the real one |
| **Materials, meshes, images** `material/`, `mesh/`, `image/Image.*` | parsed data, references to other resources | load on the worker, setup on the render thread | drawn while the worker fills them |
| **Shader loader** `material/ShaderLoader.*` | two sources and a stack of files | a line preprocessor with `%include`s | recursion; sections and failures of included files |
| **Material file loader** `src/plugins/material/parser/*` | parser context of stacks, the tree | grammar actions, building of passes | actions are not undone when an enclosing rule fails |
| **Memory pools** `utility/{MemoryPool,PoolAllocator}.*`, `render/gles2/GLES2Uniform.*` | arenas, free list, values | `alloc`, `free`, `set*`, move | arenas of different sizes; manual ownership of values |
| **Cameras** `scene/camera/*` | four matrices, four flags, the visible area | setters, getters, hooks of the scene | a matrix that is stale; the size of the screen on its way to the camera |
| **Scene tree, layouts** `scene/AbstractScene.*`, `ui/layouts/UIAbsoluteLayout.*`, `ui/UIElement.*` | components in order, sizes, transforms with cached inverses, a layout flag | `addComponent`, `setSize`, `performDraw`, touch adjustment | drawing and touching go through the same hooks in opposite ways; a layout that is put off |
| **Math** `math/AffineTransform.*` | six numbers | `translate`, `rotate`, `scale`, `inverse`, composition | fields updated from each other one after the other |
| **Sprite sheets** `image/Sprite*`, `src/plugins/spritesheet/xml`, `ui/UIImage.*`, `render/Canvas.*` | sprites by name, their elements, textures to come | `getSprite`, `setSprite`, `loadPendingResources`, `drawSprite` | sprites are handed out, sized and drawn while the worker fills them |
| **Atoms, strings, files, other UI** | interned strings, streams | `getAtom`; readers; progress bars | two threads interning |
| **Other plugins, samples, tools, vendored libraries, other platforms** | - | - | file formats and third-party code: not modelled |

How they interact: `main()` creates the thread, input and file services; the
window calls the frame callback, which runs the scene manager and then flushes
the render queue; input arrives between frames and goes from the input manager
through its observer list to the scene manager, the scene, its child list and a
button; the button's click handlers call back into the scene manager, which
resets the input manager. A resource that a scene requests is a closure in the
worker's queue, then a closure in the render queue, whose run may request more.

## 2. Modules

| Module | Models | Depends on |
|---|---|---|
| `FifoQueue` | what a queue promises: atomic put, take, clear | - |
| `ProducerConsumerQueue` | the queue itself, step by step, with its threads | implements `FifoQueue` |
| `ProducerConsumerQueueProofs` | proofs about it | |
| `ThreadManager` | both threads, both queues (as FIFOs), resources and closures from `main()` to exit | relies on `FifoQueue` |
| `ThreadManagerProofs` | proofs about it | |
| `ResourceLoading` | loading with sub-resources, the counters and their readers | relies on `FifoQueue` |
| `ResourceLoadingProofs` | proofs about it, and about `MaterialParser` | |
| `ObserverRegistry` | what an observer list promises during a pass | - |
| `EventDispatcher` | the lists of one dispatcher, nested passes, keyed observers | implements `ObserverRegistry` |
| `InputManager` | pressed sets, emulation, resets from callbacks | relies on `ObserverRegistry` |
| `InputManagerProofs` | proofs about it | |
| `TouchDispatch` | scene manager, child lists, buttons, frames | takes the input manager's resets as atomic |
| `TouchDispatchProofs` | proofs about it | |
| `DirectDrawing` | what a canvas promises: every vertex is drawn at once | - |
| `ImmediateModeRenderer` | the batch, the material, the matrix stacks, direct rendering | implements `DirectDrawing` |
| `ImmediateModeRendererProofs` | proofs about it, and the refinement | |
| `GLES2Renderer` | cached shader, vertex source, arrays and uniforms against OpenGL's own state, and programs that are linked late or never | used by the canvas and by meshes |
| `MemoryPool`, `PoolAllocator` | arenas; slots for the values of uniforms | `PoolAllocator` extends `MemoryPool` |
| `ShaderLoader` | directives and includes of shader files | - |
| `MaterialParser` | grammar actions, context, tree and passes of material files | - |
| `SpriteSheet` | a sheet that is read while its sprites are used | - |
| `RenderingProofs` | proofs about the renderer, the pool with its slots, the sprites, and the shader files | |
| `Camera` | cached matrices, and sizes on their way through the scene | - |
| `AffineTransform` | the class of the same name, over the integers | - |
| `TransformChain` | one that is built step by step | `AffineTransform` |
| `SceneTree` | a scene with camera, list and layout: sizes, drawing, touching | `AffineTransform`; takes the matrices of `Camera` to be exact |
| `SceneProofs` | proofs about the dispatcher, cameras, transformations and the scene around them | |
| `MC*` | the instances TLC checks; `MCAssetFiles` takes the three kinds of files together, `MCScene` the camera and the scene around it, and `MCGLES2Renderer` the renderer with the pool of its uniforms, which it lets serve other requests | |

Composition follows the code's own layering. `ProducerConsumerQueue` is shown to
be a FIFO, so `ThreadManager` and `ResourceLoading` use sequences for queues.
`EventDispatcher` is shown to keep the promise of a registry, so `InputManager`
walks its observers in a plain loop. `InputManager` shows that a reset tells
every observer about everything that was down, so `TouchDispatch` cancels all
touches in one step. `ImmediateModeRenderer` takes the renderer below it to draw what it
is told, which is what `GLES2Renderer` shows of every draw call; that in turn
takes the value of a uniform for granted, whose storage is `PoolAllocator`.
`Camera` shows that a matrix that is handed out is exact, so `SceneTree` calculates with
the size that was told last; it takes `Apply`, `Inverted` and the setters of a
transformation from `AffineTransform`, where they are proved right.

### ProducerConsumerQueue

One action per step between two points where another thread can see a
difference: the lock (`Lock`), what is done under it (`Push`, `MoveFront`,
`PopFront`, `TryDequeue`, `Clear`), `Notify` after the unlock, `Wait`. A worker
(`LoopPoint`) calls `dequeue` for ever; the render thread calls `tryDequeue`
until the queue is empty (`CallFlush`). What makes the module more than a
textbook queue is `Destroy`: the closures it stores own references, the last of
which may run a destructor that posts another closure *to the same queue*
(`Release`). The assignment `item = std::move(front)` destroys the caller's
previous closure under the lock, `clear()` destroys the dropped ones after it.
The mutex is not recursive; a thread that asks for it twice is what
`NoSelfDeadlock` excludes. It holds because the flush resets its closure before it asks for
the next one, and would not hold without that line (mutant `RunKeepsAction`).

### ThreadManager

`pc` follows `main()`: `Boot` (the window may fail to open), `Initialize`,
frames (`EndFrame`, then `FlushTake`/`FlushRun`/`FlushReset` until `FlushEnd`),
`Shutdown`, `PostStop`, `ClearRenderQueue` after the spin on `exited()`,
`ResetServices`, then the destructor with its second stop and the join. `wpc`
follows the loop of the worker. Resources are reference-counted by `holders`:
the scene, a load closure, a setup closure, a material. A GL object whose last
holder goes posts a delete closure; this can happen on either thread, in the
flush, in a frame, or while the render queue is being cleared. Materials hold
textures one level deep (`Sub`). Weak references are the test `holders[r] = {}`.

### ResourceLoading

The same life of a load without reference counts but with every increment and
decrement of `total`, `complete` and `pending` as its own step, on both threads,
and with the loading scene reading `complete`, `total` and `pending` in three
steps (`ReadComplete`, `ReadTotal`, `ReadPending`). `Subs` gives what a setup
requests; a material's setup requests shaders and textures in any order.
`RequestSync` is the synchronous path, which shares an object that is still
loading without waiting for it, as the code does. Sub-resources go two
levels deep (mesh, material, texture), as in the engine; `LoadingAssumption` says so.

### EventDispatcher

`mObservers[e]` is the slot list of one `ObserverList`, with `Null` for a removed
observer; `passes` is the stack of `forEach` calls. `Compact` (move the last slot
into the gap, only in the outermost pass over that list), `Skip`, `Call`,
`Return` and `Finish` are the loop; everything else is user code, which runs when
no pass is under way or inside a callback. The handlers that `AbstractScene` owns
by key appear in a list and in `mEventObserverMap`.

### InputManager

A call is a stack of tasks (`work`): an `emit*` function, the loop of a reset, the
second half of an `inject*` function that emulates the other device, a pass
over the observers. `Notify` calls the next observer; one in `Reactive` may push
`resetAll` or a change of an emulation flag on top, so that nesting is as deep
as the code allows. `held` is what the user really holds; `view` is history:
what each observer believes is down.

### TouchDispatch

Fingers begin, move, end and are cancelled between frames; a frame updates the
scene, then its children one by one, where buttons send clicks and their
handlers may switch the scene. `hit` chooses which children contain the finger,
which stands for all geometry. A press is shown for `PressTicks` frames.
`cancelled` and `nestedLayout` are history.

### DirectDrawing and ImmediateModeRenderer

`DirectDrawing` draws every vertex the moment it is emitted, with the settings of
that moment. `ImmediateModeRenderer` has one action per function of the class.
`Flush` draws the batch with what the *material* holds, which the setters update
after they have flushed, and chooses the shader from the custom shader and the
texture in force. The refinement mapping takes as the abstract screen what
OpenGL has drawn plus what the batch would be if it were drawn now; a setter that
forgets to flush changes that past. `mCustomShader` and the shader of the material
are distinct, because a flush of an empty batch leaves the material's alone.
`block` holds the indices a user of `begin()` may pass to `index()`: those `vertex()`
returned since.

### GLES2Renderer

`caches` is the renderer's memory, `gl` is OpenGL's: the program in use, the
enabled arrays with what they read, the bound index buffer and the uniforms of
every program. `doing` serialises the two users as the render thread does: the
canvas applies its material, fills and binds its buffers and draws; a mesh binds
the source of an element, and applies and draws each pass; and a mesh that is
loaded fills buffers of its own between two of these (`LoadMesh`), which leaves its
index buffer bound. `SetUp` says what a renderer without caches would have set up,
and `DrawsAsTold` that every draw finds exactly this. A shader is usable once it is
`linked`, which happens at any time or never (`Compile`): until then it has no uniforms
and no attributes, and what is drawn with it is not drawn.

### MaterialParser

The text is not given in advance: each step reads a statement that the file
could hold next, `text` remembers them. The actions of the grammar run when their
rule matches, so the alternatives of a uniform's value are tried one by one
(`TryVector` for four, three and two numbers, then `TryScalar`), and what a failed
alternative pushed stays. `EndOfFile` starts the second phase, which applies the
options of file, technique and pass in this order (`BuildPass`). `MaterialAsWritten` compares
the result with the text by counting brackets, independently of stacks and tree.

### ShaderLoader

`calls` is the recursion of `loadMemory` and `loadFile`; `what` is a parameter by
value. Which files there are, line by line, is chosen in `LoaderInit`. A line of a source is
recorded by its route (`Occurrence`): its place in its file, after the places of the
`%include` lines that lead there, so that two inclusions of one file can be told apart.

The reference knows no calls. `Routes` are all the ways from the root through `%include` lines
to a line; of two routes the one comes first that has the upper line where they
part (`Before`); and the section in force at a line is that of the last directive above it in its
file, or else of the last one above the `%include` of that file, and so on
(`InForce`). `ExpandedAsWritten` says that each source is the text lines among the routes of
its sections, in that order, and that the result is true if and only if no route ends in
an invalid directive or a missing file.

### MemoryPool and PoolAllocator

`arenas` is the linked list from its end, so that the newest arena has the highest
number. `Cut` counts the offset from `mArenaSize`, as the code does, and not from
the size of the arena at hand. `PoolAllocator` adds the free list and the values of
`GLES2Uniform`; a slot is named by its place in `allocated`. `lost` is history: the
slots that the move assignment overwrites.

### Camera

Both cameras in one module (`orthogonal` says which): they differ in how a size
reaches them (`SetSize`) and in what they add to the projection. `Refresh` is the
code of the four getters together, for the set of matrices that is asked for; an
inverse may calculate the matrix it inverts. `AddComponent` repeats the size the scene
has, as the code does; `added` is history and says that this happened since the screen
had its last word. `handed` is history, too: what was given out last, and what it should
have been calculated from.

### AffineTransform and TransformChain

One operator per function of the class. Coordinates are integers and angles are quarter
turns, so that nothing is rounded; what could be wrong about these functions is which
field goes where and which is read after it was written, and that shows over the
integers. `Rotate` reads the new `a` and `b` when it calculates `c` and `d`, as the code
does. `TransformChain` applies the three functions that change a transformation in
place, in any order, and remembers the product of the steps.

### SceneTree

A scene that is put together in any order (`AddSceneComponent`), shown (`ShowScene`),
resized, drawn and touched. Components are an orthogonal camera and a list of children;
`Adjusted` is what the camera makes of a finger on its way down, if its hook runs before
that of the list. `LayoutChildren` gives children the size of the list, or, with an
absolute layout, leaves it to them; that layout places them by index, with an
inverse per index that is calculated when a touch needs it (`CacheInverses`). Whoever
changes the list cancels the touch under way, which lays it out (`CancelTouch`). Only the
middle and a corner of the screen are touched, by one finger; what matters is that
these two points are inside different children. `received` is history: the last event,
with the finger's position on the screen and the point that was passed on.

### SpriteSheet

The worker reads an entry, finds or makes an element and fills it field by field
(`AssignField`), which takes five steps under a lock; the render thread asks for sprites
(`GetSprite`, which waits for that lock), makes images (`MakeImage`), and draws in three
steps, none of which takes it (`DrawSprite`, `ReadTexture`, `Drawn`). What a field holds
is the number of the entry it is from. Sheets are loaded in either way, and may break off.

## 3. Runs

| Run | Instance | What it shows |
|---|---|---|
| `queue` | 3 threads, 2 of them workers that sleep on the queue; 3 closures, one of which releases another | `NoSelfDeadlock`, `NoLostWakeup`, `ImplementsFifoQueue` |
| `threads` | a material with its texture and a second texture, each created once | `DrainedBeforeExit`, `NothingOutlivesServices`, `ClosuresRunInContext`, `GLAccounting`, `ShutdownTerminates`, `LoadsResolve` |
| `loading` | mesh, material, and a texture shared with a sprite sheet | `AllLoadedWhenComplete`, `CountersConsistent`, `FullProgressMeansLoaded`, `OneLoadUnderWay`, `LoadingCompletes` |
| `events` | 2 events, 2 handlers, 2 keys, a client; passes 2 deep, lists of 3 slots | `HandlersListedOnce`, `ImplementsRegistry` |
| `input` | 2 buttons, 2 fingers, 1 key, 2 observers, every reaction but switching mouse emulation off | `NotificationsWellFormed`, `ViewsAgree`, `NothingStuck`, `CallsReturn` |
| `touches` | 2 fingers; a scene with 2 buttons that come and go and one that takes touches itself; presses shown for 1 frame | `TouchChain`, `TouchedChildInPlace`, `FingersCounted`, `ClickIsTap`, `ClicksAreSent` |
| `canvas` | 1 vertex, 2 kinds of primitives, a texture, a custom shader, 2 matrices, a flag, a mesh; 2 indices or meshes drawn | `ImplementsDirectDrawing` |
| `renderer` | 2 shaders of the canvas, 2 of meshes, each linked sooner, later or never, 2 meshes, 2 uniforms; or 3 uniforms with slots of 2 bytes, arenas of 4, other requests of 1 to 5 and 3 arenas | `DrawsAsTold`, `ArraysOwned`, `BlocksDisjoint`, `SlotsOwnedOnce` |
| `files` | materials of 6 statements with 1 option and 1 uniform, given as a number, a texture or a tuple; 3 shader files, each included from any earlier one; sheets of up to 3 entries with 2 names | `EverythingConsumed`, `MaterialAsWritten`, `ExpandedAsWritten`, `SpritesFollowSheet`, `DrawnWhole` |
| `scene` | both cameras, 2 sizes, 2 lenses, 2 poses; or a scene with 2 children, 2 screens, 2 aspect ratios, 2 positions of the camera and 2 of the finger | `NeverStale`, `FitsScreen`, `TouchedWhereDrawn`, `TopmostTouched`, `LaidOutWhenDrawn` |
| `nested_layout` | as `touches` | finds `LayoutNotNested` violated, see below |
| `rotate` | up to two steps of a transformation | finds `StepsCompose` violated, see below |

Every run but the last two passes. The types of the variables are invariants of the
proofs where there are proofs, and part of a checked property elsewhere
(in `HandlersListedOnce` and `LaidOutWhenDrawn`, for example). Each bound is as small as the case it is
about:

- `queue` needs two workers, since a wake-up can only be lost to a second
  consumer; the third thread does what the render thread does with its queue. The engine's
  two queues have fewer users each (nobody sleeps on the render queue, nobody
  flushes a job queue), so the run covers both.
- `threads` needs two levels, a material that dies with its texture, and a
  resource that shares nothing with them, so that deletions and loads of
  unrelated resources interleave in both queues. `MaxLoads` = 1 lets each be
  created once; a resource requested again after it died is a new object with
  the same life.
- `loading` has three levels (mesh, material, texture) and a diamond (the texture
  is also a page of the sheet); any file may fail. Each file is requested at
  most once anew, since the model keeps every object alive.
- `events` lets a pass be suspended in a pass over the same list, which is
  where compaction must be withheld, and lists of three slots have a middle, so
  that a move is not a plain removal of the last slot.
- `input` has `Left`, which emulation distinguishes, and one other button; finger 0
  and one other finger. The reaction it leaves out is the one that section 5
  shows to leave a button pressed.
- `touches` sets `MaxDown` = 2: a finger may land on a button that was cancelled
  once, and two fingers may be on a button together. Two buttons in one list let the
  index of one change with the other. `PressTicks` = 1 lets a press be shown again
  while its click waits.
- `canvas` has two kinds of primitives, two matrices, two shaders and a texture, so
  that every setter meets a batch it must flush; two drawings suffice to see one
  with the settings of another.
- `renderer` gives the shaders attributes at different locations, and a mesh that
  lacks one of them, so that an array left enabled is one nobody wants. It has no
  bound: the state of the renderer is finite.
- `files` has room for a technique and a pass with settings before, between or after
  them, and for two values in a row, the second of which would pop what the
  first left. One asset is loaded in each behaviour. Shader files have three levels,
  the depth at which a section or a failure must pass through a file that
  neither began nor ends it.
  Sheets have two entries of one name and one of another, in any order, or a broken one
  anywhere.
- In its second part, `renderer` has every order of requests below, at and above the
  size of an arena, large ones first or last. The engine's only pool serves one size; the
  run lets others in, to check `MemoryPool` for what its interface accepts.
- `scene` has two values of everything a matrix depends on: a third would add no
  way of being stale. In its second part the two screens are twice as high and twice as
  wide as the virtual resolution, so that fitting and expanding differ on both axes, and
  the one transformation moves, turns and mirrors a child, so that no two of its
  properties can be confused; children are as large as the scene or smaller than the distance
  of the two points that are touched. Neither part has another bound.
- `rotate` stops after two steps; one is enough to find what it finds.

Fairness is assumed only of the threads: `WF(MainStep)` and `WF(WorkerStep)`, since
the operating system runs both, and `WF(FrameStep)` in `TouchDispatch`, since the
window's loop calls the frame function for ever. Nothing is assumed of users or
scenes. `InputManager` assumes `WF` of the calls under way (a callback returns),
and `CallsReturn` shows that nested resets come to an end. Deadlock is checked in every run.

### What the violations show

`ChildrenListComponent::layoutChildren()` starts with `assert(!mIterating)`
(`src/engine/scene/components/ChildrenListComponent.cpp:110`), and
`onBeforeTouchEvent` calls it for every touch event. `nested_layout` finds a legal
sequence of calls that breaks the assertion: a button is tapped, a second finger
goes down before the next frame, the frame updates the children, the button
sends its click from inside that loop, the handler calls `setCurrentScene`, which
resets the input, and the cancelled touch of the second finger arrives at the
list that is being iterated.

`AffineTransform::rotate()` is documented like `translate()` and `scale()`
(`src/engine/math/AffineTransform.h:334`: "Applies rotation to this transformation."),
and the constructor that composes says what applying means (`:58`). It assigns `a` and `b`
before it calculates `c` and `d` from them (`src/engine/math/AffineTransform.cpp:183-186`).
`rotate` finds this with a quarter turn of the identity; the proofs show that a
quarter turn makes of any transformation one whose determinant is zero. Nothing in the
repository calls the function.

## 4. Proofs

TLAPS checks the following for all values of the constants under the `ASSUME`s
of the module.

| Module | Theorem | Property | Inductive invariant |
|---|---|---|---|
| `ProducerConsumerQueueProofs` | `TypeCorrect` | `TypeOK` | `IInv`, see below |
| | `NeverSelfDeadlocked` | `NoSelfDeadlock` | `IInv` |
| | `FifoRefinement` | `ImplementsFifoQueue` | `IInv`, then step by step |
| | `EveryWakeupArrives` | `NoLostWakeup` | itself, with `IInv` |
| `ThreadManagerProofs` | `TypeCorrect` | `TypeOK` | `IInv`, see below |
| | `Drained` | `DrainedBeforeExit` | `IInv` |
| | `NothingLeft` | `NothingOutlivesServices` | `IInv` |
| | `RunInContext` | `ClosuresRunInContext` | `IInv` |
| | `DeletedOnce` | `GLAccounting` | itself, with `IInv` |
| `ResourceLoadingProofs` | `CountersAgree` | `CountersConsistent` | `IInv`, see below |
| | `ProgressTruthful` | `FullProgressMeansLoaded` | `IInv` |
| | `CompletionTruthful` | `AllLoadedWhenComplete` | `IInv` |
| | `LoadedOnce` | `OneLoadUnderWay` | `NoneLost`, with `IInv` |
| | `AllConsumed` | `EverythingConsumed` | `ParserInv`, see below |
| | `LoadedAsWritten` | `MaterialAsWritten` | `ParserInv` |
| `ImmediateModeRendererProofs` | `CanvasTypeCorrect` | `TypeOK` | `IInv`, see below |
| | `BatchesInvisible` | `ImplementsDirectDrawing` | `IInv`, then step by step |
| `RenderingProofs` | `NothingLeftEnabled` | `ArraysOwned` | `RendererInv`, see below |
| | `CachesTransparent` | `DrawsAsTold` | `RendererInv` |
| | `PoolTypeCorrect` | `PoolTypeOK` | `ArenasTile` |
| | `AllocatedApart` | `BlocksDisjoint` | `ArenasTile` |
| | `SlotsTypeCorrect` | `SlotsTypeOK` | that of the pool |
| | `OneOwner` | `SlotsOwnedOnce` | itself, with the types |
| | `SheetTypeCorrect` | `SheetTypeOK` | `SheetInv`, see below |
| | `SpritesRight` | `SpritesFollowSheet` | `SheetInv` |
| | `NeverTorn` | `DrawnWhole` | `SheetInv` |
| | `LoaderCorrect` | `ExpandedAsWritten` | `LoaderInv`, see below |
| `InputManagerProofs` | `NotificationsInOrder` | `NotificationsWellFormed` | `InputInv`, see below |
| | `ObserversKnow` | `ViewsAgree` | `InputInv` |
| | `NothingLeftDown` | `NothingStuck` | `HeldInv`, with `InputInv` |
| `TouchDispatchProofs` | `RecordsAgree` | `TouchChain` | `IInv`, see below |
| | `InPlace` | `TouchedChildInPlace` | `IInv` |
| | `Counted` | `FingersCounted` | `IInv` |
| | `ClicksAreTaps` | `ClickIsTap` | `IInv` |
| `SceneProofs` | `DispatcherTypeCorrect` | `TypeOK` | `DispatchInv`, see below |
| | `NoDanglingHandler` | `HandlersListedOnce` | `DispatchInv` |
| | `RegistryImplemented` | `ImplementsRegistry` | `DispatchInv`, then step by step |
| | `CameraTypeCorrect` | `CameraTypeOK` | `CachesFresh` |
| | `NothingStale` | `NeverStale` | `CachesFresh` |
| | `ShownFits` | `FitsScreen` | itself |
| | `ComposeApplies`, `IncrementsCompose`, `InverseUndoes` | what the operators of `AffineTransform` compute | - |
| | `RotateCollapses` | the finding of `rotate`, for all inputs | - |
| | `DrawnWhereTouched` | `TouchedWhereDrawn` | `TreeInv`, see below |
| | `TopmostReached` | `TopmostTouched` | `TreeInv` |
| | `NoLayoutForgotten` | `LaidOutWhenDrawn` | `TreeInv` |

*The queue.* `mMutex` holds the thread that owns the mutex, and the code of a thread is a
program counter. `IInv` says that a thread in a critical section is the owner
(`MutualExclusion`), that a thread's variable is empty whenever `tryDequeue` may assign
to it (`ItemInv`), that closures are destroyed in three places, none of which holds
the lock (`AfterInv`), that the thread that is taking sees a non-empty deque
(`FrontInv`), and who sleeps (`SleepInv`). `NoSelfDeadlock` is not inductive without
`ItemInv`: only because the flush has let go of its previous closure is there no
destructor to run under the lock. For the refinement every step is shown to be a
step of `FifoQueue` or to leave the queue alone. `NoLostWakeup` is inductive beside `IInv`: a
closure arrives with the thread that will notify, whose notification exchanges that thread
for a sleeper that is now on the way, and who leaves the way takes a closure along.

*The threads.* That nobody holds a resource when the services go cannot be seen in the
state in which they go alone. `IInv` says that a closure which stands for a reference holds it
as long as it exists, wherever it is, and that there is only one of its kind
(`LoadsHold`, `SetupsHold`); that a stop is behind every load, because nobody posts one
after it (`Stopping`); which closures can be where (`Kinds`); and that a resource is held
on behalf of another only while that one is held itself (`References`). In `clear()`, when the
taken closures are gone, the worker has exited, so that its queue holds nothing but stops; there
is no scene, no load and no setup left; and since a texture is held by materials and nothing
is held by a texture, nobody holds anything (`NobodyLeft`). `Released` says what one
reference that is let go of brings about: at most one GL object dies, and its
deletion is what is posted. `GLAccounting` is inductive beside that (`GivesUpBalances`,
`RequestBalances`, `CallBalances`). The proofs take the names of resources to be different from
the three other kinds of holder (`ThreadManagerAssumption`).

*Loading.* `CountersConsistent` compares numbers that steps of two threads change one
at a time, and is not inductive. `IInv` says what each number counts: `pending` is
the size of `Counted`, the loads whose increment has been made and whose decrement has
not, and `total - complete` is the size of `Open`, those of `Counted` whose `++total` is done
and whose `++complete` is not (`Counts`). For a step to add or remove exactly one
element, a load must be in one place at a time, with a function, in a queue or with a thread,
and in no queue twice (`Placed`), with the status that belongs to the place
(`Statuses`). `Reads` carries what the loading scene has read from one read to the
next, and `Requested` that sub-resources are requested before what uses them is ready. The
depth of sub-resources matters only to the synchronous path, whose recursion the
model unfolds. `LoadedOnce` adds `NoneLost`, that whatever is loading is in one of these places;
`Placed` says that it is in no second one.

*Material files.* The reference counts the brackets of the text and knows no stacks. `ParserInv`
says that the context stands where the brackets say (`Standing`), that the tree has the lists that the
text begins, numbered as it numbers them (`Shape`), and that each list and the block it
belongs to agree in the last word on every setting (`Contents`). They do not agree while the
value of a uniform is matched: then the last statement has no entry yet, and its name is the only
one on the stack (`ReadingNow`). What a vector pushes and pops again is what it
pushed, whatever failed alternatives have left below (`Popped`). A pass is a fold over three lists.
That a fold gives the last entry for each setting is proved without induction over data: of all sets
of entries for which it did not, take one whose greatest index is least (`FoldedIs`). What is left is
that applying file, technique and pass in this order lets the innermost block decide (`PassIsBuilt`,
`InnermostDecides`). The proofs take a null pointer to be neither a list nor a value that is being read
(`ParserAssumption`).

*The pool.* `BlocksDisjoint` says nothing about the room that is left, so that the
next block could overlap. `ArenasTile` adds that an arena with room has the usual size
(which is why the offset may be counted from it), and that the blocks of an arena
end where its remaining bytes begin.

*The camera.* `NeverStale` speaks of what was handed out. `CachesFresh` speaks of the
caches: a matrix whose flag is clear is exact, and so is the visible area, which has no
flag of its own, if the projection's flag is clear.

*The canvas.* `BatchesInvisible` needs the assumption `MaxBatch <= MaxIndex + 2`: no
batch has more vertices than indices can tell apart, which is 65536 in the engine. The
abstract screen is what was drawn plus what the batch would become; `Faithful` of `IInv`
says that the material that `Flush` will draw it with is what the setters were told, and
`Indexed` that every index of the batch is one of a vertex in it. A setter first flushes,
which turns what would be drawn into what is drawn, and then changes the settings of an
empty batch.

*The renderer.* `RendererInv` says that every array that is enabled belongs to the source that is
cached as bound (`Owned`), so that unbinding it leaves nothing behind; and that a flag
that is clear means what it says: the arrays are exactly those the current shader wants of
the current source (`AttributesFresh`), and the uniforms that were set have reached the
program (`UniformsFresh`). The index buffer is the exception, which others bind, too: only
the change from a shader of the canvas to that of a mesh, or back, makes up for it
(`InUse` follows where the caller is).

*The sprites.* An element holds the last entry of its name that has been read, except the
one that is being filled, of which as many fields are new as the worker has assigned
(`Contents`, `Progress`). No element has a texture before the setup, when the worker is done,
and the setup does not run in the middle of a drawing: what is read after a texture
belongs to it (`Reading`).

*Shader files.* The calls under way are themselves a route, as far as they have come (`StackOK`), and
`LoaderInv` compares everything with it. The `what` of each call is the section in force at
its level (`WhatOK`); a call has failed if and only if a wrong route comes before this one and
agrees with it down to that call (`SuccessOK`); and each source holds the text that comes
before it, in order (`Holds`). A step moves on in a file, enters one or leaves one, and for each
of the three a lemma says which routes it puts behind (`MovedBefore`, `EnteredBefore`,
`LeftBefore`): the routes through the line that is left, or none. When the last call returns
nothing is ahead, and what was behind is all. The proofs assume that files are
numbered and include only those of a higher number, so that no route is longer than there are files
(`LoaderAssumption`, `LoaderInit`); with a circle of includes the code would not return.

*Event dispatch.* `DispatchInv` says that no list has a handler in two slots
(`ListsDistinct`), that the handlers in the list of an event are those that some key owns
for it, and that it is one key (`HandlersOwned`, `OwnedByOneKey`), and how passes are nested: all
but the innermost are in the middle of a call, and none is beyond the end of its list by more
than one slot (`PassesNested`). What the registry promises to call is, for each pass, the set
of observers in the slots from its index on, which the module calls `Due`. An observer that is
added comes in at the end and is due in every pass; one that is removed leaves an
empty slot and is due in none; and compaction, which alone moves slots, happens when no pass is
over this list. The lemmas on lists (`SlotsAdded` and those behind it) say
so of one list, `Adding`, `Removing` and the others of all passes at once.

*Touches.* `TouchChain` is inductive once the records of different levels are tied
together: the fingers that a scene counts as touching are active, only the current scene has any,
and a scene without fingers has no touched child (`Routing`); a finger that is inside a button is on it
(`InsideRouted`). Cancelling everything, which scene switches, layouts and changes of
the children do, empties all levels at once and moves the fingers on a button to `cancelled`. That is
why `FingersCounted` needs no weaker form, and why a click means that there was no
cancellation: the counter reaches one only while `cancelled` is zero.

*Input.* `NotificationsWellFormed` speaks of one call to one observer, in the middle of calls
that others interrupted. `InputInv` says that only the pass on top of the stack has anybody left to
call (`Calm`), and that an observer has been told all that the sets hold, unless this pass is
still to call it: then it lags behind by exactly what the pass is about (`Views`). This is where the
assumption on `Observers` enters. A callback that resets starts new passes, and when the last
observer reacts nobody is left who has not heard of the event it reacts to; with another observer
behind it `Views` fails, and so does the property. The engine registers one observer, the
scene manager. `NothingStuck` needs another
invariant: whatever is down is held by the user, or will be brought up by a task on the stack,
or imitates something which is held or about to be let go (`Reasons`), and no task brings down what nobody
holds any more (`Downward`); an emulated begin is made at once, so that no callback comes between the
press and its imitation (`BeginsAtOnce`). The hypothesis of `NothingLeftDown` leaves out
one reaction, of which section 5 shows that it does leave a button pressed.

*The scene tree.* `TouchedWhereDrawn` compares the point that a child was given with the
transform it is drawn with, at the moment of the touch. `TreeInv` says that the sizes that scene, camera
and list have been told agree (`SizesTold`), that a list which needs no layout has had it for
the size it has now (`LaidOut`), that an inverse that is cached is that of the transform with the same index
(`InversesFresh`), and that the index of the touched child is that of the child (`TouchInPlace`). The
argument is then one of arithmetic: the camera adjusts a finger by the difference of two
sizes that are halved, which is exact when both are even (`SceneAssumption` asks for that; the
code calculates with floating-point numbers, the model with integers), and an inverse
undoes its transform because the determinant is one or minus one. For `TopmostTouched` the
children are asked from the last to the first, and the first that contains the
point is the greatest index that does.

*Transformations.* The three facts are polynomial identities; every product is named so
that the solver has only linear sums to compare.

Liveness and everything with fairness, and `ENABLED`, is only model-checked:
`ShutdownTerminates`, `LoadsResolve`, `LoadingCompletes`,
`CallsReturn`, `ClicksAreSent`. All invariants
and action properties of the passing runs are proved.

## 5. Known behaviour that no property covers

Two more assertions of the code can fail:

- `ImmediateModeRenderer::emitVertex()` asserts that an index is at most `MAX_INDEX`
  (`render/ImmediateModeRenderer.cpp:473`), but a batch is flushed only when
  something changes, never because it is full. In the engine that takes 65536
  vertices, 16384 sprites of one sheet in a row; the run stays below the limit,
  and the theorem `BatchesInvisible` has it as its assumption.
- `TextMaterialLoader::loadMaterial()` asserts after a successful parse that no number
  is left on the stack (`src/plugins/material/parser/TextMaterialLoader.cpp:95`). The
  alternatives for four, three and two numbers are tried in this order and leave
  what they pushed when they fail: a file with one pair leaves four numbers. The
  values are right nevertheless (`MaterialAsWritten`), and `EverythingConsumed`
  states the other assertions at this place.

The rest was met while reading and modelling, and nothing in the repository promises
otherwise.

- A touch that is cancelled is never counted down by its button
  (`ui/UIButton.cpp:138-147`): after one scene switch, resize or change of the
  children in the middle of a press, `mFingersDown` stays above zero and the
  button never clicks again. `FingersCounted` and `ClickIsTap` state exactly this.
- While a child is touched, `ChildrenListComponent` swallows moves and the end of
  every other finger (`:212-240`), also of a finger that the scene itself had
  taken: the scene never sees that touch end. A finger that began while a child
  was touched, and was declined by it, counts as active (`SceneManager`) although
  nobody accepted it, and may later reach the scene as a move without a begin.
- `setEmulateMouseFromTouches(false)`, called from a callback of a mouse move that
  is being emulated, leaves the left button pressed for ever. That is why the
  reactions of `input` do not include it.
- Only the observer registered last may react to a notification with a reset
  without disturbing the others: an observer after it would see a cancellation
  before the begin it answers. The engine registers only the scene manager.
- `resetTouches` passes on a reference into the map node that `emitTouchCancel`
  erases; observers of a cancelled touch read a freed position.
- A handler that removes the observers of its own key destroys the closure that
  is executing (`AbstractScene::removeEventObservers`).
- Touch handlers run without a reference of their own to the scene: one that
  switches the scene destroys it while it executes. (`runFrame` keeps one.)
- `resourceLoadProgress` is 0/0 before anything was requested, and a loading
  scene shows a progress that is read before it decides that loading is complete.
- Consecutive blocks of the same strip type become one strip, since `end()` does not
  separate them (`render/ImmediateModeRenderer.cpp:309-317`, `:413-419`).
- After `setTexture(nullptr)` the renderer keeps the texture uniform of the frame;
  texture units are not modelled.
- If the custom shader of the canvas were that of a mesh, a mesh loaded synchronously
  between two draws would leave its index buffer bound, and the canvas would not
  rebind its own. `RendererAssumption` excludes it.
- `AbstractCamera::onBeforeTouchEvent` multiplies the inverse projection and the inverse
  view in the wrong order (`scene/camera/AbstractCamera.cpp:96-99`): with a camera that
  has been moved, touches go astray. `TouchedWhereDrawn` and `TopmostTouched` say
  so (`Unmoved`). `OrthogonalCamera` ignores `mNearZ` and `mFarZ`.
- `addComponent` and `removeComponent` repeat `setSize` with the size an orthogonal camera
  has imposed: on a scene that is shown, the camera takes its virtual resolution for
  the physical one until the next resize. `FitsScreen` names this as the only exception
  (`added`). `Camera` leaves out the setters that overrule the scene's
  size, `setPhysicalResolution` and `setAspectRatio` of a perspective camera;
  `setVirtualResolution` does not tell the children of their new size.
- A scene that takes touches itself gets them in coordinates of the screen, not of its
  camera: only components see the adjusted position (`scene/AbstractScene.cpp:106`).
- `UIImage` reads the size of its sprite when the sprite is set. If the sheet is still
  being loaded, it stays empty (`ui/UIImage.cpp:36`); `SpritesFollowSheet` speaks of images
  that are made later.
- After a failed load, sprites keep the names of textures that nobody requests, and
  are never drawn.
- A mesh may be drawn while the worker adds techniques to its material
  (`mesh/Mesh.cpp:77`): a data race on a vector.
- A shader that does not compile draws nothing, and nothing says so but the log.
- The move assignment of `GLES2Uniform` loses the slot of the value it overwrites;
  `SlotsOwnedOnce` says that a lost slot is at least never used.
- Shader files that include each other in a circle are read for ever; a directive
  followed by a comment keeps its blanks and is invalid; a file without a newline at
  its end is glued to the line after its include.
- `std::stof` throws `out_of_range`, which `loadMaterial` does not catch.
- The third overload of `addEventObserver` (`scene/AbstractScene.h:67-72`) would not
  compile if it were instantiated; `onBeforeTouchEvent` adjusts a position for
  `mTouchedChild` where it means the candidate (`ChildrenListComponent.cpp:189`);
  `UIAbsoluteLayout` does not shift its transforms when a child is inserted.

## 6. Plan

In this order; a tick means done.

1. [x] `ProducerConsumerQueue` implements `FifoQueue`; proofs
2. [x] `ThreadManager`: resources, closures and shutdown
3. [x] `ResourceLoading`: counters and sub-resources
4. [x] `EventDispatcher` implements `ObserverRegistry`
5. [x] `InputManager`, `TouchDispatch`
6. [x] `ImmediateModeRenderer` implements `DirectDrawing`; `GLES2Renderer` below it
7. [x] `MemoryPool`, `PoolAllocator` and their proofs; `ShaderLoader` and
   `MaterialParser` against reference definitions
8. [x] `Camera` and its proofs
9. [x] the scene tree: sizes, layouts and transforms when a child is drawn or touched,
   components in any order; `AffineTransform`
10. [ ] the life of scenes and materials: what executes while it is destroyed
11. [x] sprites and sprite sheets while they are loaded
12. [x] proofs about the counters of `ResourceLoading`
13. [x] proofs: `ArraysOwned` and `DrawsAsTold`; `ImplementsDirectDrawing`; sprites;
    transformations
14. [x] proofs: the end of `ThreadManager` and its GL objects
15. [x] proofs: `ObserverRegistry` from `EventDispatcher`; touches and clicks; the scene tree;
    what observers of the input manager are told; material files
16. [x] the reference of `ShaderLoader` as routes, and the proof of `ExpandedAsWritten`

## 7. Not modelled

- *Vendored libraries* (`src/libs/`), which are most of the repository: glew, ANGLE, assimp,
  libpng, zlib, the JPEG library and others. They are third-party code at the versions they were copied
  from; the engine's own code is about 17,000 of 579,000 lines, so that the mapped share
  of all lines stays small however much of the engine is modelled.
- *Pixels and floating point*: what is rounded, bounding boxes and quads, progress bars,
  the decoding of images, meshes and the other file formats of `src/plugins/`.
- *Atoms*: a map under a mutex that only grows. In any order of calls a string has one atom.
- *Strings, files, logging*: sequential code without state that others share.
- *GLFW and OpenGL* beyond the order in which they are called, and what is
  modelled of OpenGL's state in `GLES2Renderer`.
- *The Windows, macOS and WinRT entry points*, which follow the Linux one;
  samples and tools, which use the engine and add nothing to its rules.
- *Scenes that destroy themselves* in a touch handler, and *materials that are drawn
  while they are read*: undefined behaviour of which no promise is left to state.
  `PROJECT.json` lists both as hazards without a property.

`PROJECT.json` gives the status of each part.
