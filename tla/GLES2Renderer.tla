---------------------------- MODULE GLES2Renderer ----------------------------
(***************************************************************************)
(* The low-level renderer over OpenGL ES: it remembers the shader and the  *)
(* vertex source in use and two flags instead of setting everything up for *)
(* every draw call. Its two users are the canvas, which fills its own      *)
(* buffers before each of its draws, and the meshes; a mesh may be loaded  *)
(* at any moment between two draws, which fills buffers as well. The       *)
(* shaders of meshes are loaded in the background: they may be used before *)
(* they are compiled, and one that does not compile is used all the same.  *)
(***************************************************************************)
EXTENDS Naturals

CONSTANTS
    CanvasShaders, MeshShaders,
    Canvas, Meshes,     \* vertex sources
    Uniforms, Values, None,
    UniformsOf,     \* UniformsOf[s]: the active uniforms of a shader
    LocationOf,     \* LocationOf[s]: the locations of its attributes
    Provides,       \* Provides[v]: the attributes a vertex source has
    Sets            \* Sets[s]: the uniforms the material with that shader sets

Shaders == CanvasShaders \cup MeshShaders
Sources == {Canvas} \cup Meshes
Locations == UNION {{LocationOf[s][a] : a \in DOMAIN LocationOf[s]} : s \in Shaders}

ASSUME RendererAssumption ==
    /\ CanvasShaders \cap MeshShaders = {}
    /\ Canvas \notin Meshes
    /\ None \notin Shaders \cup Sources \cup Values
    /\ UniformsOf \in [Shaders -> SUBSET Uniforms]
    /\ Sets \in [Shaders -> SUBSET Uniforms]
    /\ \A s \in Shaders : \A a, b \in DOMAIN LocationOf[s] :
           LocationOf[s][a] = LocationOf[s][b] => a = b

VARIABLES
    inFrame,
    linked,                     \* the shaders whose programs are compiled and linked
    doing,                      \* what the render thread is in the middle of
    mCurrentShader, mCurrentVertexSource,
    mUniforms,                  \* the values set in this frame, or None
    mShouldRebindUniforms, mShouldRebindAttributes,
    mEnabledArrays,             \* GLES2VertexSource::mEnabledArrays, per source
    glProgram,                  \* glUseProgram
    glArrays,                   \* per location: the <<source, attribute>> that
                                \* an enabled array reads, or None
    glElements,                 \* the source whose index buffer is bound
    glUniforms                  \* per program and uniform: the value it holds

caches == <<mCurrentShader, mCurrentVertexSource, mUniforms, mShouldRebindUniforms,
            mShouldRebindAttributes, mEnabledArrays>>
gl == <<glProgram, glArrays, glElements, glUniforms>>
vars == <<inFrame, linked, doing, caches, gl>>

Init ==
    /\ inFrame = FALSE
    /\ linked = CanvasShaders
    /\ doing = "nothing"
    /\ mCurrentShader = None
    /\ mCurrentVertexSource = None
    /\ mUniforms = [u \in Uniforms |-> None]
    /\ mShouldRebindUniforms = TRUE
    /\ mShouldRebindAttributes = TRUE
    /\ mEnabledArrays = [v \in Sources |-> {}]
    /\ glProgram = None
    /\ glArrays = [l \in Locations |-> None]
    /\ glElements = None
    /\ glUniforms = [s \in Shaders |-> [u \in Uniforms |-> None]]

-----------------------------------------------------------------------------
(* Parts of the operations *)

\* GLES2VertexSource::unbind, for the current source if there is one.
Unbound(arrays) ==
    [l \in Locations |->
        IF mCurrentVertexSource # None /\ l \in mEnabledArrays[mCurrentVertexSource]
        THEN None ELSE arrays[l]]
NoneEnabled ==
    IF mCurrentVertexSource = None THEN mEnabledArrays
    ELSE [mEnabledArrays EXCEPT ![mCurrentVertexSource] = {}]

Unbind ==
    /\ glArrays' = Unbound(glArrays)
    /\ mEnabledArrays' = NoneEnabled

\* What collectUniformsAndAttributes has found: nothing without a program.
ActiveUniforms(s) == IF s \in linked THEN UniformsOf[s] ELSE {}
Attributes(s) == IF s \in linked THEN DOMAIN LocationOf[s] ELSE {}

\* The attributes of shader s that source v provides.
Matching(s, v) == Attributes(s) \cap Provides[v]

\* What the arrays are after GLES2VertexSource::bind.
Wanted(s, v, others) ==
    [l \in Locations |->
        IF \E a \in Matching(s, v) : LocationOf[s][a] = l
        THEN <<v, CHOOSE a \in Matching(s, v) : LocationOf[s][a] = l>>
        ELSE others[l]]

\* Mutant: useShader() does not ask for the arrays to be set up again.
UseShaderKeepsArrays(s) ==
    /\ UNCHANGED mShouldRebindAttributes
    /\ mCurrentShader' = s
    /\ glProgram' = (IF s \in linked THEN s ELSE glProgram)
    /\ IF mCurrentShader = s THEN UNCHANGED <<glArrays, mEnabledArrays>> ELSE Unbind

\* OpenGL refuses a program that is not linked and keeps the one before.
UseShader(s) ==
    IF mCurrentShader = s
    THEN UNCHANGED <<mCurrentShader, glProgram, glArrays, mEnabledArrays,
                     mShouldRebindAttributes>>
    ELSE /\ Unbind
         /\ mCurrentShader' = s
         /\ glProgram' = (IF s \in linked THEN s ELSE glProgram)
         /\ mShouldRebindAttributes' = TRUE

\* The setUniform() functions, for all that the material with shader s sets.
SetUniforms(s, value) ==
    mUniforms' = [u \in Uniforms |-> IF u \in Sets[s] THEN value ELSE mUniforms[u]]

\* MaterialPass::apply: useShader(s), then setUniform for what the material sets.
Apply(s, value) ==
    /\ UseShader(s)
    /\ SetUniforms(s, value)
    /\ mShouldRebindUniforms' =
           (mShouldRebindUniforms \/ mCurrentShader # s \/ Sets[s] # {})

-----------------------------------------------------------------------------
(* Binding a vertex source and drawing: bindVertexSource, setupDrawCall *)

\* setupDrawCall: the uniforms of the program that have a value are uploaded.
BindUniforms ==
    /\ mShouldRebindUniforms' = FALSE
    /\ glUniforms' =
           IF ~mShouldRebindUniforms THEN glUniforms
           ELSE [glUniforms EXCEPT ![mCurrentShader] =
                    [u \in Uniforms |->
                        IF u \in ActiveUniforms(mCurrentShader) /\ mUniforms[u] # None
                        THEN mUniforms[u] ELSE @[u]]]

\* drawPrimitive with the source bound before, the arrays being set up if needed.
Draw ==
    /\ BindUniforms
    /\ mShouldRebindAttributes' = FALSE
    /\ IF mShouldRebindAttributes
       THEN /\ glArrays' = Wanted(mCurrentShader, mCurrentVertexSource, Unbound(glArrays))
            /\ mEnabledArrays' =
                   [mEnabledArrays EXCEPT ![mCurrentVertexSource] =
                       {LocationOf[mCurrentShader][a] :
                           a \in Matching(mCurrentShader, mCurrentVertexSource)}]
            /\ glElements' = mCurrentVertexSource
       ELSE UNCHANGED <<glArrays, mEnabledArrays, glElements>>
    /\ UNCHANGED <<mCurrentShader, mCurrentVertexSource, mUniforms, glProgram>>

\* Mutant: the source bound before keeps its arrays enabled.
BindWithoutUnbind(v) ==
    /\ mCurrentVertexSource' = v
    /\ mShouldRebindAttributes' = (mShouldRebindAttributes \/ mCurrentVertexSource # v)
    /\ UNCHANGED <<mCurrentShader, mUniforms, mShouldRebindUniforms, glProgram,
                   glUniforms, glArrays, mEnabledArrays>>

BindVertexSource(v) ==
    /\ IF mCurrentVertexSource = v
       THEN UNCHANGED <<mCurrentVertexSource, mShouldRebindAttributes, glArrays,
                        mEnabledArrays>>
       ELSE /\ Unbind
            /\ mCurrentVertexSource' = v
            /\ mShouldRebindAttributes' = TRUE
    /\ UNCHANGED <<mCurrentShader, mUniforms, mShouldRebindUniforms, glProgram,
                   glUniforms>>

-----------------------------------------------------------------------------
(* Frames and their users *)

\* resetOpenGLBindings
Reset ==
    /\ Unbind
    /\ mCurrentShader' = None
    /\ mCurrentVertexSource' = None
    /\ glProgram' = None
    /\ glElements' = None
    /\ mShouldRebindUniforms' = TRUE
    /\ mShouldRebindAttributes' = TRUE
    /\ UNCHANGED glUniforms

BeginFrame ==
    /\ ~inFrame
    /\ inFrame' = TRUE
    /\ Reset
    /\ mUniforms' = [u \in Uniforms |-> None]
    /\ UNCHANGED <<linked, doing>>

EndFrame ==
    /\ inFrame
    /\ doing = "nothing"
    /\ inFrame' = FALSE
    /\ Reset
    /\ UNCHANGED <<linked, mUniforms, doing>>

\* ImmediateModeRenderer::flush: the material is applied; if there is geometry
\* the buffers are filled and bound ...
CanvasApply(s, value, next) ==
    /\ inFrame
    /\ doing = "nothing"
    /\ Apply(s, value)
    /\ doing' = next
    /\ UNCHANGED <<inFrame, linked, mCurrentVertexSource, glElements, glUniforms>>

CanvasBind ==
    /\ doing \in {"canvas", "canvasBeforeMesh"}
    /\ BindVertexSource(Canvas)
    /\ glElements' = Canvas         \* GLES2Buffer::setData
    /\ doing' = (IF doing = "canvas" THEN "drawCanvas" ELSE "drawCanvasBeforeMesh")
    /\ UNCHANGED <<inFrame, linked>>

\* ... and drawn. A mesh starts with a flush, of geometry and material.
CanvasDraw ==
    /\ doing \in {"drawCanvas", "drawCanvasBeforeMesh"}
    /\ Draw
    /\ doing' = (IF doing = "drawCanvas" THEN "nothing" ELSE "mesh")
    /\ UNCHANGED <<inFrame, linked>>

\* Mesh::render: each element binds its source, and draws it with each pass.
MeshBind(v) ==
    /\ doing \in {"mesh", "element"}
    /\ BindVertexSource(v)
    /\ doing' = "element"
    /\ UNCHANGED <<inFrame, linked, glElements>>

MeshApply(s, value) ==
    /\ doing = "element"
    /\ Apply(s, value)
    /\ doing' = "pass"
    /\ UNCHANGED <<inFrame, linked, mCurrentVertexSource, glElements, glUniforms>>

MeshDraw ==
    /\ doing = "pass"
    /\ Draw
    /\ doing' = "element"
    /\ UNCHANGED <<inFrame, linked>>

MeshDone ==
    /\ doing \in {"mesh", "element"}
    /\ doing' = "nothing"
    /\ UNCHANGED <<inFrame, linked, caches, gl>>

\* A shader has been loaded and is compiled, between two frames; a synchronous
\* load compiles before the shader can be used.
Compile(s) ==
    /\ ~inFrame
    /\ linked' = linked \cup {s}
    /\ UNCHANGED <<inFrame, doing, caches, gl>>

\* Mesh::setData, from a setup between frames or a synchronous load in a frame.
LoadMesh(v) ==
    /\ doing = "nothing"
    /\ glElements' = v
    /\ UNCHANGED <<inFrame, linked, doing, caches, glProgram, glArrays, glUniforms>>

-----------------------------------------------------------------------------
Next ==
    \/ BeginFrame \/ EndFrame
    \/ \E s \in CanvasShaders, x \in Values,
          n \in {"canvas", "canvasBeforeMesh", "mesh"} : CanvasApply(s, x, n)
    \/ CanvasBind \/ CanvasDraw
    \/ \E v \in Meshes : MeshBind(v) \/ LoadMesh(v)
    \/ \E s \in MeshShaders, x \in Values : MeshApply(s, x)
    \/ MeshDraw \/ MeshDone
    \/ \E s \in MeshShaders : Compile(s)

Spec == Init /\ [][Next]_vars

-----------------------------------------------------------------------------
(* Properties *)

\* Every variable keeps its type.
TypeOK ==
    /\ inFrame \in BOOLEAN
    /\ CanvasShaders \subseteq linked /\ linked \subseteq Shaders
    /\ doing \in {"nothing", "canvas", "drawCanvas", "canvasBeforeMesh",
                  "drawCanvasBeforeMesh", "mesh", "element", "pass"}
    /\ mCurrentShader \in Shaders \cup {None}
    /\ mCurrentVertexSource \in Sources \cup {None}
    /\ mUniforms \in [Uniforms -> Values \cup {None}]
    /\ mShouldRebindUniforms \in BOOLEAN
    /\ mShouldRebindAttributes \in BOOLEAN
    /\ mEnabledArrays \in [Sources -> SUBSET Locations]
    /\ glProgram \in Shaders \cup {None}
    /\ \A l \in Locations :
           glArrays[l] # None => \E v \in Sources : \E a \in Provides[v] : glArrays[l] = <<v, a>>
    /\ glElements \in Sources \cup {None}
    /\ glUniforms \in [Shaders -> [Uniforms -> Values \cup {None}]]

\* What a draw call that sets up everything would leave behind. Without a program
\* there is nothing to draw with: no array is read.
NoArrays == [l \in Locations |-> None]
SetUp ==
    IF mCurrentShader \in linked
    THEN /\ glProgram = mCurrentShader
         /\ glArrays = Wanted(mCurrentShader, mCurrentVertexSource, NoArrays)
         /\ glElements = mCurrentVertexSource
         /\ \A u \in UniformsOf[mCurrentShader] :
               mUniforms[u] # None => glUniforms[mCurrentShader][u] = mUniforms[u]
    ELSE glArrays = NoArrays

\* The caches are transparent: every draw call finds OpenGL set up for the
\* shader, the vertex source and the uniforms it was given, and no array of
\* another source enabled, whatever was drawn and loaded before. A shader that is
\* still loading, or did not compile, draws nothing with what the one before it
\* left in use, and leaves nothing behind for the next.
DrawsAsTold == [][CanvasDraw \/ MeshDraw => SetUp']_vars

\* No array stays enabled that no source knows of: unbind() reaches them all.
ArraysOwned ==
    /\ TypeOK
    /\ \A l \in Locations :
          glArrays[l] # None =>
              /\ mCurrentVertexSource # None
              /\ l \in mEnabledArrays[mCurrentVertexSource]

=============================================================================
