------------------------ MODULE ImmediateModeRenderer ------------------------
(***************************************************************************)
(* The canvas of a scene: ImmediateModeRenderer gathers what is drawn with *)
(* the same settings in one batch of vertices and indices, keeps the       *)
(* settings in a material, and draws the batch when one of them changes,   *)
(* when a mesh is drawn directly, and at the end of a frame. The renderer  *)
(* below is taken to draw what it is told (see GLES2Renderer).             *)
(***************************************************************************)
EXTENDS Integers, Sequences

CONSTANTS
    Vertices, Meshes, Types,
    Textures, Shaders, Matrices, Identity, None,
    Stacks,         \* the projection and the model-view matrix
    Flags,          \* settings that are flushed for only if they change:
    FlagValues,     \* blending and its factors, depth test, depth writes
    DefaultFlags,   \* as the constructors leave them
    MaxIndex,       \* MAX_INDEX
    MaxBatch,       \* bound: vertices in a batch
    MaxDrawn,       \* bound: indices and meshes drawn since the last clear()
    MaxStack        \* bound: depth of a matrix stack

ASSUME CanvasAssumption ==
    /\ Identity \in Matrices
    /\ None \notin Matrices \cup Textures \cup Shaders
    /\ DefaultFlags \in [Flags -> FlagValues]
    /\ {"colored", "textured"} \cap Shaders = {}
    /\ "mesh" \notin Types
    /\ MaxIndex \in Nat /\ MaxBatch \in Nat /\ MaxDrawn \in Nat /\ MaxStack \in Nat

VARIABLES
    inFrame,                            \* SceneManager::runFrame is under way
    mTexture, mCustomShader,
    mMatrix,                            \* mProjectionMatrix, mModelViewMatrix
    mMatrixStack,
    mMaterial,                          \* MaterialPass: uniforms, flags, shader
    mPrimitiveType, mVertexData, mIndexData,
    mInBeginEnd, mInDirectRendering,
    block,          \* the indices vertex() has returned since begin()
    screen          \* what the renderer drew since the last clear()

settings == <<mTexture, mCustomShader, mMatrix, mMaterial>>
batch == <<mPrimitiveType, mVertexData, mIndexData>>
mode == <<inFrame, mInBeginEnd, mInDirectRendering, block>>
vars == <<settings, mMatrixStack, batch, mode, screen>>

Init ==
    /\ inFrame = FALSE
    /\ mTexture = None
    /\ mCustomShader = None
    /\ mMatrix = [s \in Stacks |-> Identity]
    /\ mMatrixStack = [s \in Stacks |-> <<>>]
    /\ mMaterial = [texture |-> None, matrix |-> [s \in Stacks |-> None],
                    flags |-> DefaultFlags, shader |-> None]
    /\ mPrimitiveType \in Types
    /\ mVertexData = <<>>
    /\ mIndexData = <<>>
    /\ mInBeginEnd = FALSE
    /\ mInDirectRendering = FALSE
    /\ block = {}
    /\ screen = <<>>

-----------------------------------------------------------------------------
(* flush() *)

ShaderFor(custom, texture) ==
    IF custom # None THEN custom
    ELSE IF texture # None THEN "textured" ELSE "colored"

\* What apply() hands to the renderer: the textures, matrices and flags that
\* the material holds, and the shader chosen just before.
Applied ==
    [texture |-> mMaterial.texture, matrix |-> mMaterial.matrix,
     flags |-> mMaterial.flags, shader |-> ShaderFor(mCustomShader, mTexture)]

\* The batch as the renderer draws it. A uint16_t index wraps at MAX_INDEX + 2.
Drawn(with) ==
    [k \in DOMAIN mIndexData |->
        [what |-> mVertexData[(mIndexData[k] % (MaxIndex + 2)) + 1],
         type |-> mPrimitiveType, with |-> with]]

\* flush(): the material is applied and the batch drawn, if there is one.
Flush ==
    /\ screen' = screen \o Drawn(Applied)
    /\ mVertexData' = (IF mIndexData = <<>> THEN mVertexData ELSE <<>>)
    /\ mIndexData' = <<>>

\* The material once flush() has returned: a flush of geometry only leaves the
\* shader alone if there is none.
Flushed ==
    [mMaterial EXCEPT !.shader = IF mIndexData = <<>> THEN @ ELSE Applied.shader]

\* Between begin() and end(), and while a mesh is drawn, nothing may change.
Open == inFrame /\ ~mInBeginEnd /\ ~mInDirectRendering

-----------------------------------------------------------------------------
(* Settings *)

SetTexture(t) ==
    /\ Open
    /\ mTexture # t
    /\ Flush
    /\ mTexture' = t
    /\ mMaterial' = [Flushed EXCEPT !.texture = t]
    /\ UNCHANGED <<mCustomShader, mMatrix, mMatrixStack, mPrimitiveType, mode>>

SetCustomShader(s) ==
    /\ Open
    /\ mCustomShader # s
    /\ Flush
    /\ mCustomShader' = s
    /\ mMaterial' = Flushed
    /\ UNCHANGED <<mTexture, mMatrix, mMatrixStack, mPrimitiveType, mode>>

SetFlag(f, v) ==
    /\ Open
    /\ mMaterial.flags[f] # v
    /\ Flush
    /\ mMaterial' = [Flushed EXCEPT !.flags[f] = v]
    /\ UNCHANGED <<mTexture, mCustomShader, mMatrix, mMatrixStack, mPrimitiveType,
                   mode>>

\* Mutant: the batch is not drawn before the matrix changes.
SetMatrixUnflushed(s, m) ==
    /\ mMatrix' = [mMatrix EXCEPT ![s] = m]
    /\ mMaterial' = [mMaterial EXCEPT !.matrix[s] = m]
    /\ UNCHANGED <<mTexture, mCustomShader, batch, mode, screen>>

\* setProjectionMatrix, setModelViewMatrix
SetMatrix(s, m) ==
    /\ Flush
    /\ mMatrix' = [mMatrix EXCEPT ![s] = m]
    /\ mMaterial' = [Flushed EXCEPT !.matrix[s] = m]
    /\ UNCHANGED <<mTexture, mCustomShader, mPrimitiveType, mode>>

AssignMatrix(s, m) ==
    /\ Open
    /\ SetMatrix(s, m)
    /\ UNCHANGED mMatrixStack

PushMatrix(s) ==
    /\ Open
    /\ Len(mMatrixStack[s]) < MaxStack
    /\ mMatrixStack' = [mMatrixStack EXCEPT ![s] = Append(@, mMatrix[s])]
    /\ UNCHANGED <<settings, batch, mode, screen>>

PopMatrix(s) ==
    /\ Open
    /\ mMatrixStack[s] # <<>>
    /\ LET top == Len(mMatrixStack[s]) IN
           /\ SetMatrix(s, mMatrixStack[s][top])
           /\ mMatrixStack' = [mMatrixStack EXCEPT ![s] = SubSeq(@, 1, top - 1)]

-----------------------------------------------------------------------------
(* Drawing *)

SetPrimitiveType(type) ==
    IF mPrimitiveType = type
    THEN UNCHANGED <<mMaterial, batch, screen>>
    ELSE /\ Flush
         /\ mMaterial' = Flushed
         /\ mPrimitiveType' = type

Begin(type) ==
    /\ Open
    /\ SetPrimitiveType(type)
    /\ mInBeginEnd' = TRUE
    /\ block' = {}
    /\ UNCHANGED <<mTexture, mCustomShader, mMatrix, mMatrixStack, inFrame,
                   mInDirectRendering>>

\* vertex() returns the index of the vertex.
EmitVertex(v) ==
    /\ mVertexData' = Append(mVertexData, v)
    /\ mIndexData' = Append(mIndexData, Len(mVertexData))
    /\ block' = block \cup {Len(mVertexData)}

Room == Len(screen) + Len(mIndexData) < MaxDrawn

\* The kind of primitive stays, the vertex has the texture coordinates and the
\* colour set before.
Vertex(v) ==
    /\ mInBeginEnd
    /\ Room
    /\ Len(mVertexData) < MaxBatch
    /\ EmitVertex(v)
    /\ UNCHANGED <<settings, mMatrixStack, mPrimitiveType, inFrame, mInBeginEnd,
                   mInDirectRendering, screen>>

\* index() uses a vertex once more.
Index(i) ==
    /\ mInBeginEnd
    /\ Room
    /\ i \in block
    /\ mIndexData' = Append(mIndexData, i)
    /\ UNCHANGED <<settings, mMatrixStack, mPrimitiveType, mVertexData, mode,
                   screen>>

End ==
    /\ mInBeginEnd
    /\ mInBeginEnd' = FALSE
    /\ block' = {}
    /\ UNCHANGED <<settings, mMatrixStack, batch, inFrame, mInDirectRendering,
                   screen>>

\* clear(): what was drawn before is drawn first, and lost.
Clear ==
    /\ Open
    /\ mVertexData' = (IF mIndexData = <<>> THEN mVertexData ELSE <<>>)
    /\ mIndexData' = <<>>
    /\ mMaterial' = Flushed
    /\ screen' = <<>>
    /\ UNCHANGED <<mTexture, mCustomShader, mMatrix, mMatrixStack, mPrimitiveType,
                   mode>>

\* beginDirectRendering() applies the material even if there is no geometry.
BeginDirectRendering ==
    /\ Open
    /\ Flush
    /\ mMaterial' = [mMaterial EXCEPT !.shader = Applied.shader]
    /\ mInDirectRendering' = TRUE
    /\ UNCHANGED <<mTexture, mCustomShader, mMatrix, mMatrixStack, mPrimitiveType,
                   inFrame, mInBeginEnd, block>>

\* Mesh::render draws with the matrices the canvas has applied.
DrawMesh(m) ==
    /\ mInDirectRendering
    /\ Room
    /\ screen' = Append(screen, [what |-> m, type |-> "mesh", with |-> mMaterial])
    /\ UNCHANGED <<settings, mMatrixStack, batch, mode>>

EndDirectRendering ==
    /\ mInDirectRendering
    /\ mInDirectRendering' = FALSE
    /\ UNCHANGED <<settings, mMatrixStack, batch, inFrame, mInBeginEnd, block,
                   screen>>

-----------------------------------------------------------------------------
(* SceneManager::runFrame *)

\* resetMatrixStacks(), then the renderer clears the screen.
BeginFrame ==
    /\ ~inFrame
    /\ inFrame' = TRUE
    /\ mMatrix' = [s \in Stacks |-> Identity]
    /\ mMatrixStack' = [s \in Stacks |-> <<>>]
    /\ mMaterial' = [Flushed EXCEPT !.matrix = [s \in Stacks |-> Identity]]
    /\ mVertexData' = (IF mIndexData = <<>> THEN mVertexData ELSE <<>>)
    /\ mIndexData' = <<>>
    /\ screen' = <<>>
    /\ UNCHANGED <<mTexture, mCustomShader, mPrimitiveType, mInBeginEnd,
                   mInDirectRendering, block>>

\* flush(true), then the window swaps its buffers.
EndFrame ==
    /\ Open
    /\ Flush
    /\ mMaterial' = Flushed
    /\ inFrame' = FALSE
    /\ UNCHANGED <<mTexture, mCustomShader, mMatrix, mMatrixStack, mPrimitiveType,
                   mInBeginEnd, mInDirectRendering, block>>

-----------------------------------------------------------------------------
SettingStep ==
    \/ \E t \in Textures \cup {None} : SetTexture(t)
    \/ \E s \in Shaders \cup {None} : SetCustomShader(s)
    \/ \E f \in Flags, v \in FlagValues : SetFlag(f, v)
    \/ \E s \in Stacks :
           PushMatrix(s) \/ PopMatrix(s) \/ \E m \in Matrices : AssignMatrix(s, m)

DrawingStep ==
    \/ \E t \in Types : Begin(t)
    \/ \E v \in Vertices : Vertex(v)
    \/ \E i \in block : Index(i)
    \/ \E m \in Meshes : DrawMesh(m)
    \/ End \/ Clear \/ BeginDirectRendering \/ EndDirectRendering

Next == SettingStep \/ DrawingStep \/ BeginFrame \/ EndFrame

Spec == Init /\ [][Next]_vars

-----------------------------------------------------------------------------
(* Properties *)

Material == [texture : Textures \cup {None}, matrix : [Stacks -> Matrices \cup {None}],
             flags : [Flags -> FlagValues],
             shader : Shaders \cup {None, "colored", "textured"}]
Drawing == [what : Vertices \cup Meshes, type : Types \cup {"mesh"}, with : Material]

\* Every variable keeps its type.
TypeOK ==
    /\ inFrame \in BOOLEAN
    /\ mTexture \in Textures \cup {None}
    /\ mCustomShader \in Shaders \cup {None}
    /\ mMatrix \in [Stacks -> Matrices]
    /\ mMatrixStack \in [Stacks -> Seq(Matrices)]
    /\ mMaterial \in Material
    /\ mPrimitiveType \in Types
    /\ mVertexData \in Seq(Vertices)
    /\ mIndexData \in Seq(Nat)
    /\ mInBeginEnd \in BOOLEAN
    /\ mInDirectRendering \in BOOLEAN
    /\ block \subseteq Nat
    /\ screen \in Seq(Drawing)

\* The settings as the user of the canvas has made them.
Current ==
    [texture |-> mTexture, matrix |-> mMatrix, flags |-> mMaterial.flags,
     shader |-> ShaderFor(mCustomShader, mTexture)]

\* Drawing through a batch and a material is drawing directly: every vertex
\* appears in its place, with the settings it was emitted under, although it
\* is drawn only when they change; meshes and clears keep their place among the
\* batches; and nothing is left in a batch when the frame is shown.
Direct ==
    INSTANCE DirectDrawing WITH
        Settings <- [texture : Textures \cup {None}, matrix : [Stacks -> Matrices],
                     flags : [Flags -> FlagValues],
                     shader : Shaders \cup {"colored", "textured"}],
        settings <- Current,
        screen <- IF inFrame THEN screen \o Drawn(Current) ELSE screen

ImplementsDirectDrawing == Direct!Spec

=============================================================================
