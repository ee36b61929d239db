--------------------------- MODULE RenderingProofs ---------------------------
(***************************************************************************)
(* What is proved about drawing, for all values of the constants, in four  *)
(* parts: the caches of the renderer, the memory of the uniforms that it   *)
(* sets, the sprites, and the files of the shaders.                        *)
(***************************************************************************)
EXTENDS GLES2Renderer, PoolAllocator, SpriteSheet, ShaderLoader, FiniteSetTheorems, TLAPS

-----------------------------------------------------------------------------
(***************************************************************************)
(* The caches of the renderer are transparent, for all shaders, vertex     *)
(* sources, attributes and uniforms. The argument: whatever is enabled     *)
(* belongs to the current source, so that unbinding leaves nothing behind; *)
(* and a flag that is clear means that the last draw call has set up what  *)
(* the next one needs. The index buffer is the exception: it is bound by   *)
(* others, too, and only the change from a shader of the canvas to that of *)
(* a mesh, or back, makes up for it.                                       *)
(***************************************************************************)

DrawDoings == {"drawCanvas", "drawCanvasBeforeMesh", "pass"}

\* What is in use, while something is being done with it.
InUse ==
    /\ doing # "nothing" => inFrame /\ mCurrentShader # None
    /\ doing \in DrawDoings \cup {"element"} => mCurrentVertexSource # None
    /\ doing \in {"canvasBeforeMesh", "drawCanvasBeforeMesh", "mesh"}
          => mCurrentShader \in CanvasShaders
    /\ ~inFrame => mCurrentShader = None
    /\ mCurrentShader \in linked => glProgram = mCurrentShader

ArraysInPlace ==
    /\ DOMAIN glArrays = Locations
    /\ \A l \in Locations :
          glArrays[l] # None =>
              /\ mCurrentVertexSource # None
              /\ l \in mEnabledArrays[mCurrentVertexSource]

\* A flag that is clear: the arrays are those of the shader and the source.
AttributesFresh ==
    ~mShouldRebindAttributes =>
        /\ inFrame /\ mCurrentShader # None /\ mCurrentVertexSource # None
        /\ glArrays = Wanted(mCurrentShader, mCurrentVertexSource, NoArrays)
        /\ doing \in DrawDoings \/ (doing = "element" /\ mCurrentShader \in MeshShaders)
              => glElements = mCurrentVertexSource

UniformsFresh ==
    ~mShouldRebindUniforms /\ mCurrentShader \in linked =>
        \A u \in UniformsOf[mCurrentShader] :
            mUniforms[u] # None => glUniforms[mCurrentShader][u] = mUniforms[u]

RendererInv == TypeOK /\ InUse /\ ArraysInPlace /\ AttributesFresh /\ UniformsFresh

-----------------------------------------------------------------------------
LEMMA Kinds ==
    /\ CanvasShaders \cap MeshShaders = {}
    /\ Shaders = CanvasShaders \cup MeshShaders
    /\ Canvas \in Sources /\ Meshes \subseteq Sources
    /\ None \notin Shaders /\ None \notin Sources /\ None \notin Values
    /\ \A s \in Shaders : UniformsOf[s] \subseteq Uniforms
    /\ \A s \in Shaders : \A a \in DOMAIN LocationOf[s] : LocationOf[s][a] \in Locations
BY RendererAssumption DEF Shaders, Sources, Locations

LEMMA RendererInit == Init => RendererInv
<1> SUFFICES ASSUME Init PROVE RendererInv
  OBVIOUS
<1>1. TypeOK
  BY Kinds DEF Init, TypeOK
<1>2. InUse /\ ArraysInPlace /\ AttributesFresh /\ UniformsFresh
  BY Kinds DEF Init, InUse, ArraysInPlace, AttributesFresh, UniformsFresh, DrawDoings
<1> QED
  BY <1>1, <1>2 DEF RendererInv

\* Unbinding the current source leaves no array enabled.
LEMMA UnbindAll ==
    ASSUME RendererInv
    PROVE  /\ Unbound(glArrays) = NoArrays
           /\ NoneEnabled \in [Sources -> SUBSET Locations]
BY DEF RendererInv, TypeOK, ArraysInPlace, Unbound, NoArrays, NoneEnabled

\* bind() enables the arrays the shader and the source share, and no other.
LEMMA WantedArrays ==
    ASSUME NEW s \in Shaders, NEW v \in Sources
    PROVE  LET w == Wanted(s, v, NoArrays)
           IN /\ DOMAIN w = Locations
              /\ \A l \in Locations :
                    w[l] # None =>
                        /\ l \in {LocationOf[s][a] : a \in Matching(s, v)}
                        /\ \E x \in Sources : \E a \in Provides[x] : w[l] = <<x, a>>
              /\ {LocationOf[s][a] : a \in Matching(s, v)} \subseteq Locations
              /\ s \notin linked => w = NoArrays
<1> DEFINE w == Wanted(s, v, NoArrays)
<1>1. DOMAIN w = Locations
  BY DEF Wanted
<1>2. ASSUME NEW l \in Locations, w[l] # None
      PROVE  /\ l \in {LocationOf[s][a] : a \in Matching(s, v)}
             /\ \E x \in Sources : \E a \in Provides[x] : w[l] = <<x, a>>
  <2>1. CASE \E a \in Matching(s, v) : LocationOf[s][a] = l
    <3> DEFINE c == CHOOSE a \in Matching(s, v) : LocationOf[s][a] = l
    <3>1. c \in Matching(s, v) /\ LocationOf[s][c] = l
      BY <2>1
    <3>2. w[l] = <<v, c>>
      BY <2>1 DEF Wanted
    <3>3. c \in Provides[v]
      BY <3>1 DEF Matching
    <3> HIDE DEF c, w
    <3> QED
      BY <3>1, <3>2, <3>3
  <2>2. CASE ~ \E a \in Matching(s, v) : LocationOf[s][a] = l
    BY <1>2, <2>2 DEF Wanted, NoArrays
  <2> QED
    BY <2>1, <2>2
<1>3. {LocationOf[s][a] : a \in Matching(s, v)} \subseteq Locations
  BY Kinds DEF Matching, Attributes
<1>4. s \notin linked => w = NoArrays
  BY DEF Matching, Attributes, Wanted, NoArrays
<1> QED
  BY <1>1, <1>2, <1>3, <1>4

-----------------------------------------------------------------------------
(* The parts of the operations *)

\* Everything of TypeOK but what the render thread is in the middle of.
Types ==
    /\ inFrame \in BOOLEAN
    /\ CanvasShaders \subseteq linked /\ linked \subseteq Shaders
    /\ mCurrentShader \in Shaders \cup {None}
    /\ mCurrentVertexSource \in Sources \cup {None}
    /\ mUniforms \in [Uniforms -> Values \cup {None}]
    /\ mShouldRebindUniforms \in BOOLEAN
    /\ mShouldRebindAttributes \in BOOLEAN
    /\ mEnabledArrays \in [Sources -> SUBSET Locations]
    /\ glProgram \in Shaders \cup {None}
    /\ \A l \in Locations :
           glArrays[l] # None => \E v \in Sources : \E a \in Provides[v] : glArrays[l] = <<v, a>>
    /\ glElements \in Sources \cup {None}
    /\ glUniforms \in [Shaders -> [Uniforms -> Values \cup {None}]]

Doings == {"nothing", "canvas", "drawCanvas", "canvasBeforeMesh", "drawCanvasBeforeMesh",
           "mesh", "element", "pass"}

LEMMA TypesOnly == TypeOK <=> Types /\ doing \in Doings
BY DEF TypeOK, Types, Doings

\* No array is enabled after a change of the shader or the source.
LEMMA UnbindStep ==
    ASSUME RendererInv, Unbind
    PROVE  /\ glArrays' = NoArrays
           /\ mEnabledArrays' \in [Sources -> SUBSET Locations]
           /\ ArraysInPlace'
           /\ \A l \in Locations : glArrays'[l] = None
BY UnbindAll DEF Unbind, ArraysInPlace, NoArrays

LEMMA ApplyParts ==
    ASSUME RendererInv, inFrame, NEW s \in Shaders, NEW x \in Values, Apply(s, x),
           UNCHANGED <<inFrame, linked, mCurrentVertexSource, glElements, glUniforms>>
    PROVE  /\ Types' /\ ArraysInPlace' /\ UniformsFresh'
           /\ mCurrentShader' = s
           /\ s \in linked => glProgram' = s
           /\ ~mShouldRebindAttributes' =>
                 /\ s = mCurrentShader /\ ~mShouldRebindAttributes
                 /\ glArrays' = glArrays
<1>1. mUniforms' \in [Uniforms -> Values \cup {None}]
  BY DEF Apply, SetUniforms, RendererInv, TypeOK
<1>2. /\ mCurrentShader' = s
      /\ mShouldRebindUniforms' \in BOOLEAN
      /\ s # mCurrentShader => mShouldRebindUniforms'
  BY DEF Apply, UseShader, RendererInv, TypeOK
<1>3. s \in linked => glProgram' = s
  BY DEF Apply, UseShader, RendererInv, InUse
<1>4. glProgram' \in Shaders \cup {None}
  BY DEF Apply, UseShader, RendererInv, TypeOK
<1>5. CASE s = mCurrentShader
  <2>1. UNCHANGED <<glArrays, mEnabledArrays, mShouldRebindAttributes>>
    BY <1>5 DEF Apply, UseShader
  <2>2. Types' /\ ArraysInPlace'
    BY <1>1, <1>2, <1>4, <2>1 DEF RendererInv, TypeOK, Types, ArraysInPlace
  <2>3. UniformsFresh'
    <3>1. CASE Sets[s] = {}
      <4>1. mUniforms' = mUniforms
        BY <3>1 DEF Apply, SetUniforms, RendererInv, TypeOK
      <4>2. ~mShouldRebindUniforms' => ~mShouldRebindUniforms
        BY DEF Apply
      <4> QED
        BY <1>2, <1>5, <4>1, <4>2 DEF RendererInv, UniformsFresh
    <3>2. CASE Sets[s] # {}
      BY <3>2 DEF Apply, UniformsFresh
    <3> QED
      BY <3>1, <3>2
  <2> QED
    BY <1>2, <1>3, <1>5, <2>1, <2>2, <2>3
<1>6. CASE s # mCurrentShader
  <2>1. Unbind /\ mShouldRebindAttributes' = TRUE
    BY <1>6 DEF Apply, UseShader
  <2>2. Types' /\ ArraysInPlace'
    BY <1>1, <1>2, <1>4, <2>1, UnbindStep DEF RendererInv, TypeOK, Types
  <2>3. UniformsFresh'
    BY <1>2, <1>6 DEF UniformsFresh
  <2> QED
    BY <1>2, <1>3, <2>1, <2>2, <2>3
<1> QED
  BY <1>5, <1>6

LEMMA BindParts ==
    ASSUME RendererInv, inFrame, NEW v \in Sources, BindVertexSource(v), UNCHANGED <<inFrame, linked>>,
           glElements' \in Sources \cup {None}
    PROVE  /\ Types' /\ ArraysInPlace' /\ UniformsFresh'
           /\ mCurrentVertexSource' = v
           /\ ~mShouldRebindAttributes' =>
                 /\ v = mCurrentVertexSource /\ ~mShouldRebindAttributes
                 /\ glArrays' = glArrays
<1>1. UNCHANGED <<mCurrentShader, mUniforms, mShouldRebindUniforms, glProgram, glUniforms>>
  BY DEF BindVertexSource
<1>2. mCurrentVertexSource' = v
  BY DEF BindVertexSource
<1>3. UniformsFresh'
  BY <1>1 DEF RendererInv, UniformsFresh
<1>4. CASE v = mCurrentVertexSource
  <2>1. UNCHANGED <<mCurrentVertexSource, glArrays, mEnabledArrays, mShouldRebindAttributes>>
    BY <1>4 DEF BindVertexSource
  <2>2. Types' /\ ArraysInPlace'
    BY <1>1, <2>1 DEF RendererInv, TypeOK, Types, ArraysInPlace
  <2> QED
    BY <1>3, <1>4, <2>1, <2>2
<1>5. CASE v # mCurrentVertexSource
  <2>1. Unbind /\ mShouldRebindAttributes' = TRUE
    BY <1>5 DEF BindVertexSource
  <2>2. Types' /\ ArraysInPlace'
    BY <1>1, <1>2, <2>1, UnbindStep DEF RendererInv, TypeOK, Types
  <2> QED
    BY <1>2, <1>3, <2>1, <2>2
<1> QED
  BY <1>4, <1>5

LEMMA DrawParts ==
    ASSUME RendererInv, doing \in DrawDoings, Draw, UNCHANGED <<inFrame, linked>>
    PROVE  /\ Types' /\ ArraysInPlace' /\ UniformsFresh' /\ SetUp'
           /\ mShouldRebindAttributes' = FALSE
           /\ glArrays' = Wanted(mCurrentShader, mCurrentVertexSource, NoArrays)
           /\ glElements' = mCurrentVertexSource
<1> DEFINE s == mCurrentShader
           v == mCurrentVertexSource
<1>1. s \in Shaders /\ v \in Sources /\ inFrame /\ s # None /\ v # None
  BY Kinds DEF RendererInv, TypeOK, InUse, DrawDoings
<1>2. /\ UNCHANGED <<mCurrentShader, mCurrentVertexSource, mUniforms, glProgram>>
      /\ mShouldRebindAttributes' = FALSE /\ mShouldRebindUniforms' = FALSE
  BY DEF Draw, BindUniforms
<1>3. /\ glArrays' = Wanted(s, v, NoArrays)
      /\ glElements' = v
      /\ mEnabledArrays' \in [Sources -> SUBSET Locations]
      /\ ArraysInPlace'
  <2>1. CASE mShouldRebindAttributes
    <3>1. /\ glArrays' = Wanted(s, v, NoArrays) /\ glElements' = v
          /\ mEnabledArrays' = [mEnabledArrays EXCEPT ![v] =
                                   {LocationOf[s][a] : a \in Matching(s, v)}]
      BY <2>1, UnbindAll DEF Draw
    <3>2. mEnabledArrays' \in [Sources -> SUBSET Locations]
      BY <3>1, <1>1, WantedArrays DEF RendererInv, TypeOK
    <3>3. mEnabledArrays'[v] = {LocationOf[s][a] : a \in Matching(s, v)}
      BY <3>1, <1>1 DEF RendererInv, TypeOK
    <3>4. ArraysInPlace'
      BY <3>1, <3>3, <1>1, <1>2, WantedArrays DEF ArraysInPlace
    <3> QED
      BY <3>1, <3>2, <3>4
  <2>2. CASE ~mShouldRebindAttributes
    <3>1. UNCHANGED <<glArrays, mEnabledArrays, glElements>>
      BY <2>2 DEF Draw
    <3>2. glArrays = Wanted(s, v, NoArrays) /\ glElements = v
      BY <2>2 DEF RendererInv, AttributesFresh
    <3> QED
      BY <3>1, <3>2, <1>2 DEF RendererInv, TypeOK, ArraysInPlace
  <2> QED
    BY <2>1, <2>2 DEF RendererInv, TypeOK
<1>4. /\ glUniforms' \in [Shaders -> [Uniforms -> Values \cup {None}]]
      /\ s \in linked => \A u \in UniformsOf[s] :
             mUniforms[u] # None => glUniforms'[s][u] = mUniforms[u]
  <2>1. CASE ~mShouldRebindUniforms
    <3>1. glUniforms' = glUniforms
      BY <2>1 DEF Draw, BindUniforms
    <3> QED
      BY <3>1, <2>1 DEF RendererInv, TypeOK, UniformsFresh
  <2>2. CASE mShouldRebindUniforms
    <3> DEFINE row == [u \in Uniforms |->
                         IF u \in ActiveUniforms(s) /\ mUniforms[u] # None
                         THEN mUniforms[u] ELSE glUniforms[s][u]]
    <3>1. glUniforms' = [glUniforms EXCEPT ![s] = row]
      BY <2>2 DEF Draw, BindUniforms
    <3>2. row \in [Uniforms -> Values \cup {None}]
      BY <1>1 DEF RendererInv, TypeOK
    <3>3. s \in linked => \A u \in UniformsOf[s] : mUniforms[u] # None => row[u] = mUniforms[u]
      BY <1>1, Kinds DEF ActiveUniforms
    <3> HIDE DEF row
    <3>4. glUniforms'[s] = row
      BY <3>1, <1>1 DEF RendererInv, TypeOK
    <3>5. glUniforms' \in [Shaders -> [Uniforms -> Values \cup {None}]]
      BY <3>1, <3>2, <1>1 DEF RendererInv, TypeOK
    <3> QED
      BY <3>3, <3>4, <3>5
  <2> QED
    BY <2>1, <2>2 DEF RendererInv, TypeOK
<1>5. Types'
  BY <1>1, <1>2, <1>3, <1>4, WantedArrays DEF RendererInv, TypeOK, Types
<1>6. UniformsFresh'
  BY <1>2, <1>4 DEF UniformsFresh
<1>7. SetUp'
  <2>1. CASE s \in linked
    <3>1. glProgram = s
      BY <2>1 DEF RendererInv, InUse
    <3>2. Wanted(s, v, NoArrays)' = Wanted(s, v, NoArrays)
      BY <1>2 DEF Wanted, Matching, Attributes, NoArrays
    <3> QED
      BY <2>1, <3>1, <3>2, <1>2, <1>3, <1>4 DEF SetUp
  <2>2. CASE s \notin linked
    <3>1. glArrays' = NoArrays
      BY <2>2, <1>1, <1>3, WantedArrays
    <3> QED
      BY <2>2, <3>1, <1>2 DEF SetUp, NoArrays
  <2> QED
    BY <2>1, <2>2
<1> QED
  BY <1>2, <1>3, <1>5, <1>6, <1>7

-----------------------------------------------------------------------------
(* The actions *)

\* What an array should read does not change while no shader is compiled.
LEMMA WantedKept ==
    ASSUME UNCHANGED linked, NEW s \in Shaders, NEW v \in Sources
    PROVE  Wanted(s, v, NoArrays)' = Wanted(s, v, NoArrays)
BY DEF Wanted, Matching, Attributes, NoArrays

LEMMA ResetParts ==
    ASSUME RendererInv, Reset, UNCHANGED linked, inFrame' \in BOOLEAN,
           mUniforms' \in [Uniforms -> Values \cup {None}]
    PROVE  /\ Types' /\ ArraysInPlace' /\ AttributesFresh' /\ UniformsFresh'
           /\ mCurrentShader' = None /\ None \notin linked
<1>1. /\ mCurrentShader' = None /\ mCurrentVertexSource' = None /\ glProgram' = None
      /\ glElements' = None /\ mShouldRebindUniforms' = TRUE
      /\ mShouldRebindAttributes' = TRUE /\ UNCHANGED glUniforms /\ Unbind
  BY DEF Reset
<1>2. Types'
  BY <1>1, UnbindStep DEF RendererInv, TypeOK, Types
<1>3. ArraysInPlace'
  BY <1>1, UnbindStep
<1>4. AttributesFresh' /\ UniformsFresh'
  BY <1>1 DEF AttributesFresh, UniformsFresh
<1> QED
  BY <1>1, <1>2, <1>3, <1>4, Kinds DEF RendererInv, TypeOK

LEMMA FrameStep == RendererInv /\ (BeginFrame \/ EndFrame) => RendererInv'
<1> SUFFICES ASSUME RendererInv, BeginFrame \/ EndFrame PROVE RendererInv'
  OBVIOUS
<1>1. doing = "nothing" /\ doing' = doing /\ Reset /\ UNCHANGED linked
  BY DEF BeginFrame, EndFrame, RendererInv, InUse
<1>2. inFrame' \in BOOLEAN /\ mUniforms' \in [Uniforms -> Values \cup {None}]
  BY DEF BeginFrame, EndFrame, RendererInv, TypeOK
<1>3. /\ Types' /\ ArraysInPlace' /\ AttributesFresh' /\ UniformsFresh'
      /\ mCurrentShader' = None /\ None \notin linked
  BY <1>1, <1>2, ResetParts
<1>4. InUse'
  BY <1>1, <1>3 DEF InUse, DrawDoings
<1>5. TypeOK'
  BY <1>1, <1>3, TypesOnly DEF TypeOK, Types
<1> QED
  BY <1>3, <1>4, <1>5 DEF RendererInv

LEMMA CanvasApplyStep ==
    ASSUME RendererInv, NEW s \in CanvasShaders, NEW x \in Values,
           NEW n \in {"canvas", "canvasBeforeMesh", "mesh"}, CanvasApply(s, x, n)
    PROVE  RendererInv'
<1>1. /\ inFrame /\ doing = "nothing" /\ doing' = n /\ Apply(s, x)
      /\ UNCHANGED <<inFrame, linked, mCurrentVertexSource, glElements, glUniforms>>
      /\ s \in Shaders
  BY Kinds DEF CanvasApply
<1>2. /\ Types' /\ ArraysInPlace' /\ UniformsFresh' /\ mCurrentShader' = s
      /\ s \in linked => glProgram' = s
      /\ ~mShouldRebindAttributes' =>
            s = mCurrentShader /\ ~mShouldRebindAttributes /\ glArrays' = glArrays
  BY <1>1, ApplyParts
<1>3. InUse'
  BY <1>1, <1>2, Kinds DEF InUse, DrawDoings
<1>4. AttributesFresh'
  <2>1. ASSUME ~mShouldRebindAttributes'
        PROVE  /\ inFrame' /\ mCurrentShader' # None /\ mCurrentVertexSource' # None
               /\ glArrays' = Wanted(mCurrentShader, mCurrentVertexSource, NoArrays)'
    BY <1>1, <1>2, <2>1, WantedKept, Kinds DEF RendererInv, AttributesFresh, TypeOK
  <2>2. doing' \notin DrawDoings /\ doing' # "element"
    BY <1>1 DEF DrawDoings
  <2> QED
    BY <2>1, <2>2 DEF AttributesFresh
<1>5. TypeOK'
  BY <1>1, <1>2 DEF TypeOK, Types
<1> QED
  BY <1>2, <1>3, <1>4, <1>5 DEF RendererInv

LEMMA CanvasBindStep == RendererInv /\ CanvasBind => RendererInv'
<1> SUFFICES ASSUME RendererInv, CanvasBind PROVE RendererInv'
  OBVIOUS
<1>1. /\ doing \in {"canvas", "canvasBeforeMesh"} /\ BindVertexSource(Canvas)
      /\ glElements' = Canvas /\ doing' \in {"drawCanvas", "drawCanvasBeforeMesh"}
      /\ doing' = "drawCanvasBeforeMesh" => doing = "canvasBeforeMesh"
      /\ UNCHANGED <<inFrame, linked>> /\ inFrame /\ mCurrentShader # None
  BY DEF CanvasBind, RendererInv, InUse
<1>2. /\ Types' /\ ArraysInPlace' /\ UniformsFresh' /\ mCurrentVertexSource' = Canvas
      /\ ~mShouldRebindAttributes' =>
            /\ Canvas = mCurrentVertexSource /\ ~mShouldRebindAttributes
            /\ glArrays' = glArrays
  BY <1>1, BindParts, Kinds
<1>3. UNCHANGED <<mCurrentShader, glProgram>>
  BY <1>1 DEF BindVertexSource
<1>4. InUse'
  BY <1>1, <1>2, <1>3, Kinds DEF RendererInv, InUse, DrawDoings
<1>5. AttributesFresh'
  BY <1>1, <1>2, <1>3, WantedKept, Kinds DEF RendererInv, AttributesFresh, TypeOK
<1>6. TypeOK'
  BY <1>1, <1>2 DEF TypeOK, Types
<1> QED
  BY <1>2, <1>4, <1>5, <1>6 DEF RendererInv

LEMMA DrawStep == RendererInv /\ (CanvasDraw \/ MeshDraw) => RendererInv' /\ SetUp'
<1> SUFFICES ASSUME RendererInv, CanvasDraw \/ MeshDraw PROVE RendererInv' /\ SetUp'
  OBVIOUS
<1>1. /\ doing \in DrawDoings /\ Draw /\ UNCHANGED <<inFrame, linked>>
      /\ doing' \in {"nothing", "mesh", "element"}
      /\ UNCHANGED <<mCurrentShader, mCurrentVertexSource, glProgram>>
  BY DEF CanvasDraw, MeshDraw, DrawDoings, Draw
<1>2. /\ Types' /\ ArraysInPlace' /\ UniformsFresh' /\ SetUp' /\ mShouldRebindAttributes' = FALSE
      /\ glArrays' = Wanted(mCurrentShader, mCurrentVertexSource, NoArrays)
      /\ glElements' = mCurrentVertexSource
  BY <1>1, DrawParts
<1>3. doing' = "mesh" => doing = "drawCanvasBeforeMesh"
  BY DEF CanvasDraw, MeshDraw
<1>4. inFrame' /\ mCurrentShader' # None /\ mCurrentVertexSource' # None /\ inFrame
  BY <1>1, Kinds DEF RendererInv, InUse, DrawDoings
<1>5. InUse'
  BY <1>1, <1>3, <1>4 DEF RendererInv, InUse, DrawDoings
<1>6. AttributesFresh'
  <2>1. mCurrentShader \in Shaders /\ mCurrentVertexSource \in Sources
    BY <1>1, <1>4 DEF RendererInv, TypeOK
  <2>2. glArrays' = Wanted(mCurrentShader, mCurrentVertexSource, NoArrays)'
    BY <1>1, <1>2, <2>1, WantedKept
  <2> QED
    BY <1>1, <1>2, <1>4, <2>2 DEF AttributesFresh
<1>7. TypeOK'
  BY <1>1, <1>2 DEF TypeOK, Types
<1> QED
  BY <1>2, <1>5, <1>6, <1>7 DEF RendererInv

LEMMA MeshBindStep == ASSUME RendererInv, NEW v \in Meshes, MeshBind(v) PROVE RendererInv'
<1>1. /\ doing \in {"mesh", "element"} /\ BindVertexSource(v) /\ doing' = "element"
      /\ UNCHANGED <<inFrame, linked, glElements>> /\ inFrame /\ mCurrentShader # None
      /\ v \in Sources
  BY Kinds DEF MeshBind, RendererInv, InUse
<1>2. /\ Types' /\ ArraysInPlace' /\ UniformsFresh' /\ mCurrentVertexSource' = v
      /\ ~mShouldRebindAttributes' =>
            /\ v = mCurrentVertexSource /\ ~mShouldRebindAttributes
            /\ glArrays' = glArrays
  <2>1. glElements' \in Sources \cup {None}
    BY <1>1 DEF RendererInv, TypeOK
  <2> QED
    BY <1>1, <2>1, BindParts
<1>3. UNCHANGED <<mCurrentShader, glProgram>>
  BY <1>1 DEF BindVertexSource
<1>4. InUse'
  BY <1>1, <1>2, <1>3, Kinds DEF RendererInv, InUse, DrawDoings
<1>5. AttributesFresh'
  <2>1. mCurrentShader \in Shaders
    BY <1>1 DEF RendererInv, TypeOK
  <2>2. Wanted(mCurrentShader, v, NoArrays)' = Wanted(mCurrentShader, v, NoArrays)
    BY <1>1, <1>3 DEF Wanted, Matching, Attributes, NoArrays
  <2>3. mCurrentShader \in MeshShaders => doing = "element"
    BY <1>1, Kinds DEF RendererInv, InUse
  <2>4. ~mShouldRebindAttributes' =>
            glArrays' = Wanted(mCurrentShader, mCurrentVertexSource, NoArrays)'
    BY <1>2, <1>3, <2>2 DEF RendererInv, AttributesFresh
  <2> QED
    BY <1>1, <1>2, <1>3, <2>3, <2>4, Kinds DEF RendererInv, AttributesFresh, DrawDoings
<1>6. TypeOK'
  BY <1>1, <1>2 DEF TypeOK, Types
<1> QED
  BY <1>2, <1>4, <1>5, <1>6 DEF RendererInv

LEMMA MeshApplyStep ==
    ASSUME RendererInv, NEW s \in MeshShaders, NEW x \in Values, MeshApply(s, x)
    PROVE  RendererInv'
<1>1. /\ inFrame /\ doing = "element" /\ doing' = "pass" /\ Apply(s, x)
      /\ UNCHANGED <<inFrame, linked, mCurrentVertexSource, glElements, glUniforms>>
      /\ s \in Shaders /\ mCurrentVertexSource # None
  BY Kinds DEF MeshApply, RendererInv, InUse, DrawDoings
<1>2. /\ Types' /\ ArraysInPlace' /\ UniformsFresh' /\ mCurrentShader' = s
      /\ s \in linked => glProgram' = s
      /\ ~mShouldRebindAttributes' =>
            s = mCurrentShader /\ ~mShouldRebindAttributes /\ glArrays' = glArrays
  BY <1>1, ApplyParts
<1>3. InUse'
  BY <1>1, <1>2, Kinds DEF InUse, DrawDoings
<1>4. AttributesFresh'
  <2>1. Wanted(s, mCurrentVertexSource, NoArrays)' = Wanted(s, mCurrentVertexSource, NoArrays)
    <3>1. mCurrentVertexSource \in Sources
      BY <1>1 DEF RendererInv, TypeOK
    <3> QED
      BY <1>1, <3>1, WantedKept
  <2>2. ~mShouldRebindAttributes' =>
            glArrays' = Wanted(mCurrentShader, mCurrentVertexSource, NoArrays)'
    BY <1>1, <1>2, <2>1 DEF RendererInv, AttributesFresh
  <2>3. ~mShouldRebindAttributes' => glElements' = mCurrentVertexSource'
    BY <1>1, <1>2 DEF RendererInv, AttributesFresh
  <2> QED
    BY <1>1, <1>2, <2>2, <2>3, Kinds DEF AttributesFresh
<1>5. TypeOK'
  BY <1>1, <1>2 DEF TypeOK, Types
<1> QED
  BY <1>2, <1>3, <1>4, <1>5 DEF RendererInv

\* Nothing that is used changes, but perhaps the buffer.
LEMMA IdleStep ==
    ASSUME RendererInv, doing' = "nothing", doing # "nothing" => inFrame,
           UNCHANGED <<inFrame, linked, caches, glProgram, glArrays, glUniforms>>,
           glElements' \in Sources \cup {None}
    PROVE  RendererInv'
<1>1. TypeOK'
  BY DEF RendererInv, TypeOK, caches
<1>2. InUse' /\ ArraysInPlace' /\ UniformsFresh'
  BY DEF RendererInv, InUse, ArraysInPlace, UniformsFresh, caches, DrawDoings
<1>3. AttributesFresh'
  <2>1. Wanted(mCurrentShader, mCurrentVertexSource, NoArrays)' =
            Wanted(mCurrentShader, mCurrentVertexSource, NoArrays)
    BY DEF Wanted, Matching, Attributes, NoArrays, caches
  <2> QED
    BY <2>1 DEF RendererInv, AttributesFresh, caches, DrawDoings
<1> QED
  BY <1>1, <1>2, <1>3 DEF RendererInv

LEMMA DoneStep == RendererInv /\ MeshDone => RendererInv'
<1> SUFFICES ASSUME RendererInv, MeshDone PROVE RendererInv'
  OBVIOUS
<1>1. glElements' \in Sources \cup {None}
  BY DEF MeshDone, gl, RendererInv, TypeOK
<1> QED
  BY <1>1, IdleStep DEF MeshDone, gl, RendererInv, InUse

LEMMA LoadStep == ASSUME RendererInv, NEW v \in Meshes, LoadMesh(v) PROVE RendererInv'
BY IdleStep, Kinds DEF LoadMesh

\* A shader is compiled while none is in use, and nothing is fresh.
LEMMA CompileStep == ASSUME RendererInv, NEW s \in MeshShaders, Compile(s) PROVE RendererInv'
<1>1. /\ ~inFrame /\ linked' = linked \cup {s} /\ UNCHANGED <<inFrame, doing>>
      /\ UNCHANGED caches /\ UNCHANGED gl /\ doing = "nothing" /\ mCurrentShader = None
      /\ mShouldRebindAttributes = TRUE /\ None \notin linked'
  BY Kinds DEF Compile, RendererInv, InUse, TypeOK, AttributesFresh
<1>2. TypeOK'
  BY <1>1, Kinds DEF RendererInv, TypeOK, caches, gl
<1>3. InUse' /\ ArraysInPlace' /\ AttributesFresh' /\ UniformsFresh'
  BY <1>1 DEF RendererInv, InUse, ArraysInPlace, AttributesFresh, UniformsFresh, caches, gl, DrawDoings
<1> QED
  BY <1>2, <1>3 DEF RendererInv

LEMMA StutterStep == RendererInv /\ UNCHANGED vars => RendererInv'
BY DEF RendererInv, vars, caches, gl, TypeOK, InUse, ArraysInPlace, AttributesFresh, UniformsFresh, DrawDoings,
       Wanted, Matching, Attributes, NoArrays

LEMMA NextStep == RendererInv /\ [Next]_vars => RendererInv'
<1> SUFFICES ASSUME RendererInv, [Next]_vars PROVE RendererInv'
  OBVIOUS
<1>1. CASE UNCHANGED vars
  BY <1>1, StutterStep
<1>2. CASE Next
  BY <1>2, FrameStep, CanvasApplyStep, CanvasBindStep, DrawStep, MeshBindStep, MeshApplyStep,
     DoneStep, LoadStep, CompileStep DEF Next
<1> QED
  BY <1>1, <1>2

LEMMA RendererInvariant == Spec => []RendererInv
BY RendererInit, NextStep, PTL DEF Spec

\* Whatever is drawn and loaded, the arrays that are enabled belong to the source
\* in use, for all shaders and vertex sources.
THEOREM NothingLeftEnabled == Spec => []ArraysOwned
<1>1. RendererInv => ArraysOwned
  BY DEF RendererInv, ArraysInPlace, ArraysOwned
<1> QED
  BY <1>1, RendererInvariant, PTL

\* Every draw call finds what it would have set up itself, for all shaders,
\* locations of attributes, vertex sources and uniforms.
THEOREM CachesTransparent == Spec => DrawsAsTold
<1>1. RendererInv /\ [Next]_vars => [CanvasDraw \/ MeshDraw => SetUp']_vars
  BY DrawStep
<1> QED
  BY <1>1, RendererInvariant, PTL DEF Spec, DrawsAsTold

-----------------------------------------------------------------------------
(***************************************************************************)
(* alloc() never hands out a byte twice, for every arena size and any      *)
(* sizes of requests.                                                      *)
(***************************************************************************)

\* An arena is never larger than the usual size and still has room: the offset
\* of a block may be counted from the usual size. What has been cut from an
\* arena lies below what is left.
ArenasTile ==
    /\ \A i \in DOMAIN arenas :
          /\ arenas[i].bytesLeft <= arenas[i].size
          /\ arenas[i].size >= mArenaSize
          /\ arenas[i].size = mArenaSize \/ arenas[i].bytesLeft = 0
    /\ \A k \in DOMAIN allocated :
          /\ allocated[k].arena \in DOMAIN arenas
          /\ allocated[k].offset + allocated[k].size
                <= arenas[allocated[k].arena].size - arenas[allocated[k].arena].bytesLeft
    /\ \A k, l \in DOMAIN allocated : k # l => Apart(allocated[k], allocated[l])

ArenasInv == PoolTypeOK /\ ArenasTile

LEMMA ArenasInit == PoolInit => ArenasInv
BY DEF PoolInit, ArenasInv, PoolTypeOK, ArenasTile

\* A block cut from an arena with room starts where the arena's blocks end.
LEMMA CutInvariant ==
    ASSUME ArenasInv, NEW size \in Sizes, NEW i \in WithRoom(size), Cut(i, size)
    PROVE  ArenasInv'
<1> DEFINE b == [arena |-> i, offset |-> mArenaSize - arenas[i].bytesLeft, size |-> size]
           a == [size |-> arenas[i].size, bytesLeft |-> arenas[i].bytesLeft - size]
<1>1. size \in Nat \ {0} /\ mArenaSize \in Nat
  BY PoolAssumption
<1>2. i \in DOMAIN arenas /\ arenas[i].bytesLeft >= size /\ size < mArenaSize
  BY DEF WithRoom
<1>3. arenas \in Seq(Arena) /\ allocated \in Seq(Block) /\ arenas[i] \in Arena
  BY <1>2 DEF ArenasInv, PoolTypeOK
<1>4. arenas[i].size = mArenaSize /\ arenas[i].bytesLeft <= mArenaSize
  BY <1>1, <1>2, <1>3 DEF ArenasInv, ArenasTile, Arena
<1>5. arenas' = [arenas EXCEPT ![i] = a] /\ allocated' = Append(allocated, b)
  <2>1. [arenas[i] EXCEPT !.bytesLeft = @ - size] = a
    BY <1>3 DEF Arena
  <2> QED
    BY <1>2, <1>3, <2>1 DEF Cut
<1>6. a \in Arena /\ a.size = mArenaSize /\ a.bytesLeft = arenas[i].bytesLeft - size
  BY <1>1, <1>2, <1>3, <1>4 DEF Arena
<1>7. /\ b \in Block
      /\ b.arena = i /\ b.size = size /\ b.offset = mArenaSize - arenas[i].bytesLeft
  BY <1>1, <1>2, <1>3, <1>4 DEF Block, Arena
<1> HIDE DEF a, b
<1>8. PoolTypeOK'
  BY <1>2, <1>3, <1>5, <1>6, <1>7 DEF PoolTypeOK
<1>9. /\ DOMAIN arenas' = DOMAIN arenas
      /\ arenas'[i] = a
      /\ \A j \in DOMAIN arenas : j # i => arenas'[j] = arenas[j]
  BY <1>2, <1>3, <1>5
<1>10. /\ Len(allocated') = Len(allocated) + 1 /\ Len(allocated) \in Nat
       /\ DOMAIN allocated = 1 .. Len(allocated)
       /\ DOMAIN allocated' = 1 .. Len(allocated')
       /\ allocated'[Len(allocated) + 1] = b
       /\ \A k \in DOMAIN allocated :
             allocated'[k] = allocated[k] /\ allocated[k] \in Block
  BY <1>3, <1>5, <1>7
<1>11. ArenasTile'
  <2>1. ASSUME NEW j \in DOMAIN arenas'
        PROVE  /\ arenas'[j].bytesLeft <= arenas'[j].size
               /\ arenas'[j].size >= mArenaSize
               /\ arenas'[j].size = mArenaSize \/ arenas'[j].bytesLeft = 0
    <3>1. CASE j = i
      <4>1. arenas[i].size \in Nat /\ arenas[i].bytesLeft \in Nat
        BY <1>3 DEF Arena
      <4>2. a.bytesLeft <= a.size /\ a.size >= mArenaSize
        BY <1>1, <1>4, <1>6, <4>1
      <4> QED
        BY <1>6, <1>9, <3>1, <4>2
    <3>2. CASE j # i
      BY <1>9, <3>2 DEF ArenasInv, ArenasTile
    <3> QED
      BY <3>1, <3>2
  <2>2. ASSUME NEW k \in DOMAIN allocated'
        PROVE  /\ allocated'[k].arena \in DOMAIN arenas'
               /\ allocated'[k].offset + allocated'[k].size
                     <= arenas'[allocated'[k].arena].size
                            - arenas'[allocated'[k].arena].bytesLeft
    <3>1. CASE k = Len(allocated) + 1
      <4>1. arenas[i].size \in Nat /\ arenas[i].bytesLeft \in Nat
        BY <1>3 DEF Arena
      <4>2. allocated'[k] = b /\ i \in DOMAIN arenas' /\ arenas'[i] = a
        BY <1>2, <1>9, <1>10, <3>1
      <4>3. b.offset + b.size <= a.size - a.bytesLeft
        BY <1>1, <1>4, <1>6, <1>7, <4>1
      <4> QED
        BY <1>7, <4>2, <4>3
    <3>2. CASE k \in DOMAIN allocated
      <4>1. allocated[k].arena \in DOMAIN arenas /\ arenas[allocated[k].arena] \in Arena
        BY <1>3, <3>2 DEF ArenasInv, ArenasTile
      <4>2. allocated[k].offset + allocated[k].size
              <= arenas[allocated[k].arena].size - arenas[allocated[k].arena].bytesLeft
        BY <3>2 DEF ArenasInv, ArenasTile
      <4>3. allocated[k].offset \in Nat /\ allocated[k].size \in Nat
        BY <1>10, <3>2 DEF Block
      <4>4. CASE allocated[k].arena = i
        <5>1. arenas[i].size \in Nat /\ arenas[i].bytesLeft \in Nat
          BY <1>3 DEF Arena
        <5>2. allocated'[k] = allocated[k] /\ arenas'[allocated'[k].arena] = a
          BY <1>9, <1>10, <3>2, <4>4
        <5>3. allocated[k].offset + allocated[k].size <= a.size - a.bytesLeft
          BY <1>1, <1>4, <1>6, <4>2, <4>3, <4>4, <5>1
        <5> QED
          BY <1>2, <1>9, <4>4, <5>2, <5>3
      <4>5. CASE allocated[k].arena # i
        BY <1>9, <1>10, <3>2, <4>1, <4>2, <4>5
      <4> QED
        BY <4>4, <4>5
    <3> QED
      BY <1>10, <3>1, <3>2
  <2>3. ASSUME NEW k \in DOMAIN allocated
        PROVE  Apart(allocated[k], b) /\ Apart(b, allocated[k])
    <3>1. allocated[k] \in Block
      BY <1>10
    <3>2. CASE allocated[k].arena = i
      <4>1. allocated[k].offset + allocated[k].size
              <= arenas[i].size - arenas[i].bytesLeft
        BY <3>2 DEF ArenasInv, ArenasTile
      <4> QED
        BY <1>1, <1>3, <1>4, <1>7, <3>1, <3>2, <4>1 DEF Apart, Block, Arena
    <3>3. CASE allocated[k].arena # i
      BY <1>7, <3>3 DEF Apart
    <3> QED
      BY <3>2, <3>3
  <2>4. ASSUME NEW k \in DOMAIN allocated', NEW l \in DOMAIN allocated', k # l
        PROVE  Apart(allocated'[k], allocated'[l])
    <3>1. CASE k \in DOMAIN allocated /\ l \in DOMAIN allocated
      <4>1. Apart(allocated[k], allocated[l])
        BY <2>4, <3>1 DEF ArenasInv, ArenasTile
      <4> QED
        BY <1>10, <3>1, <4>1
    <3>2. CASE k = Len(allocated) + 1 /\ l \in DOMAIN allocated
      BY <1>10, <2>3, <3>2
    <3>3. CASE k \in DOMAIN allocated /\ l = Len(allocated) + 1
      BY <1>10, <2>3, <3>3
    <3> QED
      BY <1>10, <2>4, <3>1, <3>2, <3>3
  <2> QED
    <3>1. \A k, l \in DOMAIN allocated' : k # l => Apart(allocated'[k], allocated'[l])
      BY <2>4
    <3>2. \A k, l \in DOMAIN allocated' : k # l => Apart(allocated[k], allocated[l])'
      BY <3>1 DEF Apart
    <3> QED
      BY <2>1, <2>2, <3>2 DEF ArenasTile
<1> QED
  BY <1>8, <1>11 DEF ArenasInv

\* A new arena is cut at its start, and is full if it is larger than usual.
LEMMA NewArenaInvariant ==
    ASSUME ArenasInv, NEW size \in Sizes, NewArena(size)
    PROVE  ArenasInv'
<1> DEFINE n == Len(arenas) + 1
           usual == IF size > mArenaSize THEN size ELSE mArenaSize
           a == [size |-> usual, bytesLeft |-> usual - size]
           b == [arena |-> n, offset |-> 0, size |-> size]
<1>1. size \in Nat \ {0} /\ mArenaSize \in Nat
  BY PoolAssumption
<1>2. arenas \in Seq(Arena) /\ allocated \in Seq(Block) /\ Len(arenas) \in Nat
  BY DEF ArenasInv, PoolTypeOK
<1>3. arenas' = Append(arenas, a) /\ allocated' = Append(allocated, b)
  BY DEF NewArena
<1>4. /\ a \in Arena /\ a.size = usual /\ a.bytesLeft = usual - size
      /\ usual \in Nat /\ usual >= size /\ usual >= mArenaSize
      /\ usual = mArenaSize \/ usual = size
  BY <1>1 DEF Arena
<1>5. b \in Block /\ b.arena = n /\ b.offset = 0 /\ b.size = size
  BY <1>1, <1>2 DEF Block
<1> HIDE DEF a, b, usual
<1>6. PoolTypeOK'
  BY <1>2, <1>3, <1>4, <1>5 DEF PoolTypeOK
<1>7. /\ DOMAIN arenas = 1 .. Len(arenas) /\ DOMAIN arenas' = 1 .. n
      /\ arenas'[n] = a
      /\ \A j \in DOMAIN arenas : arenas'[j] = arenas[j] /\ j # n /\ j \in DOMAIN arenas'
  BY <1>2, <1>3, <1>4
<1>8. /\ Len(allocated) \in Nat
      /\ DOMAIN allocated = 1 .. Len(allocated)
      /\ DOMAIN allocated' = 1 .. Len(allocated) + 1
      /\ allocated'[Len(allocated) + 1] = b
      /\ \A k \in DOMAIN allocated : allocated'[k] = allocated[k]
  BY <1>2, <1>3, <1>5
<1>9. ArenasTile'
  <2>1. ASSUME NEW j \in DOMAIN arenas'
        PROVE  /\ arenas'[j].bytesLeft <= arenas'[j].size
               /\ arenas'[j].size >= mArenaSize
               /\ arenas'[j].size = mArenaSize \/ arenas'[j].bytesLeft = 0
    <3>1. CASE j = n
      <4>1. /\ a.bytesLeft <= a.size /\ a.size >= mArenaSize
            /\ a.size = mArenaSize \/ a.bytesLeft = 0
        BY <1>1, <1>4
      <4> QED
        BY <1>7, <3>1, <4>1
    <3>2. CASE j \in DOMAIN arenas
      BY <1>7, <3>2 DEF ArenasInv, ArenasTile
    <3> QED
      BY <1>2, <1>7, <3>1, <3>2
  <2>2. ASSUME NEW k \in DOMAIN allocated'
        PROVE  /\ allocated'[k].arena \in DOMAIN arenas'
               /\ allocated'[k].offset + allocated'[k].size
                     <= arenas'[allocated'[k].arena].size
                            - arenas'[allocated'[k].arena].bytesLeft
    <3>1. CASE k = Len(allocated) + 1
      <4>1. n \in DOMAIN arenas'
        BY <1>2, <1>7
      <4>2. b.offset + b.size <= a.size - a.bytesLeft
        BY <1>1, <1>4, <1>5
      <4> QED
        BY <1>5, <1>7, <1>8, <3>1, <4>1, <4>2
    <3>2. CASE k \in DOMAIN allocated
      BY <1>7, <1>8, <3>2 DEF ArenasInv, ArenasTile
    <3> QED
      BY <1>8, <3>1, <3>2
  <2>3. ASSUME NEW k \in DOMAIN allocated
        PROVE  Apart(allocated[k], b) /\ Apart(b, allocated[k])
    <3>1. allocated[k].arena \in DOMAIN arenas
      BY DEF ArenasInv, ArenasTile
    <3> QED
      BY <1>5, <1>7, <3>1 DEF Apart
  <2>4. ASSUME NEW k \in DOMAIN allocated', NEW l \in DOMAIN allocated', k # l
        PROVE  Apart(allocated'[k], allocated'[l])
    <3>1. CASE k \in DOMAIN allocated /\ l \in DOMAIN allocated
      <4>1. Apart(allocated[k], allocated[l])
        BY <2>4, <3>1 DEF ArenasInv, ArenasTile
      <4> QED
        BY <1>8, <3>1, <4>1
    <3>2. CASE k = Len(allocated) + 1 /\ l \in DOMAIN allocated
      BY <1>8, <2>3, <3>2
    <3>3. CASE k \in DOMAIN allocated /\ l = Len(allocated) + 1
      BY <1>8, <2>3, <3>3
    <3> QED
      BY <1>8, <2>4, <3>1, <3>2, <3>3
  <2> QED
    <3>1. \A k, l \in DOMAIN allocated' : k # l => Apart(allocated'[k], allocated'[l])
      BY <2>4
    <3>2. \A k, l \in DOMAIN allocated' : k # l => Apart(allocated[k], allocated[l])'
      BY <3>1 DEF Apart
    <3> QED
      BY <2>1, <2>2, <3>2 DEF ArenasTile
<1> QED
  BY <1>6, <1>9 DEF ArenasInv

\* Every call of alloc() preserves the invariant.
LEMMA AllocInvariant ==
    ASSUME ArenasInv, NEW size \in Sizes, Alloc(size)
    PROVE  ArenasInv'
<1>1. CASE WithRoom(size) # {}
  <2>1. PICK i \in WithRoom(size) : Cut(i, size)
    BY <1>1 DEF Alloc
  <2> QED
    BY <2>1, CutInvariant
<1>2. CASE WithRoom(size) = {}
  BY <1>2, NewArenaInvariant DEF Alloc
<1> QED
  BY <1>1, <1>2

\* The blocks are apart and lie within their arenas.
LEMMA InvariantImplies == ArenasInv => PoolTypeOK /\ BlocksDisjoint
<1> SUFFICES ASSUME ArenasInv PROVE BlocksDisjoint
  BY DEF ArenasInv
<1>1. ASSUME NEW k \in DOMAIN allocated PROVE Inside(allocated[k])
  <2> DEFINE b == allocated[k]
  <2>1. b \in Block /\ b.arena \in DOMAIN arenas /\ arenas[b.arena] \in Arena
    BY DEF ArenasInv, PoolTypeOK, ArenasTile
  <2>2. b.offset + b.size <= arenas[b.arena].size - arenas[b.arena].bytesLeft
    BY DEF ArenasInv, ArenasTile
  <2>3. /\ b.offset \in Nat /\ b.size \in Nat
        /\ arenas[b.arena].size \in Nat /\ arenas[b.arena].bytesLeft \in Nat
    BY <2>1 DEF Block, Arena
  <2> QED
    BY <2>1, <2>2, <2>3 DEF Inside
<1>2. \A k, l \in DOMAIN allocated : k # l => Apart(allocated[k], allocated[l])
  BY DEF ArenasInv, ArenasTile
<1> QED
  BY <1>1, <1>2 DEF BlocksDisjoint

LEMMA PoolInvariant == PoolSpec => []ArenasInv
<1>1. ArenasInv /\ [PoolNext]_pool => ArenasInv'
  <2> SUFFICES ASSUME ArenasInv, [PoolNext]_pool PROVE ArenasInv'
    OBVIOUS
  <2>1. ASSUME NEW size \in Sizes, Alloc(size) PROVE ArenasInv'
    BY <2>1, AllocInvariant
  <2>2. CASE UNCHANGED pool
    BY <2>2 DEF pool, ArenasInv, PoolTypeOK, ArenasTile, Apart
  <2> QED
    BY <2>1, <2>2 DEF PoolNext, OutOfMemory
<1> QED
  BY <1>1, ArenasInit, PTL DEF PoolSpec

\* The pool stores what its types say, whatever is asked of it.
THEOREM PoolTypeCorrect == PoolSpec => []PoolTypeOK
BY PoolInvariant, InvariantImplies, PTL

\* No two requests are ever given the same byte, and all bytes exist.
THEOREM AllocatedApart == PoolSpec => []BlocksDisjoint
BY PoolInvariant, InvariantImplies, PTL

-----------------------------------------------------------------------------
(* The allocator: every slot has one owner *)

AllocatorInv == ArenasInv /\ SlotsTypeOK /\ SlotsOwnedOnce

LEMMA AllocatorInit == SlotsInit => AllocatorInv
BY AllocatorAssumption, ArenasInit
DEF SlotsInit, PoolInit, AllocatorInv, SlotsTypeOK, PoolTypeOK, SlotsOwnedOnce

\* alloc() returns a block that did not exist before.
LEMMA AllocFresh ==
    ASSUME ArenasInv, Alloc(SlotSize)
    PROVE  /\ Len(allocated) \in Nat
           /\ DOMAIN allocated = 1 .. Len(allocated)
           /\ Len(allocated') = Len(allocated) + 1
           /\ DOMAIN allocated' = DOMAIN allocated \cup {Len(allocated')}
           /\ Len(allocated') \notin DOMAIN allocated
<1>1. \E b : allocated' = Append(allocated, b)
  <2>1. CASE WithRoom(SlotSize) # {}
    BY <2>1 DEF Alloc, Cut
  <2>2. CASE WithRoom(SlotSize) = {}
    BY <2>2 DEF Alloc, NewArena
  <2> QED
    BY <2>1, <2>2
<1>2. allocated \in Seq(Block)
  BY DEF ArenasInv, PoolTypeOK
<1>3. PICK b : allocated' = Append(allocated, b)
  BY <1>1
<1>4. Len(allocated) \in Nat /\ DOMAIN allocated = 1 .. Len(allocated)
  BY <1>2
<1>5. Len(allocated') = Len(allocated) + 1 /\ DOMAIN allocated' = 1 .. Len(allocated')
  BY <1>2, <1>3
<1> QED
  BY <1>4, <1>5

\* What a free list that has only the slots of `free`, none twice and none that
\* is in use, means for the invariant after a step that allocates nothing.
Owned(free, value, gone) ==
    /\ free \in Seq(DOMAIN allocated)
    /\ value \in [Holders -> DOMAIN allocated \cup {Null}]
    /\ gone \subseteq DOMAIN allocated
    /\ \A u, w \in Holders : value[u] = value[w] => u = w \/ value[u] = Null
    /\ \A k \in DOMAIN free :
          /\ \A u \in Holders : value[u] # free[k]
          /\ \A l \in DOMAIN free : free[k] = free[l] => k = l
          /\ free[k] \notin gone
    /\ \A u \in Holders : value[u] \notin gone

LEMMA OwnedIsInvariant ==
    ASSUME ArenasInv
    PROVE  AllocatorInv <=> Owned(mFreeList, mValue, lost)
BY DEF AllocatorInv, ArenasInv, SlotsTypeOK, SlotsOwnedOnce, Owned

\* After reset() the slot is free and its uniform holds nothing.
LEMMA ResetOwned ==
    ASSUME AllocatorInv, NEW u \in Holders
    PROVE  Owned(Freed(u), [mValue EXCEPT ![u] = Null], lost)
<1> DEFINE value == [mValue EXCEPT ![u] = Null]
<1>1. Owned(mFreeList, mValue, lost)
  BY OwnedIsInvariant DEF AllocatorInv
<1>2. allocated \in Seq(Block) /\ Len(allocated) \in Nat
      /\ DOMAIN allocated = 1 .. Len(allocated)
  BY DEF AllocatorInv, ArenasInv, PoolTypeOK
<1>3. Null \notin DOMAIN allocated
  BY <1>2, AllocatorAssumption
<1>4. CASE mValue[u] = Null
  <2>1. value = mValue /\ Freed(u) = mFreeList
    BY <1>1, <1>4 DEF Owned, Freed
  <2> QED
    BY <1>1, <2>1
<1>5. CASE mValue[u] # Null
  <2> DEFINE free == Append(mFreeList, mValue[u])
  <2>1. Freed(u) = free /\ mValue[u] \in DOMAIN allocated
    BY <1>1, <1>5 DEF Freed, Owned
  <2>2. mFreeList \in Seq(DOMAIN allocated) /\ Len(mFreeList) \in Nat
        /\ DOMAIN mFreeList = 1 .. Len(mFreeList)
    BY <1>1 DEF Owned
  <2>3. /\ free \in Seq(DOMAIN allocated)
        /\ DOMAIN free = DOMAIN mFreeList \cup {Len(mFreeList) + 1}
        /\ free[Len(mFreeList) + 1] = mValue[u]
        /\ \A k \in DOMAIN mFreeList : free[k] = mFreeList[k]
    BY <2>1, <2>2
  <2>4. /\ value \in [Holders -> DOMAIN allocated \cup {Null}]
        /\ value[u] = Null
        /\ \A w \in Holders : w # u => value[w] = mValue[w]
    BY <1>1 DEF Owned
  <2>5. \A v, w \in Holders : value[v] = value[w] => v = w \/ value[v] = Null
    BY <1>1, <2>4 DEF Owned
  <2>6. \A k \in DOMAIN free, w \in Holders : value[w] # free[k]
    BY <1>1, <1>3, <1>5, <2>1, <2>3, <2>4 DEF Owned
  <2>7. \A k, l \in DOMAIN free : free[k] = free[l] => k = l
    BY <1>1, <2>3 DEF Owned
  <2>8. \A k \in DOMAIN free : free[k] \notin lost
    BY <1>1, <2>3 DEF Owned
  <2>9. \A w \in Holders : value[w] \notin lost
    BY <1>1, <1>3, <2>4 DEF Owned
  <2> HIDE DEF value, free
  <2> QED
    BY <1>1, <2>1, <2>3, <2>4, <2>5, <2>6, <2>7, <2>8, <2>9 DEF Owned
<1> QED
  BY <1>4, <1>5

\* A step that allocates nothing need only keep the slots in order.
LEMMA OwnedNext ==
    ASSUME AllocatorInv, UNCHANGED pool, Owned(mFreeList', mValue', lost')
    PROVE  AllocatorInv'
<1>1. allocated' = allocated /\ arenas' = arenas
  BY DEF pool
<1>2. ArenasInv'
  BY <1>1 DEF AllocatorInv, ArenasInv, PoolTypeOK, ArenasTile, Apart
<1> QED
  BY <1>1, <1>2 DEF AllocatorInv, ArenasInv, SlotsTypeOK, PoolTypeOK, SlotsOwnedOnce, Owned

LEMMA ResetInvariant ==
    ASSUME AllocatorInv, NEW u \in Holders, ResetValue(u)
    PROVE  AllocatorInv'
BY ResetOwned, OwnedNext DEF ResetValue

\* setFloat() and the others take the slot freed last, or a new one.
LEMMA SetValueInvariant ==
    ASSUME AllocatorInv, NEW u \in Holders, SetValue(u)
    PROVE  AllocatorInv'
<1> DEFINE none == [mValue EXCEPT ![u] = Null]
           n == Len(Freed(u))
<1>1. Owned(Freed(u), none, lost)
  BY ResetOwned
<1>2. mValue \in [Holders -> DOMAIN allocated \cup {Null}]
  BY DEF AllocatorInv, SlotsTypeOK
<1>3. /\ Freed(u) \in Seq(DOMAIN allocated) /\ n \in Nat
      /\ DOMAIN Freed(u) = 1 .. n
  BY <1>1 DEF Owned
<1>4. CASE Freed(u) # <<>>
  <2> DEFINE slot == Freed(u)[n]
             free == SubSeq(Freed(u), 1, n - 1)
             value == [mValue EXCEPT ![u] = slot]
  <2>1. mValue' = value /\ mFreeList' = free /\ UNCHANGED <<pool, lost>>
    BY <1>4 DEF SetValue
  <2>2. n \in DOMAIN Freed(u) /\ slot \in DOMAIN allocated
    BY <1>3, <1>4
  <2>3. /\ free \in Seq(DOMAIN allocated) /\ DOMAIN free = 1 .. n - 1
        /\ \A k \in DOMAIN free : free[k] = Freed(u)[k] /\ k \in DOMAIN Freed(u) /\ k # n
    BY <1>3, <2>2
  <2>4. /\ value \in [Holders -> DOMAIN allocated \cup {Null}]
        /\ value[u] = slot
        /\ \A w \in Holders : w # u => value[w] = none[w]
    BY <1>2, <2>2
  <2> HIDE DEF slot, free, value, none
  <2>5. /\ \A w \in Holders : none[w] # slot
        /\ slot \notin lost
        /\ \A k \in DOMAIN free : free[k] # slot
    BY <1>1, <2>2, <2>3 DEF Owned, slot
  <2>6. \A v, w \in Holders : value[v] = value[w] => v = w \/ value[v] = Null
    BY <1>1, <2>4, <2>5 DEF Owned
  <2>7. \A k \in DOMAIN free : /\ \A w \in Holders : value[w] # free[k]
                               /\ \A l \in DOMAIN free : free[k] = free[l] => k = l
                               /\ free[k] \notin lost
    BY <1>1, <2>3, <2>4, <2>5 DEF Owned
  <2>8. \A w \in Holders : value[w] \notin lost
    BY <1>1, <2>4, <2>5 DEF Owned
  <2>9. Owned(free, value, lost)
    BY <1>1, <2>3, <2>4, <2>6, <2>7, <2>8 DEF Owned
  <2> QED
    BY <2>1, <2>9, OwnedNext
<1>5. CASE Freed(u) = <<>>
  <2> DEFINE slot == Len(allocated')
             value == [mValue EXCEPT ![u] = slot]
  <2>1. Alloc(SlotSize) /\ mValue' = value /\ UNCHANGED <<mFreeList, lost>>
    BY <1>5 DEF SetValue
  <2>2. ArenasInv' /\ DOMAIN allocated' = DOMAIN allocated \cup {slot} /\ slot \notin DOMAIN allocated
    BY <2>1, AllocFresh, AllocInvariant, AllocatorAssumption DEF AllocatorInv
  <2>3. mFreeList = <<>>
    BY <1>5 DEF Freed, AllocatorInv, SlotsTypeOK
  <2>4. /\ value \in [Holders -> DOMAIN allocated' \cup {Null}]
        /\ value[u] = slot
        /\ \A w \in Holders : w # u => value[w] = mValue[w]
    BY <1>2, <2>2
  <2> HIDE DEF slot, value, none
  <2>5. lost \subseteq DOMAIN allocated
    BY DEF AllocatorInv, SlotsTypeOK
  <2>6. \A w \in Holders : mValue[w] # slot \/ mValue[w] = Null
    BY <1>2, <2>2
  <2>7. \A v, w \in Holders : value[v] = value[w] => v = w \/ value[v] = Null
    BY <2>4, <2>6 DEF AllocatorInv, SlotsOwnedOnce
  <2>8. \A w \in Holders : value[w] \notin lost
    BY <2>2, <2>4, <2>5 DEF AllocatorInv, SlotsOwnedOnce
  <2>9. SlotsTypeOK'
    BY <2>1, <2>2, <2>3, <2>4, <2>5 DEF ArenasInv, SlotsTypeOK
  <2>10. SlotsOwnedOnce'
    BY <2>1, <2>3, <2>7, <2>8 DEF SlotsOwnedOnce
  <2> QED
    BY <2>2, <2>9, <2>10 DEF AllocatorInv
<1> QED
  BY <1>4, <1>5

\* A move leaves one uniform with the slot, and may lose another.
LEMMA MoveInvariant ==
    ASSUME AllocatorInv, NEW u \in Holders, NEW w \in Holders, Move(u, w)
    PROVE  AllocatorInv'
<1> DEFINE value == [mValue EXCEPT ![u] = mValue[w], ![w] = Null]
           gone == lost \cup (({mValue[u]} \cup (IF u = w THEN {mValue[w]} ELSE {})) \ {Null})
<1>1. mValue' = value /\ lost' = gone /\ mFreeList' = mFreeList /\ UNCHANGED pool
  BY DEF Move
<1>2. Owned(mFreeList, mValue, lost)
  BY OwnedIsInvariant DEF AllocatorInv
<1>3. Null \notin DOMAIN allocated
  <2>1. DOMAIN allocated = 1 .. Len(allocated) /\ Len(allocated) \in Nat
    BY DEF AllocatorInv, ArenasInv, PoolTypeOK
  <2> QED
    BY <2>1, AllocatorAssumption
<1>4. gone \subseteq DOMAIN allocated /\ Null \notin gone
  BY <1>2, <1>3 DEF Owned
<1>5. /\ value \in [Holders -> DOMAIN allocated \cup {Null}]
      /\ value[w] = Null
      /\ \A v \in Holders : value[v] = IF v = w THEN Null
                                        ELSE IF v = u THEN mValue[w] ELSE mValue[v]
  BY <1>2 DEF Owned
<1>6. \A x \in gone : x \in lost \/ (x = mValue[u] /\ x # Null)
  <2>1. CASE u = w
    BY <2>1
  <2>2. CASE u # w
    BY <2>2
  <2> QED
    BY <2>1, <2>2
<1> HIDE DEF value, gone
<1>7. \A v, x \in Holders : value[v] = value[x] => v = x \/ value[v] = Null
  BY <1>2, <1>5 DEF Owned
<1>8. \A k \in DOMAIN mFreeList :
        /\ \A v \in Holders : value[v] # mFreeList[k]
        /\ \A l \in DOMAIN mFreeList : mFreeList[k] = mFreeList[l] => k = l
        /\ mFreeList[k] \notin gone
  <2>1. \A k \in DOMAIN mFreeList : mFreeList[k] # Null
    BY <1>2, <1>3 DEF Owned
  <2> QED
    BY <1>2, <1>5, <1>6, <2>1 DEF Owned
<1>9. \A v \in Holders : value[v] \notin gone
  BY <1>2, <1>4, <1>5, <1>6 DEF Owned
<1>10. Owned(mFreeList, value, gone)
  BY <1>2, <1>4, <1>5, <1>7, <1>8, <1>9 DEF Owned
<1> QED
  BY <1>1, <1>10, OwnedNext

LEMMA AllocatorInvariant == SlotsSpec => []AllocatorInv
<1>1. AllocatorInv /\ [SlotsNext]_slotVars => AllocatorInv'
  <2> SUFFICES ASSUME AllocatorInv, [SlotsNext]_slotVars PROVE AllocatorInv'
    OBVIOUS
  <2>1. ASSUME NEW u \in Holders, ResetValue(u) PROVE AllocatorInv'
    BY <2>1, ResetInvariant
  <2>2. ASSUME NEW u \in Holders, SetValue(u) PROVE AllocatorInv'
    BY <2>2, SetValueInvariant
  <2>3. ASSUME NEW u \in Holders, NEW w \in Holders, Move(u, w) PROVE AllocatorInv'
    BY <2>3, MoveInvariant
  <2>4. CASE UNCHANGED slotVars
    <3>1. Owned(mFreeList', mValue', lost') /\ UNCHANGED pool
      BY <2>4, OwnedIsInvariant DEF AllocatorInv, slotVars
    <3> QED
      BY <3>1, OwnedNext
  <2> QED
    BY <2>1, <2>2, <2>3, <2>4 DEF SlotsNext
<1> QED
  BY <1>1, AllocatorInit, PTL DEF SlotsSpec

\* Every variable of the allocator keeps its type.
THEOREM SlotsTypeCorrect == SlotsSpec => []SlotsTypeOK
BY AllocatorInvariant, PTL DEF AllocatorInv

\* However values are set, reset and moved, a slot has one owner.
THEOREM OneOwner == SlotsSpec => []SlotsOwnedOnce
BY AllocatorInvariant, PTL DEF AllocatorInv

-----------------------------------------------------------------------------
(***************************************************************************)
(* Sprites follow their sheet and are drawn whole, for all files and all   *)
(* names. The argument: an element holds the last entry of its name that   *)
(* has been read, except the one that is being filled; no element has a    *)
(* texture before the setup; and the setup does not run while drawing.     *)
(***************************************************************************)

\* The last entry of name n below e is number k, or there is none and k is Zero.
LastBelow(n, e, k) ==
    /\ k \in Nat
    /\ k < e
    /\ k # Zero => file[k] = n
    /\ \A j \in Nat : k < j /\ j < e => file[j] # n

\* Names have elements of their own, which the sprites that were handed out keep.
Mapped ==
    /\ \A s \in sprites : mSprites[s[1]] = s[2] /\ s[2] # Zero
    /\ \A m, n \in Names : m # n /\ mSprites[m] # Zero => mSprites[m] # mSprites[n]

\* The worker goes through the file and writes one field after the other.
Progress ==
    /\ \A j \in Nat : 1 <= j /\ j < entry => file[j] \in Names /\ mSprites[file[j]] # Zero
    /\ stage \in {"posted", "done"} => entry = Len(file) + 1 /\ written = 0
    /\ written > 0 =>
          /\ stage = "running" /\ entry <= Len(file)
          /\ Name \in Names /\ mSprites[Name] # Zero
          /\ \A i \in 1 .. written :
                elements[mSprites[Name]][Fields[i]] = Read(entry)[Fields[i]]

\* What the elements hold, but for the one that is being filled.
Settled(n) == mSprites[n] # Zero /\ (written > 0 => Name # n)
Contents ==
    /\ stage # "done" =>
          /\ \A i \in DOMAIN elements : elements[i]["texture"] = Zero
          /\ \A n \in Names : Settled(n) =>
                \E k \in Nat : LastBelow(n, entry, k) /\ elements[mSprites[n]] = Read(k)
    /\ stage = "done" =>
          \A n \in Names : mSprites[n] # Zero => elements[mSprites[n]] = Shown(LastEntry(n))

Images == \A i \in images : i.loaded => i.size = LastEntry(i.name)

\* Whatever is read after the texture is the last entry.
Reading ==
    \/ drawing = NotDrawing
    \/ \E n \in Names, quad \in Nat :
          /\ mSprites[n] # Zero
          /\ \/ /\ drawing = Drawing(n, quad, Zero, "texture")
                /\ stage = "done" => quad = LastEntry(n)
             \/ /\ drawing = Drawing(n, quad, quad, "coordinates")
                /\ stage = "done" /\ quad = LastEntry(n)

SheetInv == SheetTypeOK /\ Mapped /\ Progress /\ Contents /\ Images /\ Reading

-----------------------------------------------------------------------------
LEMMA FieldList ==
    /\ FieldNames = {"texture", "textureName", "originalSize", "trimmedQuad",
                     "textureCoordinates"}
    /\ Len(Fields) = 5
    /\ \A i \in 1 .. 5 : Fields[i] \in FieldNames
    /\ \A f \in FieldNames : \E i \in 1 .. 5 : Fields[i] = f
BY DEF FieldNames, Fields, Range

\* An element is what its fields are.
LEMMA ElementIs ==
    ASSUME NEW e \in [FieldNames -> Nat], NEW k \in Nat
    PROVE  /\ Read(k) \in [FieldNames -> Nat]
           /\ Shown(k) \in [FieldNames -> Nat]
           /\ (\A f \in FieldNames : e[f] = Read(k)[f]) => e = Read(k)
           /\ Read(k)["texture"] = Zero
BY FieldList DEF Read, Shown, Zero

LEMMA LastEntryIs ==
    ASSUME SheetTypeOK, NEW n \in Names, NEW k, LastBelow(n, Len(file) + 1, k)
    PROVE  LastEntry(n) = k
<1> DEFINE S == {j \in DOMAIN file : file[j] = n} \cup {Zero}
<1>1. DOMAIN file = 1 .. Len(file) /\ Len(file) \in Nat
  BY DEF SheetTypeOK
<1>2. k \in S /\ \A j \in S : k >= j
  BY <1>1 DEF LastBelow, Zero
<1>3. S \subseteq Nat
  BY <1>1 DEF Zero
<1>4. \A x \in S : (\A y \in S : x >= y) => x = k
  <2> HIDE DEF S
  <2> SUFFICES ASSUME NEW x \in S, \A y \in S : x >= y
               PROVE  x = k
    OBVIOUS
  <2>1. x >= k /\ k >= x /\ x \in Nat /\ k \in Nat
    BY <1>2, <1>3
  <2> QED
    BY <2>1
<1>5. Max(S) = k
  <2> HIDE DEF S
  <2> QED
    BY <1>2, <1>4 DEF Max
<1> QED
  BY <1>5 DEF LastEntry

LEMMA SheetInitially == SheetInit => SheetInv
<1> SUFFICES ASSUME SheetInit PROVE SheetInv
  OBVIOUS
<1>1. file \in Seq(Names \cup {Broken})
  BY DEF SheetInit
<1>2. SheetTypeOK
  BY <1>1 DEF SheetTypeOK, SheetInit, Zero
<1>3. Mapped /\ Progress /\ Images /\ Reading
  BY <1>1 DEF Mapped, Progress, Images, Reading, SheetInit, Zero
<1>4. Contents
  BY DEF Contents, Settled, SheetInit, Zero
<1> QED
  BY <1>2, <1>3, <1>4 DEF SheetInv

-----------------------------------------------------------------------------
(* The worker *)

LEMMA FailsStep == SheetInv /\ LoadFails => SheetInv'
<1> SUFFICES ASSUME SheetInv, LoadFails PROVE SheetInv'
  OBVIOUS
<1> USE DEF LoadFails, ReadsEntry
<1>1. SheetTypeOK' /\ Mapped' /\ Images' /\ Reading'
  BY DEF SheetInv, SheetTypeOK, Mapped, Images, Reading, LastEntry
<1>2. Progress'
  BY DEF SheetInv, Progress, Name
<1>3. Contents'
  BY DEF SheetInv, Contents, Settled, LastBelow, Name
<1> QED
  BY <1>1, <1>2, <1>3 DEF SheetInv

LEMMA EndsStep == SheetInv /\ LoadEnds => SheetInv'
<1> SUFFICES ASSUME SheetInv, LoadEnds PROVE SheetInv'
  OBVIOUS
<1> USE DEF LoadEnds
<1>1. entry = Len(file) + 1 /\ written = 0
  BY DEF SheetInv, SheetTypeOK, Progress
<1>2. SheetTypeOK' /\ Mapped' /\ Images' /\ Reading'
  BY DEF SheetInv, SheetTypeOK, Mapped, Images, Reading, LastEntry
<1>3. Progress'
  BY <1>1 DEF SheetInv, Progress, Name
<1>4. Contents'
  BY DEF SheetInv, Contents, Settled, LastBelow, Name
<1> QED
  BY <1>2, <1>3, <1>4 DEF SheetInv

\* An entry more is below the next one.
LEMMA Below ==
    ASSUME SheetTypeOK, entry <= Len(file), NEW n \in Names, NEW k \in Nat, LastBelow(n, entry, k)
    PROVE  IF Name = n THEN LastBelow(n, entry + 1, entry) ELSE LastBelow(n, entry + 1, k)
BY DEF SheetTypeOK, LastBelow, Name

LEMMA NewStep == SheetInv /\ SetNewSprite => SheetInv'
<1> SUFFICES ASSUME SheetInv, SetNewSprite PROVE SheetInv'
  OBVIOUS
<1> USE DEF SetNewSprite, ReadsEntry
<1>1. /\ Name \in Names /\ entry \in Nat /\ 1 <= entry /\ entry <= Len(file)
      /\ Len(elements) \in Nat /\ stage = "running" /\ written = 0 /\ Name = file[entry]
      /\ Read(entry) \in [FieldNames -> Nat] /\ Read(entry)["texture"] = Zero
      /\ elements \in Seq([FieldNames -> Nat])
  BY FieldList DEF SheetInv, SheetTypeOK, Name, Read, Zero
<1>2. /\ elements' \in Seq([FieldNames -> Nat]) /\ Len(elements') = Len(elements) + 1
      /\ elements'[Len(elements) + 1] = Read(entry)
      /\ \A i \in DOMAIN elements : elements'[i] = elements[i]
      /\ DOMAIN elements' = DOMAIN elements \cup {Len(elements) + 1}
  BY <1>1
<1>3. /\ mSprites' \in [Names -> 0 .. Len(elements')]
      /\ mSprites'[Name] = Len(elements) + 1
      /\ \A n \in Names : n # Name => mSprites'[n] = mSprites[n]
      /\ \A n \in Names : mSprites[n] <= Len(elements) /\ mSprites[n] \in Nat
  BY <1>1, <1>2 DEF SheetInv, SheetTypeOK
<1>4. SheetTypeOK'
  BY <1>1, <1>2, <1>3 DEF SheetInv, SheetTypeOK
<1>5. Mapped'
  BY <1>1, <1>3 DEF SheetInv, SheetTypeOK, Mapped, Zero
<1>6. Progress'
  BY <1>1, <1>3 DEF SheetInv, SheetTypeOK, Progress, Zero
<1>7. Contents'
  <2>1. \A i \in DOMAIN elements' : elements'[i]["texture"] = Zero
    BY <1>1, <1>2 DEF SheetInv, Contents
  <2>2. ASSUME NEW n \in Names, mSprites'[n] # Zero
        PROVE  \E k \in Nat : LastBelow(n, entry + 1, k) /\ elements'[mSprites'[n]] = Read(k)
    <3>1. CASE n = Name
      <4>1. LastBelow(n, entry + 1, entry)
        BY <3>1, <1>1 DEF LastBelow
      <4> QED
        BY <3>1, <4>1, <1>1, <1>2, <1>3
    <3>2. CASE n # Name
      <4>1. Settled(n) /\ mSprites[n] \in DOMAIN elements /\ mSprites'[n] = mSprites[n]
        BY <2>2, <3>2, <1>1, <1>3 DEF Settled, Zero
      <4>2. PICK k \in Nat : LastBelow(n, entry, k) /\ elements[mSprites[n]] = Read(k)
        BY <4>1, <1>1 DEF SheetInv, Contents
      <4>3. LastBelow(n, entry + 1, k)
        BY <3>2, <4>2, <1>1, Below DEF SheetInv
      <4> QED
        BY <4>1, <4>2, <4>3, <1>2
    <3> QED
      BY <3>1, <3>2
  <2>3. stage' = "running" /\ entry' = entry + 1 /\ file' = file
    BY <1>1
  <2>4. ASSUME NEW n \in Names, Settled(n)'
        PROVE  \E k \in Nat : LastBelow(n, entry, k)' /\ elements'[mSprites'[n]] = Read(k)
    <3>1. PICK k \in Nat : LastBelow(n, entry + 1, k) /\ elements'[mSprites'[n]] = Read(k)
      BY <2>2, <2>4 DEF Settled
    <3>2. LastBelow(n, entry, k)'
      BY <2>3, <3>1 DEF LastBelow
    <3> QED
      BY <3>1, <3>2
  <2> QED
    BY <2>1, <2>3, <2>4 DEF Contents, Read
<1>8. Images'
  BY DEF SheetInv, Images, LastEntry
<1>9. Reading'
  <2>1. \A n \in Names : mSprites[n] # Zero => mSprites'[n] # Zero
    BY <1>1, <1>3 DEF Zero
  <2> QED
    BY <2>1, <1>1 DEF SheetInv, Reading
<1> QED
  BY <1>4, <1>5, <1>6, <1>7, <1>8, <1>9 DEF SheetInv

LEMMA FillStep == SheetInv /\ SetSprite => SheetInv'
<1> SUFFICES ASSUME SheetInv, SetSprite PROVE SheetInv'
  OBVIOUS
<1> USE DEF SetSprite, AssignField
<1> DEFINE e == mSprites[Name]
           f == Fields[written + 1]
<1>1. /\ Name \in Names /\ entry \in Nat /\ 1 <= entry /\ entry <= Len(file)
      /\ e \in DOMAIN elements /\ stage = "running" /\ Name' = Name
      /\ written \in 0 .. 4 /\ written' = written + 1 /\ f \in FieldNames
  <2>1. written \in 0 .. 4 /\ f \in FieldNames
    BY FieldList DEF SheetInv, SheetTypeOK
  <2>2. Name \in Names /\ entry \in Nat /\ 1 <= entry /\ entry <= Len(file) /\ Name' = Name
    BY DEF SheetInv, SheetTypeOK, Name
  <2>3. e \in DOMAIN elements
    BY <2>2 DEF SheetInv, SheetTypeOK, Zero
  <2> QED
    BY <2>1, <2>2, <2>3
<1>2. /\ Read(entry) \in [FieldNames -> Nat] /\ Read(entry)["texture"] = Zero
      /\ elements \in Seq([FieldNames -> Nat])
      /\ \A n \in Names : mSprites[n] \in 0 .. Len(elements)
  BY <1>1, FieldList DEF SheetInv, SheetTypeOK, Read, Zero
<1>3. /\ elements' \in Seq([FieldNames -> Nat]) /\ Len(elements') = Len(elements)
      /\ \A i \in DOMAIN elements : i # e => elements'[i] = elements[i]
      /\ elements'[e] = [elements[e] EXCEPT ![f] = Read(entry)[f]]
      /\ DOMAIN elements' = DOMAIN elements
  BY <1>1, <1>2
<1>4. /\ elements[e] \in [FieldNames -> Nat]
      /\ elements'[e][f] = Read(entry)[f]
      /\ \A g \in FieldNames : g # f => elements'[e][g] = elements[e][g]
  BY <1>1, <1>2, <1>3
<1>5. SheetTypeOK'
  <2>1. /\ file' = file /\ stage' = stage /\ entry' = entry /\ sprites' = sprites
        /\ mSprites' = mSprites
    OBVIOUS
  <2>2. written' \in Nat /\ written' <= 5
    BY <1>1
  <2>3. mSprites' \in [Names -> 0 .. Len(elements')]
    BY <1>3, <2>1 DEF SheetInv, SheetTypeOK
  <2>4. entry' \in Nat /\ 1 <= entry' /\ entry' <= Len(file') + 1
    BY <2>1 DEF SheetInv, SheetTypeOK
  <2> HIDE DEF SetSprite, AssignField
  <2> QED
    BY <1>3, <2>1, <2>2, <2>3, <2>4 DEF SheetInv, SheetTypeOK
<1>6. Mapped'
  BY DEF SheetInv, Mapped
<1>7. Progress'
  <2>1. ASSUME NEW i \in 1 .. written + 1
        PROVE  elements'[e][Fields[i]] = Read(entry)[Fields[i]]
    <3>1. CASE i = written + 1 \/ Fields[i] = f
      BY <3>1, <1>4
    <3>2. CASE i \in 1 .. written /\ Fields[i] # f
      BY <3>2, <1>1, <1>4, FieldList DEF SheetInv, Progress
    <3> QED
      BY <3>1, <3>2, <1>1
  <2>2. (\A j \in Nat : 1 <= j /\ j < entry => file[j] \in Names /\ mSprites[file[j]] # Zero)'
    BY DEF SheetInv, Progress
  <2> QED
    BY <1>1, <2>1, <2>2 DEF Progress, Name
<1>8. Contents'
  <2>1. ASSUME NEW i \in DOMAIN elements' PROVE elements'[i]["texture"] = Zero
    BY <1>1, <1>2, <1>3, <1>4, FieldList DEF SheetInv, Contents
  <2>2. ASSUME NEW n \in Names, mSprites[n] # Zero, n # Name
        PROVE  \E k \in Nat : LastBelow(n, entry, k) /\ elements'[mSprites[n]] = Read(k)
    <3>1. Settled(n) /\ mSprites[n] # e /\ mSprites[n] \in DOMAIN elements
      <4>1. Settled(n)
        BY <2>2 DEF Settled
      <4>2. mSprites[n] # mSprites[Name]
        BY <2>2, <1>1 DEF SheetInv, Mapped
      <4>3. mSprites[n] \in 0 .. Len(elements) /\ mSprites[n] # 0
        BY <2>2, <1>2 DEF Zero
      <4>4. mSprites[n] \in DOMAIN elements
        BY <4>3, <1>2
      <4> QED
        BY <4>1, <4>2, <4>4
    <3> QED
      BY <3>1, <1>1, <1>3 DEF SheetInv, Contents
  <2> QED
    BY <1>1, <2>1, <2>2 DEF Contents, Settled, LastBelow, Name
<1>9. Images' /\ Reading'
  BY <1>1 DEF SheetInv, Images, Reading, LastEntry
<1> QED
  BY <1>5, <1>6, <1>7, <1>8, <1>9 DEF SheetInv

LEMMA SetStep == SheetInv /\ SpriteSet => SheetInv'
<1> SUFFICES ASSUME SheetInv, SpriteSet PROVE SheetInv'
  OBVIOUS
<1> USE DEF SpriteSet
<1>1. /\ written = 5 /\ stage = "running" /\ entry \in Nat /\ 1 <= entry
      /\ entry <= Len(file) /\ Len(file) \in Nat /\ Name \in Names /\ mSprites[Name] # Zero
      /\ Name = file[entry] /\ file' = file /\ mSprites' = mSprites /\ elements' = elements
      /\ written' = 0 /\ entry' = entry + 1 /\ stage' = stage
  BY FieldList DEF SheetInv, SheetTypeOK, Progress, Name
<1>2. SheetTypeOK' /\ Mapped' /\ Images' /\ Reading'
  BY <1>1 DEF SheetInv, SheetTypeOK, Mapped, Images, Reading, LastEntry
<1>3. Progress'
  BY <1>1 DEF SheetInv, Progress
<1>4. ASSUME NEW n \in Names, mSprites[n] # Zero
      PROVE  \E k \in Nat : LastBelow(n, entry + 1, k) /\ elements[mSprites[n]] = Read(k)
  <2>1. CASE n = Name
    <3>1. elements[mSprites[n]] \in [FieldNames -> Nat]
      BY <1>4 DEF SheetInv, SheetTypeOK, Zero
    <3>2. \A i \in 1 .. 5 : elements[mSprites[n]][Fields[i]] = Read(entry)[Fields[i]]
      BY <2>1, <1>1 DEF SheetInv, Progress
    <3>3. \A f \in FieldNames : elements[mSprites[n]][f] = Read(entry)[f]
      BY <3>2, FieldList
    <3>4. elements[mSprites[n]] = Read(entry)
      BY <1>1, <3>1, <3>3, ElementIs
    <3>5. LastBelow(n, entry + 1, entry)
      BY <2>1, <1>1 DEF LastBelow
    <3> QED
      BY <3>4, <3>5, <1>1
  <2>2. CASE n # Name
    <3>1. PICK k \in Nat : LastBelow(n, entry, k) /\ elements[mSprites[n]] = Read(k)
      BY <2>2, <1>1, <1>4 DEF SheetInv, Contents, Settled
    <3>2. LastBelow(n, entry + 1, k)
      BY <2>2, <3>1, <1>1, Below DEF SheetInv
    <3> QED
      BY <3>1, <3>2
  <2> QED
    BY <2>1, <2>2
<1>5. Contents'
  <2>1. \A i \in DOMAIN elements : elements[i]["texture"] = Zero
    BY <1>1 DEF SheetInv, Contents
  <2> QED
    BY <2>1, <1>1, <1>4 DEF Contents, Settled, LastBelow
<1> QED
  BY <1>2, <1>3, <1>5 DEF SheetInv

-----------------------------------------------------------------------------
(* The render thread *)

LEMMA SetupStep == SheetInv /\ Setup => SheetInv'
<1> SUFFICES ASSUME SheetInv, Setup PROVE SheetInv'
  OBVIOUS
<1> USE DEF Setup
<1>1. /\ written = 0 /\ entry = Len(file) + 1 /\ drawing = NotDrawing /\ stage' = "done"
      /\ elements \in Seq([FieldNames -> Nat]) /\ file' = file /\ mSprites' = mSprites
      /\ written' = written /\ entry' = entry
      /\ \A n \in Names : mSprites[n] # Zero => mSprites[n] \in DOMAIN elements
  BY DEF SheetInv, SheetTypeOK, Progress, Zero
<1>2. /\ DOMAIN elements' = DOMAIN elements
      /\ \A i \in DOMAIN elements : elements'[i] \in [FieldNames -> Nat]
  BY <1>1, FieldList DEF Zero
<1>3. elements' \in Seq([FieldNames -> Nat]) /\ Len(elements') = Len(elements)
  <2>1. Len(elements) \in Nat /\ DOMAIN elements = 1 .. Len(elements)
    BY <1>1
  <2>2. elements' \in [1 .. Len(elements) -> [FieldNames -> Nat]]
    BY <2>1, <1>2
  <2> QED
    BY <2>1, <2>2
<1>4. SheetTypeOK'
  BY <1>1, <1>3 DEF SheetInv, SheetTypeOK
<1>5. Mapped' /\ Images' /\ Reading'
  BY DEF SheetInv, Mapped, Images, Reading, LastEntry
<1>6. Progress'
  BY <1>1 DEF SheetInv, Progress
<1>7. ASSUME NEW n \in Names, mSprites[n] # Zero
      PROVE  elements'[mSprites[n]] = Shown(LastEntry(n))
  <2> DEFINE i == mSprites[n]
  <2>1. PICK k \in Nat : LastBelow(n, entry, k) /\ elements[i] = Read(k)
    BY <1>1, <1>7 DEF SheetInv, Contents, Settled
  <2>2. LastEntry(n) = k
    BY <2>1, <1>1, LastEntryIs DEF SheetInv
  <2>3. i \in DOMAIN elements
    BY <1>1, <1>7
  <2>4. CASE k = Zero
    <3>1. elements[i]["textureName"] = Zero
      BY <2>1, <2>4, FieldList DEF Read
    <3>2. elements'[i] = Read(Zero)
      BY <3>1, <2>1, <2>3, <2>4
    <3>3. Read(Zero) = Shown(Zero)
      BY DEF Read, Shown
    <3> QED
      BY <3>2, <3>3, <2>2, <2>4
  <2>5. CASE k # Zero
    <3>1. /\ elements[i]["textureName"] = k
          /\ \A f \in FieldNames : f # "texture" => elements[i][f] = k
      BY <2>1, FieldList DEF Read
    <3>2. elements'[i] = [f \in FieldNames |->
                            IF f = "texture" THEN k
                            ELSE IF f = "textureName" THEN Zero ELSE elements[i][f]]
      BY <3>1, <2>3, <2>5
    <3>3. elements'[i] = Shown(k)
      BY <3>1, <3>2 DEF Shown
    <3> QED
      BY <3>3, <2>2
  <2> QED
    BY <2>4, <2>5
<1>8. Contents'
  BY <1>1, <1>7 DEF Contents, LastEntry
<1> QED
  BY <1>4, <1>5, <1>6, <1>8 DEF SheetInv

\* Nothing but the list of sprites grows, and only the elements by a placeholder.
LEMMA GetStep == ASSUME SheetInv, NEW n \in Names, GetSprite(n) PROVE SheetInv'
<1> USE DEF GetSprite
<1>1. /\ written = 0 /\ drawing = NotDrawing /\ Len(elements) \in Nat
      /\ elements \in Seq([FieldNames -> Nat])
      /\ \A m \in Names : mSprites[m] \in 0 .. Len(elements)
      /\ sprites' = sprites \cup {<<n, mSprites'[n]>>} /\ DOMAIN mSprites = Names
      /\ UNCHANGED <<file, stage, entry, written, images, drawing>>
  BY DEF SheetInv, SheetTypeOK
<1>2. CASE mSprites[n] # Zero
  <2>1. UNCHANGED <<elements, mSprites>>
    BY <1>2
  <2>2. SheetTypeOK' /\ Mapped'
    BY <2>1, <1>1, <1>2 DEF SheetInv, SheetTypeOK, Mapped
  <2>3. Progress' /\ Contents' /\ Images' /\ Reading'
    BY <2>1, <1>1 DEF SheetInv, Progress, Contents, Images, Reading, LastEntry, Settled,
                      LastBelow, Name
  <2> QED
    BY <2>2, <2>3 DEF SheetInv
<1>3. CASE mSprites[n] = Zero
  <2>1. elements' = Append(elements, Placeholder)
    BY <1>3
  <2>2. Placeholder = Read(0) /\ Placeholder = Shown(0) /\ Placeholder["texture"] = Zero
        /\ Placeholder \in [FieldNames -> Nat]
    BY FieldList DEF Placeholder, Read, Shown, Zero
  <2>3. /\ elements' \in Seq([FieldNames -> Nat]) /\ Len(elements') = Len(elements) + 1
        /\ elements'[Len(elements) + 1] = Placeholder
        /\ \A i \in DOMAIN elements : elements'[i] = elements[i]
        /\ DOMAIN elements' = DOMAIN elements \cup {Len(elements) + 1}
    BY <2>1, <2>2, <1>1
  <2>4. /\ mSprites' \in [Names -> 0 .. Len(elements')]
        /\ mSprites'[n] = Len(elements) + 1
        /\ \A m \in Names : m # n => mSprites'[m] = mSprites[m]
    BY <1>1, <1>3, <2>3 DEF SheetInv, SheetTypeOK
  <2>5. SheetTypeOK'
    BY <1>1, <2>3, <2>4 DEF SheetInv, SheetTypeOK
  <2>6. Mapped'
    <3>1. ASSUME NEW s \in sprites' PROVE mSprites'[s[1]] = s[2] /\ s[2] # Zero
      BY <1>1, <1>3, <2>4 DEF SheetInv, SheetTypeOK, Mapped, Zero
    <3>2. ASSUME NEW l \in Names, NEW m \in Names, l # m, mSprites'[l] # Zero
          PROVE  mSprites'[l] # mSprites'[m]
      BY <3>2, <1>1, <2>4 DEF SheetInv, Mapped
    <3> QED
      BY <3>1, <3>2 DEF Mapped
  <2>7. Progress'
    <3>1. \A j \in Nat : 1 <= j /\ j < entry =>
              /\ file[j] \in Names /\ mSprites[file[j]] # Zero
              /\ mSprites'[file[j]] = mSprites[file[j]]
      BY <1>3, <2>4 DEF SheetInv, Progress
    <3> QED
      BY <3>1, <1>1 DEF SheetInv, Progress
  <2>8. Contents'
    <3>1. CASE stage # "done"
      <4>1. \A i \in DOMAIN elements' : elements'[i]["texture"] = Zero
        BY <3>1, <2>2, <2>3 DEF SheetInv, Contents
      <4>2. ASSUME NEW m \in Names, mSprites'[m] # Zero
            PROVE  \E k \in Nat : LastBelow(m, entry, k) /\ elements'[mSprites'[m]] = Read(k)
        <5>1. CASE m = n
          <6>1. LastBelow(n, entry, 0)
            BY <1>3 DEF SheetInv, Progress, SheetTypeOK, LastBelow, Zero
          <6> QED
            BY <5>1, <6>1, <2>2, <2>3, <2>4
        <5>2. CASE m # n
          <6>1. mSprites[m] \in DOMAIN elements /\ Settled(m) /\ mSprites'[m] = mSprites[m]
            BY <4>2, <5>2, <1>1, <2>4 DEF Settled, Zero
          <6> QED
            BY <6>1, <2>3, <3>1 DEF SheetInv, Contents
        <5> QED
          BY <5>1, <5>2
      <4> QED
        BY <3>1, <4>1, <4>2, <1>1 DEF Contents, Settled, LastBelow
    <3>2. CASE stage = "done"
      <4>1. LastBelow(n, Len(file) + 1, 0)
        BY <3>2, <1>3 DEF SheetInv, Progress, SheetTypeOK, LastBelow, Zero
      <4>2. LastEntry(n) = 0
        BY <4>1, LastEntryIs DEF SheetInv
      <4>3. ASSUME NEW m \in Names, mSprites'[m] # Zero
            PROVE  elements'[mSprites'[m]] = Shown(LastEntry(m))
        <5>1. CASE m = n
          BY <5>1, <4>2, <2>2, <2>3, <2>4
        <5>2. CASE m # n
          <6>1. /\ mSprites[m] \in DOMAIN elements
                /\ mSprites'[m] = mSprites[m] /\ mSprites[m] # Zero
            BY <4>3, <5>2, <1>1, <2>4 DEF Zero
          <6> QED
            BY <6>1, <2>3, <3>2 DEF SheetInv, Contents
        <5> QED
          BY <5>1, <5>2
      <4> QED
        BY <3>2, <4>3, <1>1 DEF Contents, LastEntry
    <3> QED
      BY <3>1, <3>2
  <2>9. Images' /\ Reading'
    BY <1>1 DEF SheetInv, Images, Reading, LastEntry
  <2> QED
    BY <2>5, <2>6, <2>7, <2>8, <2>9 DEF SheetInv
<1> QED
  BY <1>2, <1>3

\* A sprite once the sheet is loaded.
LEMMA SpriteLoaded ==
    ASSUME SheetInv, stage = "done", NEW s \in sprites
    PROVE  /\ s[1] \in Names /\ mSprites[s[1]] = s[2] /\ s[2] # Zero
           /\ elements[s[2]] = Shown(LastEntry(s[1]))
           /\ \A f \in FieldNames : f # "textureName" => elements[s[2]][f] = LastEntry(s[1])
<1>1. s[1] \in Names /\ mSprites[s[1]] = s[2] /\ s[2] # Zero
  BY DEF SheetInv, SheetTypeOK, Mapped
<1>2. elements[s[2]] = Shown(LastEntry(s[1]))
  BY <1>1 DEF SheetInv, Contents
<1> QED
  BY <1>1, <1>2 DEF Shown

\* The rest of the render thread leaves the sheet alone.
LEMMA SheetKept ==
    SheetInv /\ UNCHANGED <<file, stage, entry, written, mSprites, elements, sprites>>
        => SheetTypeOK' /\ Mapped' /\ Progress' /\ Contents'
BY DEF SheetInv, SheetTypeOK, Mapped, Progress, Contents, Settled, LastBelow, LastEntry, Name

LEMMA ImageStep == ASSUME SheetInv, NEW n \in Names, MakeImage(n) PROVE SheetInv'
<1> USE DEF MakeImage
<1>1. SheetTypeOK' /\ Mapped' /\ Progress' /\ Contents'
  BY SheetKept
<1>2. PICK s \in sprites :
         /\ s[1] = n
         /\ images' = images \cup {[name |-> n, size |-> elements[s[2]]["originalSize"],
                                    loaded |-> stage = "done"]}
  OBVIOUS
<1>3. stage = "done" => elements[s[2]]["originalSize"] = LastEntry(n)
  BY <1>2, SpriteLoaded, FieldList
<1> DEFINE new == [name |-> n, size |-> elements[s[2]]["originalSize"], loaded |-> stage = "done"]
<1>4. Images'
  <2>1. ASSUME NEW i \in images, i.loaded PROVE i.size = LastEntry(i.name)
    BY <2>1 DEF SheetInv, Images
  <2>2. new.loaded => new.size = LastEntry(new.name)
    <3>1. /\ new.loaded = (stage = "done") /\ new.name = n
          /\ new.size = elements[s[2]]["originalSize"]
      OBVIOUS
    <3> QED
      BY <3>1, <1>3
  <2>3. images' = images \cup {new} /\ file' = file
    BY <1>2
  <2> HIDE DEF new
  <2> QED
    BY <2>1, <2>2, <2>3 DEF Images, LastEntry
<1>5. Reading'
  BY DEF SheetInv, Reading, LastEntry
<1> QED
  BY <1>1, <1>4, <1>5 DEF SheetInv

LEMMA SpriteDrawStep == ASSUME SheetInv, NEW n \in Names, DrawSprite(n) PROVE SheetInv'
<1> USE DEF DrawSprite
<1>1. SheetTypeOK' /\ Mapped' /\ Progress' /\ Contents'
  BY SheetKept
<1>2. PICK s \in sprites :
         s[1] = n /\ drawing' = Drawing(n, elements[s[2]]["trimmedQuad"], Zero, "texture")
  OBVIOUS
<1>3. s[2] \in DOMAIN elements /\ mSprites[n] = s[2] /\ s[2] # Zero
  BY <1>2 DEF SheetInv, SheetTypeOK, Mapped, Zero
<1>4. elements[s[2]]["trimmedQuad"] \in Nat
  BY <1>3, FieldList DEF SheetInv, SheetTypeOK
<1>5. stage = "done" => elements[s[2]]["trimmedQuad"] = LastEntry(n)
  BY <1>2, SpriteLoaded, FieldList
<1>6. Reading'
  BY <1>2, <1>3, <1>4, <1>5 DEF Reading, LastEntry
<1>7. Images'
  BY DEF SheetInv, Images, LastEntry
<1> QED
  BY <1>1, <1>6, <1>7 DEF SheetInv

\* The three places of drawTexturedQuad are told apart by what is read next.
LEMMA DrawingIs ==
    ASSUME SheetInv
    PROVE  /\ drawing.next = "texture" =>
                 \E n \in Names, quad \in Nat :
                     /\ drawing.name = n /\ drawing.trimmedQuad = quad /\ mSprites[n] # Zero
                     /\ stage = "done" => quad = LastEntry(n)
           /\ drawing.next = "coordinates" =>
                 /\ stage = "done" /\ drawing.name \in Names
                 /\ drawing.trimmedQuad = LastEntry(drawing.name)
                 /\ drawing.texture = LastEntry(drawing.name)
BY DEF SheetInv, Reading, Drawing, NotDrawing

LEMMA TextureStep == ASSUME SheetInv, ReadTexture PROVE SheetInv'
<1> USE DEF ReadTexture
<1>1. SheetTypeOK' /\ Mapped' /\ Progress' /\ Contents'
  BY SheetKept
<1>2. PICK n \in Names, quad \in Nat :
         /\ drawing.name = n /\ drawing.trimmedQuad = quad /\ mSprites[n] # Zero
         /\ stage = "done" => quad = LastEntry(n)
  BY DrawingIs
<1>3. PICK s \in sprites :
         /\ s[1] = n
         /\ drawing' = IF elements[s[2]]["texture"] = Zero THEN NotDrawing
                       ELSE Drawing(n, quad, elements[s[2]]["texture"], "coordinates")
  BY <1>2
<1>4. ASSUME elements[s[2]]["texture"] = Zero PROVE Reading'
  <2>1. drawing' = NotDrawing
    BY <1>3, <1>4
  <2> QED
    BY <2>1 DEF Reading
<1>5. ASSUME elements[s[2]]["texture"] # Zero PROVE Reading'
  <2>1. s[2] \in DOMAIN elements
    BY DEF SheetInv, SheetTypeOK, Mapped, Zero
  <2>2. stage = "done"
    BY <1>5, <2>1 DEF SheetInv, Contents
  <2>3. elements[s[2]]["texture"] = LastEntry(n)
    BY <1>3, <2>2, SpriteLoaded, FieldList
  <2>4. drawing' = Drawing(n, quad, quad, "coordinates") /\ quad = LastEntry(n)
    BY <1>2, <1>3, <1>5, <2>2, <2>3
  <2>5. UNCHANGED <<file, stage, mSprites>>
    OBVIOUS
  <2> QED
    BY <1>2, <2>2, <2>4, <2>5 DEF Reading, LastEntry
<1>6. Images'
  BY DEF SheetInv, Images, LastEntry
<1>7. Reading'
  BY <1>4, <1>5
<1> QED
  BY <1>1, <1>6, <1>7 DEF SheetInv

LEMMA DrawnStep == ASSUME SheetInv, NEW n \in Names, NEW k, Drawn(n, k) PROVE SheetInv'
<1>1. SheetTypeOK' /\ Mapped' /\ Progress' /\ Contents'
  BY SheetKept DEF Drawn
<1>2. Images' /\ Reading'
  BY DEF SheetInv, Images, Reading, LastEntry, Drawn
<1> QED
  BY <1>1, <1>2 DEF SheetInv

LEMMA SheetStep == SheetInv /\ [SheetNext]_sheetVars => SheetInv'
<1> SUFFICES ASSUME SheetInv, [SheetNext]_sheetVars PROVE SheetInv'
  OBVIOUS
<1>1. CASE UNCHANGED sheetVars
  BY <1>1, SheetKept DEF sheetVars, SheetInv, Images, Reading, LastEntry
<1>2. CASE SheetNext
  BY <1>2, FailsStep, NewStep, FillStep, SetStep, EndsStep, SetupStep, GetStep, ImageStep,
     SpriteDrawStep, TextureStep, DrawnStep DEF SheetNext
<1> QED
  BY <1>1, <1>2

LEMMA SheetInvariant == SheetSpec => []SheetInv
BY SheetInitially, SheetStep, PTL DEF SheetSpec

LEMMA InvariantFollows == SheetInv => SpritesFollowSheet
<1> SUFFICES ASSUME SheetInv PROVE SpritesFollowSheet
  OBVIOUS
<1>1. \A s \in sprites : mSprites[s[1]] = s[2]
  BY DEF SheetInv, Mapped
<1>2. stage = "done" => \A s \in sprites : elements[s[2]] = Shown(LastEntry(s[1]))
  BY SpriteLoaded
<1> QED
  BY <1>1, <1>2 DEF SheetInv, Images, SpritesFollowSheet

\* The variables keep their types while the sheet is loaded and drawn.
THEOREM SheetTypeCorrect == SheetSpec => []SheetTypeOK
<1>1. SheetInv => SheetTypeOK
  BY DEF SheetInv
<1> QED
  BY <1>1, SheetInvariant, PTL

\* For all files, names and interleavings of loading and drawing, the sprites that
\* were handed out are those the loader fills, and show what the file says.
THEOREM SpritesRight == SheetSpec => []SpritesFollowSheet
BY SheetInvariant, InvariantFollows, PTL

\* No sprite is ever drawn with parts of two entries, or before it is complete,
\* although it is read without the lock.
THEOREM NeverTorn == SheetSpec => DrawnWhole
<1>1. ASSUME SheetInv, NEW n \in Names, NEW k \in 0 .. MaxEntries, Drawn(n, k)
      PROVE  k = LastEntry(n) /\ drawing.trimmedQuad = k /\ drawing.texture = k
  <2>1. /\ stage = "done" /\ drawing.trimmedQuad = LastEntry(n)
        /\ drawing.texture = LastEntry(n)
    BY <1>1, DrawingIs DEF Drawn
  <2>2. PICK s \in sprites : s[1] = n /\ k = elements[s[2]]["textureCoordinates"]
    BY <1>1 DEF Drawn
  <2>3. k = LastEntry(n)
    BY <1>1, <2>1, <2>2, SpriteLoaded, FieldList
  <2> QED
    BY <2>1, <2>3
<1>2. SheetInv => \A n \in Names, k \in 0 .. MaxEntries :
                 Drawn(n, k) => /\ k = LastEntry(n)
                                /\ drawing.trimmedQuad = k
                                /\ drawing.texture = k
  BY <1>1
<1> QED
  BY <1>2, SheetInvariant, PTL DEF DrawnWhole

-----------------------------------------------------------------------------
(***************************************************************************)
(* A shader that is loaded consists of the lines of its files, in their    *)
(* order and in the sections that the directives give them, for any files. *)
(* The argument: the calls under way are the route to the line that is     *)
(* read; the routes before it, in the order of the text, are in the        *)
(* sources if they end at text of the right section, and have failed the   *)
(* call at whose level they part from it if they end at something wrong.   *)
(***************************************************************************)

CallSet == [file : Files, line : Nat, what : Sections, success : BOOLEAN]

FilesOK ==
    /\ lines \in [Files -> Seq(LineSet)]
    /\ \A f \in Files : \A k \in DOMAIN lines[f] :
          lines[f][k].file # Missing => lines[f][k].file > f

\* The calls under way are a route, up to the line that the last of them is at;
\* since files include files of a higher number only, none is there twice.
StackOK ==
    /\ calls \in Seq(CallSet)
    /\ \A i \in DOMAIN calls : calls[i].line \in 1 .. Len(lines[calls[i].file]) + 1
    /\ calls # <<>> => calls[1].file = Root /\ done = Running
    /\ \A i \in DOMAIN calls \ {1} :
          /\ calls[i - 1].line \in DOMAIN lines[calls[i - 1].file]
          /\ LineAt(calls[i - 1]) = IncludeLine(calls[i].file)
    /\ \A i, j \in DOMAIN calls : i < j => calls[i].file < calls[j].file
    /\ done \in BOOLEAN \cup {Running}

\* `what` is the section in force.
WhatOK(q) == \A i \in DOMAIN q : InForce(q, i, q[i].what)

\* A call has failed if there was anything wrong in what it has read.
SuccessOK(q) ==
    \A i \in DOMAIN q : q[i].success <=> ~\E r \in Routes : IsWrong(r) /\ PartsAt(r, q, i)
ResultOK == calls = <<>> => (done <=> ~\E r \in Routes : IsWrong(r))

\* A source holds the lines of its sections before q, each of them once and in
\* order; all of them when nothing is being read.
Holds(source, sections, q) ==
    /\ source \in Seq(Routes)
    /\ \A r \in Routes : r \in Range(source) <=>
          r \in TextOf(sections) /\ (q # <<>> => Before(r, q))
    /\ InOrder(source)

LoaderInv ==
    /\ FilesOK /\ StackOK /\ WhatOK(calls) /\ SuccessOK(calls) /\ ResultOK
    /\ Holds(mVertex, {"%vertex", "%common"}, calls)
    /\ Holds(mFragment, {"%fragment", "%common"}, calls)

\* What a line can be.
LEMMA LineKinds ==
    ASSUME FilesOK, NEW f \in Files, NEW k \in DOMAIN lines[f]
    PROVE  /\ k \in Nat \ {0} /\ k <= Len(lines[f]) /\ DOMAIN lines[f] = 1 .. Len(lines[f])
           /\ Len(lines[f]) \in Nat
           /\ \/ \E kind \in Sections \cup {"%invalid", "text"} : lines[f][k] = PlainLine(kind)
              \/ lines[f][k] = IncludeLine(Missing)
              \/ \E g \in Files : lines[f][k] = IncludeLine(g) /\ g > f
<1>1. lines[f] \in Seq(LineSet)  BY DEF FilesOK
<1>2. lines[f][k] \in LineSet  BY <1>1
<1>3. lines[f][k].file # Missing => lines[f][k].file > f  BY DEF FilesOK
<1>4. CASE \E g \in Files : lines[f][k] = IncludeLine(g)
  <2>1. PICK g \in Files : lines[f][k] = IncludeLine(g)  BY <1>4
  <2>2. g # Missing /\ lines[f][k].file = g  BY <2>1, LoaderAssumption DEF IncludeLine
  <2> QED  BY <1>1, <1>3, <2>1, <2>2
<1> QED  BY <1>1, <1>2, <1>4 DEF LineSet

\* What a route is: its places are in files, each but the first in a file that
\* the line before includes.
LEMMA RouteFacts ==
    ASSUME FilesOK, NEW r \in Routes
    PROVE  /\ r \in Seq(Places) /\ Len(r) \in Nat \ {0} /\ DOMAIN r = 1 .. Len(r)
           /\ r[1].file = Root /\ Last(r) = r[Len(r)]
           /\ \A i \in 1 .. Len(r) : r[i].file \in Files /\ r[i].line \in DOMAIN lines[r[i].file]
                                       /\ r[i].line \in Nat \ {0}
           /\ \A i \in 2 .. Len(r) : LineAt(r[i - 1]) = IncludeLine(r[i].file)
<1>1. PICK m \in 0 .. Cardinality(Files) : r \in [1 .. m -> Places]
  BY DEF Routes, BoundedSeq, SeqOf
<1>2. m \in Nat  BY <1>1, FS_CardinalityType, LoaderAssumption
<1>3. r \in Seq(Places) /\ Len(r) = m  BY <1>1, <1>2
<1>4. r # <<>> /\ r[1].file = Root  BY DEF Routes
<1>5. \A p \in Places : p.file \in Files /\ p.line \in DOMAIN lines[p.file]
  BY DEF Places
<1>6. \A i \in 1 .. Len(r) : r[i] \in Places  BY <1>3
<1>7. \A f \in Files : \A k \in DOMAIN lines[f] : k \in Nat \ {0}  BY LineKinds
<1>8. \A i \in 2 .. Len(r) : LineAt(r[i - 1]) = IncludeLine(r[i].file)
  BY <1>2, <1>3 DEF Routes
<1> QED  BY <1>2, <1>3, <1>4, <1>5, <1>6, <1>7, <1>8 DEF Last

\* A sequence of places that fits together and visits ever higher files is a
\* route.
LEMMA IsRoute ==
    ASSUME NEW r, r \in Seq(Places), r # <<>>, r[1].file = Root,
           \A i \in DOMAIN r \ {1} : LineAt(r[i - 1]) = IncludeLine(r[i].file),
           \A i, j \in DOMAIN r : i < j => r[i].file < r[j].file
    PROVE  r \in Routes
<1>1. Len(r) \in Nat /\ DOMAIN r = 1 .. Len(r) /\ r \in [1 .. Len(r) -> Places]  OBVIOUS
<1>2. \A p \in Places : p.file \in Files  BY DEF Places
<1> DEFINE f == [i \in 1 .. Len(r) |-> r[i].file]
<1>3. f \in [1 .. Len(r) -> Files]  BY <1>1, <1>2
<1>4. \A i, j \in 1 .. Len(r) : f[i] = f[j] => i = j
  <2> SUFFICES ASSUME NEW i \in 1 .. Len(r), NEW j \in 1 .. Len(r), f[i] = f[j], i # j  PROVE FALSE
    OBVIOUS
  <2>1. f[i] \in Nat /\ f[j] \in Nat /\ f[i] = r[i].file /\ f[j] = r[j].file
    BY <1>3, LoaderAssumption
  <2>2. i < j \/ j < i  BY <1>1
  <2>3. r[i].file < r[j].file \/ r[j].file < r[i].file  BY <1>1, <2>2
  <2>4. r[i].file = r[j].file  BY <2>1
  <2> HIDE DEF f
  <2> QED  BY <2>1, <2>3, <2>4
<1> HIDE DEF f
<1>5. f \in Injection(1 .. Len(r), Files)  BY <1>3, <1>4 DEF Injection, IsInjective
<1>6. Cardinality(1 .. Len(r)) <= Cardinality(Files)  BY <1>5, FS_Injection, LoaderAssumption
<1>7. Cardinality(1 .. Len(r)) = Len(r)
  <2>1. PICK n \in Nat : n = Len(r)  BY <1>1
  <2>2. Cardinality(1 .. n) = n  BY FS_Interval
  <2> QED  BY <2>1, <2>2
<1>8. Cardinality(Files) \in Nat  BY FS_CardinalityType, LoaderAssumption
<1>9. Len(r) \in 0 .. Cardinality(Files)  BY <1>1, <1>6, <1>7, <1>8
<1>10. r \in BoundedSeq(Places, Cardinality(Files))  BY <1>1, <1>9 DEF BoundedSeq, SeqOf
<1> QED  BY <1>10 DEF Routes

\* What a call is.
LEMMA CallFacts ==
    ASSUME FilesOK, StackOK
    PROVE  /\ Len(calls) \in Nat /\ DOMAIN calls = 1 .. Len(calls)
           /\ \A i \in 1 .. Len(calls) :
                 /\ calls[i] \in CallSet
                 /\ calls[i].file \in Files /\ calls[i].line \in Nat \ {0}
                 /\ calls[i].line <= Len(lines[calls[i].file]) + 1
                 /\ Len(lines[calls[i].file]) \in Nat
                 /\ DOMAIN lines[calls[i].file] = 1 .. Len(lines[calls[i].file])
                 /\ calls[i].what \in Sections /\ calls[i].success \in BOOLEAN
           /\ calls # <<>> <=> Len(calls) >= 1
           /\ Top = calls[Len(calls)]
<1>1. calls \in Seq(CallSet)  BY DEF StackOK
<1>2. Len(calls) \in Nat /\ DOMAIN calls = 1 .. Len(calls) /\ (calls # <<>> <=> Len(calls) >= 1)
  BY <1>1
<1>3. \A i \in 1 .. Len(calls) : calls[i] \in CallSet  BY <1>1
<1>4. \A c \in CallSet : c.file \in Files /\ c.line \in Nat /\ c.what \in Sections /\ c.success \in BOOLEAN
  BY DEF CallSet
<1>5. \A f \in Files : Len(lines[f]) \in Nat /\ DOMAIN lines[f] = 1 .. Len(lines[f])
  BY DEF FilesOK
<1>6. \A i \in 1 .. Len(calls) : calls[i].line \in 1 .. Len(lines[calls[i].file]) + 1
  BY <1>2 DEF StackOK
<1>7. \A i \in 1 .. Len(calls) : calls[i].line \in Nat \ {0} /\ calls[i].line <= Len(lines[calls[i].file]) + 1
  BY <1>3, <1>4, <1>5, <1>6
<1> QED  BY <1>2, <1>3, <1>4, <1>5, <1>7 DEF Top, Last

-----------------------------------------------------------------------------

\* Routes r that go through the last place of q, or end there.
Through(r, q) ==
    /\ Len(q) <= Len(r)
    /\ \A i \in 1 .. Len(q) : r[i].file = q[i].file /\ r[i].line = q[i].line

\* q2 is q with the last place moved to the next line.
Moved(q, q2) ==
    /\ Len(q2) = Len(q)
    /\ \A i \in 1 .. Len(q) - 1 : q2[i].file = q[i].file /\ q2[i].line = q[i].line
    /\ q2[Len(q)].file = q[Len(q)].file
    /\ q2[Len(q)].line = q[Len(q)].line + 1

\* q2 is q with the beginning of a file added.
Entered(q, q2) ==
    /\ Len(q2) = Len(q) + 1
    /\ \A i \in 1 .. Len(q) : q2[i].file = q[i].file /\ q2[i].line = q[i].line
    /\ q2[Len(q) + 1].line = 1

\* q2 is q without its last place and moved behind the %include line before.
Left(q, q2) ==
    /\ Len(q) = Len(q2) + 1
    /\ \A i \in 1 .. Len(q2) - 1 : q2[i].file = q[i].file /\ q2[i].line = q[i].line
    /\ q2[Len(q2)].file = q[Len(q2)].file
    /\ q2[Len(q2)].line = q[Len(q2)].line + 1

\* Only the places up to the i-th matter.
LEMMA PartsAlike ==
    ASSUME NEW r, NEW q, NEW q2, NEW i \in Nat \ {0}, i \in DOMAIN q, i \in DOMAIN q2,
           \A h \in 1 .. i : q2[h].file = q[h].file /\ q2[h].line = q[h].line
    PROVE  PartsAt(r, q2, i) <=> PartsAt(r, q, i)
<1>1. i \in 1 .. i /\ \A h \in 1 .. i - 1 : h \in 1 .. i  OBVIOUS
<1> QED  BY <1>1 DEF PartsAt

\* A move by a line puts those routes before it that go through that line.
LEMMA MovedBefore ==
    ASSUME FilesOK, NEW r \in Routes, NEW q \in Seq(CallSet), NEW q2 \in Seq(CallSet),
           Len(q) >= 1, Moved(q, q2), NEW i \in 1 .. Len(q)
    PROVE  PartsAt(r, q2, i) <=> PartsAt(r, q, i) \/ (i = Len(q) /\ Through(r, q))
<1>0. Len(q) \in Nat /\ i \in Nat /\ i <= Len(q)  OBVIOUS
<1>1. Len(q) \in Nat /\ DOMAIN q = 1 .. Len(q) /\ DOMAIN q2 = 1 .. Len(q)  BY DEF Moved
<1>2. q[i] \in CallSet  BY <1>1
<1>3. q[i].line \in Nat  BY <1>2 DEF CallSet
<1>4. Len(r) \in Nat \ {0} /\ DOMAIN r = 1 .. Len(r) 
       /\ \A k \in 1 .. Len(r) : r[k].line \in Nat
  BY RouteFacts
<1>5. CASE i < Len(q)
  <2>1. \A h \in 1 .. i : q2[h].file = q[h].file /\ q2[h].line = q[h].line
    BY <1>1, <1>5 DEF Moved
  <2>2. i \in Nat \ {0} /\ i \in DOMAIN q /\ i \in DOMAIN q2  BY <1>1
  <2>3. PartsAt(r, q2, i) <=> PartsAt(r, q, i)  BY <2>1, <2>2, PartsAlike
  <2>4. i # Len(q)  BY <1>5, <1>0
  <2> QED  BY <2>3, <2>4
<1>6. CASE i = Len(q)
  <2>1. \A h \in 1 .. i - 1 : q2[h].file = q[h].file /\ q2[h].line = q[h].line
    BY <1>1, <1>6 DEF Moved
  <2>2. q2[i].file = q[i].file /\ q2[i].line = q[i].line + 1  BY <1>6 DEF Moved
  <2>3. PartsAt(r, q, i) => PartsAt(r, q2, i)
    BY <1>1, <1>3, <1>4, <2>1, <2>2 DEF PartsAt
  <2>4. Through(r, q) => PartsAt(r, q2, i)
    <3>1. SUFFICES ASSUME Through(r, q)  PROVE PartsAt(r, q2, i)  OBVIOUS
    <3>2. i \in DOMAIN r /\ \A h \in 1 .. i : r[h].file = q[h].file /\ r[h].line = q[h].line
      BY <3>1, <1>1, <1>4, <1>6 DEF Through
    <3> QED  BY <3>2, <1>1, <1>3, <1>6, <2>1, <2>2 DEF PartsAt
  <2>5. ASSUME PartsAt(r, q2, i)  PROVE PartsAt(r, q, i) \/ Through(r, q)
    <3>1. i \in DOMAIN r /\ r[i].file = q[i].file /\ r[i].line < q[i].line + 1
      BY <2>5, <2>2 DEF PartsAt
    <3>2. \A h \in 1 .. i - 1 : r[h].file = q[h].file /\ r[h].line = q[h].line
      BY <2>5, <2>1 DEF PartsAt
    <3>3. CASE r[i].line < q[i].line
      BY <3>1, <3>2, <3>3, <1>1 DEF PartsAt
    <3>4. CASE r[i].line = q[i].line
      BY <3>1, <3>2, <3>4, <1>1, <1>4, <1>6 DEF Through
    <3>5. r[i].line \in Nat  BY <3>1, <1>4
    <3> QED  BY <3>1, <3>3, <3>4, <3>5, <1>3
  <2> QED  BY <1>6, <2>3, <2>4, <2>5
<1>7. i < Len(q) \/ i = Len(q)  BY <1>0
<1> QED  BY <1>5, <1>6, <1>7

\* The beginning of a file has nothing before it.
LEMMA EnteredBefore ==
    ASSUME FilesOK, NEW r \in Routes, NEW q \in Seq(CallSet), NEW q2 \in Seq(CallSet),
           Entered(q, q2), NEW i \in 1 .. Len(q) + 1
    PROVE  PartsAt(r, q2, i) <=> i <= Len(q) /\ PartsAt(r, q, i)
<1>1. Len(q) \in Nat /\ DOMAIN q = 1 .. Len(q) /\ DOMAIN q2 = 1 .. Len(q) + 1  BY DEF Entered
<1>2. Len(r) \in Nat \ {0} /\ DOMAIN r = 1 .. Len(r) 
       /\ \A k \in 1 .. Len(r) : r[k].line \in Nat \ {0}
  BY RouteFacts
<1>3. CASE i <= Len(q)
  <2>1. \A h \in 1 .. i : q2[h].file = q[h].file /\ q2[h].line = q[h].line
    BY <1>1, <1>3 DEF Entered
  <2>2. i \in Nat \ {0} /\ i \in DOMAIN q /\ i \in DOMAIN q2  BY <1>1, <1>3
  <2>3. PartsAt(r, q2, i) <=> PartsAt(r, q, i)  BY <2>1, <2>2, PartsAlike
  <2> QED  BY <1>3, <2>3
<1>4. CASE i = Len(q) + 1
  BY <1>1, <1>2, <1>4 DEF PartsAt, Entered
<1> QED  BY <1>1, <1>3, <1>4

\* Behind an %include line are the routes that were before its file is left, and
\* those that go through that file; a route that goes through the line goes on
\* into the file.
LEMMA LeftBefore ==
    ASSUME FilesOK, NEW r \in Routes, NEW q \in Seq(CallSet), NEW q2 \in Seq(CallSet),
           Len(q2) >= 1, Left(q, q2), NEW i \in 1 .. Len(q2),
           \A f \in Files : LineAt(Last(r)) # IncludeLine(f),
           LineAt(q[Len(q2)]) = IncludeLine(q[Len(q)].file),
           q[Len(q)].line = Len(lines[q[Len(q)].file]) + 1
    PROVE  PartsAt(r, q2, i) <=>
               PartsAt(r, q, i) \/ (i = Len(q2) /\ PartsAt(r, q, Len(q)))
<1> DEFINE n == Len(q2)
<1>0. n \in Nat /\ i \in Nat /\ i <= n /\ n = Len(q2)  OBVIOUS
<1>1. n \in Nat \ {0} /\ Len(q) = n + 1 /\ DOMAIN q = 1 .. n + 1 /\ DOMAIN q2 = 1 .. n
  BY DEF Left
<1>2. \A k \in 1 .. n + 1 : q[k].line \in Nat /\ q[k].file \in Files
  <2>1. \A k \in 1 .. n + 1 : q[k] \in CallSet  BY <1>1
  <2> QED  BY <2>1 DEF CallSet
<1>3. /\ Len(r) \in Nat \ {0} /\ DOMAIN r = 1 .. Len(r) /\ Last(r) = r[Len(r)]
      /\ \A k \in 1 .. Len(r) : r[k].line \in Nat /\ r[k].file \in Files
                                   /\ r[k].line \in DOMAIN lines[r[k].file]
      /\ \A k \in 2 .. Len(r) : LineAt(r[k - 1]) = IncludeLine(r[k].file)
  BY RouteFacts
<1>4. \A h \in 1 .. n - 1 : q2[h].file = q[h].file /\ q2[h].line = q[h].line
  BY DEF Left
<1>5. q2[n].file = q[n].file /\ q2[n].line = q[n].line + 1  BY DEF Left
<1>6. LineAt(q[n]) = IncludeLine(q[n + 1].file) /\ q[n + 1].line = Len(lines[q[n + 1].file]) + 1
  BY <1>1
<1>7. \A f \in Files : DOMAIN lines[f] = 1 .. Len(lines[f]) /\ Len(lines[f]) \in Nat
  BY DEF FilesOK
<1> HIDE DEF n
<1>8. CASE i < n
  <2>1. \A h \in 1 .. i : q2[h].file = q[h].file /\ q2[h].line = q[h].line
    BY <1>1, <1>4, <1>8
  <2>2. i \in Nat \ {0} /\ i \in DOMAIN q /\ i \in DOMAIN q2  BY <1>1, <1>8
  <2>3. PartsAt(r, q2, i) <=> PartsAt(r, q, i)  BY <2>1, <2>2, PartsAlike
  <2>4. i # Len(q2)  BY <1>0, <1>8
  <2> QED  BY <2>3, <2>4
<1>9. ASSUME PartsAt(r, q, n)  PROVE PartsAt(r, q2, n)
  BY <1>9, <1>1, <1>2, <1>3, <1>4, <1>5 DEF PartsAt
<1>10. ASSUME PartsAt(r, q, n + 1)  PROVE PartsAt(r, q2, n)
  <2>1. n + 1 \in DOMAIN r /\ \A h \in 1 .. n : r[h].file = q[h].file /\ r[h].line = q[h].line
    BY <1>10, <1>1 DEF PartsAt
  <2> QED  BY <2>1, <1>1, <1>2, <1>3, <1>4, <1>5 DEF PartsAt
<1>11. ASSUME PartsAt(r, q2, n), ~PartsAt(r, q, n)  PROVE PartsAt(r, q, n + 1)
  <2>1. n \in 1 .. Len(r) /\ r[n].file = q[n].file /\ r[n].line < q[n].line + 1
    BY <1>11, <1>5, <1>3 DEF PartsAt
  <2>2. \A h \in 1 .. n - 1 : r[h].file = q[h].file /\ r[h].line = q[h].line
    BY <1>11, <1>4 DEF PartsAt
  <2>3. ~(r[n].line < q[n].line)
    BY <1>11, <1>1, <1>3, <2>1, <2>2 DEF PartsAt
  <2>4. r[n].line \in Nat /\ q[n].line \in Nat  BY <1>1, <1>2, <1>3, <2>1
  <2>5. r[n].line = q[n].line  BY <2>1, <2>3, <2>4
  <2>6. LineAt(r[n]) = IncludeLine(q[n + 1].file)  BY <1>6, <2>1, <2>5 DEF LineAt
  <2>7. q[n + 1].file \in Files  BY <1>1, <1>2
  <2>8. n # Len(r)  BY <1>3, <2>6, <2>7
  <2>9. n + 1 \in 2 .. Len(r)
    <3>1. n \in Nat \ {0} /\ Len(r) \in Nat /\ n <= Len(r)  BY <1>1, <1>3, <2>1
    <3> QED  BY <3>1, <2>8
  <2>10. LineAt(r[n]) = IncludeLine(r[n + 1].file)
    <3>1. PICK k \in 2 .. Len(r) : k = n + 1  BY <2>9
    <3>2. k - 1 = n  BY <3>1, <1>1
    <3> QED  BY <1>3, <3>1, <3>2
  <2>11. r[n + 1].file = q[n + 1].file  BY <2>6, <2>10 DEF IncludeLine
  <2>12. n + 1 \in 1 .. Len(r)  BY <2>9
  <2>13. r[n + 1].line \in Nat /\ r[n + 1].line <= Len(lines[q[n + 1].file])
    BY <1>3, <1>7, <2>7, <2>11, <2>12
  <2>14. r[n + 1].line < q[n + 1].line  BY <1>6, <1>7, <2>7, <2>13
  <2>15. \A h \in 1 .. n : r[h].file = q[h].file /\ r[h].line = q[h].line
    BY <1>1, <2>1, <2>2, <2>5
  <2> QED  BY <1>1, <1>3, <2>11, <2>12, <2>14, <2>15 DEF PartsAt
<1>12. CASE i = n
  <2>1. PartsAt(r, q2, n) <=> PartsAt(r, q, n) \/ PartsAt(r, q, n + 1)  BY <1>9, <1>10, <1>11
  <2>2. i = Len(q2) /\ Len(q) = i + 1  BY <1>1, <1>12 DEF n
  <2> QED  BY <1>12, <2>1, <2>2
<1>13. i < n \/ i = n  BY <1>0
<1> QED  BY <1>8, <1>12, <1>13

\* A route through a line that includes no file ends there.
LEMMA EndsThere ==
    ASSUME FilesOK, NEW r \in Routes, NEW q \in Seq(CallSet), Len(q) >= 1, Through(r, q),
           \A f \in Files : LineAt(q[Len(q)]) # IncludeLine(f)
    PROVE  Len(r) = Len(q) /\ LineAt(Last(r)) = LineAt(q[Len(q)])
<1>1. PICK n \in Nat \ {0} : n = Len(q)  OBVIOUS
<1>2. /\ Len(r) \in Nat \ {0} /\ Last(r) = r[Len(r)]
      /\ \A k \in 1 .. Len(r) : r[k].file \in Files
      /\ \A k \in 2 .. Len(r) : LineAt(r[k - 1]) = IncludeLine(r[k].file)
  BY RouteFacts
<1>3. n <= Len(r) /\ r[n].file = q[n].file /\ r[n].line = q[n].line
  BY <1>1 DEF Through
<1>4. LineAt(r[n]) = LineAt(q[n])  BY <1>3 DEF LineAt
<1>5. ~(n < Len(r))
  <2>1. SUFFICES ASSUME n < Len(r)  PROVE FALSE  OBVIOUS
  <2>2. n + 1 \in 2 .. Len(r) /\ n + 1 \in 1 .. Len(r) /\ (n + 1) - 1 = n  BY <2>1, <1>2
  <2>3. LineAt(r[n]) = IncludeLine(r[n + 1].file) /\ r[n + 1].file \in Files  BY <2>2, <1>2
  <2> QED  BY <2>3, <1>1, <1>4
<1>6. Len(r) = n  BY <1>2, <1>3, <1>5
<1> QED  BY <1>1, <1>2, <1>4, <1>6

\* The section in force depends on the files and on the directives above.
LEMMA ForceAlike ==
    ASSUME NEW q, NEW q2, NEW n \in Nat, NEW s,
           \A i \in 1 .. n : /\ q2[i].file = q[i].file
                             /\ DirectivesAbove(q2[i]) = DirectivesAbove(q[i])
    PROVE  InForce(q2, n, s) <=> InForce(q, n, s)
<1>1. \A i \in 1 .. n : \A h \in i + 1 .. n : h \in 1 .. n  OBVIOUS
<1> QED  BY <1>1 DEF InForce

\* Above places with the same file and line are the same directives.
LEMMA AboveAlike ==
    ASSUME NEW p, NEW p2, p2.file = p.file, p2.line = p.line
    PROVE  DirectivesAbove(p2) = DirectivesAbove(p)
BY DEF DirectivesAbove

IsDirective(place) == LineAt(place).kind \in Sections \cup {"%invalid"}

\* The next line has the same directives above it, and this one if it is one.
LEMMA AboveNext ==
    ASSUME NEW p, NEW p2, p2.file = p.file, p.line \in Nat \ {0}, p2.line = p.line + 1
    PROVE  DirectivesAbove(p2) =
               DirectivesAbove(p) \cup (IF IsDirective(p) THEN {p.line} ELSE {})
<1>1. \A j : j \in 1 .. p2.line - 1 <=> j \in 1 .. p.line - 1 \/ j = p.line  OBVIOUS
<1> QED  BY <1>1 DEF DirectivesAbove, IsDirective, LineAt

\* There is nothing above the first line.
LEMMA AboveFirst ==
    ASSUME NEW p, p.line = 1
    PROVE  DirectivesAbove(p) = {}
BY DEF DirectivesAbove

\* Only one section is in force.
LEMMA ForceUnique ==
    ASSUME NEW q, NEW n \in Nat, NEW s, NEW t, InForce(q, n, s), InForce(q, n, t),
           \A i \in 1 .. n : q[i].line \in Nat
    PROVE  s = t
<1>0. \A i \in 1 .. n : \A j \in DirectivesAbove(q[i]) : j \in Int
  BY DEF DirectivesAbove
<1>1. CASE \A i \in 1 .. n : DirectivesAbove(q[i]) = {}
  BY <1>1 DEF InForce
<1>2. CASE ~\A i \in 1 .. n : DirectivesAbove(q[i]) = {}
  <2>1. PICK i \in 1 .. n : \E j \in DirectivesAbove(q[i]) :
          /\ \A k \in DirectivesAbove(q[i]) : k <= j
          /\ \A h \in i + 1 .. n : DirectivesAbove(q[h]) = {}
          /\ s = Declared(lines[q[i].file][j].kind)
    BY <1>2 DEF InForce
  <2>2. PICK j \in DirectivesAbove(q[i]) :
          /\ \A k \in DirectivesAbove(q[i]) : k <= j
          /\ \A h \in i + 1 .. n : DirectivesAbove(q[h]) = {}
          /\ s = Declared(lines[q[i].file][j].kind)
    BY <2>1
  <2>3. PICK x \in 1 .. n : \E j2 \in DirectivesAbove(q[x]) :
          /\ \A k \in DirectivesAbove(q[x]) : k <= j2
          /\ \A h \in x + 1 .. n : DirectivesAbove(q[h]) = {}
          /\ t = Declared(lines[q[x].file][j2].kind)
    BY <1>2 DEF InForce
  <2>4. PICK y \in DirectivesAbove(q[x]) :
          /\ \A k \in DirectivesAbove(q[x]) : k <= y
          /\ \A h \in x + 1 .. n : DirectivesAbove(q[h]) = {}
          /\ t = Declared(lines[q[x].file][y].kind)
    BY <2>3
  <2>5. ~(i < x) /\ ~(x < i)
    <3>1. i < x => x \in i + 1 .. n  OBVIOUS
    <3>2. x < i => i \in x + 1 .. n  OBVIOUS
    <3> QED  BY <2>2, <2>4, <3>1, <3>2
  <2>6. i = x  BY <2>5
  <2>7. j <= y /\ y <= j /\ j \in Int /\ y \in Int  BY <2>2, <2>4, <2>6, <1>0
  <2>8. j = y  BY <2>7
  <2> QED  BY <2>2, <2>4, <2>6, <2>8
<1> QED  BY <1>1, <1>2

\* Going on past a line that is no directive leaves the section as it is.
LEMMA ForceMoved ==
    ASSUME NEW q \in Seq(CallSet), NEW q2 \in Seq(CallSet), Len(q) >= 1, Moved(q, q2), NEW s,
           q[Len(q)].line \in Nat \ {0}, ~IsDirective(q[Len(q)])
    PROVE  InForce(q2, Len(q), s) <=> InForce(q, Len(q), s)
<1>1. PICK n \in Nat \ {0} : n = Len(q)  OBVIOUS
<1>2. DirectivesAbove(q2[n]) = DirectivesAbove(q[n])  BY <1>1, AboveNext DEF Moved
<1>3. \A i \in 1 .. n - 1 : q2[i].file = q[i].file /\ q2[i].line = q[i].line
  BY <1>1 DEF Moved
<1>4. \A i \in 1 .. n - 1 : DirectivesAbove(q2[i]) = DirectivesAbove(q[i])
  BY <1>3, AboveAlike
<1>5. q2[n].file = q[n].file  BY <1>1 DEF Moved
<1>6. \A i \in 1 .. n : q2[i].file = q[i].file /\ DirectivesAbove(q2[i]) = DirectivesAbove(q[i])
  <2> SUFFICES ASSUME NEW i \in 1 .. n
               PROVE  q2[i].file = q[i].file /\ DirectivesAbove(q2[i]) = DirectivesAbove(q[i])
    OBVIOUS
  <2>1. i = n \/ i \in 1 .. n - 1  BY <1>1
  <2> QED  BY <2>1, <1>2, <1>3, <1>4, <1>5
<1>7. InForce(q2, n, s) <=> InForce(q, n, s)  BY <1>6, ForceAlike
<1> QED  BY <1>1, <1>7

\* A directive puts its own section in force.
LEMMA ForceDirective ==
    ASSUME NEW q \in Seq(CallSet), NEW q2 \in Seq(CallSet), Len(q) >= 1, Moved(q, q2),
           q[Len(q)].line \in Nat \ {0}, IsDirective(q[Len(q)])
    PROVE  InForce(q2, Len(q), Declared(LineAt(q[Len(q)]).kind))
<1>1. PICK n \in Nat \ {0} : n = Len(q)  OBVIOUS
<1>2. PICK j \in Nat \ {0} : j = q[n].line  BY <1>1
<1>3. DirectivesAbove(q2[n]) = DirectivesAbove(q[n]) \cup {j}  BY <1>1, <1>2, AboveNext DEF Moved
<1>4. \A k \in DirectivesAbove(q[n]) : k <= j  BY <1>2 DEF DirectivesAbove
<1>5. \A k \in DirectivesAbove(q2[n]) : k <= j  BY <1>2, <1>3, <1>4
<1>6. q2[n].file = q[n].file  BY <1>1 DEF Moved
<1>7. LineAt(q[n]).kind = lines[q2[n].file][j].kind  BY <1>2, <1>6 DEF LineAt
<1>8. n \in 1 .. n /\ j \in DirectivesAbove(q2[n]) /\ n + 1 .. n = {}  BY <1>1, <1>3
<1>9. InForce(q2, n, Declared(LineAt(q[n]).kind))
  BY <1>5, <1>7, <1>8 DEF InForce
<1> QED  BY <1>1, <1>9

\* An included file begins in the section of its %include.
LEMMA ForceEntered ==
    ASSUME NEW q \in Seq(CallSet), NEW q2 \in Seq(CallSet), Entered(q, q2), NEW s
    PROVE  InForce(q2, Len(q) + 1, s) <=> InForce(q, Len(q), s)
<1>1. PICK n \in Nat : n = Len(q)  OBVIOUS
<1>2. \A i \in 1 .. n : q2[i].file = q[i].file /\ q2[i].line = q[i].line
  BY <1>1 DEF Entered
<1>3. \A i \in 1 .. n : DirectivesAbove(q2[i]) = DirectivesAbove(q[i])  BY <1>2, AboveAlike
<1>4. InForce(q2, n, s) <=> InForce(q, n, s)  BY <1>2, <1>3, ForceAlike
<1>5. DirectivesAbove(q2[n + 1]) = {}  BY <1>1, AboveFirst DEF Entered
<1>6. \A i \in 1 .. n + 1 : i \in 1 .. n \/ i = n + 1  BY <1>1
<1>7. \A i \in 1 .. n : i \in 1 .. n + 1  BY <1>1
<1>8. \A i \in 1 .. n : (\A h \in i + 1 .. n + 1 : DirectivesAbove(q2[h]) = {})
                           <=> (\A h \in i + 1 .. n : DirectivesAbove(q2[h]) = {})
  <2> SUFFICES ASSUME NEW i \in 1 .. n, \A h \in i + 1 .. n : DirectivesAbove(q2[h]) = {},
                      NEW h \in i + 1 .. n + 1
               PROVE  DirectivesAbove(q2[h]) = {}
    <3>1. \A i \in 1 .. n : \A h \in i + 1 .. n : h \in i + 1 .. n + 1  BY <1>1
    <3> QED  BY <3>1
  <2>1. h \in i + 1 .. n \/ h = n + 1  BY <1>1
  <2> QED  BY <2>1, <1>5
<1>9. InForce(q2, n + 1, s) <=> InForce(q2, n, s)
  BY <1>5, <1>6, <1>7, <1>8 DEF InForce
<1> QED  BY <1>1, <1>4, <1>9

-----------------------------------------------------------------------------

\* The line that is read is on a route of its own, whose end it is.
LEMMA OccurrenceIsRoute ==
    ASSUME FilesOK, StackOK, AtLine
    PROVE  /\ Occurrence \in Routes /\ Len(Occurrence) = Len(calls)
           /\ Through(Occurrence, calls) /\ LineAt(Last(Occurrence)) = Line
<1>0. Len(calls) \in Nat \ {0}  BY CallFacts DEF AtLine
<1>1. PICK n \in Nat \ {0} : n = Len(calls)  BY <1>0
<1>2. /\ DOMAIN calls = 1 .. n /\ Top = calls[n]
      /\ \A i \in 1 .. n : /\ calls[i].file \in Files /\ calls[i].line \in Nat \ {0}
                           /\ DOMAIN lines[calls[i].file] = 1 .. Len(lines[calls[i].file])
                           /\ Len(lines[calls[i].file]) \in Nat
  BY <1>1, CallFacts
<1>3. \A i \in 1 .. n : calls[i].line \in DOMAIN lines[calls[i].file]
  <2> SUFFICES ASSUME NEW i \in 1 .. n  PROVE calls[i].line \in DOMAIN lines[calls[i].file]
    OBVIOUS
  <2>1. CASE i = n
    <3>1. calls[n].line <= Len(lines[calls[n].file])  BY <1>2 DEF AtLine
    <3> QED  BY <2>1, <3>1, <1>1, <1>2
  <2>2. CASE i # n
    <3>1. i + 1 \in 2 .. n /\ (i + 1) - 1 = i  BY <2>2, <1>1
    <3>2. i + 1 \in DOMAIN calls \ {1}  BY <3>1, <1>2
    <3> QED  BY <3>1, <3>2 DEF StackOK
  <2> QED  BY <2>1, <2>2
<1> DEFINE o == Occurrence
<1>4. o = [i \in 1 .. n |-> [file |-> calls[i].file, line |-> calls[i].line]]
  BY <1>2 DEF Occurrence
<1>5. DOMAIN o = 1 .. n /\ \A i \in 1 .. n : o[i].file = calls[i].file /\ o[i].line = calls[i].line
  BY <1>4
<1>6. \A i \in 1 .. n : o[i] \in Places
  BY <1>2, <1>3, <1>4 DEF Places
<1>7. o \in Seq(Places) /\ Len(o) = n  BY <1>1, <1>4, <1>6
<1> HIDE DEF o
<1>8. o # <<>> /\ o[1].file = Root
  <2>1. 1 \in 1 .. n /\ calls # <<>>  BY <1>1, CallFacts
  <2>2. calls[1].file = Root  BY <2>1 DEF StackOK
  <2> QED  BY <2>1, <2>2, <1>1, <1>5, <1>7
<1>9. \A i \in DOMAIN o \ {1} : LineAt(o[i - 1]) = IncludeLine(o[i].file)
  <2> SUFFICES ASSUME NEW i \in DOMAIN o \ {1}  PROVE LineAt(o[i - 1]) = IncludeLine(o[i].file)
    OBVIOUS
  <2>1. i \in 1 .. n /\ i - 1 \in 1 .. n /\ i \in DOMAIN calls \ {1}  BY <1>1, <1>2, <1>5
  <2>2. LineAt(calls[i - 1]) = IncludeLine(calls[i].file)  BY <2>1 DEF StackOK
  <2> QED  BY <2>1, <2>2, <1>5 DEF LineAt
<1>10. \A i, j \in DOMAIN o : i < j => o[i].file < o[j].file
  BY <1>2, <1>5 DEF StackOK
<1>11. o \in Routes  BY <1>7, <1>8, <1>9, <1>10, IsRoute
<1>12. Last(o) = o[n]  BY <1>7 DEF Last
<1>13. LineAt(Last(o)) = Line  BY <1>1, <1>2, <1>5, <1>12 DEF LineAt, Line
<1>14. Through(o, calls)  BY <1>1, <1>5, <1>7 DEF Through
<1> QED  BY <1>1, <1>7, <1>11, <1>13, <1>14 DEF o

\* A route that ends at the line that is read is the one on which it is read.
LEMMA OnlyOccurrence ==
    ASSUME FilesOK, StackOK, AtLine, NEW r \in Routes, Through(r, calls), Len(r) = Len(calls)
    PROVE  r = Occurrence
<1>0. Len(calls) \in Nat \ {0}  BY CallFacts DEF AtLine
<1>1. PICK n \in Nat \ {0} : n = Len(calls)  BY <1>0
<1>2. r \in Seq(Places) /\ Occurrence \in Seq(Places) /\ Len(Occurrence) = n /\ Len(r) = n
  BY <1>1, RouteFacts, OccurrenceIsRoute
<1>3. \A i \in 1 .. n : r[i].file = Occurrence[i].file /\ r[i].line = Occurrence[i].line
  BY <1>1, OccurrenceIsRoute DEF Through
<1>4. \A a, b \in Places : a.file = b.file /\ a.line = b.line => a = b
  BY DEF Places
<1>5. \A i \in 1 .. n : r[i] \in Places /\ Occurrence[i] \in Places  BY <1>2
<1>6. \A i \in 1 .. n : r[i] = Occurrence[i]  BY <1>3, <1>4, <1>5
<1> QED  BY <1>2, <1>6

\* Calls that go on from where they were, the last one perhaps elsewhere in its
\* file, are still a route.
LEMMA StackKept ==
    ASSUME FilesOK, StackOK, lines' = lines, done' = done,
           NEW n \in Nat \ {0}, n <= Len(calls), Len(calls') = n, calls' \in Seq(CallSet),
           \A i \in 1 .. n - 1 : calls'[i] = calls[i], calls'[n].file = calls[n].file,
           calls'[n].line \in 1 .. Len(lines[calls[n].file]) + 1
    PROVE  StackOK'
<1>1. PICK c : c = calls'  OBVIOUS
<1>2. /\ c \in Seq(CallSet) /\ Len(c) = n /\ DOMAIN c = 1 .. n
      /\ \A i \in 1 .. n - 1 : c[i] = calls[i]
      /\ c[n].file = calls[n].file /\ c[n].line \in 1 .. Len(lines[calls[n].file]) + 1
  BY <1>1
<1>3. PICK m \in Nat : m = Len(calls)  BY CallFacts
<1>4. n <= m /\ DOMAIN calls = 1 .. m /\ calls # <<>>  BY <1>3, CallFacts
<1>5. \A i \in 1 .. n : c[i].file = calls[i].file
  <2> SUFFICES ASSUME NEW i \in 1 .. n  PROVE c[i].file = calls[i].file  OBVIOUS
  <2>1. i = n \/ i \in 1 .. n - 1  OBVIOUS
  <2> QED  BY <2>1, <1>2
<1>6. \A i \in 1 .. n : c[i].line \in 1 .. Len(lines[c[i].file]) + 1
  <2> SUFFICES ASSUME NEW i \in 1 .. n  PROVE c[i].line \in 1 .. Len(lines[c[i].file]) + 1  OBVIOUS
  <2>1. CASE i = n  BY <2>1, <1>2
  <2>2. CASE i # n
    <3>1. i \in 1 .. n - 1 /\ i \in DOMAIN calls  BY <2>2, <1>4
    <3> QED  BY <3>1, <1>2 DEF StackOK
  <2> QED  BY <2>1, <2>2
<1>7. \A i \in DOMAIN c \ {1} :
          /\ c[i - 1].line \in DOMAIN lines[c[i - 1].file]
          /\ lines[c[i - 1].file][c[i - 1].line] = IncludeLine(c[i].file)
  <2> SUFFICES ASSUME NEW i \in DOMAIN c \ {1}
               PROVE  /\ c[i - 1].line \in DOMAIN lines[c[i - 1].file]
                      /\ lines[c[i - 1].file][c[i - 1].line] = IncludeLine(c[i].file)
    OBVIOUS
  <2>1. i \in 1 .. n /\ i - 1 \in 1 .. n - 1 /\ i \in DOMAIN calls \ {1}  BY <1>2, <1>4
  <2>2. c[i - 1] = calls[i - 1] /\ c[i].file = calls[i].file  BY <2>1, <1>2, <1>5
  <2> QED  BY <2>1, <2>2 DEF StackOK, LineAt
<1>8. \A i, j \in DOMAIN c : i < j => c[i].file < c[j].file
  <2>1. DOMAIN c \subseteq DOMAIN calls  BY <1>2, <1>4
  <2> QED  BY <2>1, <1>2, <1>5 DEF StackOK
<1>9. c[1].file = Root /\ done = Running /\ done \in BOOLEAN \cup {Running}
  BY <1>4, <1>5 DEF StackOK
<1> QED  BY <1>1, <1>2, <1>6, <1>7, <1>8, <1>9 DEF StackOK, LineAt, IncludeLine, CallSet

\* What follows a move of the innermost call to its next line.
LEMMA ContinueFacts ==
    ASSUME FilesOK, StackOK, AtLine, lines' = lines, done' = done,
           NEW what \in Sections, NEW success \in BOOLEAN, Continue(what, success)
    PROVE  /\ StackOK' /\ calls' \in Seq(CallSet) /\ calls' # <<>> /\ Moved(calls, calls')
           /\ \A i \in 1 .. Len(calls) - 1 : calls'[i] = calls[i]
           /\ calls'[Len(calls)].what = what /\ calls'[Len(calls)].success = success
<1>0. Len(calls) \in Nat \ {0}  BY CallFacts DEF AtLine
<1>1. PICK n \in Nat \ {0} : n = Len(calls)  BY <1>0
<1>2. /\ DOMAIN calls = 1 .. n /\ Top = calls[n] /\ calls \in Seq(CallSet)
      /\ Len(lines[calls[n].file]) \in Nat /\ calls[n].line \in Nat \ {0}
      /\ calls[n] \in CallSet
  BY <1>1, CallFacts DEF StackOK
<1>3. calls[n].line <= Len(lines[calls[n].file])  BY <1>2 DEF AtLine
<1> DEFINE t == [file |-> calls[n].file, line |-> calls[n].line + 1,
                 what |-> what, success |-> success]
<1>4. t \in CallSet /\ t.file = calls[n].file /\ t.line = calls[n].line + 1
        /\ t.what = what /\ t.success = success
  <2>1. calls[n].file \in Files /\ calls[n].line \in Nat  BY <1>2 DEF CallSet
  <2> QED  BY <2>1 DEF CallSet
<1>5. calls' = Append(SubSeq(calls, 1, n - 1), t)
  BY <1>1, <1>2 DEF Continue, Front
<1> HIDE DEF t
<1>6. /\ calls' \in Seq(CallSet) /\ Len(calls') = n /\ DOMAIN calls' = 1 .. n
      /\ calls'[n] = t /\ \A i \in 1 .. n - 1 : calls'[i] = calls[i]
  <2>1. PICK f : f = SubSeq(calls, 1, n - 1)  OBVIOUS
  <2>2. f \in Seq(CallSet) /\ Len(f) = n - 1 /\ \A i \in 1 .. n - 1 : f[i] = calls[i]
    BY <2>1, <1>1, <1>2
  <2>3. calls' = Append(f, t)  BY <2>1, <1>5
  <2> QED  BY <2>2, <2>3, <1>1, <1>4
<1>7. calls[n].line + 1 \in 1 .. Len(lines[calls[n].file]) + 1  BY <1>2, <1>3
<1>8. StackOK'
  <2>1. n <= Len(calls) /\ Len(calls') = n /\ calls' \in Seq(CallSet)  BY <1>1, <1>6
  <2>2. calls'[n].file = calls[n].file /\ calls'[n].line \in 1 .. Len(lines[calls[n].file]) + 1
    BY <1>4, <1>6, <1>7
  <2> QED  BY <2>1, <2>2, <1>6, StackKept
<1>9. Moved(calls, calls')
  <2>1. PICK c : c = calls'  OBVIOUS
  <2>2. Len(c) = n /\ c[n] = t /\ \A i \in 1 .. n - 1 : c[i] = calls[i]  BY <2>1, <1>6
  <2>3. Moved(calls, c)  BY <2>2, <1>1, <1>4 DEF Moved
  <2> QED  BY <2>1, <2>3
<1>10. calls' # <<>>  BY <1>6
<1> QED  BY <1>1, <1>4, <1>6, <1>8, <1>9, <1>10

\* What follows the beginning of a file.
LEMMA IncludeFacts ==
    ASSUME FilesOK, StackOK, Include
    PROVE  /\ StackOK' /\ calls' \in Seq(CallSet) /\ calls' # <<>> /\ Entered(calls, calls')
           /\ \A i \in 1 .. Len(calls) : calls'[i] = calls[i]
           /\ calls'[Len(calls) + 1].what = Top.what /\ calls'[Len(calls) + 1].success = TRUE
           /\ \E f \in Files : Line = IncludeLine(f)
<1>0. Len(calls) \in Nat \ {0}  BY CallFacts DEF Include, AtLine
<1>1. PICK n \in Nat \ {0} : n = Len(calls)  BY <1>0
<1>2. /\ DOMAIN calls = 1 .. n /\ Top = calls[n] /\ calls \in Seq(CallSet)
      /\ \A i \in 1 .. n : calls[i].file \in Files /\ calls[i].what \in Sections
      /\ Len(lines[calls[n].file]) \in Nat /\ calls[n].line \in Nat \ {0}
      /\ DOMAIN lines[calls[n].file] = 1 .. Len(lines[calls[n].file])
  BY <1>1, CallFacts DEF StackOK
<1>3. n \in 1 .. n  BY <1>1
<1>4. calls[n].file \in Files /\ calls[n].line \in DOMAIN lines[calls[n].file]
        /\ Line = lines[calls[n].file][calls[n].line]
  BY <1>2, <1>3 DEF Include, AtLine, Line
<1>5. PICK g \in Files : Line = IncludeLine(g) /\ g > calls[n].file
  <2>0. PICK f \in Files : f = calls[n].file  BY <1>4
  <2>1. PICK k \in DOMAIN lines[f] : f = calls[n].file /\ k = calls[n].line /\ Line = lines[f][k]
    BY <1>4, <2>0
  <2>2. \/ \E kind \in Sections \cup {"%invalid", "text"} : Line = PlainLine(kind)
        \/ Line = IncludeLine(Missing)
        \/ \E g \in Files : Line = IncludeLine(g) /\ g > f
    BY <2>1, LineKinds
  <2>3. Line.kind = "%include" /\ Line.file # Missing  BY DEF Include
  <2>4. \A kind \in Sections \cup {"%invalid", "text"} : Line # PlainLine(kind)
    BY <2>3 DEF PlainLine
  <2>5. Line # IncludeLine(Missing)  BY <2>3 DEF IncludeLine
  <2> QED  BY <2>1, <2>2, <2>4, <2>5
<1>6. Line.file = g  BY <1>5 DEF IncludeLine
<1> DEFINE t == Call(g, calls[n].what)
<1>7. t \in CallSet /\ t.file = g /\ t.line = 1 /\ t.what = calls[n].what /\ t.success = TRUE
  BY <1>2, <1>3 DEF Call, CallSet
<1>8. calls' = Append(calls, t) /\ lines' = lines /\ done' = done
  BY <1>2, <1>6 DEF Include
<1> HIDE DEF t
<1>9. PICK c : c = calls'  OBVIOUS
<1>10. /\ c \in Seq(CallSet) /\ Len(c) = n + 1 /\ DOMAIN c = 1 .. n + 1
       /\ c[n + 1] = t /\ \A i \in 1 .. n : c[i] = calls[i]
  BY <1>1, <1>2, <1>7, <1>8, <1>9
<1>11. \A i \in 1 .. n + 1 : i \in 1 .. n \/ i = n + 1  BY <1>1
<1>12. \A i \in 1 .. n + 1 : c[i].line \in 1 .. Len(lines[c[i].file]) + 1
  <2> SUFFICES ASSUME NEW i \in 1 .. n + 1  PROVE c[i].line \in 1 .. Len(lines[c[i].file]) + 1
    OBVIOUS
  <2>1. CASE i = n + 1
    <3>1. Len(lines[g]) \in Nat  BY DEF FilesOK
    <3> QED  BY <2>1, <3>1, <1>7, <1>10
  <2>2. CASE i \in 1 .. n
    BY <2>2, <1>2, <1>10 DEF StackOK
  <2> QED  BY <2>1, <2>2, <1>11
<1>13. \A i \in DOMAIN c \ {1} :
          /\ c[i - 1].line \in DOMAIN lines[c[i - 1].file]
          /\ lines[c[i - 1].file][c[i - 1].line] = IncludeLine(c[i].file)
  <2> SUFFICES ASSUME NEW i \in DOMAIN c \ {1}
               PROVE  /\ c[i - 1].line \in DOMAIN lines[c[i - 1].file]
                      /\ lines[c[i - 1].file][c[i - 1].line] = IncludeLine(c[i].file)
    OBVIOUS
  <2>1. CASE i = n + 1
    <3>1. i - 1 = n  BY <2>1, <1>1
    <3> QED  BY <2>1, <3>1, <1>3, <1>4, <1>5, <1>7, <1>10
  <2>2. CASE i \in 1 .. n
    <3>1. i - 1 \in 1 .. n /\ i \in DOMAIN calls \ {1}  BY <2>2, <1>1, <1>2
    <3>2. c[i - 1] = calls[i - 1] /\ c[i] = calls[i]  BY <2>2, <3>1, <1>10
    <3> QED  BY <3>1, <3>2 DEF StackOK, LineAt
  <2> QED  BY <2>1, <2>2, <1>10, <1>11
<1>14. \A i, j \in DOMAIN c : i < j => c[i].file < c[j].file
  <2> SUFFICES ASSUME NEW i \in 1 .. n + 1, NEW j \in 1 .. n + 1, i < j
               PROVE  c[i].file < c[j].file
    BY <1>10
  <2>1. i \in 1 .. n  BY <1>1
  <2>2. CASE j \in 1 .. n  BY <2>1, <2>2, <1>2, <1>10 DEF StackOK
  <2>3. CASE j = n + 1
    <3>1. calls[i].file = calls[n].file \/ calls[i].file < calls[n].file
      <4>1. i = n \/ i < n  BY <2>1
      <4> QED  BY <4>1, <2>1, <1>2, <1>3 DEF StackOK
    <3>2. calls[i].file \in Nat /\ calls[n].file \in Nat /\ g \in Nat
      BY <2>1, <1>2, <1>3, LoaderAssumption
    <3>3. calls[i].file < g  BY <3>1, <3>2, <1>5
    <3> QED  BY <2>1, <2>3, <3>3, <1>7, <1>10
  <2> QED  BY <2>2, <2>3, <1>11
<1>15. c # <<>> /\ c[1].file = Root /\ done = Running /\ done \in BOOLEAN \cup {Running}
  <2>1. calls # <<>> /\ 1 \in 1 .. n  BY <1>1, CallFacts
  <2> QED  BY <2>1, <1>10 DEF StackOK
<1>16. StackOK'
  BY <1>8, <1>9, <1>10, <1>12, <1>13, <1>14, <1>15 DEF StackOK, LineAt, IncludeLine, CallSet
<1>17. Entered(calls, c)  BY <1>1, <1>7, <1>10 DEF Entered
<1> QED  BY <1>1, <1>2, <1>5, <1>7, <1>9, <1>10, <1>15, <1>16, <1>17

\* What follows the return from a file to the one that includes it.
LEMMA ReturnFacts ==
    ASSUME FilesOK, StackOK, Return, Len(calls) # 1,
           NEW n \in Nat, Len(calls) = n + 1
    PROVE  /\ n >= 1 /\ StackOK' /\ calls' \in Seq(CallSet) /\ calls' # <<>>
           /\ Left(calls, calls') /\ Len(calls') = n
           /\ \A i \in 1 .. n - 1 : calls'[i] = calls[i]
           /\ calls'[n].what = calls[n].what
           /\ calls'[n].success = (calls[n + 1].success /\ calls[n].success)
           /\ LineAt(calls[n]) = IncludeLine(calls[n + 1].file)
           /\ calls[n + 1].line = Len(lines[calls[n + 1].file]) + 1
<1>1. /\ DOMAIN calls = 1 .. n + 1 /\ Top = calls[n + 1] /\ calls \in Seq(CallSet)
      /\ \A i \in 1 .. n + 1 : 
            /\ calls[i] \in CallSet
            /\ calls[i].file \in Files /\ calls[i].line \in Nat \ {0}
            /\ calls[i].line <= Len(lines[calls[i].file]) + 1
            /\ Len(lines[calls[i].file]) \in Nat
            /\ DOMAIN lines[calls[i].file] = 1 .. Len(lines[calls[i].file])
            /\ calls[i].what \in Sections /\ calls[i].success \in BOOLEAN
  BY CallFacts DEF StackOK
<1>2. n >= 1  BY <1>1 DEF Return
<1>3. n \in 1 .. n /\ n \in 1 .. n + 1 /\ n + 1 \in 1 .. n + 1 /\ n + 1 \in DOMAIN calls \ {1} /\ (n + 1) - 1 = n
  BY <1>1, <1>2
<1>4. calls[n].line \in DOMAIN lines[calls[n].file] /\ LineAt(calls[n]) = IncludeLine(calls[n + 1].file)
  BY <1>3 DEF StackOK
<1>5. calls[n + 1].line = Len(lines[calls[n + 1].file]) + 1
  <2>1. ~(calls[n + 1].line <= Len(lines[calls[n + 1].file]))  BY <1>1 DEF Return, AtLine
  <2>2. /\ calls[n + 1].line \in Nat /\ Len(lines[calls[n + 1].file]) \in Nat
        /\ calls[n + 1].line <= Len(lines[calls[n + 1].file]) + 1
    BY <1>1, <1>3
  <2> QED  BY <2>1, <2>2
<1> DEFINE t == Returned(calls[n], calls[n + 1])
<1>6. t.file = calls[n].file /\ t.line = calls[n].line + 1 /\ t.what = calls[n].what
        /\ t.success = (calls[n + 1].success /\ calls[n].success)
  BY DEF Returned
<1>7. t \in CallSet
  <2>1. (calls[n + 1].success /\ calls[n].success) \in BOOLEAN  OBVIOUS
  <2>2. calls[n].file \in Files /\ calls[n].line + 1 \in Nat /\ calls[n].what \in Sections
    BY <1>1, <1>3
  <2> QED  BY <2>1, <2>2 DEF Returned, CallSet
<1>8. PICK f : f = Front(calls)  OBVIOUS
<1>9. f \in Seq(CallSet) /\ Len(f) = n /\ \A i \in 1 .. n : f[i] = calls[i]
  BY <1>1, <1>2, <1>8 DEF Front
<1>10. PICK e : e = Front(f)  OBVIOUS
<1>11. e \in Seq(CallSet) /\ Len(e) = n - 1 /\ \A i \in 1 .. n - 1 : e[i] = calls[i]
  BY <1>2, <1>9, <1>10 DEF Front
<1>12. Last(f) = calls[n]  BY <1>3, <1>9 DEF Last
<1>13. calls' = Append(e, t) /\ lines' = lines /\ done' = done
  BY <1>1, <1>8, <1>10, <1>12 DEF Return
<1> HIDE DEF t
<1>14. PICK c : c = calls'  OBVIOUS
<1>15. /\ c \in Seq(CallSet) /\ Len(c) = n
       /\ c[n] = t /\ \A i \in 1 .. n - 1 : c[i] = calls[i]
  BY <1>2, <1>7, <1>11, <1>13, <1>14
<1>16. c[n].file = calls[n].file /\ c[n].line \in 1 .. Len(lines[calls[n].file]) + 1
  <2>1. calls[n].line \in 1 .. Len(lines[calls[n].file]) /\ Len(lines[calls[n].file]) \in Nat
    BY <1>1, <1>3, <1>4
  <2> QED  BY <2>1, <1>6, <1>15
<1>17. StackOK'
  <2>1. n \in Nat \ {0} /\ n <= Len(calls)  BY <1>2
  <2>2. /\ Len(calls') = n /\ calls' \in Seq(CallSet) /\ \A i \in 1 .. n - 1 : calls'[i] = calls[i]
        /\ calls'[n].file = calls[n].file /\ calls'[n].line \in 1 .. Len(lines[calls[n].file]) + 1
    BY <1>14, <1>15, <1>16
  <2> QED  BY <2>1, <2>2, <1>13, StackKept
<1>18. Left(calls, c)  BY <1>6, <1>15 DEF Left
<1>19. c # <<>>  BY <1>2, <1>15
<1> QED  BY <1>2, <1>4, <1>5, <1>6, <1>14, <1>15, <1>17, <1>18, <1>19

-----------------------------------------------------------------------------

\* What comes before after a move: also the routes through the line passed.
LEMMA BeforeMoved ==
    ASSUME FilesOK, NEW r \in Routes, NEW q \in Seq(CallSet), NEW q2 \in Seq(CallSet),
           Len(q) >= 1, Moved(q, q2)
    PROVE  Before(r, q2) <=> Before(r, q) \/ Through(r, q)
<1>1. PICK n \in Nat \ {0} : n = Len(q)  OBVIOUS
<1>2. DOMAIN q = 1 .. n /\ DOMAIN q2 = 1 .. n  BY <1>1 DEF Moved
<1>3. \A i \in 1 .. n : PartsAt(r, q2, i) <=> PartsAt(r, q, i) \/ (i = n /\ Through(r, q))
  <2> SUFFICES ASSUME NEW i \in 1 .. n
               PROVE  PartsAt(r, q2, i) <=> PartsAt(r, q, i) \/ (i = n /\ Through(r, q))
    OBVIOUS
  <2>1. i \in 1 .. Len(q)  BY <1>1
  <2>2. PartsAt(r, q2, i) <=> PartsAt(r, q, i) \/ (i = Len(q) /\ Through(r, q))
    BY <2>1, MovedBefore
  <2> QED  BY <2>2, <1>1
<1>4. \A i : PartsAt(r, q2, i) \/ PartsAt(r, q, i) => i \in 1 .. n /\ i \in DOMAIN r
  BY <1>2 DEF PartsAt
<1>5. Through(r, q) => n \in DOMAIN r
  <2>1. DOMAIN r = 1 .. Len(r) /\ Len(r) \in Nat  BY RouteFacts
  <2> QED  BY <1>1, <2>1 DEF Through
<1>6. n \in 1 .. n  BY <1>1
<1> QED  BY <1>3, <1>4, <1>5, <1>6 DEF Before

\* Nothing new comes before when a file is entered.
LEMMA BeforeEntered ==
    ASSUME FilesOK, NEW r \in Routes, NEW q \in Seq(CallSet), NEW q2 \in Seq(CallSet),
           Entered(q, q2)
    PROVE  Before(r, q2) <=> Before(r, q)
<1>1. PICK n \in Nat : n = Len(q)  OBVIOUS
<1>2. DOMAIN q = 1 .. n /\ DOMAIN q2 = 1 .. n + 1  BY <1>1 DEF Entered
<1>3. \A i \in 1 .. n + 1 : PartsAt(r, q2, i) <=> i <= n /\ PartsAt(r, q, i)
  BY <1>1, EnteredBefore
<1>4. \A i : PartsAt(r, q2, i) => i \in 1 .. n + 1 /\ i \in DOMAIN r
  BY <1>2 DEF PartsAt
<1>5. \A i : PartsAt(r, q, i) => i \in 1 .. n /\ i \in DOMAIN r
  BY <1>2 DEF PartsAt
<1>6. \A i \in 1 .. n : i \in 1 .. n + 1 /\ i <= n  BY <1>1
<1> QED  BY <1>3, <1>4, <1>5, <1>6 DEF Before

\* Nor when it is left, if what is asked about ends at no %include.
LEMMA BeforeLeft ==
    ASSUME FilesOK, NEW r \in Routes, NEW q \in Seq(CallSet), NEW q2 \in Seq(CallSet),
           NEW n \in Nat \ {0}, Len(q2) = n, Left(q, q2),
           \A f \in Files : LineAt(Last(r)) # IncludeLine(f),
           LineAt(q[n]) = IncludeLine(q[n + 1].file),
           q[n + 1].line = Len(lines[q[n + 1].file]) + 1
    PROVE  /\ \A i \in 1 .. n : PartsAt(r, q2, i) <=>
                  PartsAt(r, q, i) \/ (i = n /\ PartsAt(r, q, n + 1))
           /\ Before(r, q2) <=> Before(r, q)
<1>1. Len(q) = n + 1  BY DEF Left
<1>2. DOMAIN q = 1 .. n + 1 /\ DOMAIN q2 = 1 .. n  BY <1>1
<1>3. \A i \in 1 .. n : PartsAt(r, q2, i) <=>
                  PartsAt(r, q, i) \/ (i = n /\ PartsAt(r, q, n + 1))
  <2> SUFFICES ASSUME NEW i \in 1 .. n
               PROVE  PartsAt(r, q2, i) <=>
                          PartsAt(r, q, i) \/ (i = n /\ PartsAt(r, q, n + 1))
    OBVIOUS
  <2>1. i \in 1 .. Len(q2) /\ Len(q2) >= 1  OBVIOUS
  <2>2. LineAt(q[Len(q2)]) = IncludeLine(q[Len(q)].file)
          /\ q[Len(q)].line = Len(lines[q[Len(q)].file]) + 1
    BY <1>1
  <2>3. PartsAt(r, q2, i) <=> PartsAt(r, q, i) \/ (i = Len(q2) /\ PartsAt(r, q, Len(q)))
    BY <2>1, <2>2, LeftBefore
  <2> QED  BY <2>3, <1>1
<1>4. \A i : PartsAt(r, q2, i) => i \in 1 .. n /\ i \in DOMAIN r
  BY <1>2 DEF PartsAt
<1>5. \A i : PartsAt(r, q, i) => i \in 1 .. n + 1 /\ i \in DOMAIN r
  BY <1>2 DEF PartsAt
<1>6. \A i \in 1 .. n + 1 : i \in 1 .. n \/ i = n + 1  OBVIOUS
<1>7. n \in 1 .. n  OBVIOUS
<1>8. Before(r, q2) => Before(r, q)
  BY <1>3, <1>4, <1>5 DEF Before
<1>9. Before(r, q) => Before(r, q2)
  BY <1>3, <1>4, <1>5, <1>6, <1>7 DEF Before
<1> QED  BY <1>3, <1>8, <1>9

\* Text and what is wrong stand at no %include of a file.
LEMMA Ends ==
    ASSUME NEW r, LineAt(Last(r)).kind = "text" \/ IsWrong(r)
    PROVE  \A f \in Files : LineAt(Last(r)) # IncludeLine(f)
<1>1. CASE LineAt(Last(r)).kind = "text"
  BY <1>1 DEF IncludeLine
<1>2. CASE IsWrong(r)
  <2>1. \A f \in Files : f # Missing  BY LoaderAssumption
  <2>2. CASE LineAt(Last(r)) = PlainLine("%invalid")  BY <2>2 DEF PlainLine, IncludeLine
  <2>3. CASE LineAt(Last(r)) = IncludeLine(Missing)  BY <2>1, <2>3 DEF IncludeLine
  <2> QED  BY <1>2, <2>2, <2>3 DEF IsWrong
<1> QED  BY <1>1, <1>2

\* A source stays what it should be while no text is passed.
LEMMA HoldsKept ==
    ASSUME NEW v, NEW S, NEW q, NEW q2, Holds(v, S, q), q # <<>>, q2 # <<>>,
           \A r \in TextOf(S) : Before(r, q2) <=> Before(r, q)
    PROVE  Holds(v, S, q2)
BY DEF Holds

\* A source with one more line that comes after all the others.
LEMMA HoldsAdded ==
    ASSUME FilesOK, NEW v, NEW S, NEW q \in Seq(CallSet), NEW q2, Holds(v, S, q), q # <<>>, q2 # <<>>,
           NEW o \in TextOf(S), Through(o, q), Len(o) = Len(q),
           \A r \in TextOf(S) : Before(r, q2) <=> Before(r, q) \/ r = o
    PROVE  Holds(Append(v, o), S, q2)
<1>1. o \in Routes /\ v \in Seq(Routes)  BY DEF TextOf, Holds
<1>2. PICK n \in Nat : n = Len(v)  BY <1>1
<1>3. PICK w : w = Append(v, o)  OBVIOUS
<1>4. /\ w \in Seq(Routes) /\ DOMAIN w = 1 .. n + 1 /\ DOMAIN v = 1 .. n /\ w[n + 1] = o
      /\ \A k \in 1 .. n : w[k] = v[k]
  BY <1>1, <1>2, <1>3
<1>5. \A k \in 1 .. n + 1 : k \in 1 .. n \/ k = n + 1  BY <1>2
<1>6. \A k \in 1 .. n : k \in 1 .. n + 1  BY <1>2
<1>7. n + 1 \in 1 .. n + 1  BY <1>2
<1>8. \A r : r \in Range(w) <=> r \in Range(v) \/ r = o
  BY <1>4, <1>5, <1>6, <1>7 DEF Range
<1>9. \A r \in Range(v) : r \in Routes /\ Before(r, q)
  <2>1. Range(v) \subseteq Routes  BY <1>1, <1>4 DEF Range
  <2> QED  BY <2>1 DEF Holds
<1>10. \A r : Before(r, q) => Before(r, o)
  <2> SUFFICES ASSUME NEW r, Before(r, q)  PROVE Before(r, o)  OBVIOUS
  <2>1. PICK i \in DOMAIN r : PartsAt(r, q, i)  BY DEF Before
  <2>2. DOMAIN o = 1 .. Len(o) /\ Len(o) \in Nat  BY <1>1, RouteFacts
  <2>3. i \in 1 .. Len(q) /\ i \in DOMAIN o  BY <2>1, <2>2 DEF PartsAt
  <2>4. \A h \in 1 .. i : o[h].file = q[h].file /\ o[h].line = q[h].line
    BY <2>3 DEF Through
  <2>5. i \in 1 .. i /\ \A h \in 1 .. i - 1 : h \in 1 .. i  BY <2>3
  <2>6. PartsAt(r, o, i)  BY <2>1, <2>3, <2>4, <2>5 DEF PartsAt
  <2> QED  BY <2>6 DEF Before
<1>11. InOrder(w)
  <2> SUFFICES ASSUME NEW j \in 1 .. n + 1, NEW k \in 1 .. n + 1, j < k  PROVE Before(w[j], w[k])
    BY <1>4 DEF InOrder
  <2>1. j \in 1 .. n  BY <1>2
  <2>2. CASE k \in 1 .. n  BY <2>1, <2>2, <1>4 DEF Holds, InOrder
  <2>3. CASE k = n + 1
    <3>1. v[j] \in Range(v)  BY <2>1, <1>4 DEF Range
    <3> QED  BY <2>1, <2>3, <3>1, <1>4, <1>9, <1>10
  <2> QED  BY <2>2, <2>3, <1>5
<1>12. \A r \in Routes : r \in Range(w) <=> r \in TextOf(S) /\ Before(r, q2)
  BY <1>8 DEF Holds
<1>13. Holds(w, S, q2)  BY <1>4, <1>11, <1>12 DEF Holds
<1> QED  BY <1>3, <1>13

\* The line that is passed, seen from a route.
LEMMA Passed ==
    ASSUME FilesOK, StackOK, AtLine, NEW r \in Routes, \A f \in Files : Line # IncludeLine(f)
    PROVE  Through(r, calls) <=> r = Occurrence
<1>1. calls \in Seq(CallSet) /\ Len(calls) >= 1 /\ LineAt(calls[Len(calls)]) = Line
  <2>1. calls \in Seq(CallSet) /\ calls # <<>>  BY DEF AtLine, StackOK
  <2> QED  BY <2>1, CallFacts DEF LineAt, Line
<1>2. ASSUME Through(r, calls)  PROVE r = Occurrence
  <2>1. Len(r) = Len(calls)  BY <1>1, <1>2, EndsThere
  <2> QED  BY <1>2, <2>1, OnlyOccurrence
<1> QED  BY <1>2, OccurrenceIsRoute

\* Text is added to a source if the section in force is one of the source's.
LEMMA TextAdded ==
    ASSUME FilesOK, StackOK, WhatOK(calls), AtLine, Line.kind = "text",
           NEW c \in Seq(CallSet), c # <<>>, Moved(calls, c), NEW v, NEW S, Holds(v, S, calls)
    PROVE  /\ Top.what \in S => Holds(Append(v, Occurrence), S, c)
           /\ Top.what \notin S => Holds(v, S, c)
<1>1. calls \in Seq(CallSet) /\ calls # <<>>  BY DEF AtLine, StackOK
<1>2. PICK n \in Nat \ {0} : n = Len(calls)  BY <1>1
<1>3. DOMAIN calls = 1 .. n /\ Top = calls[n] /\ \A i \in 1 .. n : calls[i].line \in Nat
  BY <1>2, CallFacts
<1>4. PICK o : o = Occurrence  OBVIOUS
<1>5. o \in Routes /\ Len(o) = n /\ Through(o, calls) /\ LineAt(Last(o)) = Line
  BY <1>2, <1>4, OccurrenceIsRoute
<1>6. \A s : InForce(o, n, s) <=> InForce(calls, n, s)
  <2>1. \A i \in 1 .. n : o[i].file = calls[i].file /\ o[i].line = calls[i].line
    BY <1>2, <1>5 DEF Through
  <2>2. \A i \in 1 .. n : DirectivesAbove(o[i]) = DirectivesAbove(calls[i])
    BY <2>1, AboveAlike
  <2> QED  BY <2>1, <2>2, ForceAlike
<1>7. InForce(calls, n, Top.what)
  <2>1. n \in DOMAIN calls  BY <1>2, <1>3
  <2> QED  BY <2>1, <1>3 DEF WhatOK
<1>8. \A s : InForce(calls, n, s) => s = Top.what  BY <1>3, <1>7, ForceUnique
<1>9. o \in TextOf(S) <=> Top.what \in S
  BY <1>5, <1>6, <1>7, <1>8 DEF TextOf
<1>10. \A r \in TextOf(S) : r \in Routes  BY DEF TextOf
<1>11. \A f \in Files : Line # IncludeLine(f)  BY DEF IncludeLine
<1>12. \A r \in TextOf(S) : Before(r, c) <=> Before(r, calls) \/ r = o
  <2> SUFFICES ASSUME NEW r \in Routes  PROVE Before(r, c) <=> Before(r, calls) \/ r = o
    BY <1>10
  <2>1. Len(calls) >= 1  BY <1>2
  <2>2. Before(r, c) <=> Before(r, calls) \/ Through(r, calls)  BY <1>1, <2>1, BeforeMoved
  <2>3. Through(r, calls) <=> r = Occurrence  BY <1>11, Passed
  <2> QED  BY <2>2, <2>3, <1>4
<1>13. CASE Top.what \in S
  <2>1. o \in TextOf(S)  BY <1>9, <1>13
  <2>2. Len(o) = Len(calls)  BY <1>2, <1>5
  <2>3. Holds(Append(v, o), S, c)  BY <1>1, <1>5, <1>12, <2>1, <2>2, HoldsAdded
  <2> QED  BY <1>4, <1>13, <2>3
<1>14. CASE Top.what \notin S
  <2>1. \A r \in TextOf(S) : Before(r, c) <=> Before(r, calls)  BY <1>9, <1>12, <1>14
  <2>2. Holds(v, S, c)  BY <1>1, <2>1, HoldsKept
  <2> QED  BY <1>14, <2>2
<1> QED  BY <1>13, <1>14

-----------------------------------------------------------------------------

\* The files do not change, so that nothing that is said of them does.
LEMMA FilesKept ==
    ASSUME lines' = lines
    PROVE  /\ Routes' = Routes
           /\ \A r : IsWrong(r)' <=> IsWrong(r)
           /\ \A S : TextOf(S)' = TextOf(S)
           /\ \A q, n, s : InForce(q, n, s)' <=> InForce(q, n, s)
           /\ FilesOK => FilesOK'
<1>1. Places' = Places  BY DEF Places
<1>2. \A p : LineAt(p)' = LineAt(p)  BY DEF LineAt
<1>3. Routes' = Routes  BY <1>1 DEF Routes, LineAt, IncludeLine
<1>4. \A r : IsWrong(r)' <=> IsWrong(r)  BY DEF IsWrong, LineAt, PlainLine, IncludeLine
<1>5. \A p : DirectivesAbove(p)' = DirectivesAbove(p)  BY DEF DirectivesAbove, Sections
<1>6. \A q, n, s : InForce(q, n, s)' <=> InForce(q, n, s)
  BY DEF InForce, DirectivesAbove, Sections, Declared
<1>7. \A S : TextOf(S)' = TextOf(S)
  BY <1>3, <1>6 DEF TextOf, LineAt, InForce, DirectivesAbove, Sections, Declared
<1>8. FilesOK => FilesOK'
  BY DEF FilesOK, LineSet, PlainLine, IncludeLine, Sections
<1> QED  BY <1>3, <1>4, <1>6, <1>7, <1>8

\* The invariant after a step, for the values that the step has given.
LEMMA After ==
    ASSUME FilesOK, lines' = lines, StackOK',
           NEW c, c = calls', NEW v, v = mVertex', NEW f, f = mFragment',
           WhatOK(c), SuccessOK(c), c = <<>> => (done' <=> ~\E r \in Routes : IsWrong(r)),
           Holds(v, {"%vertex", "%common"}, c), Holds(f, {"%fragment", "%common"}, c)
    PROVE  LoaderInv'
<1>1. /\ Routes' = Routes /\ \A r : IsWrong(r)' <=> IsWrong(r)
      /\ \A S : TextOf(S)' = TextOf(S)
      /\ \A q, n, s : InForce(q, n, s)' <=> InForce(q, n, s)
      /\ FilesOK'
  BY FilesKept
<1>2. WhatOK(c)'  BY <1>1 DEF WhatOK
<1>3. SuccessOK(c)'  BY <1>1 DEF SuccessOK
<1>4. \A w, S : Holds(w, S, c)' <=> Holds(w, S, c)  BY <1>1 DEF Holds
<1>5. ResultOK'  BY <1>1 DEF ResultOK
<1>6. WhatOK(calls)'
  <2>1. DOMAIN c = DOMAIN calls'  OBVIOUS
  <2>2. ASSUME NEW i \in DOMAIN c  PROVE InForce(calls, i, calls[i].what)'
    <3>1. PICK s : s = c[i].what  OBVIOUS
    <3>2. InForce(c, i, s)  BY <3>1 DEF WhatOK
    <3>3. \A k : DirectivesAbove(calls[k])' = DirectivesAbove(c[k])
      BY DEF DirectivesAbove, Sections
    <3>4. InForce(calls, i, s)'  BY <3>2, <3>3 DEF InForce, Declared
    <3> QED  BY <3>1, <3>4
  <2> QED  BY <2>1, <2>2 DEF WhatOK
<1>7. SuccessOK(calls)'  BY <1>3 DEF SuccessOK
<1>8. Holds(mVertex, {"%vertex", "%common"}, calls)'
  BY <1>4 DEF Holds
<1>9. Holds(mFragment, {"%fragment", "%common"}, calls)'
  BY <1>4 DEF Holds
<1> QED  BY <1>1, <1>5, <1>6, <1>7, <1>8, <1>9 DEF LoaderInv

\* The sections in force before the last place depend on the places alone.
LEMMA WhatKept ==
    ASSUME NEW q \in Seq(CallSet), NEW c \in Seq(CallSet), WhatOK(q),
           NEW n \in Nat, n <= Len(q), n <= Len(c), \A i \in 1 .. n : c[i] = q[i]
    PROVE  \A i \in 1 .. n : InForce(c, i, c[i].what)
<1> SUFFICES ASSUME NEW i \in 1 .. n  PROVE InForce(c, i, c[i].what)  OBVIOUS
<1>1. i \in DOMAIN q /\ c[i].what = q[i].what  OBVIOUS
<1>2. InForce(q, i, q[i].what)  BY <1>1 DEF WhatOK
<1>3. \A h \in 1 .. i : c[h].file = q[h].file /\ DirectivesAbove(c[h]) = DirectivesAbove(q[h])
  <2>1. \A h \in 1 .. i : c[h] = q[h]  OBVIOUS
  <2> QED  BY <2>1
<1>4. InForce(c, i, q[i].what)  BY <1>2, <1>3, ForceAlike
<1> QED  BY <1>1, <1>4

\* Whether a call has failed, after a line that includes no file.
LEMMA SuccessMoved ==
    ASSUME FilesOK, StackOK, SuccessOK(calls), AtLine, \A f \in Files : Line # IncludeLine(f),
           NEW c \in Seq(CallSet), Moved(calls, c), \A i \in 1 .. Len(calls) - 1 : c[i] = calls[i],
           c[Len(calls)].success <=>
               Top.success /\ Line \notin {PlainLine("%invalid"), IncludeLine(Missing)}
    PROVE  SuccessOK(c)
<1>1. calls \in Seq(CallSet) /\ calls # <<>>  BY DEF AtLine, StackOK
<1>2. PICK n \in Nat \ {0} : n = Len(calls)  BY <1>1
<1>3. DOMAIN calls = 1 .. n /\ DOMAIN c = 1 .. n /\ Top = calls[n]
  BY <1>2, CallFacts DEF Moved
<1>4. \A r \in Routes : \A i \in 1 .. n :
          PartsAt(r, c, i) <=> PartsAt(r, calls, i) \/ (i = n /\ r = Occurrence)
  <2> SUFFICES ASSUME NEW r \in Routes, NEW i \in 1 .. n
               PROVE  PartsAt(r, c, i) <=> PartsAt(r, calls, i) \/ (i = n /\ r = Occurrence)
    OBVIOUS
  <2>1. i \in 1 .. Len(calls) /\ Len(calls) >= 1  BY <1>2
  <2>2. PartsAt(r, c, i) <=> PartsAt(r, calls, i) \/ (i = Len(calls) /\ Through(r, calls))
    BY <2>1, <1>1, MovedBefore
  <2>3. Through(r, calls) <=> r = Occurrence  BY Passed
  <2> QED  BY <2>2, <2>3, <1>2
<1>5. PICK o : o = Occurrence  OBVIOUS
<1>6. o \in Routes /\ (IsWrong(o) <=> Line \in {PlainLine("%invalid"), IncludeLine(Missing)})
  BY <1>5, OccurrenceIsRoute DEF IsWrong
<1>7. SUFFICES ASSUME NEW i \in 1 .. n
               PROVE  c[i].success <=> ~\E r \in Routes : IsWrong(r) /\ PartsAt(r, c, i)
  BY <1>3 DEF SuccessOK
<1>8. calls[i].success <=> ~\E r \in Routes : IsWrong(r) /\ PartsAt(r, calls, i)
  BY <1>3 DEF SuccessOK
<1>9. CASE i = n
  <2>1. c[n].success <=> calls[n].success /\ ~IsWrong(o)  BY <1>2, <1>3, <1>6
  <2> QED  BY <2>1, <1>4, <1>5, <1>6, <1>8, <1>9
<1>10. CASE i # n
  <2>1. i \in 1 .. Len(calls) - 1  BY <1>2, <1>10
  <2>2. c[i] = calls[i]  BY <2>1
  <2> QED  BY <2>2, <1>4, <1>8, <1>10
<1> QED  BY <1>9, <1>10

\* A source that gets no line while a line is passed that is not text.
LEMMA NoTextPassed ==
    ASSUME FilesOK, StackOK, AtLine, \A f \in Files : Line # IncludeLine(f), Line.kind # "text",
           NEW c \in Seq(CallSet), c # <<>>, Moved(calls, c), NEW v, NEW S, Holds(v, S, calls)
    PROVE  Holds(v, S, c)
<1>1. calls \in Seq(CallSet) /\ calls # <<>> /\ Len(calls) >= 1
  BY CallFacts DEF AtLine, StackOK
<1>2. \A r \in TextOf(S) : Before(r, c) <=> Before(r, calls)
  <2> SUFFICES ASSUME NEW r \in TextOf(S)  PROVE Before(r, c) <=> Before(r, calls)
    OBVIOUS
  <2>1. r \in Routes /\ LineAt(Last(r)).kind = "text"  BY DEF TextOf
  <2>2. Before(r, c) <=> Before(r, calls) \/ Through(r, calls)
    BY <1>1, <2>1, BeforeMoved
  <2>3. Through(r, calls) <=> r = Occurrence  BY <2>1, Passed
  <2>4. r # Occurrence  BY <2>1, OccurrenceIsRoute
  <2> QED  BY <2>2, <2>3, <2>4
<1> QED  BY <1>1, <1>2, HoldsKept

-----------------------------------------------------------------------------

\* Text goes to the sources of the section in force.
LEMMA TextKeeps == LoaderInv /\ Text => LoaderInv'
<1> SUFFICES ASSUME LoaderInv, Text  PROVE LoaderInv'
  OBVIOUS
<1> USE DEF LoaderInv
<1>1. AtLine /\ Line.kind = "text" /\ lines' = lines /\ done' = done
        /\ Continue(Top.what, Top.success)
  BY DEF Text
<1>2. PICK n \in Nat \ {0} : n = Len(calls)
  <2>1. Len(calls) \in Nat \ {0}  BY <1>1, CallFacts DEF AtLine
  <2> QED  BY <2>1
<1>3. DOMAIN calls = 1 .. n /\ Top = calls[n] /\ Top.what \in Sections /\ Top.success \in BOOLEAN
        /\ calls[n].line \in Nat \ {0} /\ n \in 1 .. n
  BY <1>2, CallFacts
<1>4. /\ StackOK' /\ calls' \in Seq(CallSet) /\ calls' # <<>> /\ Moved(calls, calls')
      /\ \A i \in 1 .. n - 1 : calls'[i] = calls[i]
      /\ calls'[n].what = Top.what /\ calls'[n].success = Top.success
  BY <1>1, <1>2, <1>3, ContinueFacts
<1>5. PICK c : c = calls'  OBVIOUS
<1>6. /\ c \in Seq(CallSet) /\ c # <<>> /\ Moved(calls, c)
      /\ \A i \in 1 .. n - 1 : c[i] = calls[i]
      /\ c[n].what = Top.what /\ c[n].success = Top.success
  BY <1>4, <1>5
<1>7. calls \in Seq(CallSet) /\ Len(calls) >= 1 /\ Len(c) = n /\ DOMAIN c = 1 .. n
  BY <1>2, <1>6 DEF StackOK, Moved
<1>8. /\ \A f \in Files : Line # IncludeLine(f)
      /\ Line \notin {PlainLine("%invalid"), IncludeLine(Missing)}
      /\ LineAt(calls[n]) = Line /\ ~IsDirective(calls[n])
  BY <1>1, <1>3 DEF IncludeLine, PlainLine, LineAt, Line, IsDirective, Sections
<1>9. WhatOK(c)
  <2>1. \A i \in 1 .. n - 1 : InForce(c, i, c[i].what)
    <3>1. PICK m \in Nat : m = n - 1  BY <1>2
    <3>2. m <= Len(calls) /\ m <= Len(c) /\ \A i \in 1 .. m : c[i] = calls[i]
      BY <3>1, <1>2, <1>6, <1>7
    <3> QED  BY <3>1, <3>2, <1>6, <1>7, WhatKept
  <2>2. InForce(calls, n, Top.what)  BY <1>3 DEF WhatOK
  <2>3. InForce(c, Len(calls), Top.what) <=> InForce(calls, Len(calls), Top.what)
    <3>1. calls[Len(calls)].line \in Nat \ {0} /\ ~IsDirective(calls[Len(calls)])
      BY <1>2, <1>3, <1>8
    <3> QED  BY <3>1, <1>6, <1>7, ForceMoved
  <2>4. InForce(c, n, c[n].what)  BY <2>2, <2>3, <1>2, <1>6
  <2>5. \A i \in 1 .. n : i \in 1 .. n - 1 \/ i = n  BY <1>2
  <2> QED  BY <2>1, <2>4, <2>5, <1>7 DEF WhatOK
<1>10. SuccessOK(c)
  <2>1. c[Len(calls)].success <=>
            Top.success /\ Line \notin {PlainLine("%invalid"), IncludeLine(Missing)}
    BY <1>2, <1>6, <1>8
  <2>2. \A i \in 1 .. Len(calls) - 1 : c[i] = calls[i]  BY <1>2, <1>6
  <2> QED  BY <2>1, <2>2, <1>1, <1>6, <1>8, SuccessMoved
<1>11. PICK v : v = mVertex'  OBVIOUS
<1>12. Holds(v, {"%vertex", "%common"}, c)
  <2> DEFINE S == {"%vertex", "%common"}
  <2>1. /\ Top.what \in S => Holds(Append(mVertex, Occurrence), S, c)
        /\ Top.what \notin S => Holds(mVertex, S, c)
    BY <1>1, <1>6, TextAdded
  <2>2. Top.what \in S <=> Top.what # "%fragment"  BY <1>3 DEF Sections
  <2>3. v = IF Top.what = "%fragment" THEN mVertex ELSE Append(mVertex, Occurrence)
    BY <1>11 DEF Text
  <2> QED  BY <2>1, <2>2, <2>3
<1>13. PICK f : f = mFragment'  OBVIOUS
<1>14. Holds(f, {"%fragment", "%common"}, c)
  <2> DEFINE S == {"%fragment", "%common"}
  <2>1. /\ Top.what \in S => Holds(Append(mFragment, Occurrence), S, c)
        /\ Top.what \notin S => Holds(mFragment, S, c)
    BY <1>1, <1>6, TextAdded
  <2>2. Top.what \in S <=> Top.what # "%vertex"  BY <1>3 DEF Sections
  <2>3. f = IF Top.what = "%vertex" THEN mFragment ELSE Append(mFragment, Occurrence)
    BY <1>13 DEF Text
  <2> QED  BY <2>1, <2>2, <2>3
<1> QED  BY <1>1, <1>4, <1>5, <1>6, <1>9, <1>10, <1>11, <1>12, <1>13, <1>14, After

\* Directives and what is wrong change the section or the result, and no source.
LEMMA DirectiveKeeps ==
    ASSUME LoaderInv, AtLine, lines' = lines, done' = done,
           mVertex' = mVertex, mFragment' = mFragment,
           \A f \in Files : Line # IncludeLine(f), Line.kind # "text",
           NEW what \in Sections, NEW success \in BOOLEAN, Continue(what, success),
           success <=> Top.success /\ Line \notin {PlainLine("%invalid"), IncludeLine(Missing)},
           what = (IF Line.kind \in Sections \cup {"%invalid"} THEN Declared(Line.kind) ELSE Top.what)
    PROVE  LoaderInv'
<1> USE DEF LoaderInv
<1>2. PICK n \in Nat \ {0} : n = Len(calls)
  <2>1. Len(calls) \in Nat \ {0}  BY CallFacts DEF AtLine
  <2> QED  BY <2>1
<1>3. DOMAIN calls = 1 .. n /\ Top = calls[n] /\ calls[n].line \in Nat \ {0} /\ n \in 1 .. n
  BY <1>2, CallFacts
<1>4. /\ StackOK' /\ calls' \in Seq(CallSet) /\ calls' # <<>> /\ Moved(calls, calls')
      /\ \A i \in 1 .. n - 1 : calls'[i] = calls[i]
      /\ calls'[n].what = what /\ calls'[n].success = success
  BY <1>2, ContinueFacts
<1>5. PICK c : c = calls'  OBVIOUS
<1>6. /\ c \in Seq(CallSet) /\ c # <<>> /\ Moved(calls, c)
      /\ \A i \in 1 .. n - 1 : c[i] = calls[i]
      /\ c[n].what = what /\ c[n].success = success
  BY <1>4, <1>5
<1>7. calls \in Seq(CallSet) /\ Len(calls) >= 1 /\ Len(c) = n /\ DOMAIN c = 1 .. n
  BY <1>2, <1>6 DEF StackOK, Moved
<1>8. LineAt(calls[n]) = Line  BY <1>3 DEF LineAt, Line
<1>9. WhatOK(c)
  <2>1. \A i \in 1 .. n - 1 : InForce(c, i, c[i].what)
    <3>1. PICK m \in Nat : m = n - 1  BY <1>2
    <3>2. m <= Len(calls) /\ m <= Len(c) /\ \A i \in 1 .. m : c[i] = calls[i]
      BY <3>1, <1>2, <1>6, <1>7
    <3> QED  BY <3>1, <3>2, <1>6, <1>7, WhatKept
  <2>2. ASSUME Line.kind \notin Sections \cup {"%invalid"}  PROVE InForce(c, n, what)
    <3>1. InForce(calls, n, Top.what)  BY <1>3 DEF WhatOK
    <3>2. calls[Len(calls)].line \in Nat \ {0} /\ ~IsDirective(calls[Len(calls)])
      BY <1>2, <1>3, <1>8, <2>2 DEF IsDirective
    <3>3. InForce(c, Len(calls), Top.what) <=> InForce(calls, Len(calls), Top.what)
      BY <3>2, <1>6, <1>7, ForceMoved
    <3>4. what = Top.what  BY <2>2
    <3> QED  BY <3>1, <3>3, <3>4, <1>2
  <2>3. ASSUME Line.kind \in Sections \cup {"%invalid"}  PROVE InForce(c, n, what)
    <3>1. calls[Len(calls)].line \in Nat \ {0} /\ IsDirective(calls[Len(calls)])
      BY <1>2, <1>3, <1>8, <2>3 DEF IsDirective
    <3>2. InForce(c, Len(calls), Declared(LineAt(calls[Len(calls)]).kind))
      BY <3>1, <1>6, <1>7, ForceDirective
    <3>3. what = Declared(Line.kind)  BY <2>3
    <3> QED  BY <3>2, <3>3, <1>2, <1>8
  <2>4. InForce(c, n, c[n].what)  BY <2>2, <2>3, <1>6
  <2>5. \A i \in 1 .. n : i \in 1 .. n - 1 \/ i = n  BY <1>2
  <2> QED  BY <2>1, <2>4, <2>5, <1>7 DEF WhatOK
<1>10. SuccessOK(c)
  <2>1. c[Len(calls)].success <=>
            Top.success /\ Line \notin {PlainLine("%invalid"), IncludeLine(Missing)}
    BY <1>2, <1>6
  <2>2. \A i \in 1 .. Len(calls) - 1 : c[i] = calls[i]  BY <1>2, <1>6
  <2> QED  BY <2>1, <2>2, <1>6, SuccessMoved
<1>11. Holds(mVertex, {"%vertex", "%common"}, c)  BY <1>6, NoTextPassed
<1>12. Holds(mFragment, {"%fragment", "%common"}, c)  BY <1>6, NoTextPassed
<1>13. PICK v : v = mVertex'  OBVIOUS
<1>14. PICK f : f = mFragment'  OBVIOUS
<1>15. Holds(v, {"%vertex", "%common"}, c) /\ Holds(f, {"%fragment", "%common"}, c)
  BY <1>11, <1>12, <1>13, <1>14
<1> QED  BY <1>4, <1>5, <1>6, <1>9, <1>10, <1>13, <1>14, <1>15, After

\* An included file begins with what is known where it is included.
LEMMA IncludeKeeps == LoaderInv /\ Include => LoaderInv'
<1> SUFFICES ASSUME LoaderInv, Include  PROVE LoaderInv'
  OBVIOUS
<1> USE DEF LoaderInv
<1>1. AtLine /\ lines' = lines /\ done' = done /\ mVertex' = mVertex /\ mFragment' = mFragment
  BY DEF Include
<1>2. PICK n \in Nat \ {0} : n = Len(calls)
  <2>1. Len(calls) \in Nat \ {0}  BY <1>1, CallFacts DEF AtLine
  <2> QED  BY <2>1
<1>3. DOMAIN calls = 1 .. n /\ Top = calls[n] /\ n \in 1 .. n /\ calls \in Seq(CallSet)
  BY <1>2, CallFacts DEF StackOK
<1>4. PICK c : c = calls'  OBVIOUS
<1>5. /\ StackOK' /\ c \in Seq(CallSet) /\ c # <<>> /\ Entered(calls, c)
      /\ \A i \in 1 .. n : c[i] = calls[i]
      /\ c[n + 1].what = Top.what /\ c[n + 1].success = TRUE
  BY <1>2, <1>4, IncludeFacts
<1>6. Len(c) = n + 1 /\ DOMAIN c = 1 .. n + 1  BY <1>2, <1>5 DEF Entered
<1>7. \A i \in 1 .. n + 1 : i \in 1 .. n \/ i = n + 1  BY <1>2
<1>8. WhatOK(c)
  <2>1. \A i \in 1 .. n : InForce(c, i, c[i].what)
    <3>1. n <= Len(calls) /\ n <= Len(c)  BY <1>2, <1>6
    <3> QED  BY <3>1, <1>3, <1>5, WhatKept
  <2>2. InForce(calls, n, Top.what)  BY <1>3 DEF WhatOK
  <2>3. InForce(c, Len(calls) + 1, Top.what) <=> InForce(calls, Len(calls), Top.what)
    BY <1>3, <1>5, ForceEntered
  <2>4. InForce(c, n + 1, c[n + 1].what)  BY <2>2, <2>3, <1>2, <1>5
  <2> QED  BY <2>1, <2>4, <1>6, <1>7 DEF WhatOK
<1>9. SuccessOK(c)
  <2>1. \A r \in Routes : \A i \in 1 .. n + 1 : PartsAt(r, c, i) <=> i <= n /\ PartsAt(r, calls, i)
    <3> SUFFICES ASSUME NEW r \in Routes, NEW i \in 1 .. n + 1
                 PROVE  PartsAt(r, c, i) <=> i <= n /\ PartsAt(r, calls, i)
      OBVIOUS
    <3>1. i \in 1 .. Len(calls) + 1  BY <1>2
    <3>2. PartsAt(r, c, i) <=> i <= Len(calls) /\ PartsAt(r, calls, i)
      BY <3>1, <1>3, <1>5, EnteredBefore
    <3> QED  BY <3>2, <1>2
  <2>2. \A i \in 1 .. n : i <= n /\ i \in 1 .. n + 1  BY <1>2
  <2>3. n + 1 \in 1 .. n + 1 /\ ~(n + 1 <= n)  BY <1>2
  <2>4. \A i \in 1 .. n :
            c[i].success <=> ~\E r \in Routes : IsWrong(r) /\ PartsAt(r, c, i)
    BY <2>1, <2>2, <1>3, <1>5 DEF SuccessOK
  <2>5. c[n + 1].success <=> ~\E r \in Routes : IsWrong(r) /\ PartsAt(r, c, n + 1)
    BY <2>1, <2>3, <1>5
  <2> QED  BY <2>4, <2>5, <1>6, <1>7 DEF SuccessOK
<1>10. \A r \in Routes : Before(r, c) <=> Before(r, calls)
  BY <1>3, <1>5, BeforeEntered
<1>11. \A v, S : Holds(v, S, calls) => Holds(v, S, c)
  <2>1. calls # <<>>  BY <1>1 DEF AtLine
  <2> QED  BY <2>1, <1>5, <1>10 DEF Holds
<1>12. PICK v : v = mVertex'  OBVIOUS
<1>13. PICK f : f = mFragment'  OBVIOUS
<1>14. Holds(v, {"%vertex", "%common"}, c) /\ Holds(f, {"%fragment", "%common"}, c)
  BY <1>1, <1>11, <1>12, <1>13
<1> QED  BY <1>1, <1>4, <1>5, <1>8, <1>9, <1>12, <1>13, <1>14, After

\* After an %include stands what was known at its end, for the sources and the
\* result, and what was known before it, for the section.
LEMMA ReturnKeeps == LoaderInv /\ Return => LoaderInv'
<1> SUFFICES ASSUME LoaderInv, Return  PROVE LoaderInv'
  OBVIOUS
<1> USE DEF LoaderInv
<1>1. lines' = lines /\ mVertex' = mVertex /\ mFragment' = mFragment /\ calls # <<>>
  BY DEF Return
<1>2. calls \in Seq(CallSet) /\ Len(calls) \in Nat \ {0} /\ DOMAIN calls = 1 .. Len(calls)
        /\ Top = calls[Len(calls)]
  BY <1>1, CallFacts DEF StackOK
<1>3. PICK v : v = mVertex'  OBVIOUS
<1>4. PICK f : f = mFragment'  OBVIOUS
<1>5. PICK c : c = calls'  OBVIOUS
<1>6. CASE Len(calls) = 1
  <2>1. c = <<>> /\ done' = calls[1].success
    BY <1>2, <1>5, <1>6 DEF Return
  <2>2. \A r \in Routes : PartsAt(r, calls, 1)
    <3> SUFFICES ASSUME NEW r \in Routes  PROVE PartsAt(r, calls, 1)  OBVIOUS
    <3>1. /\ Len(r) \in Nat \ {0} /\ DOMAIN r = 1 .. Len(r) /\ r[1].file = Root
          /\ r[1].file \in Files /\ r[1].line \in DOMAIN lines[r[1].file] /\ r[1].line \in Nat
      BY RouteFacts
    <3>2. /\ calls[1].file = Root /\ calls[1].line \in Nat
          /\ Len(lines[Root]) \in Nat /\ DOMAIN lines[Root] = 1 .. Len(lines[Root])
      BY <1>1, <1>6, CallFacts DEF StackOK
    <3>3. ~(calls[1].line <= Len(lines[Root]))
      BY <1>1, <1>2, <1>6, <3>2 DEF Return, AtLine
    <3>4. r[1].line < calls[1].line  BY <3>1, <3>2, <3>3
    <3>5. 1 \in DOMAIN r /\ 1 \in DOMAIN calls  BY <3>1, <1>2, <1>6
    <3> QED  BY <3>1, <3>2, <3>4, <3>5 DEF PartsAt
  <2>3. \A r \in Routes : Before(r, calls)
    <3>1. \A r \in Routes : 1 \in DOMAIN r  BY <2>2 DEF PartsAt
    <3> QED  BY <2>2, <3>1 DEF Before
  <2>4. 1 \in DOMAIN calls  BY <1>2, <1>6
  <2>5. done' <=> ~\E r \in Routes : IsWrong(r)
    BY <2>1, <2>2, <2>4 DEF SuccessOK
  <2>6. \A w, S : Holds(w, S, calls) => Holds(w, S, c)
    BY <2>1, <2>3, <1>1 DEF Holds
  <2>7. Holds(v, {"%vertex", "%common"}, c) /\ Holds(f, {"%fragment", "%common"}, c)
    BY <2>6, <1>1, <1>3, <1>4
  <2>8. DOMAIN c = {}  BY <2>1
  <2>9. WhatOK(c) /\ SuccessOK(c)  BY <2>8 DEF WhatOK, SuccessOK
  <2>10. StackOK'
    <3>1. calls' = <<>> /\ done' \in BOOLEAN
      BY <2>1, <2>4, <1>2, <1>5, <1>6, CallFacts
    <3>2. \A e : e = <<>> => e \in Seq(CallSet) /\ DOMAIN e = {}  OBVIOUS
    <3>3. calls' \in Seq(CallSet)' /\ DOMAIN calls' = {}
      BY <3>1, <3>2 DEF CallSet, Sections
    <3> QED  BY <3>1, <3>3 DEF StackOK
  <2> QED  BY <2>5, <2>7, <2>9, <2>10, <1>1, <1>3, <1>4, <1>5, After
<1>7. CASE Len(calls) # 1
  <2>1. PICK n \in Nat : Len(calls) = n + 1
    <3>1. Len(calls) - 1 \in Nat /\ Len(calls) = (Len(calls) - 1) + 1  BY <1>2
    <3> QED  BY <3>1
  <2>2. /\ n >= 1 /\ StackOK' /\ c \in Seq(CallSet) /\ c # <<>>
        /\ Left(calls, c) /\ Len(c) = n
        /\ \A i \in 1 .. n - 1 : c[i] = calls[i]
        /\ c[n].what = calls[n].what
        /\ c[n].success = (calls[n + 1].success /\ calls[n].success)
        /\ LineAt(calls[n]) = IncludeLine(calls[n + 1].file)
        /\ calls[n + 1].line = Len(lines[calls[n + 1].file]) + 1
    BY <1>5, <1>7, <2>1, ReturnFacts
  <2>3. /\ DOMAIN calls = 1 .. n + 1 /\ DOMAIN c = 1 .. n /\ n \in 1 .. n
        /\ n \in 1 .. n + 1 /\ n + 1 \in 1 .. n + 1 /\ calls[n].line \in Nat \ {0}
        /\ calls[n].success \in BOOLEAN /\ calls[n + 1].success \in BOOLEAN
    <3>1. DOMAIN calls = 1 .. n + 1 /\ n \in 1 .. n /\ n \in 1 .. n + 1 /\ n + 1 \in 1 .. n + 1
      BY <1>2, <2>1, <2>2
    <3>2. DOMAIN c = 1 .. n  BY <2>2
    <3>3. \A i \in 1 .. n + 1 : calls[i].line \in Nat \ {0} /\ calls[i].success \in BOOLEAN
      BY <2>1, CallFacts
    <3> QED  BY <3>1, <3>2, <3>3
  <2>4. \A r \in Routes : LineAt(Last(r)).kind = "text" \/ IsWrong(r) =>
            /\ \A i \in 1 .. n : PartsAt(r, c, i) <=>
                   PartsAt(r, calls, i) \/ (i = n /\ PartsAt(r, calls, n + 1))
            /\ Before(r, c) <=> Before(r, calls)
    <3> SUFFICES ASSUME NEW r \in Routes, LineAt(Last(r)).kind = "text" \/ IsWrong(r)
                 PROVE  /\ \A i \in 1 .. n : PartsAt(r, c, i) <=>
                               PartsAt(r, calls, i) \/ (i = n /\ PartsAt(r, calls, n + 1))
                        /\ Before(r, c) <=> Before(r, calls)
      OBVIOUS
    <3>1. n \in Nat \ {0}  BY <2>2
    <3>2. \A g \in Files : LineAt(Last(r)) # IncludeLine(g)  BY Ends
    <3> QED  BY <3>1, <3>2, <1>2, <2>2, BeforeLeft
  <2>5. \A i \in 1 .. n : i \in 1 .. n - 1 \/ i = n  OBVIOUS
  <2>6. WhatOK(c)
    <3>1. \A i \in 1 .. n - 1 : InForce(c, i, c[i].what)
      <4>1. PICK m \in Nat : m = n - 1  BY <2>2
      <4>2. m <= Len(calls) /\ m <= Len(c) /\ \A i \in 1 .. m : c[i] = calls[i]
        BY <4>1, <2>1, <2>2
      <4> QED  BY <4>1, <4>2, <1>2, <2>2, WhatKept
    <3>2. InForce(calls, n, calls[n].what)  BY <2>3 DEF WhatOK
    <3>3. ~IsDirective(calls[n])  BY <2>2 DEF IsDirective, IncludeLine, Sections
    <3>4. c[n].file = calls[n].file /\ c[n].line = calls[n].line + 1  BY <2>2 DEF Left
    <3>5. DirectivesAbove(c[n]) = DirectivesAbove(calls[n])
      BY <2>3, <3>3, <3>4, AboveNext
    <3>6. \A i \in 1 .. n : c[i].file = calls[i].file
                               /\ DirectivesAbove(c[i]) = DirectivesAbove(calls[i])
      BY <2>2, <2>5, <3>4, <3>5
    <3>7. InForce(c, n, calls[n].what)  BY <3>2, <3>6, ForceAlike
    <3> QED  BY <2>2, <2>3, <2>5, <3>1, <3>7 DEF WhatOK
  <2>7. SuccessOK(c)
    <3>1. \A i \in 1 .. n + 1 :
              calls[i].success <=> ~\E r \in Routes : IsWrong(r) /\ PartsAt(r, calls, i)
      BY <2>3 DEF SuccessOK
    <3>2. \A i \in 1 .. n - 1 : i \in 1 .. n /\ i \in 1 .. n + 1 /\ i # n  OBVIOUS
    <3>3. \A i \in 1 .. n - 1 : c[i].success <=> ~\E r \in Routes : IsWrong(r) /\ PartsAt(r, c, i)
      BY <2>2, <2>4, <3>1, <3>2
    <3>4. c[n].success <=> calls[n + 1].success /\ calls[n].success  BY <2>2, <2>3
    <3>5. c[n].success <=> ~\E r \in Routes : IsWrong(r) /\ PartsAt(r, c, n)
      BY <2>3, <2>4, <3>1, <3>4
    <3> QED  BY <2>3, <2>5, <3>3, <3>5 DEF SuccessOK
  <2>8. \A w, S : Holds(w, S, calls) => Holds(w, S, c)
    <3> SUFFICES ASSUME NEW w, NEW S, Holds(w, S, calls)  PROVE Holds(w, S, c)
      OBVIOUS
    <3>1. \A r \in TextOf(S) : Before(r, c) <=> Before(r, calls)
      BY <2>4 DEF TextOf
    <3> QED  BY <3>1, <1>1, <2>2, HoldsKept
  <2>9. Holds(v, {"%vertex", "%common"}, c) /\ Holds(f, {"%fragment", "%common"}, c)
    BY <2>8, <1>1, <1>3, <1>4
  <2>10. done' = done  BY <1>7 DEF Return
  <2> QED  BY <2>2, <2>6, <2>7, <2>9, <1>1, <1>3, <1>4, <1>5, After
<1> QED  BY <1>6, <1>7

\* Initially nothing comes before the first line of the root.
LEMMA LoaderStarts == LoaderInit => LoaderInv
<1> SUFFICES ASSUME LoaderInit  PROVE LoaderInv
  OBVIOUS
<1>1. FilesOK
  <2>1. PICK contents \in [Files -> FileTexts] :
          /\ \A g \in Files :
                /\ Len(contents[g]) <= MaxLines[g]
                /\ \A k \in DOMAIN contents[g] :
                      contents[g][k].file # Missing => contents[g][k].file > g
          /\ lines = contents
    BY DEF LoaderInit
  <2>2. \A e \in FileTexts : e \in Seq(LineSet)
    <3> SUFFICES ASSUME NEW g \in Files, NEW e \in BoundedSeq(LineSet, MaxLines[g])
                 PROVE  e \in Seq(LineSet)
      BY DEF FileTexts
    <3>1. PICK m \in 0 .. MaxLines[g] : e \in [1 .. m -> LineSet]  BY DEF BoundedSeq, SeqOf
    <3>2. m \in Nat  BY <3>1, LoaderAssumption
    <3> QED  BY <3>1, <3>2
  <2> QED  BY <2>1, <2>2 DEF FilesOK
<1>2. PICK t : t = Call(Root, "%common")  OBVIOUS
<1>3. t \in CallSet /\ t.file = Root /\ t.line = 1 /\ t.what = "%common" /\ t.success = TRUE
  BY <1>2, LoaderAssumption DEF Call, CallSet, Sections
<1>4. calls = <<t>>  BY <1>2 DEF LoaderInit
<1>5. calls \in Seq(CallSet) /\ DOMAIN calls = {1} /\ calls[1] = t /\ calls # <<>>
  BY <1>3, <1>4
<1>6. StackOK
  <2>1. Len(lines[Root]) \in Nat  BY <1>1, LoaderAssumption DEF FilesOK
  <2>2. 1 \in 1 .. Len(lines[Root]) + 1  BY <2>1
  <2>3. done = Running  BY DEF LoaderInit
  <2> QED  BY <1>3, <1>5, <2>2, <2>3 DEF StackOK
<1>7. DirectivesAbove(calls[1]) = {}  BY <1>3, <1>5, AboveFirst
<1>8. WhatOK(calls)
  <2>1. \A i \in 1 .. 1 : i = 1  OBVIOUS
  <2>2. InForce(calls, 1, "%common")  BY <1>7, <2>1 DEF InForce
  <2> QED  BY <1>3, <1>5, <2>2 DEF WhatOK
<1>9. \A r \in Routes : \A i : ~PartsAt(r, calls, i)
  <2> SUFFICES ASSUME NEW r \in Routes, NEW i, PartsAt(r, calls, i)  PROVE FALSE
    OBVIOUS
  <2>1. i = 1 /\ i \in DOMAIN r /\ r[i].line < 1  BY <1>3, <1>5 DEF PartsAt
  <2>2. DOMAIN r = 1 .. Len(r) /\ \A k \in 1 .. Len(r) : r[k].line \in Nat \ {0}
    BY <1>1, RouteFacts
  <2>3. r[i].line \in Nat \ {0}  BY <2>1, <2>2
  <2> QED  BY <2>1, <2>3
<1>10. SuccessOK(calls)  BY <1>3, <1>5, <1>9 DEF SuccessOK
<1>11. \A S : Holds(<<>>, S, calls)
  <2>1. \A e : e = <<>> => e \in Seq(Routes) /\ DOMAIN e = {}  OBVIOUS
  <2>2. PICK e : e = <<>>  OBVIOUS
  <2>3. Range(e) = {} /\ e \in Seq(Routes) /\ InOrder(e)  BY <2>1, <2>2 DEF Range, InOrder
  <2>4. \A r \in Routes : ~Before(r, calls)  BY <1>9 DEF Before
  <2>5. \A S : Holds(e, S, calls)  BY <2>3, <2>4, <1>5 DEF Holds
  <2> QED  BY <2>2, <2>5
<1>12. mVertex = <<>> /\ mFragment = <<>>  BY DEF LoaderInit
<1>13. ResultOK  BY <1>5 DEF ResultOK
<1> QED  BY <1>1, <1>6, <1>8, <1>10, <1>11, <1>12, <1>13 DEF LoaderInv

\* One line for each of the steps.
LEMMA LoaderKeeps == LoaderInv /\ [LoaderNext]_loading => LoaderInv'
<1> SUFFICES ASSUME LoaderInv, [LoaderNext]_loading  PROVE LoaderInv'
  OBVIOUS
<1>1. CASE Text  BY <1>1, TextKeeps
<1>2. CASE Section
  <2>1. Line.kind \in Sections  BY <1>2 DEF Section
  <2>2. /\ \A f \in Files : Line # IncludeLine(f)
        /\ Line \notin {PlainLine("%invalid"), IncludeLine(Missing)} /\ Line.kind # "text"
        /\ Line.kind # "%invalid"
    BY <2>1 DEF IncludeLine, PlainLine, Sections
  <2>3. Top.success \in BOOLEAN
    <3>1. Len(calls) \in 1 .. Len(calls)  BY <1>2, CallFacts DEF Section, AtLine, LoaderInv
    <3> QED  BY <3>1, CallFacts DEF LoaderInv
  <2>4. Line.kind = IF Line.kind \in Sections \cup {"%invalid"} THEN Declared(Line.kind) ELSE Top.what
    BY <2>1, <2>2 DEF Declared
  <2> QED  BY <1>2, <2>1, <2>2, <2>3, <2>4, DirectiveKeeps DEF Section
<1>3. CASE Invalid
  <2>1. Line.kind = "%invalid" /\ AtLine  BY <1>3 DEF Invalid
  <2>2. (\A f \in Files : Line # IncludeLine(f)) /\ Line.kind # "text"
    BY <2>1 DEF IncludeLine
  <2>3. Line = PlainLine("%invalid")
    <3>1. Len(calls) \in 1 .. Len(calls)  BY <2>1, CallFacts DEF AtLine, LoaderInv
    <3>2. /\ Top.file \in Files /\ Top.line \in Nat \ {0} /\ Top.line <= Len(lines[Top.file])
          /\ DOMAIN lines[Top.file] = 1 .. Len(lines[Top.file]) /\ Len(lines[Top.file]) \in Nat
      BY <3>1, <2>1, CallFacts DEF LoaderInv, AtLine
    <3>3. PICK f \in Files : f = Top.file  BY <3>2
    <3>4. PICK k \in DOMAIN lines[f] : k = Top.line /\ Line = lines[f][k]
      BY <3>2, <3>3 DEF Line
    <3>5. \/ \E kind \in Sections \cup {"%invalid", "text"} : Line = PlainLine(kind)
          \/ Line = IncludeLine(Missing)
          \/ \E g \in Files : Line = IncludeLine(g)
      BY <3>4, LineKinds DEF LoaderInv
    <3>6. Line # IncludeLine(Missing)  BY <2>1 DEF IncludeLine
    <3>7. PICK kind \in Sections \cup {"%invalid", "text"} : Line = PlainLine(kind)
      BY <3>5, <3>6, <2>2
    <3>8. kind = "%invalid"  BY <3>7, <2>1 DEF PlainLine
    <3> QED  BY <3>7, <3>8
  <2>4. "%common" \in Sections /\ FALSE \in BOOLEAN  BY DEF Sections
  <2>5. "%common" = IF Line.kind \in Sections \cup {"%invalid"} THEN Declared(Line.kind) ELSE Top.what
    BY <2>1 DEF Declared
  <2>6. FALSE <=> Top.success /\ Line \notin {PlainLine("%invalid"), IncludeLine(Missing)}
    BY <2>3
  <2> QED  BY <1>3, <2>1, <2>2, <2>4, <2>5, <2>6, DirectiveKeeps DEF Invalid
<1>4. CASE IncludeMissing
  <2>1. Line = IncludeLine(Missing) /\ AtLine  BY <1>4 DEF IncludeMissing
  <2>2. Line.kind = "%include"  BY <2>1 DEF IncludeLine
  <2>3. \A f \in Files : Line # IncludeLine(f)
    <3>1. \A f \in Files : f # Missing  BY LoaderAssumption
    <3> QED  BY <2>1, <3>1 DEF IncludeLine
  <2>4. Line.kind # "text" /\ Line.kind \notin Sections \cup {"%invalid"}  BY <2>2 DEF Sections
  <2>5. Top.what \in Sections
    <3>1. Len(calls) \in 1 .. Len(calls)  BY <2>1, CallFacts DEF AtLine, LoaderInv
    <3> QED  BY <3>1, CallFacts DEF LoaderInv
  <2>6. FALSE <=> Top.success /\ Line \notin {PlainLine("%invalid"), IncludeLine(Missing)}
    BY <2>1
  <2>7. Top.what = IF Line.kind \in Sections \cup {"%invalid"} THEN Declared(Line.kind) ELSE Top.what
    BY <2>4
  <2> QED  BY <1>4, <2>1, <2>3, <2>4, <2>5, <2>6, <2>7, DirectiveKeeps DEF IncludeMissing
<1>5. CASE Include  BY <1>5, IncludeKeeps
<1>6. CASE Return  BY <1>6, ReturnKeeps
<1>7. CASE UNCHANGED loading
  <2>1. lines' = lines /\ calls' = calls /\ mVertex' = mVertex /\ mFragment' = mFragment /\ done' = done
    BY <1>7 DEF loading
  <2>2. StackOK'
    BY <2>1 DEF LoaderInv, StackOK, CallSet, Sections, LineAt, IncludeLine
  <2>3. PICK c : c = calls  OBVIOUS
  <2>4. PICK v : v = mVertex  OBVIOUS
  <2>5. PICK f : f = mFragment  OBVIOUS
  <2>6. c = <<>> => (done' <=> ~\E r \in Routes : IsWrong(r))  BY <2>1, <2>3 DEF LoaderInv, ResultOK
  <2> QED  BY <2>1, <2>2, <2>3, <2>4, <2>5, <2>6, After DEF LoaderInv
<1>8. CASE Compiled  BY <1>7, <1>8 DEF Compiled
<1> QED  BY <1>1, <1>2, <1>3, <1>4, <1>5, <1>6, <1>7, <1>8 DEF LoaderNext

\* A load that has returned leaves the text of the root file in the sources, and
\* tells whether anything in it was wrong.
LEMMA LoaderInvSuffices == LoaderInv => ExpandedAsWritten
<1> SUFFICES ASSUME LoaderInv  PROVE ExpandedAsWritten
  OBVIOUS
<1>1. \A S, v : Holds(v, S, calls) =>
          \A k \in DOMAIN v : LineAt(Last(v[k])).kind = "text"
  <2> SUFFICES ASSUME NEW S, NEW v, Holds(v, S, calls), NEW k \in DOMAIN v
               PROVE  LineAt(Last(v[k])).kind = "text"
    OBVIOUS
  <2>1. v[k] \in Range(v)  BY DEF Range
  <2>2. v \in Seq(Routes)  BY DEF Holds
  <2>3. v[k] \in Routes  BY <2>2
  <2>4. v[k] \in TextOf(S)  BY <2>1, <2>3 DEF Holds
  <2> QED  BY <2>4 DEF TextOf
<1>2. LoaderTypeOK
  <2>1. \A k \in DOMAIN mVertex : LineAt(Last(mVertex[k])).kind = "text"
    BY <1>1 DEF LoaderInv
  <2>2. \A k \in DOMAIN mFragment : LineAt(Last(mFragment[k])).kind = "text"
    BY <1>1 DEF LoaderInv
  <2>3. \A k \in DOMAIN calls :
            /\ calls[k].line \in 1 .. Len(lines[calls[k].file]) + 1
            /\ calls[k].what \in Sections
            /\ calls[k].success \in BOOLEAN
    BY CallFacts DEF LoaderInv, StackOK
  <2>4. done \in BOOLEAN \cup {Running}  BY DEF LoaderInv, StackOK
  <2> QED  BY <2>1, <2>2, <2>3, <2>4 DEF LoaderTypeOK
<1>3. ASSUME done # Running
      PROVE  /\ Range(mVertex) = TextOf({"%vertex", "%common"}) /\ InOrder(mVertex)
             /\ Range(mFragment) = TextOf({"%fragment", "%common"}) /\ InOrder(mFragment)
             /\ done = ~\E r \in Routes : IsWrong(r)
  <2>1. calls = <<>>  BY <1>3 DEF LoaderInv, StackOK
  <2>2. \A S, v : Holds(v, S, calls) => Range(v) = TextOf(S) /\ InOrder(v)
    <3> SUFFICES ASSUME NEW S, NEW v, Holds(v, S, calls)  PROVE Range(v) = TextOf(S) /\ InOrder(v)
      OBVIOUS
    <3>1. v \in Seq(Routes)  BY DEF Holds
    <3>2. \A r \in Range(v) : r \in Routes  BY <3>1 DEF Range
    <3>3. \A r \in TextOf(S) : r \in Routes  BY DEF TextOf
    <3> QED  BY <2>1, <3>2, <3>3 DEF Holds
  <2>3. Range(mVertex) = TextOf({"%vertex", "%common"}) /\ InOrder(mVertex)
    BY <2>2 DEF LoaderInv
  <2>4. Range(mFragment) = TextOf({"%fragment", "%common"}) /\ InOrder(mFragment)
    BY <2>2 DEF LoaderInv
  <2>5. done <=> ~\E r \in Routes : IsWrong(r)  BY <2>1 DEF LoaderInv, ResultOK
  <2>6. done \in BOOLEAN  BY <1>3 DEF LoaderInv, StackOK
  <2> QED  BY <2>3, <2>4, <2>5, <2>6
<1> QED  BY <1>2, <1>3 DEF ExpandedAsWritten

\* Both sources hold the text of their sections, in order and with every include
\* in its place, and the result tells whether anything was wrong.
THEOREM LoaderCorrect == LoaderSpec => []ExpandedAsWritten
<1> QED  BY LoaderStarts, LoaderKeeps, LoaderInvSuffices, PTL DEF LoaderSpec

=============================================================================
