--------------------- MODULE ImmediateModeRendererProofs ---------------------
(***************************************************************************)
(* Batches are invisible: the canvas implements DirectDrawing for all      *)
(* vertices, settings and stacks, as long as no batch is so large that its *)
(* indices wrap. The argument: while a frame is drawn the material holds   *)
(* the settings of the canvas, so that what is in the batch will be drawn  *)
(* as it would have been at once, and a batch is empty whenever one of     *)
(* them changes, a mesh is drawn or the frame ends.                        *)
(***************************************************************************)
EXTENDS ImmediateModeRenderer, SequenceTheorems, TLAPS

\* The vertices that the indices of the batch name are there.
Indexed ==
    /\ \A k \in DOMAIN mIndexData : mIndexData[k] < Len(mVertexData)
    /\ \A i \in block : i < Len(mVertexData)
    /\ Len(mVertexData) <= MaxBatch
    /\ mIndexData = <<>> => mVertexData = <<>> /\ block = {}

\* What may be under way at the same time, and what it leaves in the batch.
Modes ==
    /\ mInBeginEnd => inFrame /\ ~mInDirectRendering
    /\ mInDirectRendering => inFrame /\ mIndexData = <<>>
    /\ ~inFrame => mIndexData = <<>>
    /\ ~mInBeginEnd => block = {}

\* The material is what the user of the canvas has set.
Faithful ==
    /\ mMaterial.texture = mTexture
    /\ inFrame => mMaterial.matrix = mMatrix
    /\ mInDirectRendering => mMaterial.shader = ShaderFor(mCustomShader, mTexture)

IInv == TypeOK /\ Indexed /\ Modes /\ Faithful

-----------------------------------------------------------------------------
(* What the helpers return *)

LEMMA ShaderType ==
    ASSUME NEW c \in Shaders \cup {None}, NEW t \in Textures \cup {None}
    PROVE  ShaderFor(c, t) \in Shaders \cup {"colored", "textured"}
BY DEF ShaderFor

LEMMA AppliedType == TypeOK => Applied \in Material
BY ShaderType DEF TypeOK, Material, Applied

LEMMA FlushedIs ==
    ASSUME TypeOK
    PROVE  /\ Flushed \in Material
           /\ Flushed.texture = mMaterial.texture
           /\ Flushed.matrix = mMaterial.matrix
           /\ Flushed.flags = mMaterial.flags
BY ShaderType DEF TypeOK, Material, Flushed, Applied

LEMMA Wrapped ==
    ASSUME NEW i \in Nat, NEW n \in Nat, n > 0
    PROVE  i % n \in 0 .. i /\ (i < n => i % n = i)
OBVIOUS

LEMMA DrawnType ==
    ASSUME TypeOK, Indexed, NEW with \in Material
    PROVE  /\ Drawn(with) \in Seq(Drawing)
           /\ Len(Drawn(with)) = Len(mIndexData)
           /\ mIndexData = <<>> => Drawn(with) = <<>>
           /\ MaxBatch <= MaxIndex + 2 =>
                 \A k \in DOMAIN mIndexData :
                     Drawn(with)[k] = [what |-> mVertexData[mIndexData[k] + 1],
                                       type |-> mPrimitiveType, with |-> with]
<1>1. /\ Len(mVertexData) \in Nat /\ MaxIndex \in Nat
      /\ Len(mIndexData) \in Nat /\ DOMAIN mIndexData = 1 .. Len(mIndexData)
      /\ DOMAIN mVertexData = 1 .. Len(mVertexData)
  BY CanvasAssumption DEF TypeOK
<1>2. ASSUME NEW k \in DOMAIN mIndexData
      PROVE  /\ mIndexData[k] \in Nat
             /\ mIndexData[k] < Len(mVertexData)
  BY DEF TypeOK, Indexed
<1> DEFINE at(k) == (mIndexData[k] % (MaxIndex + 2)) + 1
<1>3. ASSUME NEW k \in DOMAIN mIndexData
      PROVE  /\ at(k) \in 1 .. Len(mVertexData)
             /\ MaxBatch <= MaxIndex + 2 => at(k) = mIndexData[k] + 1
  <2>1. mIndexData[k] % (MaxIndex + 2) \in 0 .. mIndexData[k]
    BY <1>1, <1>2, Wrapped
  <2>2. MaxBatch <= MaxIndex + 2 => mIndexData[k] % (MaxIndex + 2) = mIndexData[k]
    BY <1>1, <1>2, Wrapped, CanvasAssumption DEF Indexed
  <2> QED
    BY <1>1, <1>2, <2>1, <2>2
<1>4. ASSUME NEW k \in DOMAIN mIndexData
      PROVE  [what |-> mVertexData[at(k)], type |-> mPrimitiveType, with |-> with] \in Drawing
  BY <1>1, <1>3 DEF TypeOK, Drawing
<1>5. Drawn(with) \in [1 .. Len(mIndexData) -> Drawing]
  BY <1>1, <1>4 DEF Drawn
<1>6. Drawn(with) \in Seq(Drawing) /\ Len(Drawn(with)) = Len(mIndexData)
  BY <1>1, <1>5
<1>7. mIndexData = <<>> => Drawn(with) = <<>>
  BY <1>6
<1> HIDE DEF at
<1>8. MaxBatch <= MaxIndex + 2 =>
          \A k \in DOMAIN mIndexData :
              Drawn(with)[k] = [what |-> mVertexData[mIndexData[k] + 1],
                                type |-> mPrimitiveType, with |-> with]
  BY <1>3 DEF Drawn, at
<1> QED
  BY <1>6, <1>7, <1>8

-----------------------------------------------------------------------------
(* The invariant *)

LEMMA InitInvariant == Init => IInv
<1> SUFFICES ASSUME Init PROVE IInv
  OBVIOUS
<1>1. mMaterial \in Material /\ mMatrix \in [Stacks -> Matrices]
  BY CanvasAssumption DEF Init, Material
<1>2. mMatrixStack \in [Stacks -> Seq(Matrices)]
  BY DEF Init
<1>3. TypeOK
  <2>1. /\ mTexture \in Textures \cup {None} /\ mCustomShader \in Shaders \cup {None}
        /\ mPrimitiveType \in Types
    BY DEF Init
  <2>2. /\ inFrame \in BOOLEAN /\ mInBeginEnd \in BOOLEAN /\ mInDirectRendering \in BOOLEAN
        /\ block \subseteq Nat
    BY DEF Init
  <2>3. mVertexData \in Seq(Vertices) /\ mIndexData \in Seq(Nat) /\ screen \in Seq(Drawing)
    BY DEF Init
  <2> QED
    BY <1>1, <1>2, <2>1, <2>2, <2>3 DEF TypeOK
<1>4. Indexed /\ Modes /\ Faithful
  BY CanvasAssumption DEF Init, Indexed, Modes, Faithful
<1> QED
  BY <1>3, <1>4 DEF IInv

\* A flush, with geometry or not, leaves an empty batch.
LEMMA FlushEffect ==
    ASSUME IInv, Flush
    PROVE  /\ screen' = screen \o Drawn(Applied)
           /\ screen' \in Seq(Drawing)
           /\ mVertexData' = <<>> /\ mIndexData' = <<>>
<1>1. Drawn(Applied) \in Seq(Drawing)
  BY AppliedType, DrawnType DEF IInv
<1>2. screen \o Drawn(Applied) \in Seq(Drawing)
  BY <1>1, ConcatProperties DEF IInv, TypeOK
<1> QED
  BY <1>2 DEF Flush, IInv, Indexed

\* What remains to be shown of the types after a step that empties the batch.
LEMMA EmptyTypes ==
    ASSUME IInv, mVertexData' = <<>>, mIndexData' = <<>>, screen' \in Seq(Drawing),
           inFrame' \in BOOLEAN, UNCHANGED <<mInBeginEnd, mInDirectRendering, block>>,
           mTexture' \in Textures \cup {None}, mCustomShader' \in Shaders \cup {None},
           mMatrix' \in [Stacks -> Matrices], mMatrixStack' \in [Stacks -> Seq(Matrices)],
           mMaterial' \in Material, mPrimitiveType' \in Types
    PROVE  TypeOK'
<1>1. mVertexData' \in Seq(Vertices) /\ mIndexData' \in Seq(Nat)
  OBVIOUS
<1>2. mInBeginEnd' \in BOOLEAN /\ mInDirectRendering' \in BOOLEAN /\ block' \subseteq Nat
  BY DEF IInv, TypeOK
<1> QED
  BY <1>1, <1>2 DEF TypeOK, Material, Drawing

\* So do the steps that lose what was drawn.
LEMMA LostEffect ==
    ASSUME IInv, mVertexData' = IF mIndexData = <<>> THEN mVertexData ELSE <<>>
    PROVE  mVertexData' = <<>>
BY DEF IInv, Indexed

\* What remains to be shown of a step that empties the batch.
LEMMA EmptyBatch ==
    ASSUME IInv, ~mInBeginEnd, UNCHANGED <<mInBeginEnd, mInDirectRendering, block>>,
           mVertexData' = <<>>, mIndexData' = <<>>, inFrame' \/ ~mInDirectRendering
    PROVE  Indexed' /\ Modes'
<1>1. block' = {}
  BY DEF IInv, Modes
<1>2. Indexed'
  BY <1>1, CanvasAssumption DEF Indexed
<1>3. Modes'
  BY <1>1 DEF IInv, Modes
<1> QED
  BY <1>2, <1>3

LEMMA MaterialWith ==
    ASSUME NEW m \in Material
    PROVE  /\ \A t \in Textures \cup {None} : [m EXCEPT !.texture = t] \in Material
           /\ \A f \in Flags, v \in FlagValues : [m EXCEPT !.flags[f] = v] \in Material
           /\ \A s \in Stacks, x \in Matrices : [m EXCEPT !.matrix[s] = x] \in Material
           /\ \A x \in [Stacks -> Matrices] : [m EXCEPT !.matrix = x] \in Material
BY DEF Material

LEMMA SettingInvariant == IInv /\ SettingStep => IInv'
<1> SUFFICES ASSUME IInv, SettingStep PROVE IInv'
  OBVIOUS
<1> USE FlushedIs, FlushEffect, EmptyBatch, MaterialWith DEF mode, batch, settings
<1>1. ASSUME NEW t \in Textures \cup {None}, SetTexture(t) PROVE IInv'
  <2>1. TypeOK'
    <3>1. mMaterial' \in Material
      BY <1>1 DEF SetTexture, IInv
    <3> QED
      BY <1>1, <3>1, EmptyTypes DEF SetTexture, IInv, TypeOK
  <2>2. Indexed' /\ Modes'
    BY <1>1 DEF SetTexture, Open
  <2>3. Faithful'
    BY <1>1 DEF SetTexture, Open, IInv, Faithful, TypeOK, Material
  <2> QED
    BY <2>1, <2>2, <2>3 DEF IInv
<1>2. ASSUME NEW s \in Shaders \cup {None}, SetCustomShader(s) PROVE IInv'
  <2>1. TypeOK'
    <3>1. mMaterial' \in Material
      BY <1>2 DEF SetCustomShader, IInv
    <3> QED
      BY <1>2, <3>1, EmptyTypes DEF SetCustomShader, IInv, TypeOK
  <2>2. Indexed' /\ Modes'
    BY <1>2 DEF SetCustomShader, Open
  <2>3. Faithful'
    BY <1>2 DEF SetCustomShader, Open, IInv, Faithful
  <2> QED
    BY <2>1, <2>2, <2>3 DEF IInv
<1>3. ASSUME NEW f \in Flags, NEW v \in FlagValues, SetFlag(f, v) PROVE IInv'
  <2>1. TypeOK'
    <3>1. mMaterial' \in Material
      BY <1>3 DEF SetFlag, IInv
    <3> QED
      BY <1>3, <3>1, EmptyTypes DEF SetFlag, IInv, TypeOK
  <2>2. Indexed' /\ Modes'
    BY <1>3 DEF SetFlag, Open
  <2>3. Faithful'
    BY <1>3 DEF SetFlag, Open, IInv, Faithful, TypeOK, Material
  <2> QED
    BY <2>1, <2>2, <2>3 DEF IInv
<1>4. ASSUME NEW s \in Stacks, NEW m \in Matrices, SetMatrix(s, m), Open,
             mMatrixStack' \in [Stacks -> Seq(Matrices)]
      PROVE  IInv'
  <2>1. TypeOK'
    <3>1. mMaterial' \in Material
      BY <1>4 DEF SetMatrix, IInv
    <3>2. mMatrix' \in [Stacks -> Matrices]
      BY <1>4 DEF SetMatrix, IInv, TypeOK
    <3> QED
      BY <1>4, <3>1, <3>2, EmptyTypes DEF SetMatrix, IInv, TypeOK
  <2>2. Indexed' /\ Modes'
    BY <1>4 DEF SetMatrix, Open
  <2>3. Faithful'
    BY <1>4 DEF SetMatrix, Open, IInv, Faithful, TypeOK, Material
  <2> QED
    BY <2>1, <2>2, <2>3 DEF IInv
<1>5. ASSUME NEW s \in Stacks, NEW m \in Matrices, AssignMatrix(s, m) PROVE IInv'
  BY <1>4, <1>5 DEF AssignMatrix, IInv, TypeOK
<1>6. ASSUME NEW s \in Stacks, PopMatrix(s) PROVE IInv'
  <2> DEFINE stack == mMatrixStack[s]
  <2>1. stack \in Seq(Matrices) /\ stack # <<>> /\ Len(stack) \in Nat /\ Len(stack) >= 1
    BY <1>6 DEF PopMatrix, IInv, TypeOK
  <2>2. stack[Len(stack)] \in Matrices /\ SubSeq(stack, 1, Len(stack) - 1) \in Seq(Matrices)
    BY <2>1
  <2>3. mMatrixStack' \in [Stacks -> Seq(Matrices)]
    BY <1>6, <2>2 DEF PopMatrix, IInv, TypeOK
  <2> QED
    BY <1>4, <1>6, <2>2, <2>3 DEF PopMatrix
<1>7. ASSUME NEW s \in Stacks, PushMatrix(s) PROVE IInv'
  <2>1. mMatrixStack' \in [Stacks -> Seq(Matrices)]
    BY <1>7 DEF PushMatrix, IInv, TypeOK
  <2>2. TypeOK'
    BY <1>7, <2>1 DEF PushMatrix, IInv, TypeOK
  <2>3. Indexed' /\ Modes' /\ Faithful'
    BY <1>7 DEF PushMatrix, IInv, Indexed, Modes, Faithful, ShaderFor
  <2> QED
    BY <2>2, <2>3 DEF IInv
<1> QED
  BY <1>1, <1>2, <1>3, <1>5, <1>6, <1>7 DEF SettingStep

LEMMA BeginInvariant == ASSUME IInv, NEW t \in Types, Begin(t) PROVE IInv'
<1> USE DEF mode, batch, settings
<1>1. /\ Open /\ block' = {} /\ mInBeginEnd' = TRUE /\ block = {}
      /\ UNCHANGED <<inFrame, mInDirectRendering>>
      /\ UNCHANGED <<mTexture, mCustomShader, mMatrix, mMatrixStack>>
  BY DEF Begin, Open, IInv, Modes
<1>2. CASE mPrimitiveType = t
  <2>1. UNCHANGED <<mMaterial, mPrimitiveType, mVertexData, mIndexData, screen>>
    BY <1>2 DEF Begin, SetPrimitiveType
  <2>2. TypeOK'
    <3>1. block' \subseteq Nat /\ mInBeginEnd' \in BOOLEAN
      BY <1>1
    <3>2. UNCHANGED <<inFrame, mInDirectRendering, mTexture, mCustomShader, mMatrix,
                      mMatrixStack, mMaterial, mPrimitiveType, mVertexData, mIndexData, screen>>
      BY <1>1, <2>1
    <3> QED
      BY <3>1, <3>2 DEF IInv, TypeOK, Material, Drawing
  <2>3. Indexed' /\ Modes' /\ Faithful'
    BY <1>1, <2>1 DEF Open, IInv, Indexed, Modes, Faithful, ShaderFor
  <2> QED
    BY <2>2, <2>3 DEF IInv
<1>3. CASE mPrimitiveType # t
  <2>1. /\ mVertexData' = <<>> /\ mIndexData' = <<>> /\ screen' \in Seq(Drawing)
        /\ mMaterial' = Flushed /\ mPrimitiveType' = t
    BY <1>3, FlushEffect DEF Begin, SetPrimitiveType
  <2>2. TypeOK'
    <3>1. mVertexData' \in Seq(Vertices) /\ mIndexData' \in Seq(Nat)
      BY <2>1
    <3>2. /\ mInBeginEnd' \in BOOLEAN /\ mInDirectRendering' \in BOOLEAN
          /\ block' \subseteq Nat /\ inFrame' \in BOOLEAN
      BY <1>1 DEF IInv, TypeOK
    <3>3. mMaterial' \in Material
      BY <2>1, FlushedIs DEF IInv
    <3>4. /\ mTexture' \in Textures \cup {None} /\ mCustomShader' \in Shaders \cup {None}
          /\ mMatrix' \in [Stacks -> Matrices] /\ mMatrixStack' \in [Stacks -> Seq(Matrices)]
      BY <1>1 DEF IInv, TypeOK
    <3> QED
      BY <2>1, <3>1, <3>2, <3>3, <3>4 DEF TypeOK, Material, Drawing
  <2>3. Indexed' /\ Modes'
    BY <1>1, <2>1, CanvasAssumption DEF Open, Indexed, Modes
  <2>4. Faithful'
    BY <1>1, <2>1, FlushedIs DEF Open, IInv, Faithful
  <2> QED
    BY <2>2, <2>3, <2>4 DEF IInv
<1> QED
  BY <1>2, <1>3

LEMMA VertexInvariant == ASSUME IInv, NEW v \in Vertices, Vertex(v) PROVE IInv'
<1> USE DEF mode, batch, settings
<1>1. /\ mInBeginEnd /\ inFrame /\ ~mInDirectRendering
      /\ mVertexData \in Seq(Vertices) /\ mIndexData \in Seq(Nat)
      /\ Len(mVertexData) \in Nat /\ Len(mVertexData) < MaxBatch
      /\ mVertexData' = Append(mVertexData, v)
      /\ mIndexData' = Append(mIndexData, Len(mVertexData))
      /\ block' = block \cup {Len(mVertexData)}
      /\ UNCHANGED <<inFrame, mInBeginEnd, mInDirectRendering, mMaterial, mTexture,
                     mCustomShader, mMatrix, mMatrixStack, mPrimitiveType, screen>>
  BY DEF Vertex, EmitVertex, IInv, Modes, TypeOK
<1>2. /\ mVertexData' \in Seq(Vertices) /\ Len(mVertexData') = Len(mVertexData) + 1
      /\ mIndexData' \in Seq(Nat) /\ mIndexData' # <<>>
      /\ \A k \in DOMAIN mIndexData' :
            \/ mIndexData'[k] = Len(mVertexData)
            \/ k \in DOMAIN mIndexData /\ mIndexData'[k] = mIndexData[k]
  BY <1>1
<1>3. TypeOK'
  <2>1. block' \subseteq Nat
    BY <1>1 DEF IInv, TypeOK
  <2> QED
    BY <1>1, <1>2, <2>1 DEF IInv, TypeOK, Material, Drawing
<1>4. Indexed'
  <2>1. \A k \in DOMAIN mIndexData' : mIndexData'[k] < Len(mVertexData')
    BY <1>1, <1>2 DEF IInv, TypeOK, Indexed
  <2>2. \A i \in block' : i < Len(mVertexData')
    BY <1>1, <1>2 DEF IInv, TypeOK, Indexed
  <2> QED
    BY <1>1, <1>2, <2>1, <2>2, CanvasAssumption DEF Indexed
<1>5. Modes' /\ Faithful'
  BY <1>1, <1>2 DEF IInv, Modes, Faithful, ShaderFor
<1> QED
  BY <1>3, <1>4, <1>5 DEF IInv

LEMMA IndexInvariant == ASSUME IInv, NEW i \in block, Index(i) PROVE IInv'
<1> USE DEF mode, batch, settings
<1>1. /\ mInBeginEnd /\ inFrame /\ ~mInDirectRendering /\ i \in Nat
      /\ mIndexData \in Seq(Nat) /\ mIndexData' = Append(mIndexData, i)
      /\ UNCHANGED <<inFrame, mInBeginEnd, mInDirectRendering, block, mMaterial, mTexture,
                     mCustomShader, mMatrix, mMatrixStack, mPrimitiveType, mVertexData, screen>>
  BY DEF Index, IInv, Modes, TypeOK
<1>2. /\ mIndexData' \in Seq(Nat) /\ mIndexData' # <<>>
      /\ \A k \in DOMAIN mIndexData' :
            mIndexData'[k] = i \/ (k \in DOMAIN mIndexData /\ mIndexData'[k] = mIndexData[k])
  BY <1>1
<1>3. TypeOK'
  BY <1>1, <1>2 DEF IInv, TypeOK, Material, Drawing
<1>4. Indexed'
  BY <1>1, <1>2 DEF IInv, Indexed
<1>5. Modes' /\ Faithful'
  BY <1>1, <1>2 DEF IInv, Modes, Faithful, ShaderFor
<1> QED
  BY <1>3, <1>4, <1>5 DEF IInv

LEMMA MeshInvariant == ASSUME IInv, NEW m \in Meshes, DrawMesh(m) PROVE IInv'
<1> USE DEF mode, batch, settings
<1>1. [what |-> m, type |-> "mesh", with |-> mMaterial] \in Drawing
  BY DEF IInv, TypeOK, Drawing
<1>2. screen' \in Seq(Drawing)
  BY <1>1 DEF DrawMesh, IInv, TypeOK
<1>3. TypeOK'
  BY <1>2 DEF DrawMesh, IInv, TypeOK, Material, Drawing
<1>4. Indexed' /\ Modes' /\ Faithful'
  BY DEF DrawMesh, IInv, Indexed, Modes, Faithful, ShaderFor
<1> QED
  BY <1>3, <1>4 DEF IInv

LEMMA EndInvariant == ASSUME IInv, End \/ EndDirectRendering PROVE IInv'
<1> USE DEF mode, batch, settings
<1>1. TypeOK'
  <2>1. mInBeginEnd' \in BOOLEAN /\ mInDirectRendering' \in BOOLEAN /\ block' \subseteq Nat
    BY DEF End, EndDirectRendering, IInv, TypeOK
  <2> QED
    BY <2>1 DEF End, EndDirectRendering, IInv, TypeOK, Material, Drawing
<1>2. Indexed' /\ Modes' /\ Faithful'
  BY DEF End, EndDirectRendering, IInv, Indexed, Modes, Faithful, ShaderFor
<1> QED
  BY <1>1, <1>2 DEF IInv

LEMMA ClearInvariant == ASSUME IInv, Clear PROVE IInv'
<1> USE DEF mode, batch, settings
<1>1. mVertexData' = <<>> /\ mIndexData' = <<>> /\ screen' = <<>>
  BY LostEffect DEF Clear
<1>2. TypeOK'
  BY <1>1, EmptyTypes, FlushedIs DEF Clear, IInv, TypeOK
<1>3. Indexed' /\ Modes'
  BY <1>1, EmptyBatch DEF Clear, Open
<1>4. Faithful'
  BY FlushedIs DEF Clear, Open, IInv, Faithful
<1> QED
  BY <1>2, <1>3, <1>4 DEF IInv

LEMMA DirectInvariant == ASSUME IInv, BeginDirectRendering PROVE IInv'
<1> USE DEF mode, batch, settings
<1>1. mVertexData' = <<>> /\ mIndexData' = <<>> /\ screen' \in Seq(Drawing)
  BY FlushEffect DEF BeginDirectRendering
<1>2. /\ mMaterial' \in Material
      /\ mMaterial'.texture = mMaterial.texture /\ mMaterial'.matrix = mMaterial.matrix
      /\ mMaterial'.shader = ShaderFor(mCustomShader, mTexture)
  BY ShaderType DEF BeginDirectRendering, IInv, TypeOK, Material, Applied
<1>3. /\ Open /\ block = {} /\ mInDirectRendering' = TRUE
      /\ UNCHANGED <<inFrame, mInBeginEnd, block, mTexture, mCustomShader, mMatrix,
                     mMatrixStack, mPrimitiveType>>
  BY DEF BeginDirectRendering, Open, IInv, Modes
<1>4. TypeOK'
  <2>1. mVertexData' \in Seq(Vertices) /\ mIndexData' \in Seq(Nat)
    BY <1>1
  <2>2. /\ mInBeginEnd' \in BOOLEAN /\ mInDirectRendering' \in BOOLEAN
        /\ block' \subseteq Nat /\ inFrame' \in BOOLEAN
    BY <1>3 DEF IInv, TypeOK
  <2> QED
    BY <1>1, <1>2, <1>3, <2>1, <2>2 DEF IInv, TypeOK, Material, Drawing
<1>5. Indexed' /\ Modes'
  BY <1>1, <1>3, CanvasAssumption DEF Open, Indexed, Modes
<1>6. Faithful'
  BY <1>2, <1>3 DEF Open, IInv, Faithful, ShaderFor
<1> QED
  BY <1>4, <1>5, <1>6 DEF IInv

LEMMA FrameInvariant == ASSUME IInv, BeginFrame \/ EndFrame PROVE IInv'
<1> USE DEF mode, batch, settings
<1>1. CASE BeginFrame
  <2>1. /\ mVertexData' = <<>> /\ mIndexData' = <<>> /\ screen' = <<>> /\ inFrame' = TRUE
        /\ ~inFrame /\ ~mInBeginEnd /\ ~mInDirectRendering
    BY <1>1, LostEffect DEF BeginFrame, IInv, Modes
  <2>2. /\ mMatrix' \in [Stacks -> Matrices] /\ mMatrixStack' \in [Stacks -> Seq(Matrices)]
        /\ mMatrix' = [s \in Stacks |-> Identity]
    BY <1>1, CanvasAssumption DEF BeginFrame
  <2>3. /\ mMaterial' \in Material
        /\ mMaterial'.matrix = mMatrix' /\ mMaterial'.texture = mMaterial.texture
    BY <1>1, <2>2, FlushedIs, MaterialWith DEF BeginFrame, IInv, Material
  <2>4. TypeOK'
    BY <1>1, <2>1, <2>2, <2>3, EmptyTypes DEF BeginFrame, IInv, TypeOK
  <2>5. Indexed' /\ Modes'
    BY <1>1, <2>1, EmptyBatch DEF BeginFrame
  <2>6. Faithful'
    BY <1>1, <2>1, <2>3 DEF BeginFrame, IInv, Faithful
  <2> QED
    BY <2>4, <2>5, <2>6 DEF IInv
<1>2. CASE EndFrame
  <2>1. mVertexData' = <<>> /\ mIndexData' = <<>> /\ screen' \in Seq(Drawing)
    BY <1>2, FlushEffect DEF EndFrame
  <2>2. TypeOK'
    BY <1>2, <2>1, EmptyTypes, FlushedIs DEF EndFrame, IInv, TypeOK
  <2>3. Indexed' /\ Modes'
    BY <1>2, <2>1, EmptyBatch DEF EndFrame, Open
  <2>4. Faithful'
    BY <1>2, FlushedIs DEF EndFrame, Open, IInv, Faithful
  <2> QED
    BY <2>2, <2>3, <2>4 DEF IInv
<1> QED
  BY <1>1, <1>2

LEMMA NextInvariant == IInv /\ [Next]_vars => IInv'
<1> SUFFICES ASSUME IInv, [Next]_vars PROVE IInv'
  OBVIOUS
<1>1. CASE SettingStep
  BY <1>1, SettingInvariant
<1>2. CASE DrawingStep
  BY <1>2, BeginInvariant, VertexInvariant, IndexInvariant, MeshInvariant, EndInvariant,
     ClearInvariant, DirectInvariant DEF DrawingStep
<1>3. CASE BeginFrame \/ EndFrame
  BY <1>3, FrameInvariant
<1>4. CASE UNCHANGED vars
  BY <1>4 DEF vars, mode, batch, settings, IInv, TypeOK, Indexed, Modes, Faithful, Material,
              Drawing, ShaderFor
<1> QED
  BY <1>1, <1>2, <1>3, <1>4 DEF Next

LEMMA Invariant == Spec => []IInv
BY InitInvariant, NextInvariant, PTL DEF Spec

\* A canvas keeps its types, however its calls follow each other.
THEOREM CanvasTypeCorrect == Spec => []TypeOK
<1>1. IInv => TypeOK
  BY DEF IInv
<1> QED
  BY <1>1, Invariant, PTL

-----------------------------------------------------------------------------
(* The refinement *)

\* What the screen will show, and what the abstract settings are.
Shows == IF inFrame THEN screen \o Drawn(Current) ELSE screen
AllSettings ==
    [texture : Textures \cup {None}, matrix : [Stacks -> Matrices],
     flags : [Flags -> FlagValues], shader : Shaders \cup {"colored", "textured"}]

LEMMA CurrentIs ==
    ASSUME IInv
    PROVE  /\ Current \in AllSettings
           /\ Current \in Material
           /\ inFrame => Applied = Current
           /\ mInDirectRendering => mMaterial = Current
<1>1. Current \in AllSettings /\ Current \in Material
  BY ShaderType DEF IInv, TypeOK, Material, Current, AllSettings
<1>2. inFrame => Applied = Current
  BY DEF IInv, Faithful, Applied, Current
<1>3. mInDirectRendering => mMaterial = Current
  BY DEF IInv, Faithful, Modes, TypeOK, Material, Current
<1> QED
  BY <1>1, <1>2, <1>3

\* While the batch is empty, the screen shows what the renderer has drawn.
LEMMA NothingBatched ==
    ASSUME NEW s \in Seq(Drawing)
    PROVE  /\ screen = s /\ mIndexData = <<>> => Shows = s
           /\ screen' = s /\ mIndexData' = <<>> => Shows' = s
<1>1. s \o <<>> = s
  BY ConcatEmptySeq
<1>2. mIndexData = <<>> => Drawn(Current) = <<>>
  BY DEF Drawn
<1>3. mIndexData' = <<>> => Drawn(Current)' = <<>>
  BY DEF Drawn
<1> QED
  BY <1>1, <1>2, <1>3 DEF Shows

\* A flush in a frame leaves the screen as it is.
LEMMA FlushShows ==
    ASSUME IInv, inFrame, Flush
    PROVE  Shows' = Shows
<1>1. screen' = Shows
  BY CurrentIs, FlushEffect DEF Shows
<1> QED
  BY <1>1, FlushEffect, NothingBatched

\* An index more in the batch is a vertex more on the screen.
LEMMA Emitted ==
    ASSUME IInv, MaxBatch <= MaxIndex + 2, inFrame,
           NEW i \in Nat, i < Len(mVertexData'), mIndexData' = Append(mIndexData, i),
           mVertexData' \in Seq(Vertices), Len(mVertexData') <= MaxBatch,
           \A j \in DOMAIN mVertexData :
               j \in DOMAIN mVertexData' /\ mVertexData'[j] = mVertexData[j],
           UNCHANGED <<inFrame, settings, mPrimitiveType, screen>>
    PROVE  Shows' = Append(Shows, [what |-> mVertexData'[i + 1], type |-> mPrimitiveType,
                                   with |-> Current])
<1> DEFINE d == Drawn(Current)
           e == [what |-> mVertexData'[i + 1], type |-> mPrimitiveType, with |-> Current]
           n == Len(mIndexData)
<1>1. /\ d \in Seq(Drawing) /\ Len(d) = n /\ n \in Nat
      /\ \A k \in 1 .. n : d[k] = [what |-> mVertexData[mIndexData[k] + 1],
                                   type |-> mPrimitiveType, with |-> Current]
  <2>1. /\ d \in Seq(Drawing) /\ Len(d) = n
        /\ \A k \in DOMAIN mIndexData : d[k] = [what |-> mVertexData[mIndexData[k] + 1],
                                                type |-> mPrimitiveType, with |-> Current]
    BY CurrentIs, DrawnType DEF IInv
  <2>2. n \in Nat /\ DOMAIN mIndexData = 1 .. n
    BY DEF IInv, TypeOK
  <2> QED
    BY <2>1, <2>2
<1>2. Current' = Current
  BY DEF settings, Current, ShaderFor
<1>3. /\ mIndexData \in Seq(Nat) /\ Len(mVertexData) \in Nat
      /\ DOMAIN mVertexData = 1 .. Len(mVertexData)
      /\ \A k \in 1 .. n : mIndexData[k] \in Nat /\ mIndexData[k] < Len(mVertexData)
      /\ Len(mVertexData) <= MaxBatch
  BY DEF IInv, TypeOK, Indexed
<1>4. /\ DOMAIN mIndexData' = 1 .. n + 1 /\ mIndexData'[n + 1] = i
      /\ \A k \in 1 .. n : mIndexData'[k] = mIndexData[k]
  BY <1>1, <1>3
<1>5. ASSUME NEW k \in 1 .. n + 1
      PROVE  (mIndexData'[k] % (MaxIndex + 2)) + 1 = mIndexData'[k] + 1
  <2>1. mIndexData'[k] \in Nat /\ mIndexData'[k] < MaxIndex + 2
    <3>1. CASE k = n + 1
      BY <3>1, <1>4, CanvasAssumption
    <3>2. CASE k \in 1 .. n
      BY <3>2, <1>3, <1>4, CanvasAssumption
    <3> QED
      BY <3>1, <3>2, <1>1
  <2>2. MaxIndex + 2 \in Nat /\ MaxIndex + 2 > 0
    BY CanvasAssumption
  <2>3. mIndexData'[k] % (MaxIndex + 2) = mIndexData'[k]
    BY <2>1, <2>2, Wrapped
  <2> QED
    BY <2>3
<1>6. Drawn(Current)' = [k \in 1 .. n + 1 |->
                            [what |-> mVertexData'[mIndexData'[k] + 1],
                             type |-> mPrimitiveType, with |-> Current]]
  BY <1>2, <1>4, <1>5 DEF Drawn
<1>7. ASSUME NEW k \in 1 .. n
      PROVE  mVertexData'[mIndexData'[k] + 1] = mVertexData[mIndexData[k] + 1]
  BY <1>1, <1>3, <1>4
<1>8. Drawn(Current)' = Append(d, e)
  <2>1. Append(d, e) = [k \in 1 .. n + 1 |-> IF k = n + 1 THEN e ELSE d[k]]
    BY <1>1
  <2>2. \A k \in 1 .. n + 1 :
            (IF k = n + 1 THEN e ELSE d[k]) =
            [what |-> mVertexData'[mIndexData'[k] + 1], type |-> mPrimitiveType, with |-> Current]
    BY <1>1, <1>4, <1>7
  <2> QED
    BY <1>6, <2>1, <2>2
<1>9. screen \in Seq(Drawing) /\ e \in Drawing
  BY CurrentIs DEF IInv, TypeOK, Drawing
<1>10. screen \o Append(d, e) = Append(screen \o d, e)
  <2> HIDE DEF d, e
  <2> QED
    BY <1>1, <1>9
<1> QED
  BY <1>8, <1>10, <1>2 DEF Shows

LEMMA DirectInit == Init => Direct!Init
<1> SUFFICES ASSUME Init PROVE Direct!Init
  OBVIOUS
<1>1. Current \in AllSettings
  BY InitInvariant, CurrentIs
<1>2. (IF inFrame THEN screen \o Drawn(Current) ELSE screen) = <<>>
  BY DEF Init
<1> QED
  BY <1>1, <1>2 DEF Direct!Init, AllSettings

LEMMA CurrentThen == ASSUME IInv' PROVE Current' \in AllSettings
<1>1. /\ mCustomShader' \in Shaders \cup {None} /\ mTexture' \in Textures \cup {None}
      /\ mMatrix' \in [Stacks -> Matrices] /\ mMaterial'.flags \in [Flags -> FlagValues]
  BY DEF IInv, TypeOK, Material
<1>2. ShaderFor(mCustomShader', mTexture') \in Shaders \cup {"colored", "textured"}
  BY <1>1, ShaderType
<1> QED
  BY <1>1, <1>2 DEF Current, AllSettings, ShaderFor

\* A step that flushes and changes settings is a change of settings.
LEMMA SettingsChange ==
    ASSUME IInv, inFrame, Flush, IInv', inFrame' = inFrame
    PROVE  Direct!Next
<1>1. Current' \in AllSettings
  BY CurrentThen
<1>2. Shows' = Shows
  BY FlushShows
<1>3. Direct!Change(Current')
  BY <1>2 DEF Direct!Change, Shows
<1> QED
  BY <1>1, <1>3 DEF Direct!Next, AllSettings

LEMMA DirectStep ==
    ASSUME MaxBatch <= MaxIndex + 2, IInv, IInv', [Next]_vars
    PROVE  [Direct!Next]_<<Current, Shows>>
<1> USE DEF mode, batch, settings
<1>1. ASSUME NEW t \in Textures \cup {None}, SetTexture(t) PROVE Direct!Next
  BY <1>1, SettingsChange DEF SetTexture, Open
<1>2. ASSUME NEW s \in Shaders \cup {None}, SetCustomShader(s) PROVE Direct!Next
  BY <1>2, SettingsChange DEF SetCustomShader, Open
<1>3. ASSUME NEW f \in Flags, NEW v \in FlagValues, SetFlag(f, v) PROVE Direct!Next
  BY <1>3, SettingsChange DEF SetFlag, Open
<1>4. ASSUME NEW s \in Stacks, NEW m \in Matrices, AssignMatrix(s, m) PROVE Direct!Next
  BY <1>4, SettingsChange DEF AssignMatrix, SetMatrix, Open
<1>5. ASSUME NEW s \in Stacks, PopMatrix(s) PROVE Direct!Next
  BY <1>5, SettingsChange DEF PopMatrix, SetMatrix, Open
<1>6. ASSUME NEW s \in Stacks, PushMatrix(s) PROVE UNCHANGED <<Current, Shows>>
  BY <1>6 DEF PushMatrix, Shows, Current, Drawn, ShaderFor
<1>7. ASSUME NEW t \in Types, Begin(t) PROVE [Direct!Next]_<<Current, Shows>>
  <2>1. CASE mPrimitiveType = t
    BY <1>7, <2>1 DEF Begin, SetPrimitiveType, Shows, Current, Drawn, ShaderFor
  <2>2. CASE mPrimitiveType # t
    BY <1>7, <2>2, SettingsChange DEF Begin, SetPrimitiveType, Open
  <2> QED
    BY <2>1, <2>2
<1>8. ASSUME NEW v \in Vertices, Vertex(v) PROVE Direct!Next
  <2>1. /\ mInBeginEnd /\ inFrame /\ mVertexData \in Seq(Vertices)
        /\ Len(mVertexData) \in Nat /\ Len(mVertexData) < MaxBatch
        /\ mVertexData' = Append(mVertexData, v)
        /\ mIndexData' = Append(mIndexData, Len(mVertexData))
        /\ UNCHANGED <<inFrame, settings, mPrimitiveType, screen>>
    BY <1>8 DEF Vertex, EmitVertex, IInv, Modes, TypeOK
  <2>2. /\ mVertexData' \in Seq(Vertices) /\ Len(mVertexData') = Len(mVertexData) + 1
        /\ mVertexData'[Len(mVertexData) + 1] = v
        /\ \A j \in DOMAIN mVertexData :
               j \in DOMAIN mVertexData' /\ mVertexData'[j] = mVertexData[j]
    BY <2>1
  <2>3. Shows' = Append(Shows, [what |-> v, type |-> mPrimitiveType, with |-> Current])
    <3>1. Len(mVertexData) < Len(mVertexData') /\ Len(mVertexData') <= MaxBatch
      BY <2>1, <2>2, CanvasAssumption
    <3> DEFINE i == Len(mVertexData)
    <3>2. /\ i \in Nat /\ i < Len(mVertexData') /\ mIndexData' = Append(mIndexData, i)
          /\ mVertexData'[i + 1] = v
      BY <2>1, <2>2, <3>1
    <3> HIDE DEF i
    <3> QED
      BY <2>1, <2>2, <3>1, <3>2, Emitted
  <2>4. Current' = Current
    BY <2>1 DEF Current, ShaderFor
  <2>5. Direct!Emit(v, mPrimitiveType)
    BY <2>3, <2>4 DEF Direct!Emit, Shows
  <2> QED
    BY <2>5 DEF Direct!Next, IInv, TypeOK
<1>9. ASSUME NEW i \in block, Index(i) PROVE Direct!Next
  <2>1. /\ mInBeginEnd /\ inFrame /\ mVertexData \in Seq(Vertices)
        /\ i \in Nat /\ i < Len(mVertexData) /\ Len(mVertexData) <= MaxBatch
        /\ mVertexData' = mVertexData /\ mIndexData' = Append(mIndexData, i)
        /\ UNCHANGED <<inFrame, settings, mPrimitiveType, screen>>
    BY <1>9 DEF Index, IInv, Modes, Indexed, TypeOK
  <2>2. mVertexData[i + 1] \in Vertices
    BY <2>1
  <2>3. Shows' = Append(Shows, [what |-> mVertexData[i + 1], type |-> mPrimitiveType,
                                with |-> Current])
    BY <2>1, Emitted
  <2>4. Current' = Current
    BY <2>1 DEF Current, ShaderFor
  <2>5. Direct!Emit(mVertexData[i + 1], mPrimitiveType)
    BY <2>3, <2>4 DEF Direct!Emit, Shows
  <2> QED
    BY <2>2, <2>5 DEF Direct!Next, IInv, TypeOK
<1>10. ASSUME NEW m \in Meshes, DrawMesh(m) PROVE Direct!Next
  <2>1. /\ inFrame /\ mInDirectRendering /\ mIndexData = <<>> /\ mIndexData' = <<>>
        /\ screen' = Append(screen, [what |-> m, type |-> "mesh", with |-> mMaterial])
        /\ UNCHANGED <<inFrame, settings>>
    BY <1>10 DEF DrawMesh, IInv, Modes
  <2>2. mMaterial = Current
    BY <2>1, CurrentIs
  <2>3. screen \in Seq(Drawing) /\ screen' \in Seq(Drawing)
    BY DEF IInv, TypeOK, Material, Drawing
  <2>4. Shows = screen /\ Shows' = screen'
    BY <2>1, <2>3, NothingBatched
  <2>5. Current' = Current
    BY <2>1 DEF Current, ShaderFor
  <2>6. Direct!DrawMesh(m)
    BY <2>1, <2>2, <2>4, <2>5 DEF Direct!DrawMesh, Shows
  <2> QED
    BY <2>6 DEF Direct!Next
<1>11. ASSUME End \/ EndDirectRendering PROVE UNCHANGED <<Current, Shows>>
  BY <1>11 DEF End, EndDirectRendering, Shows, Current, Drawn, ShaderFor
<1>12. ASSUME Clear PROVE Direct!Next
  <2>1. inFrame /\ inFrame' = inFrame /\ screen' = <<>> /\ mIndexData' = <<>>
    BY <1>12 DEF Clear, Open
  <2>2. Shows' = <<>>
    <3>1. <<>> \in Seq(Drawing)
      OBVIOUS
    <3> QED
      BY <2>1, <3>1, NothingBatched
  <2>3. Current' = Current
    BY <1>12, FlushedIs DEF Clear, IInv, Current, ShaderFor
  <2>4. Direct!Clear
    BY <2>2, <2>3 DEF Direct!Clear, Shows
  <2> QED
    BY <2>4 DEF Direct!Next
<1>13. ASSUME BeginDirectRendering PROVE Direct!Next
  BY <1>13, SettingsChange DEF BeginDirectRendering, Open
<1>14. ASSUME BeginFrame PROVE Direct!Next
  <2>1. screen' = <<>> /\ mIndexData' = <<>>
    BY <1>14 DEF BeginFrame
  <2>2. Shows' = <<>>
    <3>1. <<>> \in Seq(Drawing)
      OBVIOUS
    <3> QED
      BY <2>1, <3>1, NothingBatched
  <2>3. Direct!BeginFrame(Current')
    BY <2>2 DEF Direct!BeginFrame, Shows
  <2> QED
    BY <2>3, CurrentThen DEF Direct!Next, AllSettings
<1>15. ASSUME EndFrame PROVE UNCHANGED <<Current, Shows>>
  <2>1. inFrame /\ ~inFrame' /\ Flush
    BY <1>15 DEF EndFrame, Open
  <2>2. Shows' = Shows
    BY <2>1, FlushShows
  <2>3. Current' = Current
    BY <1>15, FlushedIs DEF EndFrame, IInv, Current, ShaderFor
  <2> QED
    BY <2>2, <2>3
<1>16. CASE UNCHANGED vars
  BY <1>16 DEF vars, Shows, Current, Drawn, ShaderFor
<1>17. CASE SettingStep
  BY <1>17, <1>1, <1>2, <1>3, <1>4, <1>5, <1>6 DEF SettingStep
<1>18. CASE DrawingStep
  BY <1>18, <1>7, <1>8, <1>9, <1>10, <1>11, <1>12, <1>13 DEF DrawingStep
<1> QED
  BY <1>14, <1>15, <1>16, <1>17, <1>18 DEF Next

\* Batches are invisible: as long as no batch holds more vertices than its
\* indices can tell apart, drawing through a batch and a material is drawing
\* everything at once, with the settings it was emitted under.
THEOREM BatchesInvisible ==
    ASSUME MaxBatch <= MaxIndex + 2
    PROVE  Spec => ImplementsDirectDrawing
<1>1. Init => Direct!Init
  BY DirectInit
<1>2. IInv /\ IInv' /\ [Next]_vars => [Direct!Next]_<<Current, Shows>>
  BY DirectStep
<1>3. [Direct!Next]_<<Current, Shows>> => [Direct!Next]_(Direct!vars)
  BY DEF Direct!vars, Shows
<1> QED
  BY <1>1, <1>2, <1>3, Invariant, PTL DEF Spec, ImplementsDirectDrawing, Direct!Spec
=============================================================================
