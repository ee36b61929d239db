---------------------------- MODULE MCAssetFiles -----------------------------
(***************************************************************************)
(* One asset is loaded from its file: a material, a shader whose files are *)
(* three levels deep, or a sprite sheet that is used while it is loaded.   *)
(***************************************************************************)
EXTENDS MaterialParser, ShaderLoader, SpriteSheet

VARIABLE asset

\* Numbers in order and out of order, and tuples for every rule or for none.
MCNumbers == {1, 2}
MCTuples == {<<2, 1>>, <<1, 2, 1>>, <<1, 1, 2, 1>>, <<1, 1, 1, 1, 1>>}
MCFiles == 1 .. 3
MCMaxLines == <<2, 2, 1>>

\* No call of loadMemory() has been made.
NoShader ==
    /\ lines = [f \in Files |-> <<>>]
    /\ calls = <<>>
    /\ mVertex = <<>>
    /\ mFragment = <<>>
    /\ done = TRUE

\* No sprite sheet has been requested.
NoSheet == SheetInit /\ file = <<>> /\ async

AssetInit ==
    /\ asset \in {"material", "shader", "sheet"}
    /\ ParserInit
    /\ IF asset = "shader" THEN LoaderInit ELSE NoShader
    /\ IF asset = "sheet" THEN SheetInit ELSE NoSheet

AssetNext ==
    /\ \/ asset = "material" /\ ParserNext /\ UNCHANGED <<loading, sheetVars>>
       \/ asset = "shader" /\ LoaderNext /\ UNCHANGED <<parserVars, sheetVars>>
       \/ asset = "sheet" /\ SheetNext /\ UNCHANGED <<parserVars, loading>>
    /\ UNCHANGED asset

AssetSpec == AssetInit /\ [][AssetNext]_<<asset, parserVars, loading, sheetVars>>

=============================================================================
