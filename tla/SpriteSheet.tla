----------------------------- MODULE SpriteSheet -----------------------------
(***************************************************************************)
(* A sprite sheet while it is loaded. The worker thread reads the file and *)
(* sets the sprites one after the other; the render thread may already ask *)
(* for sprites by name, make images of them and draw them. A mutex guards  *)
(* the list of sprites and nothing guards what a sprite refers to, which   *)
(* is filled in place, field by field, and read at any time. What a field  *)
(* holds is named by the entry of the file it is from.                     *)
(***************************************************************************)
EXTENDS Naturals, Sequences, FiniteSetsExt

CONSTANTS
    Names,          \* of sprites, in files and in the program
    Broken,         \* an entry that is no sprite, or lacks an attribute
    MaxEntries      \* bound: entries in a file

ASSUME SheetAssumption == Broken \notin Names /\ MaxEntries \in Nat

VARIABLES
    file,           \* what the XML file lists: names, or Broken
    async,          \* whether the sheet was requested to load in the background
    stage,          \* "running", "posted" (the setup), "done" or "failed"
    entry,          \* the entry the worker reads ...
    written,        \* ... and the fields of an existing element it has assigned
    mSprites,       \* per name: its element, or Zero
    elements,       \* the elements: SpriteSheet::Element, in order of creation
    sprites,        \* history: <<name, element>> of every Sprite handed out
    images,         \* history: name and size of every UIImage, and whether the
                    \* sheet was loaded when it was made
    drawing         \* what drawTexturedQuad has read of the sprite it draws

sheetVars == <<file, async, stage, entry, written, mSprites, elements, sprites,
               images, drawing>>

Zero == 0           \* no entry: null, or all coordinates are zero

\* The fields, in the order of their assignment; what is read is the same for
\* originalSize and originalQuad.
Fields == <<"texture", "textureName", "originalSize", "trimmedQuad", "textureCoordinates">>
FieldNames == Range(Fields)
Placeholder == [f \in FieldNames |-> Zero]
Read(k) == [f \in FieldNames |-> IF f = "texture" THEN Zero ELSE k]
\* An element once its texture has been requested.
Shown(k) == [f \in FieldNames |-> IF f = "textureName" THEN Zero ELSE k]

Drawing(n, quad, texture, next) ==
    [name |-> n, trimmedQuad |-> quad, texture |-> texture, next |-> next]
NotDrawing == Drawing(Broken, Zero, Zero, "nothing")

SheetInit ==
    /\ file \in UNION {[1 .. n -> Names \cup {Broken}] : n \in 0 .. MaxEntries}
    /\ async \in BOOLEAN
    /\ stage = "running"
    /\ entry = 1
    /\ written = 0
    /\ mSprites = [n \in Names |-> Zero]
    /\ elements = <<>>
    /\ sprites = {}
    /\ images = {}
    /\ drawing = NotDrawing

-----------------------------------------------------------------------------
(* The worker: XmlSpriteSheetLoader::loadSpriteSheet, SpriteSheet::setSprite *)

Name == file[entry]
ReadsEntry == stage = "running" /\ entry \in DOMAIN file /\ written = 0

\* A ParseError ends the load; the sprites before it stay.
LoadFails ==
    /\ ReadsEntry
    /\ Name = Broken
    /\ stage' = "failed"
    /\ UNCHANGED <<file, async, entry, written, mSprites, elements, sprites, images, drawing>>

\* Mutant: an element that is replaced, not filled: sprites keep the old one.
AssignNext ==
    /\ elements' = Append(elements, Read(entry))
    /\ mSprites' = [mSprites EXCEPT ![Name] = Len(elements) + 1]
    /\ written' = Len(Fields)

\* The move assignment of Element: one field.
AssignField ==
    /\ elements' = [elements EXCEPT ![mSprites[Name]][Fields[written + 1]] =
                        Read(entry)[Fields[written + 1]]]
    /\ written' = written + 1
    /\ UNCHANGED mSprites

\* setSprite() takes the lock and finds no element of that name.
SetNewSprite ==
    /\ ReadsEntry
    /\ Name # Broken
    /\ mSprites[Name] = Zero
    /\ elements' = Append(elements, Read(entry))
    /\ mSprites' = [mSprites EXCEPT ![Name] = Len(elements) + 1]
    /\ entry' = entry + 1
    /\ UNCHANGED <<file, async, stage, written, sprites, images, drawing>>

\* It finds one, and fills it.
SetSprite ==
    /\ stage = "running"
    /\ entry \in DOMAIN file
    /\ Name # Broken
    /\ mSprites[Name] # Zero
    /\ written < Len(Fields)
    /\ AssignField
    /\ UNCHANGED <<file, async, stage, entry, sprites, images, drawing>>

\* The end of setSprite() releases the lock.
SpriteSet ==
    /\ stage = "running"
    /\ written = Len(Fields)
    /\ written' = 0
    /\ entry' = entry + 1
    /\ UNCHANGED <<file, async, stage, mSprites, elements, sprites, images, drawing>>

\* The file ends; in the background the setup is posted to the render thread.
LoadEnds ==
    /\ stage = "running"
    /\ entry > Len(file)
    /\ stage' = "posted"
    /\ UNCHANGED <<file, async, entry, written, mSprites, elements, sprites, images, drawing>>

-----------------------------------------------------------------------------
(* The render thread *)

\* loadPendingResources, between two frames: every sprite with the name of a
\* texture gets it.
Setup ==
    /\ stage = "posted"
    /\ drawing = NotDrawing
    /\ elements' =
           [i \in DOMAIN elements |->
               IF elements[i]["textureName"] = Zero THEN elements[i]
               ELSE [f \in FieldNames |->
                        IF f = "texture" THEN elements[i]["textureName"]
                        ELSE IF f = "textureName" THEN Zero ELSE elements[i][f]]]
    /\ stage' = "done"
    /\ UNCHANGED <<file, async, entry, written, mSprites, sprites, images, drawing>>

\* The program has the sheet: at once, or when a synchronous load returns.
HasSheet == async \/ stage \in {"done", "failed"}

\* getSprite() waits for the lock; a name that is not there yet is reserved.
GetSprite(n) ==
    /\ HasSheet
    /\ written = 0
    /\ drawing = NotDrawing
    /\ IF mSprites[n] = Zero
       THEN /\ elements' = Append(elements, Placeholder)
            /\ mSprites' = [mSprites EXCEPT ![n] = Len(elements) + 1]
       ELSE UNCHANGED <<elements, mSprites>>
    /\ sprites' = sprites \cup {<<n, mSprites'[n]>>}
    /\ UNCHANGED <<file, async, stage, entry, written, images, drawing>>

\* UIImage(sprite) and UIImage::setImage: the size is read once.
MakeImage(n) ==
    /\ drawing = NotDrawing
    /\ \E s \in sprites :
          /\ s[1] = n
          /\ images' = images \cup
                 {[name |-> n, size |-> elements[s[2]]["originalSize"],
                   loaded |-> stage = "done"]}
    /\ UNCHANGED <<file, async, stage, entry, written, mSprites, elements, sprites, drawing>>

\* Canvas::drawSprite copies the quad and passes references to the rest ...
DrawSprite(n) ==
    /\ drawing = NotDrawing
    /\ \E s \in sprites :
          /\ s[1] = n
          /\ drawing' = Drawing(n, elements[s[2]]["trimmedQuad"], Zero, "texture")
    /\ UNCHANGED <<file, async, stage, entry, written, mSprites, elements, sprites, images>>

\* Mutant: a quad without a texture is drawn, too.
ReadTextureUnchecked ==
    /\ drawing.next = "texture"
    /\ \E s \in sprites :
          /\ s[1] = drawing.name
          /\ drawing' = Drawing(drawing.name, drawing.trimmedQuad,
                                 elements[s[2]]["texture"], "coordinates")
    /\ UNCHANGED <<file, async, stage, entry, written, mSprites, elements, sprites, images>>

\* ... the texture is looked at: without one, nothing is drawn ...
ReadTexture ==
    /\ drawing.next = "texture"
    /\ \E s \in sprites :
          /\ s[1] = drawing.name
          /\ drawing' = IF elements[s[2]]["texture"] = Zero THEN NotDrawing
                        ELSE Drawing(drawing.name, drawing.trimmedQuad,
                                     elements[s[2]]["texture"], "coordinates")
    /\ UNCHANGED <<file, async, stage, entry, written, mSprites, elements, sprites, images>>

\* ... and then the coordinates, for the vertices.
Drawn(n, coordinates) ==
    /\ drawing.next = "coordinates"
    /\ drawing.name = n
    /\ \E s \in sprites :
          s[1] = n /\ coordinates = elements[s[2]]["textureCoordinates"]
    /\ drawing' = NotDrawing
    /\ UNCHANGED <<file, async, stage, entry, written, mSprites, elements, sprites, images>>

-----------------------------------------------------------------------------
SheetNext ==
    \/ LoadFails \/ SetNewSprite \/ SetSprite \/ SpriteSet \/ LoadEnds \/ Setup
    \/ \E n \in Names : GetSprite(n) \/ MakeImage(n) \/ DrawSprite(n)
    \/ ReadTexture
    \/ \E n \in Names, k \in 0 .. MaxEntries : Drawn(n, k)

SheetSpec == SheetInit /\ [][SheetNext]_sheetVars

-----------------------------------------------------------------------------
(* Properties *)

\* Every variable keeps its type.
SheetTypeOK ==
    /\ file \in Seq(Names \cup {Broken})
    /\ stage \in {"running", "posted", "done", "failed"}
    /\ entry \in Nat /\ 1 <= entry /\ entry <= Len(file) + 1
    /\ written \in Nat /\ written <= 5
    /\ elements \in Seq([FieldNames -> Nat])
    /\ mSprites \in [Names -> 0 .. Len(elements)]
    /\ sprites \subseteq Names \X Nat

\* What the file says of a name: its last entry, if it has one.
LastEntry(n) == Max({k \in DOMAIN file : file[k] = n} \cup {Zero})

\* A sprite that was handed out before the file was read is the same object that
\* the loader fills: whenever it was asked for, once the sheet is loaded it shows
\* what the file says, and an image made from then on has its size.
SpritesFollowSheet ==
    /\ \A s \in sprites : mSprites[s[1]] = s[2]
    /\ stage = "done" =>
          \A s \in sprites : elements[s[2]] = Shown(LastEntry(s[1]))
    /\ \A i \in images : i.loaded => i.size = LastEntry(i.name)

\* Drawing reads without a lock what the worker writes, and yet no sprite is ever
\* drawn with one part from one entry of the file and another from before, or
\* from another entry: the texture is null until everything is in place.
DrawnWhole ==
    [][\A n \in Names, k \in 0 .. MaxEntries :
          Drawn(n, k) => /\ k = LastEntry(n)
                         /\ drawing.trimmedQuad = k
                         /\ drawing.texture = k]_sheetVars
=============================================================================
