--------------------------- MODULE MaterialParser ---------------------------
(***************************************************************************)
(* The loader of material files. A grammar is matched from left to right;  *)
(* the action of a rule runs as soon as the rule matches and is not undone *)
(* when an enclosing rule fails later. Actions communicate through stacks  *)
(* in a context. When the whole file has matched, the tree they have built *)
(* is turned into techniques and passes.                                   *)
(* The file is not given in advance: each step may read any statement that *)
(* the text could hold next.                                               *)
(***************************************************************************)
EXTENDS Integers, Sequences, FiniteSets, SequencesExt

CONSTANTS
    Options, OptionValues,      \* CullFace, BlendFunc, DepthTest, Shader ...
    Uniforms,
    Numbers, Tuples, Textures,  \* how the value of a uniform can be written:
                                \* 1.5, (1.5, 2), "name"
    Unset,
    MaxText                     \* bound: statements in a file

Matched == 0        \* in the place of the rule to be tried next

\* A value as the file writes it, and where its matching stands.
Reading(form, values) == [form : {form}, value : values, rule : Matched .. 4]
Readings ==
    Reading("tuple", Tuples)
        \cup Reading("number", {<<x>> : x \in Numbers})
        \cup Reading("texture", {<<x>> : x \in Textures})

\* Unset is a null pointer.
ASSUME ParserAssumption ==
    /\ Options \cap Uniforms = {}
    /\ \A t \in Tuples : t # <<>> /\ t \in Seq(Numbers)
    /\ MaxText \in Nat
    /\ Unset \notin Seq(Nat) \cup Readings

VARIABLES
    floatValues, stringValues, uniformValue,    \* Context
    optionLists, currentTechnique, currentPass,
    tree,           \* what each OptionList holds: the file, techniques, passes
    reading,        \* the value being matched and the rule tried next, or Unset
    phase,          \* "parse", "build", or the result
    material,       \* its techniques, each a sequence of passes
    text            \* history: the statements read so far

stacks == <<floatValues, stringValues, uniformValue>>
parserVars == <<stacks, optionLists, currentTechnique, currentPass, tree, reading, phase,
                material, text>>

Settings == Options \cup Uniforms
Values == OptionValues \cup Tuples \cup {<<x>> : x \in Numbers \cup Textures}

\* An option list is named by its place: <<>>, <<technique>>, <<technique, pass>>.
File == <<>>

ParserInit ==
    /\ floatValues = <<>>
    /\ stringValues = <<>>
    /\ uniformValue = Unset
    /\ optionLists = <<File>>
    /\ currentTechnique = Unset
    /\ currentPass = Unset
    /\ tree = [list \in {File} |-> <<>>]
    /\ reading = Unset
    /\ phase = "parse"
    /\ material = <<>>
    /\ text = <<>>

-----------------------------------------------------------------------------
(* Statements *)

Statement(s) ==
    /\ phase = "parse" /\ reading = Unset /\ Len(text) < MaxText
    /\ text' = Append(text, s)

\* currentOptionList().options (or uniforms) .emplace_back
Emit(name, value) ==
    tree' = [tree EXCEPT ![Last(optionLists)] = Append(@, [name |-> name, value |-> value])]

Option(name, value) ==
    /\ Statement([what |-> "set", name |-> name, value |-> value])
    /\ Emit(name, value)
    /\ UNCHANGED <<stacks, optionLists, currentTechnique, currentPass, reading, phase,
                   material>>

\* SetUniform and the name have matched.
UniformName(name, form, value) ==
    /\ Statement([what |-> "set", name |-> name, value |-> value])
    /\ stringValues' = Append(stringValues, name)
    /\ reading' = [form |-> form, value |-> value, rule |-> 4]
    /\ UNCHANGED <<floatValues, uniformValue, optionLists, currentTechnique,
                   currentPass, tree, phase, material>>

\* UniformVec4Value, UniformVec3Value and UniformVec2Value are tried in this
\* order. Each pushes the numbers it gets to see before it matches or fails.
TryVector ==
    /\ reading # Unset /\ reading.rule \in 2 .. 4
    /\ LET n == reading.rule
           written == reading.value
           seen == IF reading.form = "tuple"
                   THEN SubSeq(written, 1, IF Len(written) < n THEN Len(written) ELSE n)
                   ELSE <<>>
           pushed == floatValues \o seen
           rest == Len(pushed) - n
       IN
       IF reading.form = "tuple" /\ Len(written) = n
       THEN /\ uniformValue' = SubSeq(pushed, rest + 1, Len(pushed))
            /\ floatValues' = SubSeq(pushed, 1, rest)
            /\ reading' = [reading EXCEPT !.rule = Matched]
       ELSE /\ floatValues' = pushed
            /\ reading' = [reading EXCEPT !.rule = n - 1]
            /\ UNCHANGED uniformValue
    /\ UNCHANGED <<stringValues, optionLists, currentTechnique, currentPass, tree,
                   phase, material, text>>

\* UniformFloatValue, UniformTextureValue: what is pushed is popped at once.
TryScalar ==
    /\ reading # Unset /\ reading.rule = 1
    /\ reading.form \in {"number", "texture"}
    /\ uniformValue' = reading.value
    /\ reading' = [reading EXCEPT !.rule = Matched]
    /\ UNCHANGED <<floatValues, stringValues, optionLists, currentTechnique,
                   currentPass, tree, phase, material, text>>

UniformEnd ==
    /\ reading # Unset /\ reading.rule = Matched
    /\ Emit(Last(stringValues), uniformValue)
    /\ stringValues' = Front(stringValues)
    /\ uniformValue' = Unset
    /\ reading' = Unset
    /\ UNCHANGED <<floatValues, optionLists, currentTechnique, currentPass, phase,
                   material, text>>

PushOptionList(list) ==
    /\ optionLists' = Append(optionLists, list)
    /\ tree' = [place \in DOMAIN tree \cup {list} |-> IF place = list THEN <<>> ELSE tree[place]]

PopOptionList(list) ==
    /\ Last(optionLists) = list             \* assert
    /\ optionLists' = Front(optionLists)

Techniques == {list \in DOMAIN tree : Len(list) = 1}
Passes(t) == {list \in DOMAIN tree : Len(list) = 2 /\ list[1] = t}

TechniqueBegin ==
    /\ currentTechnique = Unset
    /\ Statement([what |-> "technique"])
    /\ LET technique == <<Cardinality(Techniques) + 1>> IN
       /\ currentTechnique' = technique
       /\ PushOptionList(technique)
    /\ UNCHANGED <<stacks, currentPass, reading, phase, material>>
\* Mutant: a technique that ends stays on the stack of option lists.
TechniqueEndOpen ==
    /\ currentTechnique # Unset /\ currentPass = Unset
    /\ Statement([what |-> "end"])
    /\ currentTechnique' = Unset
    /\ UNCHANGED <<stacks, optionLists, currentPass, tree, reading, phase, material>>

TechniqueEnd ==
    /\ currentTechnique # Unset /\ currentPass = Unset
    /\ Statement([what |-> "end"])
    /\ PopOptionList(currentTechnique)
    /\ currentTechnique' = Unset
    /\ UNCHANGED <<stacks, currentPass, tree, reading, phase, material>>

PassBegin ==
    /\ currentTechnique # Unset /\ currentPass = Unset
    /\ Statement([what |-> "pass"])
    /\ LET pass == Append(currentTechnique, Cardinality(Passes(currentTechnique[1])) + 1) IN
       /\ currentPass' = pass
       /\ PushOptionList(pass)
    /\ UNCHANGED <<stacks, currentTechnique, reading, phase, material>>

PassEnd ==
    /\ currentPass # Unset
    /\ Statement([what |-> "end"])
    /\ PopOptionList(currentPass)
    /\ currentPass' = Unset
    /\ UNCHANGED <<stacks, currentTechnique, tree, reading, phase, material>>

-----------------------------------------------------------------------------
(* The end of the file *)

Context == <<stacks, optionLists, currentTechnique, currentPass, tree, reading, text>>

\* Nothing else fits: a value that no rule matches, a bracket that is missing,
\* or anything unknown. parse_error is caught and the load fails.
ParseError ==
    /\ phase = "parse"
    /\ reading # Unset => reading.rule = 1 /\ reading.form = "tuple"
    /\ phase' = "failed"
    /\ UNCHANGED <<Context, material>>

EndOfFile ==
    /\ phase = "parse" /\ reading = Unset /\ currentTechnique = Unset
    /\ phase' = "build"
    /\ UNCHANGED <<Context, material>>

\* applyToPass of every entry, in order
Apply(pass, list) ==
    FoldLeft(LAMBDA p, entry : [p EXCEPT ![entry.name] = entry.value], pass, list)
\* Mutant: what the file says is applied last.
BuildPassInsideOut(pass) ==
    LET own == Apply([s \in Settings |-> Unset], tree[pass])
        technique == Apply(own, tree[SubSeq(pass, 1, 1)])
    IN Apply(technique, tree[File])

BuildPass(pass) ==
    LET file == Apply([s \in Settings |-> Unset], tree[File])
        technique == Apply(file, tree[SubSeq(pass, 1, 1)])
    IN Apply(technique, tree[pass])

AddTechnique ==
    /\ phase = "build"
    /\ Len(material) < Cardinality(Techniques)
    /\ LET t == Len(material) + 1 IN
       material' = Append(material, [p \in 1 .. Cardinality(Passes(t)) |-> BuildPass(<<t, p>>)])
    /\ UNCHANGED <<Context, phase>>

LoadMaterial ==
    /\ phase = "build"
    /\ Len(material) = Cardinality(Techniques)
    /\ phase' = "loaded"
    /\ UNCHANGED <<Context, material>>

\* The load is over; the next one has a context of its own.
Done ==
    /\ phase \in {"failed", "loaded"}
    /\ UNCHANGED parserVars

ParserNext ==
    \/ \E o \in Options, v \in OptionValues : Option(o, v)
    \/ \E u \in Uniforms, n \in Numbers : UniformName(u, "number", <<n>>)
    \/ \E u \in Uniforms, t \in Tuples : UniformName(u, "tuple", t)
    \/ \E u \in Uniforms, s \in Textures : UniformName(u, "texture", <<s>>)
    \/ TryVector \/ TryScalar \/ UniformEnd
    \/ TechniqueBegin \/ TechniqueEnd \/ PassBegin \/ PassEnd
    \/ ParseError \/ EndOfFile \/ AddTechnique \/ LoadMaterial \/ Done

ParserSpec == ParserInit /\ [][ParserNext]_parserVars

-----------------------------------------------------------------------------
(* Properties *)

\* Every variable keeps the type of the member of Context it stands for.
ParserTypeOK ==
    /\ floatValues \in Seq(Numbers)
    /\ stringValues \in Seq(Uniforms)
    /\ uniformValue \in Values \cup {Unset}
    /\ optionLists \in Seq(DOMAIN tree) /\ optionLists # <<>>
    /\ currentTechnique \in {<<t>> : t \in 1 .. MaxText} \cup {Unset}
    /\ currentPass \in (1 .. MaxText) \X (1 .. MaxText) \cup {Unset}
    /\ \A list \in DOMAIN tree : tree[list] \in Seq([name : Settings, value : Values])
    /\ reading \in Readings \cup {Unset}
    /\ phase \in {"parse", "build", "failed", "loaded"}
    /\ material \in Seq(Seq([Settings -> Values \cup {Unset}]))

\* The assertions after a parse that hold: every block has been closed and
\* every string and every value has found its owner. assert(floatValues.empty())
\* does not hold: failed alternatives leave their numbers.
EverythingConsumed ==
    /\ ParserTypeOK
    /\ phase \in {"build", "loaded"} =>
          /\ currentTechnique = Unset /\ currentPass = Unset
          /\ optionLists = <<File>>
          /\ stringValues = <<>> /\ uniformValue = Unset

\* What the text says, by its brackets alone: the block statement k stands in.
Count(what, a, b) == Cardinality({i \in a .. b : text[i].what = what})
Block(k) ==
    LET techniques == Count("technique", 1, k - 1)
        begun == {i \in 1 .. k - 1 : text[i].what = "technique"}
        begin == IF begun = {} THEN 1 ELSE CHOOSE i \in begun : \A j \in begun : j <= i
        passes == Count("pass", begin, k - 1)
        depth == techniques + Count("pass", 1, k - 1) - Count("end", 1, k - 1)
    IN SubSeq(<<techniques, passes>>, 1, depth)

\* The last statement for setting s in a block, 0 if there is none.
LastIn(block, s) ==
    LET found == {k \in DOMAIN text :
                    text[k].what = "set" /\ text[k].name = s /\ Block(k) = block}
    IN IF found = {} THEN 0 ELSE CHOOSE k \in found : \A j \in found : j <= k

\* The innermost block that mentions a setting decides.
Meant(t, p, s) ==
    LET places == {block \in {<<t, p>>, <<t>>, File} : LastIn(block, s) # 0}
        innermost == CHOOSE block \in places : \A other \in places : Len(other) <= Len(block)
    IN IF places = {} THEN Unset ELSE text[LastIn(innermost, s)].value

\* A loaded material has the techniques and passes of its file, in order, and
\* each pass has every setting as the innermost block that mentions it says,
\* wherever in the block that is: in spite of all that failed attempts leave
\* on the stacks, and of settings that follow the passes they are meant for.
MaterialAsWritten ==
    phase = "loaded" =>
        /\ Len(material) = Count("technique", 1, Len(text))
        /\ \A t \in DOMAIN material :
              /\ Len(material[t]) =
                    Cardinality({k \in DOMAIN text :
                        text[k].what = "pass" /\ Block(k) = <<t>>})
              /\ \A p \in DOMAIN material[t], s \in Settings :
                    material[t][p][s] = Meant(t, p, s)
=============================================================================
