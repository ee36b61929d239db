---------------------------- MODULE ShaderLoader ----------------------------
(***************************************************************************)
(* The preprocessor of shader files: lines go to the vertex shader, to the *)
(* fragment shader, or to both, as the last directive says; an %include is *)
(* expanded in place, by a call of loadFile() from within loadMemory().    *)
(* A file is a sequence of lines, each of them a directive or text. Which  *)
(* files there are is chosen initially; they do not include each other in  *)
(* a circle, since the code would then recurse until the stack is full.    *)
(***************************************************************************)
EXTENDS Integers, Sequences, FiniteSets, SequencesExt

CONSTANTS
    Root,           \* the file that is loaded
    Files,          \* numbered; only files of a higher number are included
    Missing,        \* a file that does not exist
    Running,
    MaxLines        \* bound: lines in each file

ASSUME LoaderAssumption ==
    /\ Root \in Files /\ Files \subseteq Nat /\ IsFiniteSet(Files) /\ Missing \notin Files
    /\ MaxLines \in [Files -> Nat]

Sections == {"%vertex", "%fragment", "%common"}
IncludeLine(f) == [kind |-> "%include", file |-> f]
PlainLine(kind) == [kind |-> kind, file |-> Missing]

LineSet ==
    {PlainLine(kind) : kind \in Sections \cup {"%invalid", "text"}}
        \cup {IncludeLine(f) : f \in (Files \ {Root}) \cup {Missing}}

FileTexts == UNION {BoundedSeq(LineSet, MaxLines[f]) : f \in Files}

VARIABLES
    lines,          \* the files
    calls,          \* the calls of loadMemory() under way: file, next line,
                    \* what, success
    mVertex,        \* the lines of the two sources, each given by the route
    mFragment,      \* on which the calls came to it
    done            \* what the outermost call returned, or Running

loading == <<lines, calls, mVertex, mFragment, done>>

Call(f, what) == [file |-> f, line |-> 1, what |-> what, success |-> TRUE]

\* A null `what` is "%common".
LoaderInit ==
    /\ \E contents \in [Files -> FileTexts] :
          /\ \A f \in Files :
                /\ Len(contents[f]) <= MaxLines[f]
                /\ \A k \in DOMAIN contents[f] :
                      LET g == contents[f][k].file IN g # Missing => g > f
          /\ lines = contents
    /\ calls = <<Call(Root, "%common")>>
    /\ mVertex = <<>>
    /\ mFragment = <<>>
    /\ done = Running

-----------------------------------------------------------------------------

Top == Last(calls)
AtLine == calls # <<>> /\ Top.line <= Len(lines[Top.file])
Line == lines[Top.file][Top.line]

\* The innermost call goes on to its next line.
Continue(what, success) ==
    calls' = Append(Front(calls),
                    [file |-> Top.file, line |-> Top.line + 1,
                     what |-> what, success |-> success])

\* Which occurrence of the line this is: its place in its file, after the places
\* of the %include lines that lead there.
Occurrence == [k \in DOMAIN calls |-> [file |-> calls[k].file, line |-> calls[k].line]]

Text ==
    /\ AtLine /\ Line.kind = "text"
    /\ mVertex' = IF Top.what = "%fragment" THEN mVertex ELSE Append(mVertex, Occurrence)
    /\ mFragment' = IF Top.what = "%vertex" THEN mFragment ELSE Append(mFragment, Occurrence)
    /\ Continue(Top.what, Top.success)
    /\ UNCHANGED <<lines, done>>

Section ==
    /\ AtLine /\ Line.kind \in Sections
    /\ Continue(Line.kind, Top.success)
    /\ UNCHANGED <<lines, mVertex, mFragment, done>>

Invalid ==
    /\ AtLine /\ Line.kind = "%invalid"
    /\ Continue("%common", FALSE)
    /\ UNCHANGED <<lines, mVertex, mFragment, done>>

\* loadFile() of a file that cannot be opened returns false.
IncludeMissing ==
    /\ AtLine /\ Line = IncludeLine(Missing)
    /\ Continue(Top.what, FALSE)
    /\ UNCHANGED <<lines, mVertex, mFragment, done>>

\* `what` is passed by value: the file starts in the section of its %include.
Include ==
    /\ AtLine /\ Line.kind = "%include" /\ Line.file # Missing
    /\ calls' = Append(calls, Call(Line.file, Top.what))
    /\ UNCHANGED <<lines, mVertex, mFragment, done>>

\* Mutant: the section of an included file goes on in the file that includes it.
ReturnSection(outer, inner) ==
    [file |-> outer.file, line |-> outer.line + 1,
     what |-> inner.what, success |-> inner.success /\ outer.success]

\* The call that contains the %include, after it:
\* success = loadFile(include.get(), what) && success
Returned(outer, inner) ==
    [file |-> outer.file, line |-> outer.line + 1,
     what |-> outer.what, success |-> inner.success /\ outer.success]

Return ==
    /\ calls # <<>> /\ ~AtLine
    /\ IF Len(calls) = 1
       THEN /\ done' = Top.success
            /\ calls' = <<>>
       ELSE /\ calls' = Append(Front(Front(calls)), Returned(Last(Front(calls)), Top))
            /\ UNCHANGED done
    /\ UNCHANGED <<lines, mVertex, mFragment>>

\* compile() takes the sources of a load that succeeded; that is all.
Compiled == calls = <<>> /\ UNCHANGED loading

LoaderNext == Text \/ Section \/ Invalid \/ IncludeMissing \/ Include \/ Return \/ Compiled

LoaderSpec == LoaderInit /\ [][LoaderNext]_loading

-----------------------------------------------------------------------------
(* Properties *)

LineAt(place) == lines[place.file][place.line]

\* The sources consist of lines of text, and a call is at a line of its file or
\* behind the last one.
LoaderTypeOK ==
    /\ \A source \in {mVertex, mFragment} : \A k \in DOMAIN source :
          LineAt(Last(source[k])).kind = "text"
    /\ \A k \in DOMAIN calls :
          /\ calls[k].line \in 1 .. Len(lines[calls[k].file]) + 1
          /\ calls[k].what \in Sections
          /\ calls[k].success \in BOOLEAN
    /\ done \in BOOLEAN \cup {Running}

\* The text that the files stand for, as the places of its lines: a route starts
\* in the root and leads from an %include line into the file that is included.
Places == UNION {{[file |-> f, line |-> k] : k \in DOMAIN lines[f]} : f \in Files}
Routes ==
    {r \in BoundedSeq(Places, Cardinality(Files)) :
        /\ r # <<>> /\ r[1].file = Root
        /\ \A i \in DOMAIN r \ {1} : LineAt(r[i - 1]) = IncludeLine(r[i].file)}

\* The order of the text: what parts two routes is a line of one file.
PartsAt(r, q, i) ==
    /\ i \in DOMAIN r \cap DOMAIN q
    /\ \A h \in 1 .. i - 1 : r[h].file = q[h].file /\ r[h].line = q[h].line
    /\ r[i].file = q[i].file /\ r[i].line < q[i].line
Before(r, q) == \E i \in DOMAIN r : PartsAt(r, q, i)

\* The section in force at the n-th place of a route: that of the last directive above
\* it in its file, or else of the last one above the %include of that file, and
\* so on. An invalid one means both shaders, as does none at all.
DirectivesAbove(place) ==
    {j \in 1 .. place.line - 1 : lines[place.file][j].kind \in Sections \cup {"%invalid"}}
Declared(kind) == IF kind = "%invalid" THEN "%common" ELSE kind
InForce(r, n, s) ==
    \/ s = "%common" /\ \A i \in 1 .. n : DirectivesAbove(r[i]) = {}
    \/ \E i \in 1 .. n : \E j \in DirectivesAbove(r[i]) :
          /\ \A k \in DirectivesAbove(r[i]) : k <= j
          /\ \A h \in i + 1 .. n : DirectivesAbove(r[h]) = {}
          /\ s = Declared(lines[r[i].file][j].kind)

TextOf(sections) ==
    {r \in Routes : LineAt(Last(r)).kind = "text" /\ \E s \in sections : InForce(r, Len(r), s)}
InOrder(source) == \A j, k \in DOMAIN source : j < k => Before(source[j], source[k])

IsWrong(r) == LineAt(Last(r)) \in {PlainLine("%invalid"), IncludeLine(Missing)}

\* When the load returns, both sources hold the lines of their sections in the
\* order of the text, with every include in its place and none of its sections
\* reaching beyond it, and the result tells whether anything was wrong in any
\* file, however deep and however early.
ExpandedAsWritten ==
    /\ LoaderTypeOK
    /\ done # Running =>
          /\ Range(mVertex) = TextOf({"%vertex", "%common"}) /\ InOrder(mVertex)
          /\ Range(mFragment) = TextOf({"%fragment", "%common"}) /\ InOrder(mFragment)
          /\ done = ~\E r \in Routes : IsWrong(r)
=============================================================================
