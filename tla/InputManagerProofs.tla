------------------------ MODULE InputManagerProofs -------------------------
(***************************************************************************)
(* Proofs about InputManager. Two invariants: InputInv says what every     *)
(* observer has been told (all that the sets say, except those that the    *)
(* pass on top still has to call), HeldInv why anything is down (somebody  *)
(* holds it or what it imitates, or a task on the stack brings it up).     *)
(***************************************************************************)
EXTENDS InputManager, TLAPS

\* Tasks, by what their argument is. What is left of a pass is a tail of Observers.
Kinds == {"begin", "move", "end", "cancel"}
Lists ==
    {s \in Seq(Elements(Observers)) :
        /\ \A j, k \in DOMAIN s : s[j] = s[k] => j = k
        /\ s # <<>> => s[Len(s)] = Observers[Len(Observers)]}

ButtonEmits == {"emitPress", "emitRelease", "emitButtonCancel", "emitMouseMove"}
FingerEmits == {"emitBegin", "emitMove", "emitEnd", "emitCancel"}
KeyEmits == {"emitKeyPress", "emitKeyRelease"}
Loops == {"resetKeys", "resetButtons", "resetTouches"}
ButtonEvents == {"pressed", "released", "buttonCancelled", "mouseMoved"}
FingerEvents == {"began", "moved", "ended", "cancelled"}
KeyEvents == {"keyPress", "keyRelease"}

Tasks ==
    [op : ButtonEmits, arg : Buttons, left : {<<>>}]
    \cup [op : FingerEmits, arg : Fingers, left : {<<>>}]
    \cup [op : KeyEmits, arg : Keys, left : {<<>>}]
    \cup [op : Loops, arg : Buttons, left : {<<>>}]
    \cup [op : {"emulateTouch", "emulateMouse"}, arg : Kinds, left : {<<>>}]
Passes ==
    [op : ButtonEvents, arg : Buttons, left : Lists]
    \cup [op : FingerEvents, arg : Fingers, left : Lists]
    \cup [op : KeyEvents, arg : Keys, left : Lists]
Jobs == Tasks \cup Passes

\* Only the pass on top has somebody left to tell.
Calm ==
    /\ work \in Seq(Jobs)
    /\ work # <<>> => \A t \in Elements(Tail(work)) : t.left = <<>>

\* What an observer has seen that is yet to be told of event e about x.
Before(e, x, seen, known) ==
    /\ e \in {"pressed", "began"} =>
           <<Downs[e], x>> \in known /\ seen = known \ {<<Downs[e], x>>}
    /\ e = "keyPress" =>
           <<"key", x>> \in known /\ (seen = known \/ seen = known \ {<<"key", x>>})
    /\ e \in DOMAIN Ups =>
           <<Ups[e], x>> \notin known /\ seen = known \cup {<<Ups[e], x>>}
    /\ e \in Moves => seen = known
    /\ e = "moved" => <<"finger", x>> \in known

Untold == IF work = <<>> THEN {} ELSE Elements(Head(work).left)
Views ==
    \A o \in Elements(Observers) :
        IF o \in Untold THEN Before(Head(work).op, Head(work).arg, view[o], Known)
        ELSE view[o] = Known

InputInv == TypeOK /\ Calm /\ Views

\* Why something is down: it is held, it is about to be brought up, or it imitates
\* what is held or whose release is about to be imitated.
UpTasks == [button |-> {"emitRelease", "emitButtonCancel"},
            finger |-> {"emitEnd", "emitCancel"}, key |-> {"emitKeyRelease"}]
ResetTask == [button |-> "resetButtons", finger |-> "resetTouches", key |-> "resetKeys"]

Brings(t, d) ==
    \/ t.op \in UpTasks[d[1]] /\ t.arg = d[2]
    \/ t.op = ResetTask[d[1]]

Releasing(op) == \E t \in Elements(work) : t.op = op /\ t.arg \in {"end", "cancel"}

ImitatesFinger ==
    /\ mEmulateMouseFromTouches
    /\ <<"finger", 0>> \in held \/ Releasing("emulateMouse")

ImitatesMouse ==
    /\ mEmulateTouchesFromMouse
    /\ <<"button", Left>> \in held \/ Releasing("emulateTouch")

Reason(d) ==
    \/ d \in held
    \/ \E t \in Elements(work) : Brings(t, d)
    \/ d = <<"button", Left>> /\ ImitatesFinger
    \/ d = <<"finger", 0>> /\ ImitatesMouse

Reasons == \A d \in Known : Reason(d)

\* What is about to be brought down is held, or imitates what is.
Downward(t) ==
    /\ t.op = "emitPress" =>
          \/ <<"button", t.arg>> \in held
          \/ t.arg = Left /\ <<"finger", 0>> \in held /\ mEmulateMouseFromTouches
    /\ t.op = "emitBegin" =>
          \/ <<"finger", t.arg>> \in held
          \/ t.arg = 0 /\ <<"button", Left>> \in held /\ mEmulateTouchesFromMouse
    /\ t.op = "emitKeyPress" => <<"key", t.arg>> \in held
    /\ t.op = "emulateMouse" /\ t.arg = "begin" => <<"finger", 0>> \in held
    /\ t.op = "emulateTouch" /\ t.arg = "begin" => <<"button", Left>> \in held

\* An emulated begin is made at once: no callback comes between.
BeginsAtOnce ==
    work # <<>> => \A t \in Elements(Tail(work)) : t.op # "emitBegin"

HeldInv == Reasons /\ BeginsAtOnce /\ \A t \in Elements(work) : Downward(t)


-----------------------------------------------------------------------------
(* Sequences of tasks *)

LEMMA Splits ==
    ASSUME NEW S, NEW w \in Seq(S), w # <<>>
    PROVE  /\ Head(w) \in S
           /\ Tail(w) \in Seq(S)
           /\ Elements(w) = {Head(w)} \cup Elements(Tail(w))
<1>1. Head(w) = w[1] /\ 1 \in DOMAIN w
  OBVIOUS
<1>2. Tail(w) \in Seq(S) /\ Len(Tail(w)) = Len(w) - 1 /\ Len(w) \in Nat
  OBVIOUS
<1>3. \A k \in DOMAIN w : k # 1 => k - 1 \in DOMAIN Tail(w) /\ w[k] = Tail(w)[k - 1]
  BY <1>2
<1>4. \A k \in DOMAIN Tail(w) : k + 1 \in DOMAIN w /\ w[k + 1] = Tail(w)[k]
  BY <1>2
<1> QED
  BY <1>1, <1>2, <1>3, <1>4 DEF Elements

LEMMA Joined ==
    ASSUME NEW S, NEW a \in Seq(S), NEW w \in Seq(S)
    PROVE  Elements(a \o w) = Elements(a) \cup Elements(w)
<1> DEFINE s == a \o w
<1>1. s \in Seq(S) /\ Len(s) = Len(a) + Len(w) /\ Len(a) \in Nat /\ Len(w) \in Nat
  OBVIOUS
<1>2. \A k \in DOMAIN a : k \in DOMAIN s /\ s[k] = a[k]
  BY <1>1
<1>3. \A k \in DOMAIN w : k + Len(a) \in DOMAIN s /\ s[k + Len(a)] = w[k]
  BY <1>1
<1>4. \A k \in DOMAIN s :
          \/ k \in DOMAIN a /\ s[k] = a[k]
          \/ k - Len(a) \in DOMAIN w /\ s[k] = w[k - Len(a)]
  BY <1>1
<1> HIDE DEF s
<1>5. \A x : x \in Elements(s) <=> \E k \in DOMAIN s : s[k] = x
  BY DEF Elements
<1>6. \A x : x \in Elements(a) <=> \E k \in DOMAIN a : a[k] = x
  BY DEF Elements
<1>7. \A x : x \in Elements(w) <=> \E k \in DOMAIN w : w[k] = x
  BY DEF Elements
<1>8. ASSUME NEW x \in Elements(s)
      PROVE  x \in Elements(a) \cup Elements(w)
  <2>1. PICK k \in DOMAIN s : s[k] = x
    BY <1>5, <1>8
  <2> QED
    BY <2>1, <1>4, <1>6, <1>7
<1>9. Elements(a) \cup Elements(w) \subseteq Elements(s)
  <2>1. ASSUME NEW x \in Elements(a) PROVE x \in Elements(s)
    BY <2>1, <1>2, <1>5, <1>6
  <2>2. ASSUME NEW x \in Elements(w) PROVE x \in Elements(s)
    <3>1. PICK k \in DOMAIN w : w[k] = x
      BY <2>2, <1>7
    <3>2. k + Len(a) \in DOMAIN s /\ s[k + Len(a)] = x
      BY <3>1, <1>3
    <3> QED
      BY <3>2, <1>5
  <2> QED
    BY <2>1, <2>2
<1>10. Elements(s) = Elements(a) \cup Elements(w)
  BY <1>8, <1>9
<1> QED
  BY <1>10 DEF s

LEMMA Pushed ==
    ASSUME NEW S, NEW a \in Seq(S), NEW w \in Seq(S)
    PROVE  /\ a \o w \in Seq(S)
           /\ Elements(a \o w) = Elements(a) \cup Elements(w)
           /\ a = <<>> => a \o w = w
           /\ a # <<>> => /\ a \o w # <<>>
                          /\ Head(a \o w) = Head(a)
                          /\ Elements(Tail(a \o w)) = Elements(Tail(a)) \cup Elements(w)
<1>1. a \o w \in Seq(S)
  OBVIOUS
<1>2. a = <<>> => a \o w = w
  OBVIOUS
<1>3. ASSUME a # <<>>
      PROVE  /\ a \o w # <<>>
             /\ Head(a \o w) = Head(a)
             /\ Elements(Tail(a \o w)) = Elements(Tail(a)) \cup Elements(w)
  <2>1. a \o w # <<>> /\ Head(a \o w) = Head(a) /\ Tail(a \o w) = Tail(a) \o w
    BY <1>3
  <2>2. Tail(a) \in Seq(S)
    BY <1>3
  <2>3. Elements(Tail(a) \o w) = Elements(Tail(a)) \cup Elements(w)
    BY <2>2, Joined
  <2> QED
    BY <2>1, <2>3
<1> QED
  BY <1>1, <1>2, <1>3, Joined

LEMMA None == ASSUME NEW S PROVE <<>> \in Seq(S) /\ Elements(<<>>) = {}
BY DEF Elements

LEMMA One ==
    ASSUME NEW S, NEW a \in S
    PROVE  /\ <<a>> \in Seq(S) /\ Elements(<<a>>) = {a}
           /\ <<a>> # <<>> /\ Head(<<a>>) = a /\ Elements(Tail(<<a>>)) = {}
<1>1. Tail(<<a>>) = <<>>
  OBVIOUS
<1> QED
  BY <1>1, None DEF Elements

LEMMA Two ==
    ASSUME NEW S, NEW a \in S, NEW b \in S
    PROVE  /\ <<a, b>> \in Seq(S) /\ Elements(<<a, b>>) = {a, b}
           /\ <<a, b>> # <<>> /\ Head(<<a, b>>) = a /\ Elements(Tail(<<a, b>>)) = {b}
<1>1. Tail(<<a, b>>) = <<b>>
  OBVIOUS
<1> QED
  BY <1>1, One DEF Elements

LEMMA Three ==
    ASSUME NEW S, NEW a \in S, NEW b \in S, NEW c \in S
    PROVE  <<a, b, c>> \in Seq(S) /\ Elements(<<a, b, c>>) = {a, b, c}
BY DEF Elements

\* What the operation of a task says of its other fields.
LEMMA JobFacts ==
    ASSUME NEW t \in Jobs
    PROVE  /\ t.op \in ButtonEmits => t.arg \in Buttons /\ t.left = <<>>
           /\ t.op \in FingerEmits => t.arg \in Fingers /\ t.left = <<>>
           /\ t.op \in KeyEmits => t.arg \in Keys /\ t.left = <<>>
           /\ t.op \in Loops => t.arg \in Buttons /\ t.left = <<>>
           /\ t.op \in {"emulateTouch", "emulateMouse"} => t.arg \in Kinds /\ t.left = <<>>
           /\ t.op \in ButtonEvents => t.arg \in Buttons
           /\ t.op \in FingerEvents => t.arg \in Fingers
           /\ t.op \in KeyEvents => t.arg \in Keys
           /\ t.op \in Notifications \/ t.left = <<>>
           /\ t.left \in Lists
<1>1. <<>> \in Lists
  BY DEF Lists
<1>2. CASE t \in Tasks
  BY <1>1, <1>2 DEF Tasks, ButtonEmits, FingerEmits, KeyEmits, Loops, ButtonEvents,
     FingerEvents, KeyEvents
<1>3. CASE t \in Passes
  BY <1>3 DEF Passes, ButtonEmits, FingerEmits, KeyEmits, Loops, ButtonEvents,
     FingerEvents, KeyEvents, Notifications, Downs, Ups, Moves
<1> QED
  BY <1>2, <1>3 DEF Jobs

-----------------------------------------------------------------------------
(* What one step does to the stack, the sets and the views *)

\* TypeOK, without what Calm says of the stack.
Fields ==
    /\ mPressedMouseButtons \subseteq Buttons
    /\ mPressedFingers \subseteq Fingers
    /\ mPressedKeys \subseteq Keys
    /\ mEmulateTouchesFromMouse \in BOOLEAN
    /\ mEmulateMouseFromTouches \in BOOLEAN
    /\ held \subseteq Devices
    /\ view \in [Elements(Observers) -> SUBSET Devices]

LEMMA FieldsDo == Calm /\ Fields => TypeOK
<1> SUFFICES ASSUME Calm, Fields
             PROVE  \A k \in DOMAIN work : Elements(work[k].left) \subseteq Elements(Observers)
  BY DEF Fields, TypeOK
<1> TAKE k \in DOMAIN work
<1>1. work[k] \in Jobs
  BY DEF Calm
<1>2. work[k].left \in Seq(Elements(Observers))
  BY <1>1, JobFacts DEF Lists
<1> QED
  BY <1>2 DEF Elements

\* Everybody has been told of everything, unless the task on top is a pass.
LEMMA Settled ==
    ASSUME InputInv, work = <<>> \/ Head(work).left = <<>>
    PROVE  Untold = {} /\ \A o \in Elements(Observers) : view[o] = Known
<1>1. Untold = {}
  BY DEF Untold, Elements
<1> QED
  BY <1>1 DEF InputInv, Views

LEMMA Replaced ==
    ASSUME Calm, work # <<>>, NEW tasks \in Seq(Jobs), work' = tasks \o Tail(work),
           tasks # <<>> => \A t \in Elements(Tail(tasks)) : t.left = <<>>
    PROVE  /\ Calm'
           /\ Elements(work') = Elements(tasks) \cup Elements(Tail(work))
           /\ Untold' = IF tasks = <<>> THEN {} ELSE Elements(Head(tasks).left)
           /\ tasks = <<>> => work' = Tail(work)
           /\ tasks # <<>> =>
                  /\ work' # <<>> /\ Head(work') = Head(tasks)
                  /\ Elements(Tail(work')) = Elements(Tail(tasks)) \cup Elements(Tail(work))
<1> DEFINE rest == Tail(work)
<1>1. rest \in Seq(Jobs) /\ \A t \in Elements(rest) : t.left = <<>>
  BY Splits DEF Calm
<1>2. work' = tasks \o rest
  OBVIOUS
<1> HIDE DEF rest
<1>3. /\ work' \in Seq(Jobs)
      /\ Elements(work') = Elements(tasks) \cup Elements(rest)
      /\ tasks = <<>> => work' = rest
      /\ tasks # <<>> => /\ work' # <<>> /\ Head(work') = Head(tasks)
                         /\ Elements(Tail(work')) = Elements(Tail(tasks)) \cup Elements(rest)
  <2>1. /\ tasks \o rest \in Seq(Jobs)
        /\ Elements(tasks \o rest) = Elements(tasks) \cup Elements(rest)
        /\ tasks = <<>> => tasks \o rest = rest
        /\ tasks # <<>> =>
               /\ tasks \o rest # <<>> /\ Head(tasks \o rest) = Head(tasks)
               /\ Elements(Tail(tasks \o rest)) = Elements(Tail(tasks)) \cup Elements(rest)
    BY <1>1, Pushed
  <2> QED
    BY <1>2, <2>1
<1>4. CASE tasks # <<>>
  <2>1. Calm'
    BY <1>1, <1>3, <1>4 DEF Calm
  <2>2. Untold' = Elements(Head(tasks).left)
    BY <1>3, <1>4 DEF Untold
  <2> QED
    BY <1>3, <1>4, <2>1, <2>2 DEF rest
<1>5. CASE tasks = <<>> /\ rest = <<>>
  <2>1. work' = <<>>
    BY <1>3, <1>5
  <2> QED
    BY <1>3, <1>5, <2>1 DEF rest, Calm, Untold
<1>6. CASE tasks = <<>> /\ rest # <<>>
  <2>1. Head(rest).left = <<>> /\ \A t \in Elements(Tail(rest)) : t.left = <<>>
    BY <1>1, <1>6, Splits
  <2>2. Calm'
    BY <1>1, <1>3, <1>6, <2>1 DEF Calm
  <2>3. Untold' = Elements(<<>>)
    BY <1>3, <1>6, <2>1 DEF Untold
  <2>4. Elements(<<>>) = {}
    BY DEF Elements
  <2> QED
    BY <1>3, <1>6, <2>2, <2>3, <2>4 DEF rest
<1> QED
  BY <1>4, <1>5, <1>6

\* The sets that say what is down, as one set.
LEMMA KnownIs ==
    ASSUME NEW x
    PROVE  /\ <<"button", x>> \in Known <=> x \in mPressedMouseButtons
           /\ <<"finger", x>> \in Known <=> x \in mPressedFingers
           /\ <<"key", x>> \in Known <=> x \in mPressedKeys
BY DEF Known

LEMMA KnownType == TypeOK => Known \subseteq Devices
BY DEF Known, TypeOK, Devices

LEMMA ButtonsChange ==
    ASSUME NEW x, UNCHANGED <<mPressedFingers, mPressedKeys>>
    PROVE  /\ mPressedMouseButtons' = mPressedMouseButtons \cup {x} =>
                  Known' = Known \cup {<<"button", x>>}
           /\ mPressedMouseButtons' = mPressedMouseButtons \ {x} =>
                  Known' = Known \ {<<"button", x>>}
<1>1. ASSUME mPressedMouseButtons' = mPressedMouseButtons \cup {x}
      PROVE  Known' = Known \cup {<<"button", x>>}
  BY <1>1 DEF Known
<1>2. ASSUME mPressedMouseButtons' = mPressedMouseButtons \ {x}
      PROVE  Known' = Known \ {<<"button", x>>}
  BY <1>2 DEF Known
<1> QED
  BY <1>1, <1>2

LEMMA FingersChange ==
    ASSUME NEW x, UNCHANGED <<mPressedMouseButtons, mPressedKeys>>
    PROVE  /\ mPressedFingers' = mPressedFingers \cup {x} =>
                  Known' = Known \cup {<<"finger", x>>}
           /\ mPressedFingers' = mPressedFingers \ {x} =>
                  Known' = Known \ {<<"finger", x>>}
<1>1. ASSUME mPressedFingers' = mPressedFingers \cup {x}
      PROVE  Known' = Known \cup {<<"finger", x>>}
  BY <1>1 DEF Known
<1>2. ASSUME mPressedFingers' = mPressedFingers \ {x}
      PROVE  Known' = Known \ {<<"finger", x>>}
  BY <1>2 DEF Known
<1> QED
  BY <1>1, <1>2

LEMMA KeysChange ==
    ASSUME NEW x, UNCHANGED <<mPressedMouseButtons, mPressedFingers>>
    PROVE  /\ mPressedKeys' = mPressedKeys \cup {x} => Known' = Known \cup {<<"key", x>>}
           /\ mPressedKeys' = mPressedKeys \ {x} => Known' = Known \ {<<"key", x>>}
<1>1. ASSUME mPressedKeys' = mPressedKeys \cup {x}
      PROVE  Known' = Known \cup {<<"key", x>>}
  BY <1>1 DEF Known
<1>2. ASSUME mPressedKeys' = mPressedKeys \ {x}
      PROVE  Known' = Known \ {<<"key", x>>}
  BY <1>2 DEF Known
<1> QED
  BY <1>1, <1>2

\* A step that tells nobody anything.
LEMMA Quietly ==
    ASSUME InputInv, work # <<>>, Head(work).left = <<>>, UNCHANGED <<view, pressed>>,
           NEW tasks \in Seq(Jobs), work' = tasks \o Tail(work),
           \A t \in Elements(tasks) : t.left = <<>>, Fields'
    PROVE  InputInv'
<1>1. tasks # <<>> => /\ Head(tasks).left = <<>>
                      /\ \A t \in Elements(Tail(tasks)) : t.left = <<>>
  BY Splits
<1>2. Calm' /\ Untold' = IF tasks = <<>> THEN {} ELSE Elements(Head(tasks).left)
  BY <1>1, Replaced DEF InputInv
<1>3. Elements(<<>>) = {}
  BY DEF Elements
<1>4. Untold' = {}
  BY <1>1, <1>2, <1>3
<1>5. Known' = Known
  BY DEF Known, pressed
<1>6. Views'
  BY <1>4, <1>5, Settled DEF Views
<1> QED
  BY <1>2, <1>6, FieldsDo, PTL DEF InputInv

\* A step that starts a pass: nobody has heard of it yet.
LEMMA Announces ==
    ASSUME InputInv, work # <<>>, Head(work).left = <<>>, UNCHANGED view,
           NEW e, NEW x, Pass(e, x) \in Jobs, work' = <<Pass(e, x)>> \o Tail(work),
           Before(e, x, Known, Known'), Fields'
    PROVE  InputInv'
<1> DEFINE tasks == <<Pass(e, x)>>
<1>1. /\ tasks \in Seq(Jobs) /\ tasks # <<>> /\ Head(tasks) = Pass(e, x)
      /\ Elements(Tail(tasks)) = {}
  BY One
<1>2. work' = tasks \o Tail(work)
  OBVIOUS
<1> HIDE DEF tasks
<1>3. /\ Calm' /\ Untold' = Elements(Pass(e, x).left)
      /\ work' # <<>> /\ Head(work') = Pass(e, x)
  BY <1>1, <1>2, Replaced DEF InputInv
<1>4. Untold' = Elements(Observers) /\ Head(work').op = e /\ Head(work').arg = x
  BY <1>3 DEF Pass
<1>5. Views'
  BY <1>4, Settled DEF Views
<1> QED
  BY <1>3, <1>5, FieldsDo, PTL DEF InputInv

\* A call made when none is under way.
LEMMA Begins ==
    ASSUME InputInv, work = <<>>, UNCHANGED <<view, pressed>>, work' \in Seq(Jobs),
           \A t \in Elements(work') : t.left = <<>>, Fields'
    PROVE  InputInv'
<1>1. work' # <<>> => /\ Head(work').left = <<>>
                      /\ \A t \in Elements(Tail(work')) : t.left = <<>>
  BY Splits
<1>2. Calm'
  BY <1>1 DEF Calm
<1>3. Elements(<<>>) = {}
  BY DEF Elements
<1>4. Untold' = {}
  BY <1>1, <1>3 DEF Untold
<1>5. Known' = Known
  BY DEF Known, pressed
<1>6. Views'
  BY <1>4, <1>5, Settled DEF Views
<1> QED
  BY <1>2, <1>6, FieldsDo, PTL DEF InputInv

\* A step that only takes the task off the stack.
LEMMA TakenOff ==
    ASSUME InputInv, work # <<>>, Head(work).left = <<>>, UNCHANGED <<view, pressed>>,
           work' = <<>> \o Tail(work), Fields'
    PROVE  InputInv'
<1>1. <<>> \in Seq(Jobs) /\ Elements(<<>>) = {}
  BY DEF Elements
<1> QED
  BY <1>1, Quietly

LEMMA PassJobs ==
    ASSUME NEW e, NEW x,
           \/ e \in ButtonEvents /\ x \in Buttons
           \/ e \in FingerEvents /\ x \in Fingers
           \/ e \in KeyEvents /\ x \in Keys
    PROVE  Pass(e, x) \in Jobs
<1>1. Observers \in Lists
  BY InputAssumption DEF Lists
<1> QED
  BY <1>1 DEF Pass, Jobs, Passes

\* The task on top, where a step of the stack is taken.
LEMMA OnTop ==
    ASSUME InputInv, work # <<>>
    PROVE  Head(work) \in Jobs
BY Splits DEF InputInv, Calm

-----------------------------------------------------------------------------
(* emit*() *)

LEMMA PressStep == InputInv /\ EmitPress => InputInv'
<1> SUFFICES ASSUME InputInv, EmitPress
             PROVE  InputInv'
  OBVIOUS
<1>1. /\ work # <<>> /\ Head(work).left = <<>>
      /\ Arg \in Buttons
  BY OnTop, JobFacts DEF EmitPress, Doing, Arg, ButtonEmits
<1>2. PICK x \in Buttons : x = Arg
  BY <1>1
<1>3. Fields' /\ UNCHANGED view
  BY <1>2 DEF InputInv, TypeOK, Fields, EmitPress, emulation
<1>4. CASE x \in mPressedMouseButtons
  <2>1. UNCHANGED <<view, pressed>> /\ work' = <<>> \o Tail(work)
    BY <1>2, <1>4 DEF EmitPress, Continue, pressed
  <2> QED
    BY <1>1, <1>3, <2>1, TakenOff
<1>5. CASE x \notin mPressedMouseButtons
  <2>1. Known' = Known \cup {<<"button", x>>} /\ <<"button", x>> \notin Known
    BY <1>2, <1>5, ButtonsChange, KnownIs DEF EmitPress
  <2>2. Before("pressed", x, Known, Known')
    BY <2>1 DEF Before, Downs, Ups, Moves
  <2>3. work' = <<Pass("pressed", x)>> \o Tail(work)
    BY <1>2, <1>5 DEF EmitPress, Continue
  <2>4. Pass("pressed", x) \in Jobs
    BY <1>2, PassJobs DEF ButtonEvents
  <2> QED
    BY <1>1, <1>3, <2>2, <2>3, <2>4, Announces
<1> QED
  BY <1>4, <1>5

LEMMA ButtonUpStep == InputInv /\ EmitButtonUp => InputInv'
<1> SUFFICES ASSUME InputInv, EmitButtonUp
             PROVE  InputInv'
  OBVIOUS
<1>1. /\ work # <<>> /\ Head(work).left = <<>>
      /\ Arg \in Buttons
  BY OnTop, JobFacts DEF EmitButtonUp, Doing, Arg, ButtonEmits
<1>2. PICK x \in Buttons : x = Arg
  BY <1>1
<1>3. Fields' /\ UNCHANGED view
  BY <1>2 DEF InputInv, TypeOK, Fields, EmitButtonUp, emulation
<1>4. CASE x \notin mPressedMouseButtons
  <2>1. UNCHANGED <<view, pressed>> /\ work' = <<>> \o Tail(work)
    BY <1>2, <1>4 DEF EmitButtonUp, Continue, pressed
  <2> QED
    BY <1>1, <1>3, <2>1, TakenOff
<1>5. CASE x \in mPressedMouseButtons
  <2>1. Known' = Known \ {<<"button", x>>} /\ <<"button", x>> \in Known
    BY <1>2, <1>5, ButtonsChange, KnownIs DEF EmitButtonUp
  <2>2. PICK e \in {"released", "buttonCancelled"} : work' = <<Pass(e, x)>> \o Tail(work)
    BY <1>2, <1>5 DEF EmitButtonUp, Continue
  <2>3. Before(e, x, Known, Known')
    BY <2>1, <2>2 DEF Before, Downs, Ups, Moves
  <2>4. Pass(e, x) \in Jobs
    BY <1>2, <2>2, PassJobs DEF ButtonEvents
  <2> QED
    BY <1>1, <1>3, <2>2, <2>3, <2>4, Announces
<1> QED
  BY <1>4, <1>5

LEMMA MouseMoveStep == InputInv /\ EmitMouseMove => InputInv'
<1> SUFFICES ASSUME InputInv, EmitMouseMove
             PROVE  InputInv'
  OBVIOUS
<1>1. /\ work # <<>> /\ Head(work).left = <<>>
      /\ Arg \in Buttons
  BY OnTop, JobFacts DEF EmitMouseMove, Doing, Arg, ButtonEmits
<1>2. PICK x \in Buttons : x = Arg
  BY <1>1
<1>3. Fields' /\ UNCHANGED view
  BY DEF InputInv, TypeOK, Fields, EmitMouseMove, emulation, pressed
<1>4. Known' = Known
  BY DEF EmitMouseMove, pressed, Known
<1>5. Before("mouseMoved", x, Known, Known')
  BY <1>4 DEF Before, Downs, Ups, Moves
<1>6. work' = <<Pass("mouseMoved", x)>> \o Tail(work)
  BY <1>2 DEF EmitMouseMove, Continue
<1>7. Pass("mouseMoved", x) \in Jobs
  BY <1>2, PassJobs DEF ButtonEvents
<1> QED
  BY <1>1, <1>3, <1>5, <1>6, <1>7, Announces

LEMMA BeginStep == InputInv /\ EmitBegin => InputInv'
<1> SUFFICES ASSUME InputInv, EmitBegin
             PROVE  InputInv'
  OBVIOUS
<1>1. /\ work # <<>> /\ Head(work).left = <<>>
      /\ Arg \in Fingers
  BY OnTop, JobFacts DEF EmitBegin, Doing, Arg, FingerEmits
<1>2. PICK x \in Fingers : x = Arg
  BY <1>1
<1>3. Fields' /\ UNCHANGED view
  BY <1>2 DEF InputInv, TypeOK, Fields, EmitBegin, emulation
<1>4. CASE x \in mPressedFingers
  <2>1. UNCHANGED <<view, pressed>> /\ work' = <<>> \o Tail(work)
    BY <1>2, <1>4 DEF EmitBegin, Continue, pressed
  <2> QED
    BY <1>1, <1>3, <2>1, TakenOff
<1>5. CASE x \notin mPressedFingers
  <2>1. Known' = Known \cup {<<"finger", x>>} /\ <<"finger", x>> \notin Known
    BY <1>2, <1>5, FingersChange, KnownIs DEF EmitBegin
  <2>2. Before("began", x, Known, Known')
    BY <2>1 DEF Before, Downs, Ups, Moves
  <2>3. work' = <<Pass("began", x)>> \o Tail(work)
    BY <1>2, <1>5 DEF EmitBegin, Continue
  <2>4. Pass("began", x) \in Jobs
    BY <1>2, PassJobs DEF FingerEvents
  <2> QED
    BY <1>1, <1>3, <2>2, <2>3, <2>4, Announces
<1> QED
  BY <1>4, <1>5

LEMMA MoveStep == InputInv /\ EmitMove => InputInv'
<1> SUFFICES ASSUME InputInv, EmitMove
             PROVE  InputInv'
  OBVIOUS
<1>1. /\ work # <<>> /\ Head(work).left = <<>>
      /\ Arg \in Fingers
  BY OnTop, JobFacts DEF EmitMove, Doing, Arg, FingerEmits
<1>2. PICK x \in Fingers : x = Arg
  BY <1>1
<1>3. Fields' /\ UNCHANGED <<view, pressed>>
  BY DEF InputInv, TypeOK, Fields, EmitMove, emulation, pressed
<1>4. CASE x \notin mPressedFingers
  <2>1. work' = <<>> \o Tail(work)
    BY <1>2, <1>4 DEF EmitMove, Continue
  <2> QED
    BY <1>1, <1>3, <2>1, TakenOff
<1>5. CASE x \in mPressedFingers
  <2>1. Known' = Known /\ <<"finger", x>> \in Known
    BY <1>3, <1>5, KnownIs DEF Known, pressed
  <2>2. Before("moved", x, Known, Known')
    BY <2>1 DEF Before, Downs, Ups, Moves
  <2>3. work' = <<Pass("moved", x)>> \o Tail(work)
    BY <1>2, <1>5 DEF EmitMove, Continue
  <2>4. Pass("moved", x) \in Jobs
    BY <1>2, PassJobs DEF FingerEvents
  <2> QED
    BY <1>1, <1>3, <2>2, <2>3, <2>4, Announces
<1> QED
  BY <1>4, <1>5

LEMMA TouchUpStep == InputInv /\ EmitTouchUp => InputInv'
<1> SUFFICES ASSUME InputInv, EmitTouchUp
             PROVE  InputInv'
  OBVIOUS
<1>1. /\ work # <<>> /\ Head(work).left = <<>>
      /\ Arg \in Fingers
  BY OnTop, JobFacts DEF EmitTouchUp, Doing, Arg, FingerEmits
<1>2. PICK x \in Fingers : x = Arg
  BY <1>1
<1>3. Fields' /\ UNCHANGED view
  BY <1>2 DEF InputInv, TypeOK, Fields, EmitTouchUp, emulation
<1>4. CASE x \notin mPressedFingers
  <2>1. UNCHANGED <<view, pressed>> /\ work' = <<>> \o Tail(work)
    BY <1>2, <1>4 DEF EmitTouchUp, Continue, pressed
  <2> QED
    BY <1>1, <1>3, <2>1, TakenOff
<1>5. CASE x \in mPressedFingers
  <2>1. Known' = Known \ {<<"finger", x>>} /\ <<"finger", x>> \in Known
    BY <1>2, <1>5, FingersChange, KnownIs DEF EmitTouchUp
  <2>2. PICK e \in {"ended", "cancelled"} : work' = <<Pass(e, x)>> \o Tail(work)
    BY <1>2, <1>5 DEF EmitTouchUp, Continue
  <2>3. Before(e, x, Known, Known')
    BY <2>1, <2>2 DEF Before, Downs, Ups, Moves
  <2>4. Pass(e, x) \in Jobs
    BY <1>2, <2>2, PassJobs DEF FingerEvents
  <2> QED
    BY <1>1, <1>3, <2>2, <2>3, <2>4, Announces
<1> QED
  BY <1>4, <1>5

\* A key press is passed on although the key is down: the system repeats it.
LEMMA KeyPressStep == InputInv /\ EmitKeyPress => InputInv'
<1> SUFFICES ASSUME InputInv, EmitKeyPress
             PROVE  InputInv'
  OBVIOUS
<1>1. /\ work # <<>> /\ Head(work).left = <<>>
      /\ Arg \in Keys
  BY OnTop, JobFacts DEF EmitKeyPress, Doing, Arg, KeyEmits
<1>2. PICK x \in Keys : x = Arg
  BY <1>1
<1>3. Fields' /\ UNCHANGED view
  BY <1>2 DEF InputInv, TypeOK, Fields, EmitKeyPress, emulation
<1>4. Known' = Known \cup {<<"key", x>>}
  BY <1>2, KeysChange DEF EmitKeyPress
<1>5. Before("keyPress", x, Known, Known')
  BY <1>4 DEF Before, Downs, Ups, Moves
<1>6. work' = <<Pass("keyPress", x)>> \o Tail(work)
  BY <1>2 DEF EmitKeyPress, Continue
<1>7. Pass("keyPress", x) \in Jobs
  BY <1>2, PassJobs DEF KeyEvents
<1> QED
  BY <1>1, <1>3, <1>5, <1>6, <1>7, Announces

LEMMA KeyReleaseStep == InputInv /\ EmitKeyRelease => InputInv'
<1> SUFFICES ASSUME InputInv, EmitKeyRelease
             PROVE  InputInv'
  OBVIOUS
<1>1. /\ work # <<>> /\ Head(work).left = <<>>
      /\ Arg \in Keys
  BY OnTop, JobFacts DEF EmitKeyRelease, Doing, Arg, KeyEmits
<1>2. PICK x \in Keys : x = Arg
  BY <1>1
<1>3. Fields' /\ UNCHANGED view
  BY <1>2 DEF InputInv, TypeOK, Fields, EmitKeyRelease, emulation
<1>4. CASE x \notin mPressedKeys
  <2>1. UNCHANGED <<view, pressed>> /\ work' = <<>> \o Tail(work)
    BY <1>2, <1>4 DEF EmitKeyRelease, Continue, pressed
  <2> QED
    BY <1>1, <1>3, <2>1, TakenOff
<1>5. CASE x \in mPressedKeys
  <2>1. Known' = Known \ {<<"key", x>>} /\ <<"key", x>> \in Known
    BY <1>2, <1>5, KeysChange, KnownIs DEF EmitKeyRelease
  <2>2. Before("keyRelease", x, Known, Known')
    BY <2>1 DEF Before, Downs, Ups, Moves
  <2>3. work' = <<Pass("keyRelease", x)>> \o Tail(work)
    BY <1>2, <1>5 DEF EmitKeyRelease, Continue
  <2>4. Pass("keyRelease", x) \in Jobs
    BY <1>2, PassJobs DEF KeyEvents
  <2> QED
    BY <1>1, <1>3, <2>2, <2>3, <2>4, Announces
<1> QED
  BY <1>4, <1>5

-----------------------------------------------------------------------------
(* The emulation branches, the reset loops and the calls *)

\* A task that none of the observers hears of is carried out by others.
LEMMA CarriedOut ==
    ASSUME InputInv, work # <<>>, Head(work).left = <<>>, UNCHANGED <<pressed, held, view>>,
           mEmulateTouchesFromMouse' \in BOOLEAN, mEmulateMouseFromTouches' \in BOOLEAN,
           NEW tasks \in Seq(Tasks), work' = tasks \o Tail(work)
    PROVE  InputInv'
<1>1. tasks \in Seq(Jobs) /\ \A t \in Elements(tasks) : t.left = <<>>
  BY DEF Jobs, Tasks, Elements
<1>2. Fields'
  BY DEF InputInv, TypeOK, Fields, pressed
<1> QED
  BY <1>1, <1>2, Quietly

LEMMA TaskTypes ==
    /\ \A b \in Buttons : \A op \in ButtonEmits : Task(op, b) \in Tasks
    /\ \A f \in Fingers : \A op \in FingerEmits : Task(op, f) \in Tasks
    /\ \A k \in Keys : \A op \in KeyEmits : Task(op, k) \in Tasks
    /\ \A op \in Loops : Task(op, Left) \in Tasks
    /\ \A kind \in Kinds : Task("emulateTouch", kind) \in Tasks
    /\ \A kind \in Kinds : Task("emulateMouse", kind) \in Tasks
BY InputAssumption DEF Task, Tasks

LEMMA TouchTasksAre ==
    ASSUME NEW kind \in Kinds
    PROVE  /\ TouchTasks(kind) \in Seq(Tasks) /\ TouchTasks(kind) # <<>>
           /\ Elements(Tail(TouchTasks(kind))) \subseteq {Task("emitEnd", 0), Task("emitCancel", 0)}
           /\ kind = "begin" => Elements(TouchTasks(kind)) = {Task("emitBegin", 0)}
           /\ kind = "move" => Elements(TouchTasks(kind)) = {Task("emitMove", 0)}
           /\ kind = "end" =>
                  Elements(TouchTasks(kind)) = {Task("emitMove", 0), Task("emitEnd", 0)}
           /\ kind = "cancel" =>
                  Elements(TouchTasks(kind)) = {Task("emitMove", 0), Task("emitCancel", 0)}
<1>1. \A op \in FingerEmits : Task(op, 0) \in Tasks
  BY TaskTypes, InputAssumption
<1>2. CASE kind = "begin"
  <2>1. PICK t \in Tasks : t = Task("emitBegin", 0)
    BY <1>1 DEF FingerEmits
  <2>2. TouchTasks(kind) = <<t>>
    BY <1>2, <2>1 DEF TouchTasks
  <2>3. /\ <<t>> \in Seq(Tasks) /\ <<t>> # <<>>
        /\ Elements(<<t>>) = {t} /\ Elements(Tail(<<t>>)) = {}
    BY One
  <2> QED
    BY <1>2, <2>1, <2>2, <2>3
<1>3. CASE kind = "move"
  <2>1. PICK t \in Tasks : t = Task("emitMove", 0)
    BY <1>1 DEF FingerEmits
  <2>2. TouchTasks(kind) = <<t>>
    BY <1>3, <2>1 DEF TouchTasks
  <2>3. /\ <<t>> \in Seq(Tasks) /\ <<t>> # <<>>
        /\ Elements(<<t>>) = {t} /\ Elements(Tail(<<t>>)) = {}
    BY One
  <2> QED
    BY <1>3, <2>1, <2>2, <2>3
<1>4. CASE kind = "end"
  <2>1. PICK t \in Tasks, u \in Tasks :
            t = Task("emitMove", 0) /\ u = Task("emitEnd", 0)
    BY <1>1 DEF FingerEmits
  <2>2. TouchTasks(kind) = <<t, u>>
    BY <1>4, <2>1 DEF TouchTasks
  <2>3. /\ <<t, u>> \in Seq(Tasks) /\ <<t, u>> # <<>>
        /\ Elements(<<t, u>>) = {t, u} /\ Elements(Tail(<<t, u>>)) = {u}
    BY Two
  <2> QED
    BY <1>4, <2>1, <2>2, <2>3
<1>5. CASE kind = "cancel"
  <2>1. PICK t \in Tasks, u \in Tasks :
            t = Task("emitMove", 0) /\ u = Task("emitCancel", 0)
    BY <1>1 DEF FingerEmits
  <2>2. TouchTasks(kind) = <<t, u>>
    BY <1>5, <2>1 DEF TouchTasks
  <2>3. /\ <<t, u>> \in Seq(Tasks) /\ <<t, u>> # <<>>
        /\ Elements(<<t, u>>) = {t, u} /\ Elements(Tail(<<t, u>>)) = {u}
    BY Two
  <2> QED
    BY <1>5, <2>1, <2>2, <2>3
<1> QED
  BY <1>2, <1>3, <1>4, <1>5 DEF Kinds

LEMMA MouseTasksAre ==
    ASSUME NEW kind \in Kinds
    PROVE  /\ MouseTasks(kind) \in Seq(Tasks) /\ MouseTasks(kind) # <<>>
           /\ kind = "begin" => Elements(MouseTasks(kind)) =
                  {Task("emitMouseMove", Left), Task("emitPress", Left)}
           /\ kind = "move" => Elements(MouseTasks(kind)) = {Task("emitMouseMove", Left)}
           /\ kind = "end" => Elements(MouseTasks(kind)) =
                  {Task("emitMouseMove", Left), Task("emitRelease", Left)}
           /\ kind = "cancel" => Elements(MouseTasks(kind)) =
                  {Task("emitMouseMove", Left), Task("emitButtonCancel", Left)}
<1>1. \A op \in ButtonEmits : Task(op, Left) \in Tasks
  BY TaskTypes, InputAssumption
<1>2. CASE kind = "begin"
  <2>1. PICK t \in Tasks, u \in Tasks :
            t = Task("emitMouseMove", Left) /\ u = Task("emitPress", Left)
    BY <1>1 DEF ButtonEmits
  <2>2. MouseTasks(kind) = <<t, u>>
    BY <1>2, <2>1 DEF MouseTasks
  <2>3. /\ <<t, u>> \in Seq(Tasks) /\ <<t, u>> # <<>>
        /\ Elements(<<t, u>>) = {t, u} /\ Elements(Tail(<<t, u>>)) = {u}
    BY Two
  <2> QED
    BY <1>2, <2>1, <2>2, <2>3
<1>3. CASE kind = "move"
  <2>1. PICK t \in Tasks : t = Task("emitMouseMove", Left)
    BY <1>1 DEF ButtonEmits
  <2>2. MouseTasks(kind) = <<t>>
    BY <1>3, <2>1 DEF MouseTasks
  <2>3. /\ <<t>> \in Seq(Tasks) /\ <<t>> # <<>>
        /\ Elements(<<t>>) = {t} /\ Elements(Tail(<<t>>)) = {}
    BY One
  <2> QED
    BY <1>3, <2>1, <2>2, <2>3
<1>4. CASE kind = "end"
  <2>1. PICK t \in Tasks, u \in Tasks :
            t = Task("emitMouseMove", Left) /\ u = Task("emitRelease", Left)
    BY <1>1 DEF ButtonEmits
  <2>2. MouseTasks(kind) = <<t, u>>
    BY <1>4, <2>1 DEF MouseTasks
  <2>3. /\ <<t, u>> \in Seq(Tasks) /\ <<t, u>> # <<>>
        /\ Elements(<<t, u>>) = {t, u} /\ Elements(Tail(<<t, u>>)) = {u}
    BY Two
  <2> QED
    BY <1>4, <2>1, <2>2, <2>3
<1>5. CASE kind = "cancel"
  <2>1. PICK t \in Tasks, u \in Tasks :
            t = Task("emitMouseMove", Left) /\ u = Task("emitButtonCancel", Left)
    BY <1>1 DEF ButtonEmits
  <2>2. MouseTasks(kind) = <<t, u>>
    BY <1>5, <2>1 DEF MouseTasks
  <2>3. /\ <<t, u>> \in Seq(Tasks) /\ <<t, u>> # <<>>
        /\ Elements(<<t, u>>) = {t, u} /\ Elements(Tail(<<t, u>>)) = {u}
    BY Two
  <2> QED
    BY <1>5, <2>1, <2>2, <2>3
<1> QED
  BY <1>2, <1>3, <1>4, <1>5 DEF Kinds

LEMMA EmulationStep == InputInv /\ (EmulateTouch \/ EmulateMouse) => InputInv'
<1> SUFFICES ASSUME InputInv, EmulateTouch \/ EmulateMouse
             PROVE  InputInv'
  OBVIOUS
<1>1. /\ work # <<>> /\ Head(work).left = <<>>
      /\ Arg \in Kinds
  BY OnTop, JobFacts DEF EmulateTouch, EmulateMouse, Doing, Arg
<1>2. PICK kind \in Kinds : kind = Arg
  BY <1>1
<1>3. UNCHANGED <<pressed, emulation, held, view>>
  BY DEF EmulateTouch, EmulateMouse
<1>4. \/ work' = <<>> \o Tail(work)
      \/ work' = TouchTasks(kind) \o Tail(work)
      \/ work' = MouseTasks(kind) \o Tail(work)
  BY <1>2 DEF EmulateTouch, EmulateMouse, Continue
<1>5. PICK tasks \in Seq(Tasks) : work' = tasks \o Tail(work)
  <2>1. /\ <<>> \in Seq(Tasks)
        /\ TouchTasks(kind) \in Seq(Tasks)
        /\ MouseTasks(kind) \in Seq(Tasks)
    BY None, TouchTasksAre, MouseTasksAre
  <2> QED
    BY <1>4, <2>1
<1>6. mEmulateTouchesFromMouse' \in BOOLEAN /\ mEmulateMouseFromTouches' \in BOOLEAN
  BY <1>3 DEF InputInv, TypeOK, emulation
<1> QED
  BY <1>1, <1>3, <1>5, <1>6, CarriedOut

LEMMA LoopStep ==
    InputInv /\ (ResetKeyPresses \/ ResetMouseButtons \/ ResetTouches) => InputInv'
<1> SUFFICES ASSUME InputInv, ResetKeyPresses \/ ResetMouseButtons \/ ResetTouches
             PROVE  InputInv'
  OBVIOUS
<1>1. work # <<>> /\ Head(work).op \in Loops
  BY DEF ResetKeyPresses, ResetMouseButtons, ResetTouches, ResetLoop, Doing, Loops
<1>2. Head(work) \in Tasks /\ Head(work).left = <<>>
  <2>1. Head(work) \in Jobs
    BY <1>1, OnTop
  <2> QED
    BY <1>1, <2>1, JobFacts DEF Jobs, Passes, Loops, ButtonEvents, FingerEvents, KeyEvents
<1>3. UNCHANGED <<pressed, emulation, held, view>>
  BY DEF ResetKeyPresses, ResetMouseButtons, ResetTouches, ResetLoop
<1>4. \/ work' = <<>> \o Tail(work)
      \/ \E t \in Tasks : work' = <<t>> \o work
  <2>1. CASE ResetKeyPresses
    BY <2>1, TaskTypes DEF ResetKeyPresses, ResetLoop, Continue, KeyEmits, InputInv, TypeOK
  <2>2. CASE ResetMouseButtons
    BY <2>2, TaskTypes DEF ResetMouseButtons, ResetLoop, Continue, ButtonEmits, InputInv, TypeOK
  <2>3. CASE ResetTouches
    BY <2>3, TaskTypes DEF ResetTouches, ResetLoop, Continue, FingerEmits, InputInv, TypeOK
  <2> QED
    BY <2>1, <2>2, <2>3
<1>5. \A t : <<t>> \o work = <<t, Head(work)>> \o Tail(work)
  <2>1. work \in Seq(Jobs)
    BY DEF InputInv, Calm
  <2> QED
    BY <1>1, <2>1
<1>6. \/ work' = <<>> \o Tail(work)
      \/ \E t \in Tasks : work' = <<t, Head(work)>> \o Tail(work)
  BY <1>4, <1>5
<1>7. PICK tasks \in Seq(Tasks) : work' = tasks \o Tail(work)
  <2>1. CASE work' = <<>> \o Tail(work)
    BY <2>1, None
  <2>2. ASSUME NEW t \in Tasks, work' = <<t, Head(work)>> \o Tail(work)
        PROVE  \E tasks \in Seq(Tasks) : work' = tasks \o Tail(work)
    <3>1. <<t, Head(work)>> \in Seq(Tasks)
      BY <1>2, <2>2
    <3> QED
      BY <2>2, <3>1
  <2> QED
    BY <1>6, <2>1, <2>2
<1>8. mEmulateTouchesFromMouse' \in BOOLEAN /\ mEmulateMouseFromTouches' \in BOOLEAN
  BY <1>3 DEF InputInv, TypeOK, emulation
<1> QED
  BY <1>1, <1>2, <1>3, <1>7, <1>8, CarriedOut

\* What a call starts are resets.
LEMMA StartedIs ==
    ASSUME NEW call
    PROVE  /\ Started(call) \in Seq(Tasks)
           /\ \A t \in Elements(Started(call)) : t.op \in Loops /\ t.left = <<>>
           /\ call = "touchesOff" =>
                  Elements(Started(call)) = {Task("resetTouches", Left)}
           /\ call = "mouseOff" =>
                  Elements(Started(call)) = {Task("resetButtons", Left)}
<1>1. \A op \in Loops :
          Task(op, Left) \in Tasks /\ Task(op, Left).op = op /\ Task(op, Left).left = <<>>
  BY TaskTypes DEF Task
<1>2. CASE call = "resetAll"
  <2>1. Started(call) =
            <<Task("resetKeys", Left), Task("resetButtons", Left), Task("resetTouches", Left)>>
    BY <1>2 DEF Started, ResetAllTasks
  <2>2. /\ Started(call) \in Seq(Tasks)
        /\ Elements(Started(call)) =
               {Task("resetKeys", Left), Task("resetButtons", Left), Task("resetTouches", Left)}
    BY <1>1, <2>1, Three DEF Loops
  <2> QED
    BY <1>1, <1>2, <2>2 DEF Loops
<1>3. CASE call = "touchesOff"
  <2>1. Started(call) = <<Task("resetTouches", Left)>>
    BY <1>3 DEF Started
  <2>2. Started(call) \in Seq(Tasks) /\ Elements(Started(call)) = {Task("resetTouches", Left)}
    BY <1>1, <2>1, One DEF Loops
  <2> QED
    BY <1>1, <1>3, <2>2 DEF Loops
<1>4. CASE call = "mouseOff"
  <2>1. Started(call) = <<Task("resetButtons", Left)>>
    BY <1>4 DEF Started
  <2>2. Started(call) \in Seq(Tasks) /\ Elements(Started(call)) = {Task("resetButtons", Left)}
    BY <1>1, <2>1, One DEF Loops
  <2> QED
    BY <1>1, <1>4, <2>2 DEF Loops
<1>5. CASE call \notin {"resetAll", "touchesOff", "mouseOff"}
  <2>1. Started(call) = <<>>
    BY <1>5 DEF Started
  <2>2. Started(call) \in Seq(Tasks) /\ Elements(Started(call)) = {}
    BY <2>1 DEF Elements
  <2> QED
    BY <1>5, <2>2
<1> QED
  BY <1>2, <1>3, <1>4, <1>5

LEMMA FlagTypes ==
    ASSUME InputInv, NEW call, SetFlags(call)
    PROVE  mEmulateTouchesFromMouse' \in BOOLEAN /\ mEmulateMouseFromTouches' \in BOOLEAN
BY DEF InputInv, TypeOK, SetFlags

LEMMA CallStep == ASSUME InputInv, NEW call, TopLevelCall(call) PROVE InputInv'
<1>1. work = <<>> /\ work' = Started(call) /\ UNCHANGED <<view, pressed, held>>
  BY DEF TopLevelCall
<1>2. mEmulateTouchesFromMouse' \in BOOLEAN /\ mEmulateMouseFromTouches' \in BOOLEAN
  BY FlagTypes DEF TopLevelCall
<1>3. Fields'
  BY <1>1, <1>2 DEF InputInv, TypeOK, Fields, pressed
<1>4. work' \in Seq(Jobs) /\ \A t \in Elements(work') : t.left = <<>>
  BY <1>1, StartedIs DEF Jobs
<1> QED
  BY <1>1, <1>3, <1>4, Begins

-----------------------------------------------------------------------------
(* One observer of a pass is called *)

Rest(t) == [t EXCEPT !.left = Tail(@)]

LEMMA RestIs ==
    ASSUME NEW t \in Jobs, t.op \in Notifications, t.left # <<>>
    PROVE  /\ Rest(t) \in Jobs
           /\ Rest(t).op = t.op /\ Rest(t).arg = t.arg /\ Rest(t).left = Tail(t.left)
           /\ Elements(t.left) = {Head(t.left)} \cup Elements(Tail(t.left))
           /\ Head(t.left) \in Elements(Observers)
           /\ Head(t.left) \notin Elements(Tail(t.left))
           /\ Elements(t.left) \subseteq Elements(Observers)
           /\ Head(t.left) = Observers[Len(Observers)] => Tail(t.left) = <<>>
<1>1. t \in Passes
  BY DEF Jobs, Tasks, ButtonEmits, FingerEmits, KeyEmits, Loops, Notifications, Downs, Ups, Moves
<1> DEFINE s == t.left
<1>2. s \in Lists /\ s # <<>>
  BY <1>1 DEF Passes
<1> HIDE DEF s
<1>3. s \in Seq(Elements(Observers)) /\ s[Len(s)] = Observers[Len(Observers)]
      /\ \A j, k \in DOMAIN s : s[j] = s[k] => j = k
  BY <1>2 DEF Lists
<1>4. /\ Tail(s) \in Seq(Elements(Observers)) /\ Len(s) \in Nat /\ Len(s) # 0
      /\ Len(Tail(s)) = Len(s) - 1 /\ Head(s) = s[1]
      /\ \A k \in DOMAIN Tail(s) : k + 1 \in DOMAIN s /\ Tail(s)[k] = s[k + 1]
  BY <1>2, <1>3
<1>5. Tail(s) \in Lists
  <2>1. \A j, k \in DOMAIN Tail(s) : Tail(s)[j] = Tail(s)[k] => j = k
    <3> TAKE j, k \in DOMAIN Tail(s)
    <3> HAVE Tail(s)[j] = Tail(s)[k]
    <3>1. j + 1 = k + 1
      BY <1>3, <1>4
    <3>2. j \in Int /\ k \in Int
      BY <1>4
    <3> QED
      BY <3>1, <3>2
  <2>2. Tail(s) # <<>> => Tail(s)[Len(Tail(s))] = s[Len(s)]
    BY <1>3, <1>4
  <2> QED
    BY <1>3, <1>4, <2>1, <2>2 DEF Lists
<1>6. Head(s) \notin Elements(Tail(s))
  <2> SUFFICES ASSUME NEW k \in DOMAIN Tail(s), Tail(s)[k] = Head(s)
               PROVE  FALSE
    BY DEF Elements
  <2>1. k + 1 = 1 /\ k \in Nat \ {0}
    BY <1>3, <1>4
  <2> QED
    BY <2>1
<1>7. Elements(s) = {Head(s)} \cup Elements(Tail(s)) /\ Head(s) \in Elements(Observers)
  BY <1>2, <1>3, Splits
<1>8. Head(s) = Observers[Len(Observers)] => Tail(s) = <<>>
  <2> HAVE Head(s) = Observers[Len(Observers)]
  <2>1. 1 = Len(s)
    BY <1>3, <1>4
  <2>2. Len(Tail(s)) = 0
    <3>1. Len(Tail(s)) = Len(s) - 1
      BY <1>4
    <3> QED
      BY <2>1, <3>1
  <2>3. \A w \in Seq(Elements(Observers)) : Len(w) = 0 => w = <<>>
    OBVIOUS
  <2> QED
    BY <1>4, <2>2, <2>3
<1>9. Elements(s) \subseteq Elements(Observers)
  BY <1>3 DEF Elements
<1>10. /\ Rest(t) \in Passes
       /\ Rest(t).op = t.op /\ Rest(t).arg = t.arg /\ Rest(t).left = Tail(t.left)
  BY <1>1, <1>5 DEF s, Passes, Rest
<1> QED
  BY <1>6, <1>7, <1>8, <1>9, <1>10 DEF s, Jobs

LEMMA ToldOne ==
    ASSUME NEW e \in Notifications, NEW x, NEW seen, NEW known, Before(e, x, seen, known)
    PROVE  Told(seen, e, x) = known
<1>1. DOMAIN Downs = {"pressed", "began", "keyPress"}
  BY DEF Downs
<1>2. DOMAIN Ups = {"released", "buttonCancelled", "ended", "cancelled", "keyRelease"}
  BY DEF Ups
<1>3. CASE e \in {"pressed", "began"}
  BY <1>1, <1>3 DEF Before, Told
<1>4. CASE e = "keyPress"
  <2>1. Downs[e] = "key"
    BY <1>4 DEF Downs
  <2>2. Told(seen, e, x) = seen \cup {<<"key", x>>}
    BY <1>1, <1>4, <2>1 DEF Told
  <2>3. <<"key", x>> \in known /\ (seen = known \/ seen = known \ {<<"key", x>>})
    BY <1>4 DEF Before
  <2> QED
    BY <2>2, <2>3
<1>5. CASE e \in DOMAIN Ups
  <2>1. <<Ups[e], x>> \notin known /\ seen = known \cup {<<Ups[e], x>>}
    BY <1>5 DEF Before
  <2>2. Told(seen, e, x) = seen \ {<<Ups[e], x>>}
    BY <1>1, <1>2, <1>5 DEF Told
  <2> QED
    BY <2>1, <2>2
<1>6. CASE e \in Moves
  BY <1>1, <1>2, <1>6 DEF Before, Told, Moves
<1> QED
  BY <1>1, <1>3, <1>4, <1>5, <1>6 DEF Notifications

LEMMA NotifyStep == InputInv /\ Notify => InputInv'
<1> SUFFICES ASSUME InputInv, Notify
             PROVE  InputInv'
  OBVIOUS
<1>1. work # <<>> /\ UNCHANGED <<pressed, held>>
  BY DEF Notify
<1>2. PICK t \in Jobs : t = Head(work)
  BY <1>1, OnTop
<1>3. t.op \in Notifications
  BY <1>2 DEF Notify
<1>4. CASE t.left = <<>>
  <2>1. work' = <<>> \o Tail(work) /\ UNCHANGED <<emulation, view>>
    BY <1>2, <1>4 DEF Notify, Continue
  <2>2. Fields'
    BY <1>1, <2>1 DEF InputInv, TypeOK, Fields, emulation, pressed
  <2> QED
    BY <1>1, <1>2, <1>4, <2>1, <2>2, TakenOff
<1>5. CASE t.left # <<>>
  <2> DEFINE o == Head(t.left)
             late == Elements(Tail(t.left))
  <2>1. /\ Rest(t) \in Jobs
        /\ Rest(t).op = t.op /\ Rest(t).arg = t.arg /\ Rest(t).left = Tail(t.left)
        /\ Elements(t.left) = {o} \cup late
        /\ o \in Elements(Observers) /\ o \notin late
        /\ Elements(t.left) \subseteq Elements(Observers)
        /\ o = Observers[Len(Observers)] => Tail(t.left) = <<>>
    BY <1>3, <1>5, RestIs
  <2>2. view' = [view EXCEPT ![o] = Told(@, t.op, t.arg)]
    BY <1>2, <1>5 DEF Notify
  <2>3. \/ work' = <<Rest(t)>> \o Tail(work) /\ UNCHANGED emulation
        \/ /\ o \in Reactive
           /\ \E call \in Reactions :
                  SetFlags(call) /\ work' = (Started(call) \o <<Rest(t)>>) \o Tail(work)
    BY <1>2, <1>5 DEF Notify, Continue, Rest
  <2> HIDE DEF o, late
  <2>4. mEmulateTouchesFromMouse' \in BOOLEAN /\ mEmulateMouseFromTouches' \in BOOLEAN
    BY <2>3, FlagTypes DEF InputInv, TypeOK, emulation
  <2>5. /\ Calm' /\ Untold' = late
        /\ Untold' # {} => /\ Head(work').op = t.op
                           /\ Head(work').arg = t.arg
    <3>1. CASE work' = <<Rest(t)>> \o Tail(work)
      <4>1. /\ <<Rest(t)>> \in Seq(Jobs) /\ <<Rest(t)>> # <<>> /\ Head(<<Rest(t)>>) = Rest(t)
            /\ Elements(Tail(<<Rest(t)>>)) = {}
        BY <2>1, One
      <4>2. Calm' /\ Untold' = Elements(Rest(t).left) /\ Head(work') = Rest(t)
        <5> DEFINE tasks == <<Rest(t)>>
        <5> HIDE DEF tasks
        <5>1. /\ tasks \in Seq(Jobs) /\ tasks # <<>> /\ Head(tasks) = Rest(t)
              /\ Elements(Tail(tasks)) = {} /\ work' = tasks \o Tail(work)
          BY <3>1, <4>1 DEF tasks
        <5> QED
          BY <1>1, <5>1, Replaced DEF InputInv
      <4> QED
        BY <2>1, <4>2 DEF late
    <3>2. ASSUME o \in Reactive, NEW call \in Reactions,
                 work' = (Started(call) \o <<Rest(t)>>) \o Tail(work)
          PROVE  Calm' /\ Untold' = late /\ Untold' = {}
      <4>1. Rest(t).left = <<>> /\ late = {}
        BY <2>1, <3>2, InputAssumption, None DEF late
      <4>2. PICK tasks : tasks = Started(call) \o <<Rest(t)>>
        OBVIOUS
      <4>3. /\ tasks \in Seq(Jobs) /\ tasks # <<>>
            /\ \A q \in Elements(tasks) : q.left = <<>>
        <5>1. Started(call) \in Seq(Jobs) /\ \A q \in Elements(Started(call)) : q.left = <<>>
          BY StartedIs DEF Jobs
        <5>2. <<Rest(t)>> \in Seq(Jobs) /\ Elements(<<Rest(t)>>) = {Rest(t)}
          BY <2>1, One
        <5>3. Started(call) \o <<Rest(t)>> # <<>>
          BY <5>1, <5>2
        <5>4. /\ Started(call) \o <<Rest(t)>> \in Seq(Jobs)
              /\ Elements(Started(call) \o <<Rest(t)>>) =
                     Elements(Started(call)) \cup Elements(<<Rest(t)>>)
          <6>1. \A v, w \in Seq(Jobs) :
                    v \o w \in Seq(Jobs) /\ Elements(v \o w) = Elements(v) \cup Elements(w)
            BY Joined
          <6> QED
            BY <5>1, <5>2, <6>1
        <5> QED
          BY <4>1, <4>2, <5>1, <5>2, <5>3, <5>4
      <4>4. Head(tasks).left = <<>> /\ \A q \in Elements(Tail(tasks)) : q.left = <<>>
        BY <4>3, Splits
      <4>5. Calm' /\ Untold' = Elements(Head(tasks).left)
        BY <1>1, <3>2, <4>2, <4>3, <4>4, Replaced DEF InputInv
      <4> QED
        BY <4>1, <4>4, <4>5, None
    <3> QED
      BY <2>3, <3>1, <3>2
  <2>6. Untold = {o} \cup late
    BY <1>1, <1>2, <2>1 DEF Untold
  <2>7. Before(t.op, t.arg, view[o], Known) /\ \A q \in late : Before(t.op, t.arg, view[q], Known)
    BY <1>2, <2>1, <2>6 DEF InputInv, Views
  <2>8. \A q \in Elements(Observers) : q \notin Untold => view[q] = Known
    BY DEF InputInv, Views
  <2>9. Told(view[o], t.op, t.arg) = Known
    BY <1>3, <2>7, ToldOne
  <2>10. /\ view \in [Elements(Observers) -> SUBSET Devices]
         /\ Known \subseteq Devices /\ Known' = Known
    BY <1>1, KnownType DEF InputInv, TypeOK, Known, pressed
  <2>11. \A q \in Elements(Observers) : view'[q] = IF q = o THEN Known ELSE view[q]
    BY <2>1, <2>2, <2>9, <2>10
  <2>12. view' \in [Elements(Observers) -> SUBSET Devices]
    BY <2>1, <2>2, <2>9, <2>10
  <2>13. Views'
    <3> SUFFICES ASSUME NEW q \in Elements(Observers)
                 PROVE  IF q \in Untold'
                        THEN Before(Head(work').op, Head(work').arg, view'[q], Known')
                        ELSE view'[q] = Known'
      BY DEF Views
    <3>1. CASE q \in Untold'
      <4>1. q \in late /\ q # o
        BY <3>1, <2>5, <2>1
      <4> QED
        BY <3>1, <4>1, <2>5, <2>7, <2>10, <2>11
    <3>2. CASE q \notin Untold'
      BY <3>2, <2>5, <2>6, <2>8, <2>10, <2>11
    <3> QED
      BY <3>1, <3>2
  <2>14. Fields'
    BY <1>1, <2>4, <2>12 DEF InputInv, TypeOK, Fields, pressed
  <2> QED
    BY <2>5, <2>13, <2>14, FieldsDo, PTL DEF InputInv
<1> QED
  BY <1>4, <1>5

-----------------------------------------------------------------------------
(* inject*() *)

LEMMA BranchIs ==
    ASSUME NEW op \in {"emulateTouch", "emulateMouse"}, NEW kind \in Kinds, NEW which, NEW chosen
    PROVE  /\ Branch(op, kind, which, chosen) \in Seq(Tasks)
           /\ Elements(Branch(op, kind, which, chosen)) =
                  IF which = chosen THEN {Task(op, kind)} ELSE {}
<1>1. Task(op, kind) \in Tasks
  BY TaskTypes
<1>2. <<Task(op, kind)>> \in Seq(Tasks) /\ Elements(<<Task(op, kind)>>) = {Task(op, kind)}
  BY <1>1, One
<1> QED
  BY <1>2, None DEF Branch

LEMMA Injects ==
    ASSUME InputInv, NEW tasks \in Seq(Tasks), Inject(tasks), held' \subseteq Devices
    PROVE  InputInv'
<1>1. work = <<>> /\ work' = tasks /\ UNCHANGED <<view, pressed, emulation>>
  BY DEF Inject
<1>2. tasks \in Seq(Jobs) /\ \A t \in Elements(tasks) : t.left = <<>>
  BY DEF Jobs, Tasks, Elements
<1>3. Fields'
  BY <1>1 DEF InputInv, TypeOK, Fields, pressed, emulation
<1>4. work' \in Seq(Jobs) /\ \A t \in Elements(work') : t.left = <<>>
  BY <1>1, <1>2
<1> QED
  BY <1>1, <1>3, <1>4, Begins

\* A task or two, and what is behind them.
LEMMA OneThen ==
    ASSUME NEW t \in Tasks, NEW more \in Seq(Tasks)
    PROVE  /\ <<t>> \o more \in Seq(Tasks) /\ <<t>> \o more # <<>>
           /\ Elements(<<t>> \o more) = {t} \cup Elements(more)
           /\ Elements(Tail(<<t>> \o more)) = Elements(more)
<1>1. PICK first : first = <<t>>
  OBVIOUS
<1>2. /\ first \in Seq(Tasks) /\ first # <<>>
      /\ Elements(first) = {t} /\ Elements(Tail(first)) = {}
  BY <1>1, One
<1>3. /\ first \o more \in Seq(Tasks) /\ first \o more # <<>>
      /\ Elements(first \o more) = Elements(first) \cup Elements(more)
      /\ Elements(Tail(first \o more)) = Elements(Tail(first)) \cup Elements(more)
  BY <1>2, Pushed
<1> QED
  BY <1>1, <1>2, <1>3

LEMMA TwoThen ==
    ASSUME NEW t \in Tasks, NEW u \in Tasks, NEW more \in Seq(Tasks)
    PROVE  /\ <<t, u>> \o more \in Seq(Tasks) /\ <<t, u>> \o more # <<>>
           /\ Elements(<<t, u>> \o more) = {t, u} \cup Elements(more)
           /\ Elements(Tail(<<t, u>> \o more)) = {u} \cup Elements(more)
<1>1. PICK first : first = <<t, u>>
  OBVIOUS
<1>2. /\ first \in Seq(Tasks) /\ first # <<>>
      /\ Elements(first) = {t, u} /\ Elements(Tail(first)) = {u}
  BY <1>1, Two
<1>3. /\ first \o more \in Seq(Tasks) /\ first \o more # <<>>
      /\ Elements(first \o more) = Elements(first) \cup Elements(more)
      /\ Elements(Tail(first \o more)) = Elements(Tail(first)) \cup Elements(more)
  BY <1>2, Pushed
<1> QED
  BY <1>1, <1>2, <1>3

LEMMA HeldTypes ==
    ASSUME InputInv
    PROVE  /\ \A x \in Buttons : held \cup {<<"button", x>>} \subseteq Devices
           /\ \A x \in Fingers : held \cup {<<"finger", x>>} \subseteq Devices
           /\ \A x \in Keys : held \cup {<<"key", x>>} \subseteq Devices
           /\ \A d : held \ {d} \subseteq Devices
BY DEF InputInv, TypeOK, Devices

LEMMA InjectPressDoes ==
    ASSUME InputInv, NEW b \in Buttons, InjectMouseButtonPress(b)
    PROVE  /\ InputInv' /\ work' # <<>>
           /\ Elements(work') = {Task("emitPress", b)}
                  \cup (IF b = Left THEN {Task("emulateTouch", "begin")} ELSE {})
           /\ Elements(Tail(work')) \subseteq {Task("emulateTouch", "begin")}
<1>1. PICK more : more = Branch("emulateTouch", "begin", b, Left)
  OBVIOUS
<1>2. Task("emitPress", b) \in Tasks
  BY TaskTypes DEF ButtonEmits
<1>3. /\ more \in Seq(Tasks)
      /\ Elements(more) = IF b = Left THEN {Task("emulateTouch", "begin")} ELSE {}
  BY <1>1, BranchIs DEF Kinds
<1>4. PICK tasks : tasks = <<Task("emitPress", b)>> \o more
  OBVIOUS
<1>5. /\ tasks \in Seq(Tasks) /\ tasks # <<>>
      /\ Elements(tasks) = {Task("emitPress", b)} \cup Elements(more)
      /\ Elements(Tail(tasks)) = Elements(more)
  BY <1>2, <1>3, <1>4, OneThen
<1>6. Inject(tasks) /\ held' \subseteq Devices
  BY <1>1, <1>4, HeldTypes DEF InjectMouseButtonPress
<1>7. InputInv' /\ work' = tasks
  BY <1>5, <1>6, Injects DEF Inject
<1> QED
  BY <1>3, <1>5, <1>7

LEMMA InjectButtonUpDoes ==
    ASSUME InputInv, NEW b \in Buttons, NEW kind \in {"end", "cancel"},
           InjectMouseButtonUp(b, kind)
    PROVE  /\ InputInv' /\ work' # <<>>
           /\ \E op \in {"emitRelease", "emitButtonCancel"} :
                  Elements(work') = {Task(op, b)}
                      \cup (IF b = Left THEN {Task("emulateTouch", kind)} ELSE {})
           /\ Elements(Tail(work')) \subseteq {Task("emulateTouch", kind)}
<1>1. PICK op \in {"emitRelease", "emitButtonCancel"} :
          Inject(<<Task(op, b)>> \o Branch("emulateTouch", kind, b, Left))
  BY DEF InjectMouseButtonUp
<1>2. PICK more : more = Branch("emulateTouch", kind, b, Left)
  OBVIOUS
<1>3. Task(op, b) \in Tasks
  BY TaskTypes DEF ButtonEmits
<1>4. /\ more \in Seq(Tasks)
      /\ Elements(more) = IF b = Left THEN {Task("emulateTouch", kind)} ELSE {}
  BY <1>2, BranchIs DEF Kinds
<1>5. PICK tasks : tasks = <<Task(op, b)>> \o more
  OBVIOUS
<1>6. /\ tasks \in Seq(Tasks) /\ tasks # <<>>
      /\ Elements(tasks) = {Task(op, b)} \cup Elements(more)
      /\ Elements(Tail(tasks)) = Elements(more)
  BY <1>3, <1>4, <1>5, OneThen
<1>7. Inject(tasks) /\ held' \subseteq Devices
  BY <1>1, <1>2, <1>5, HeldTypes DEF InjectMouseButtonUp
<1>8. InputInv' /\ work' = tasks
  BY <1>6, <1>7, Injects DEF Inject
<1> QED
  BY <1>4, <1>6, <1>8

LEMMA InjectMouseMoveDoes ==
    ASSUME InputInv, InjectMouseMove
    PROVE  /\ InputInv' /\ work' # <<>>
           /\ Elements(work') = {Task("emitMouseMove", Left), Task("emulateTouch", "move")}
           /\ Elements(Tail(work')) = {Task("emulateTouch", "move")}
<1>1. PICK tasks : tasks = <<Task("emitMouseMove", Left), Task("emulateTouch", "move")>>
  OBVIOUS
<1>2. Task("emitMouseMove", Left) \in Tasks /\ Task("emulateTouch", "move") \in Tasks
  BY TaskTypes, InputAssumption DEF ButtonEmits, Kinds
<1>3. /\ tasks \in Seq(Tasks) /\ tasks # <<>>
      /\ Elements(tasks) = {Task("emitMouseMove", Left), Task("emulateTouch", "move")}
      /\ Elements(Tail(tasks)) = {Task("emulateTouch", "move")}
  BY <1>1, <1>2, Two
<1>4. Inject(tasks) /\ held' \subseteq Devices
  BY <1>1 DEF InjectMouseMove, InputInv, TypeOK
<1> QED
  BY <1>3, <1>4, Injects DEF Inject

LEMMA InjectTouchBeginDoes ==
    ASSUME InputInv, NEW f \in Fingers, InjectTouchBegin(f)
    PROVE  /\ InputInv' /\ work' # <<>>
           /\ Elements(work') = {Task("emitBegin", f)}
                  \cup (IF f = 0 THEN {Task("emulateMouse", "begin")} ELSE {})
           /\ Elements(Tail(work')) \subseteq {Task("emulateMouse", "begin")}
<1>1. PICK more : more = Branch("emulateMouse", "begin", f, 0)
  OBVIOUS
<1>2. Task("emitBegin", f) \in Tasks
  BY TaskTypes DEF FingerEmits
<1>3. /\ more \in Seq(Tasks)
      /\ Elements(more) = IF f = 0 THEN {Task("emulateMouse", "begin")} ELSE {}
  BY <1>1, BranchIs DEF Kinds
<1>4. PICK tasks : tasks = <<Task("emitBegin", f)>> \o more
  OBVIOUS
<1>5. /\ tasks \in Seq(Tasks) /\ tasks # <<>>
      /\ Elements(tasks) = {Task("emitBegin", f)} \cup Elements(more)
      /\ Elements(Tail(tasks)) = Elements(more)
  BY <1>2, <1>3, <1>4, OneThen
<1>6. Inject(tasks) /\ held' \subseteq Devices
  BY <1>1, <1>4, HeldTypes DEF InjectTouchBegin
<1>7. InputInv' /\ work' = tasks
  BY <1>5, <1>6, Injects DEF Inject
<1> QED
  BY <1>3, <1>5, <1>7

LEMMA InjectTouchMoveDoes ==
    ASSUME InputInv, NEW f \in Fingers, InjectTouchMove(f)
    PROVE  /\ InputInv' /\ work' # <<>>
           /\ Elements(work') = {Task("emitMove", f)}
                  \cup (IF f = 0 THEN {Task("emulateMouse", "move")} ELSE {})
           /\ Elements(Tail(work')) \subseteq {Task("emulateMouse", "move")}
<1>1. PICK more : more = Branch("emulateMouse", "move", f, 0)
  OBVIOUS
<1>2. Task("emitMove", f) \in Tasks
  BY TaskTypes DEF FingerEmits
<1>3. /\ more \in Seq(Tasks)
      /\ Elements(more) = IF f = 0 THEN {Task("emulateMouse", "move")} ELSE {}
  BY <1>1, BranchIs DEF Kinds
<1>4. PICK tasks : tasks = <<Task("emitMove", f)>> \o more
  OBVIOUS
<1>5. /\ tasks \in Seq(Tasks) /\ tasks # <<>>
      /\ Elements(tasks) = {Task("emitMove", f)} \cup Elements(more)
      /\ Elements(Tail(tasks)) = Elements(more)
  BY <1>2, <1>3, <1>4, OneThen
<1>6. Inject(tasks) /\ held' \subseteq Devices
  BY <1>1, <1>4 DEF InjectTouchMove, InputInv, TypeOK
<1>7. InputInv' /\ work' = tasks
  BY <1>5, <1>6, Injects DEF Inject
<1> QED
  BY <1>3, <1>5, <1>7

LEMMA InjectTouchEndDoes ==
    ASSUME InputInv, NEW f \in Fingers, InjectTouchEnd(f)
    PROVE  /\ InputInv' /\ work' # <<>>
           /\ Elements(work') = {Task("emitMove", f), Task("emitEnd", f)}
                  \cup (IF f = 0 THEN {Task("emulateMouse", "end")} ELSE {})
           /\ Elements(Tail(work')) \subseteq {Task("emitEnd", f), Task("emulateMouse", "end")}
<1>1. PICK more : more = Branch("emulateMouse", "end", f, 0)
  OBVIOUS
<1>2. Task("emitMove", f) \in Tasks /\ Task("emitEnd", f) \in Tasks
  BY TaskTypes DEF FingerEmits
<1>3. /\ more \in Seq(Tasks)
      /\ Elements(more) = IF f = 0 THEN {Task("emulateMouse", "end")} ELSE {}
  BY <1>1, BranchIs DEF Kinds
<1>4. PICK tasks : tasks = <<Task("emitMove", f), Task("emitEnd", f)>> \o more
  OBVIOUS
<1>5. /\ tasks \in Seq(Tasks) /\ tasks # <<>>
      /\ Elements(tasks) = {Task("emitMove", f), Task("emitEnd", f)} \cup Elements(more)
      /\ Elements(Tail(tasks)) = {Task("emitEnd", f)} \cup Elements(more)
  BY <1>2, <1>3, <1>4, TwoThen
<1>6. Inject(tasks) /\ held' \subseteq Devices
  BY <1>1, <1>4, HeldTypes DEF InjectTouchEnd
<1>7. InputInv' /\ work' = tasks
  BY <1>5, <1>6, Injects DEF Inject
<1> QED
  BY <1>3, <1>5, <1>7

LEMMA InjectTouchCancelDoes ==
    ASSUME InputInv, NEW f \in Fingers, InjectTouchCancel(f)
    PROVE  /\ InputInv' /\ work' # <<>>
           /\ Elements(work') = {Task("emitCancel", f)}
                  \cup (IF f = 0 THEN {Task("emulateMouse", "cancel")} ELSE {})
           /\ Elements(Tail(work')) \subseteq {Task("emulateMouse", "cancel")}
<1>1. PICK more : more = Branch("emulateMouse", "cancel", f, 0)
  OBVIOUS
<1>2. Task("emitCancel", f) \in Tasks
  BY TaskTypes DEF FingerEmits
<1>3. /\ more \in Seq(Tasks)
      /\ Elements(more) = IF f = 0 THEN {Task("emulateMouse", "cancel")} ELSE {}
  BY <1>1, BranchIs DEF Kinds
<1>4. PICK tasks : tasks = <<Task("emitCancel", f)>> \o more
  OBVIOUS
<1>5. /\ tasks \in Seq(Tasks) /\ tasks # <<>>
      /\ Elements(tasks) = {Task("emitCancel", f)} \cup Elements(more)
      /\ Elements(Tail(tasks)) = Elements(more)
  BY <1>2, <1>3, <1>4, OneThen
<1>6. Inject(tasks) /\ held' \subseteq Devices
  BY <1>1, <1>4, HeldTypes DEF InjectTouchCancel
<1>7. InputInv' /\ work' = tasks
  BY <1>5, <1>6, Injects DEF Inject
<1> QED
  BY <1>3, <1>5, <1>7

LEMMA InjectKeyDoes ==
    ASSUME InputInv, NEW k \in Keys, InjectKeyPress(k) \/ InjectKeyRelease(k)
    PROVE  /\ InputInv' /\ work' # <<>> /\ Elements(Tail(work')) = {}
           /\ InjectKeyPress(k) => Elements(work') = {Task("emitKeyPress", k)}
           /\ InjectKeyRelease(k) => Elements(work') = {Task("emitKeyRelease", k)}
<1>1. \A op \in KeyEmits : Task(op, k) \in Tasks
  BY TaskTypes
<1>2. \A op \in KeyEmits :
          /\ <<Task(op, k)>> \in Seq(Tasks) /\ Elements(<<Task(op, k)>>) = {Task(op, k)}
          /\ <<Task(op, k)>> # <<>> /\ Elements(Tail(<<Task(op, k)>>)) = {}
  BY <1>1, One
<1>3. held' \subseteq Devices
  BY HeldTypes DEF InjectKeyPress, InjectKeyRelease
<1>4. CASE InjectKeyPress(k)
  <2>1. Inject(<<Task("emitKeyPress", k)>>)
    BY <1>4 DEF InjectKeyPress
  <2>2. work' = <<Task("emitKeyPress", k)>> /\ InputInv'
    BY <1>2, <1>3, <2>1, Injects DEF Inject, KeyEmits
  <2>3. InjectKeyRelease(k) => work' = <<Task("emitKeyRelease", k)>>
    BY DEF InjectKeyRelease, Inject
  <2> QED
    BY <1>2, <2>2, <2>3 DEF KeyEmits
<1>5. CASE InjectKeyRelease(k)
  <2>1. Inject(<<Task("emitKeyRelease", k)>>)
    BY <1>5 DEF InjectKeyRelease
  <2>2. work' = <<Task("emitKeyRelease", k)>> /\ InputInv'
    BY <1>2, <1>3, <2>1, Injects DEF Inject, KeyEmits
  <2>3. InjectKeyPress(k) => work' = <<Task("emitKeyPress", k)>>
    BY DEF InjectKeyPress, Inject
  <2> QED
    BY <1>2, <2>2, <2>3 DEF KeyEmits
<1> QED
  BY <1>4, <1>5

-----------------------------------------------------------------------------
(* What the observers know *)

LEMMA InputInitially == Init => InputInv
<1> SUFFICES ASSUME Init
             PROVE  InputInv
  OBVIOUS
<1>1. Fields
  BY DEF Init, Fields, Devices
<1>2. Calm
  BY None DEF Init, Calm
<1>3. Known = {}
  BY DEF Init, Known
<1>4. Views
  BY <1>3 DEF Init, Views, Untold
<1> QED
  BY <1>1, <1>2, <1>4, FieldsDo DEF InputInv

LEMMA InputStep == InputInv /\ [Next]_vars => InputInv'
<1> SUFFICES ASSUME InputInv, [Next]_vars
             PROVE  InputInv'
  OBVIOUS
<1>1. CASE UNCHANGED vars
  <2>1. /\ UNCHANGED <<work, view, held>>
        /\ UNCHANGED <<mPressedMouseButtons, mPressedFingers, mPressedKeys>>
        /\ UNCHANGED <<mEmulateTouchesFromMouse, mEmulateMouseFromTouches>>
    BY <1>1 DEF vars, pressed, emulation
  <2> QED
    BY <2>1 DEF InputInv, TypeOK, Calm, Views, Untold, Known
<1>2. CASE Step
  <2>1. CASE EmulateTouch \/ EmulateMouse
    BY <2>1, EmulationStep
  <2>2. CASE EmitPress \/ EmitButtonUp \/ EmitMouseMove
    BY <2>2, PressStep, ButtonUpStep, MouseMoveStep
  <2>3. CASE EmitBegin \/ EmitMove \/ EmitTouchUp
    BY <2>3, BeginStep, MoveStep, TouchUpStep
  <2>4. CASE EmitKeyPress \/ EmitKeyRelease
    BY <2>4, KeyPressStep, KeyReleaseStep
  <2>5. CASE ResetKeyPresses \/ ResetMouseButtons \/ ResetTouches
    BY <2>5, LoopStep
  <2>6. CASE Notify
    BY <2>6, NotifyStep
  <2> QED
    BY <1>2, <2>1, <2>2, <2>3, <2>4, <2>5, <2>6 DEF Step
<1>3. CASE Platform
  <2>1. ASSUME NEW b \in Buttons, InjectMouseButtonPress(b)
        PROVE  InputInv'
    BY <2>1, InjectPressDoes
  <2>2. ASSUME NEW b \in Buttons, NEW kind \in {"end", "cancel"}, InjectMouseButtonUp(b, kind)
        PROVE  InputInv'
    BY <2>2, InjectButtonUpDoes
  <2>3. CASE InjectMouseMove
    BY <2>3, InjectMouseMoveDoes
  <2>4. ASSUME NEW f \in Fingers, InjectTouchBegin(f) \/ InjectTouchMove(f)
        PROVE  InputInv'
    BY <2>4, InjectTouchBeginDoes, InjectTouchMoveDoes
  <2>5. ASSUME NEW f \in Fingers, InjectTouchEnd(f) \/ InjectTouchCancel(f)
        PROVE  InputInv'
    BY <2>5, InjectTouchEndDoes, InjectTouchCancelDoes
  <2>6. ASSUME NEW k \in Keys, InjectKeyPress(k) \/ InjectKeyRelease(k)
        PROVE  InputInv'
    BY <2>6, InjectKeyDoes
  <2>7. ASSUME NEW call, TopLevelCall(call)
        PROVE  InputInv'
    BY <2>7, CallStep
  <2> QED
    BY <1>3, <2>1, <2>2, <2>3, <2>4, <2>5, <2>6, <2>7 DEF Platform
<1> QED
  BY <1>1, <1>2, <1>3 DEF Next

LEMMA InputInvariant == Spec => []InputInv
BY InputInitially, InputStep, PTL DEF Spec

\* Whatever is reset, switched or emulated in the middle of a notification, no
\* observer hears that something is pressed which it knows to be down, or that
\* something is released, cancelled or moved which it does not (the emit*()
\* functions of InputManager, and the reset loops that call them).
THEOREM NotificationsInOrder == Spec => []NotificationsWellFormed
<1>1. InputInv => NotificationsWellFormed
  <2> SUFFICES ASSUME InputInv, work # <<>>, Head(work).op \in Notifications,
                      Head(work).left # <<>>
               PROVE  LET e == Head(work).op
                          x == Head(work).arg
                          seen == view[Head(Head(work).left)]
                      IN  /\ e \in {"pressed", "began"} => <<Downs[e], x>> \notin seen
                          /\ e \in DOMAIN Ups => <<Ups[e], x>> \in seen
                          /\ e = "moved" => <<"finger", x>> \in seen
    BY DEF NotificationsWellFormed
  <2>1. PICK t \in Jobs : t = Head(work)
    BY OnTop
  <2>2. /\ Head(t.left) \in Elements(t.left)
        /\ Head(t.left) \in Elements(Observers)
    BY <2>1, RestIs
  <2>3. Before(t.op, t.arg, view[Head(t.left)], Known)
    BY <2>1, <2>2 DEF InputInv, Views, Untold
  <2>4. PICK seen : seen = view[Head(t.left)]
    OBVIOUS
  <2>5. t.op = "moved" => t.op \in Moves
    BY DEF Moves
  <2> QED
    BY <2>1, <2>3, <2>4, <2>5 DEF Before
<1> QED
  BY <1>1, InputInvariant, PTL

\* When no call is under way, every observer has been told exactly what the sets
\* of pressed buttons, fingers and keys say (InputManager's type is part of it).
THEOREM ObserversKnow == Spec => []ViewsAgree
<1>1. InputInv => ViewsAgree
  <2> SUFFICES ASSUME InputInv
               PROVE  ViewsAgree
    OBVIOUS
  <2>1. TypeOK /\ DOMAIN view = Elements(Observers)
    BY DEF InputInv, TypeOK
  <2> QED
    BY <2>1, Settled DEF ViewsAgree
<1> QED
  BY <1>1, InputInvariant, PTL

-----------------------------------------------------------------------------
(* Why something is down *)

LEMMA BringsWhat ==
    ASSUME NEW t, NEW d \in Known
    PROVE  Brings(t, d) <=>
               \/ /\ d[1] = "button"
                  /\ \/ t.op \in {"emitRelease", "emitButtonCancel"} /\ t.arg = d[2]
                     \/ t.op = "resetButtons"
               \/ /\ d[1] = "finger"
                  /\ \/ t.op \in {"emitEnd", "emitCancel"} /\ t.arg = d[2]
                     \/ t.op = "resetTouches"
               \/ /\ d[1] = "key"
                  /\ \/ t.op = "emitKeyRelease" /\ t.arg = d[2]
                     \/ t.op = "resetKeys"
<1>1. d[1] \in {"button", "finger", "key"}
  BY DEF Known
<1>2. CASE d[1] = "button"
  BY <1>2 DEF Brings, UpTasks, ResetTask
<1>3. CASE d[1] = "finger"
  BY <1>3 DEF Brings, UpTasks, ResetTask
<1>4. CASE d[1] = "key"
  BY <1>4 DEF Brings, UpTasks, ResetTask
<1> QED
  BY <1>1, <1>2, <1>3, <1>4

\* What comes down is held, or imitates what is held.
Downed(d) ==
    \/ d \in held
    \/ d = <<"button", Left>> /\ <<"finger", 0>> \in held /\ mEmulateMouseFromTouches
    \/ d = <<"finger", 0>> /\ <<"button", Left>> \in held /\ mEmulateTouchesFromMouse

\* The reasons that a step of the stack leaves, if the task that it replaces gave
\* none or is replaced by one that gives it.
LEMMA ReasonsKept ==
    ASSUME InputInv, HeldInv, work # <<>>, NEW done, done = Head(work), UNCHANGED held,
           Elements(Tail(work)) \subseteq Elements(work'),
           mEmulateMouseFromTouches => mEmulateMouseFromTouches',
           \/ mEmulateTouchesFromMouse => mEmulateTouchesFromMouse'
           \/ \E t \in Elements(work') : t.op = "resetTouches",
           \A d \in Known' : d \in Known \/ Downed(d)',
           \A d \in Known' : d \in Known /\ Brings(done, d) =>
                                 \E t \in Elements(work') : Brings(t, d),
           done.op = "emulateMouse" /\ done.arg \in {"end", "cancel"} /\ mEmulateMouseFromTouches =>
               \E t \in Elements(work') : Brings(t, <<"button", Left>>),
           done.op = "emulateTouch" /\ done.arg \in {"end", "cancel"} /\ mEmulateTouchesFromMouse =>
               \E t \in Elements(work') : Brings(t, <<"finger", 0>>)
    PROVE  Reasons'
<1> SUFFICES ASSUME NEW d \in Known'
             PROVE  Reason(d)'
  BY DEF Reasons
<1>1. Elements(work) = {done} \cup Elements(Tail(work))
  BY Splits DEF InputInv, Calm
<1>2. Downed(d)' => Reason(d)'
  BY DEF Downed, Reason, ImitatesFinger, ImitatesMouse
<1>3. (\E t \in Elements(work') : Brings(t, d)) => Reason(d)'
  BY DEF Reason, Brings
<1>4. \A t : t.op = "resetTouches" => Brings(t, <<"finger", 0>>)
  BY DEF Brings, UpTasks, ResetTask
<1>5. ASSUME d \in Known PROVE Reason(d)'
  <2>1. Reason(d)
    BY <1>5 DEF HeldInv, Reasons
  <2>2. CASE d \in held
    BY <2>2 DEF Reason
  <2>3. CASE \E t \in Elements(work) : Brings(t, d)
    BY <1>1, <1>3, <1>5, <2>3
  <2>4. CASE d = <<"button", Left>> /\ ImitatesFinger
    <3>1. mEmulateMouseFromTouches /\ mEmulateMouseFromTouches'
      BY <2>4 DEF ImitatesFinger
    <3>2. CASE <<"finger", 0>> \in held
      BY <2>4, <3>1, <3>2 DEF Reason, ImitatesFinger
    <3>3. ASSUME NEW t \in Elements(work), t.op = "emulateMouse", t.arg \in {"end", "cancel"}
          PROVE  Reason(d)'
      <4>1. CASE t = done
        BY <1>3, <2>4, <3>1, <3>3, <4>1
      <4>2. CASE t \in Elements(work')
        BY <2>4, <3>1, <3>3, <4>2 DEF Reason, ImitatesFinger, Releasing
      <4> QED
        BY <1>1, <4>1, <4>2
    <3> QED
      BY <2>4, <3>2, <3>3 DEF ImitatesFinger, Releasing
  <2>5. CASE d = <<"finger", 0>> /\ ImitatesMouse
    <3>1. mEmulateTouchesFromMouse
      BY <2>5 DEF ImitatesMouse
    <3>2. CASE \E t \in Elements(work') : t.op = "resetTouches"
      BY <1>3, <1>4, <2>5, <3>2
    <3>3. ASSUME mEmulateTouchesFromMouse' PROVE Reason(d)'
      <4>1. CASE <<"button", Left>> \in held
        BY <2>5, <3>3, <4>1 DEF Reason, ImitatesMouse
      <4>2. ASSUME NEW t \in Elements(work), t.op = "emulateTouch", t.arg \in {"end", "cancel"}
            PROVE  Reason(d)'
        <5>1. CASE t = done
          BY <1>3, <2>5, <3>1, <4>2, <5>1
        <5>2. CASE t \in Elements(work')
          BY <2>5, <3>3, <4>2, <5>2 DEF Reason, ImitatesMouse, Releasing
        <5> QED
          BY <1>1, <5>1, <5>2
      <4> QED
        BY <2>5, <4>1, <4>2 DEF ImitatesMouse, Releasing
    <3> QED
      BY <3>1, <3>2, <3>3
  <2> QED
    BY <2>1, <2>2, <2>3, <2>4, <2>5 DEF Reason
<1> QED
  BY <1>2, <1>5

\* The tasks behind the one on top stay as they are.
LEMMA BehindKept ==
    ASSUME InputInv, HeldInv, work # <<>>, UNCHANGED held,
           mEmulateMouseFromTouches => mEmulateMouseFromTouches',
           NEW tasks \in Seq(Jobs), work' = tasks \o Tail(work),
           tasks # <<>> => \A t \in Elements(Tail(tasks)) : t.op # "emitBegin",
           \A t \in Elements(tasks) : Downward(t)'
    PROVE  BeginsAtOnce' /\ \A t \in Elements(work') : Downward(t)'
<1>1. work \in Seq(Jobs)
  BY DEF InputInv, Calm
<1>2. PICK rest \in Seq(Jobs) : rest = Tail(work) /\ Elements(rest) \subseteq Elements(work)
  BY <1>1, Splits
<1>3. /\ Elements(tasks \o rest) = Elements(tasks) \cup Elements(rest)
      /\ tasks = <<>> => tasks \o rest = rest
      /\ tasks # <<>> => Elements(Tail(tasks \o rest)) = Elements(Tail(tasks)) \cup Elements(rest)
  BY Pushed
<1>4. \A t \in Elements(rest) : t.op # "emitBegin"
  BY <1>2 DEF HeldInv, BeginsAtOnce
<1>5. rest # <<>> => Elements(Tail(rest)) \subseteq Elements(rest)
  BY Splits
<1>6. BeginsAtOnce'
  BY <1>2, <1>3, <1>4, <1>5 DEF BeginsAtOnce
<1>7. ASSUME NEW t \in Elements(rest) PROVE Downward(t)'
  BY <1>2, <1>4, <1>7 DEF HeldInv, Downward
<1> QED
  BY <1>2, <1>3, <1>6, <1>7

\* What emit*() leaves on the stack: a pass, or nothing.
LEMMA EmitLeaves ==
    ASSUME InputInv,
           \/ EmitPress \/ EmitButtonUp \/ EmitMouseMove
           \/ EmitBegin \/ EmitMove \/ EmitTouchUp
           \/ EmitKeyPress \/ EmitKeyRelease
    PROVE  /\ work # <<>> /\ UNCHANGED <<held, emulation>>
           /\ \E tasks \in Seq(Jobs) :
                  /\ work' = tasks \o Tail(work)
                  /\ \A t \in Elements(tasks) : t.op \in Notifications
                  /\ tasks # <<>> => Elements(Tail(tasks)) = {}
<1>1. work # <<>> /\ UNCHANGED <<held, emulation>>
  BY DEF Doing, EmitPress, EmitButtonUp, EmitMouseMove, EmitBegin, EmitMove, EmitTouchUp,
     EmitKeyPress, EmitKeyRelease
<1>2. PICK x : x = Arg
  OBVIOUS
<1>3. \/ work' = <<>> \o Tail(work)
      \/ \E e \in Notifications : Pass(e, x) \in Jobs /\ work' = <<Pass(e, x)>> \o Tail(work)
  <2>1. Head(work) \in Jobs
    BY <1>1, OnTop
  <2>2. CASE EmitPress \/ EmitButtonUp \/ EmitMouseMove
    <3>1. x \in Buttons
      BY <1>2, <2>1, <2>2, JobFacts
         DEF EmitPress, EmitButtonUp, EmitMouseMove, Doing, Arg, ButtonEmits
    <3>2. \A e \in ButtonEvents : Pass(e, x) \in Jobs /\ e \in Notifications
      BY <3>1, PassJobs DEF ButtonEvents, Notifications, Downs, Ups, Moves
    <3> QED
      BY <1>2, <2>2, <3>2 DEF EmitPress, EmitButtonUp, EmitMouseMove, Continue, ButtonEvents
  <2>3. CASE EmitBegin \/ EmitMove \/ EmitTouchUp
    <3>1. x \in Fingers
      BY <1>2, <2>1, <2>3, JobFacts DEF EmitBegin, EmitMove, EmitTouchUp, Doing, Arg, FingerEmits
    <3>2. \A e \in FingerEvents : Pass(e, x) \in Jobs /\ e \in Notifications
      BY <3>1, PassJobs DEF FingerEvents, Notifications, Downs, Ups, Moves
    <3> QED
      BY <1>2, <2>3, <3>2 DEF EmitBegin, EmitMove, EmitTouchUp, Continue, FingerEvents
  <2>4. CASE EmitKeyPress \/ EmitKeyRelease
    <3>1. x \in Keys
      BY <1>2, <2>1, <2>4, JobFacts DEF EmitKeyPress, EmitKeyRelease, Doing, Arg, KeyEmits
    <3>2. \A e \in KeyEvents : Pass(e, x) \in Jobs /\ e \in Notifications
      BY <3>1, PassJobs DEF KeyEvents, Notifications, Downs, Ups, Moves
    <3> QED
      BY <1>2, <2>4, <3>2 DEF EmitKeyPress, EmitKeyRelease, Continue, KeyEvents
  <2> QED
    BY <2>2, <2>3, <2>4
<1>4. CASE work' = <<>> \o Tail(work)
  BY <1>1, <1>4, None
<1>5. ASSUME NEW e \in Notifications, Pass(e, x) \in Jobs, work' = <<Pass(e, x)>> \o Tail(work)
      PROVE  \E tasks \in Seq(Jobs) :
                 /\ work' = tasks \o Tail(work)
                 /\ \A t \in Elements(tasks) : t.op \in Notifications
                 /\ tasks # <<>> => Elements(Tail(tasks)) = {}
  <2>1. PICK tasks : tasks = <<Pass(e, x)>>
    OBVIOUS
  <2>2. tasks \in Seq(Jobs) /\ Elements(tasks) = {Pass(e, x)} /\ Elements(Tail(tasks)) = {}
    BY <1>5, <2>1, One
  <2>3. Pass(e, x).op = e
    BY DEF Pass
  <2> QED
    BY <1>5, <2>1, <2>2, <2>3
<1> QED
  BY <1>1, <1>3, <1>4, <1>5

\* A notification brings nothing down.
LEMMA PassDown ==
    ASSUME NEW t, t.op \in Notifications \cup Loops
    PROVE  Downward(t) /\ Downward(t)'
BY DEF Downward, Notifications, Loops, Downs, Ups, Moves

\* An emit*() keeps the reasons if what comes down has one and what is about to be
\* brought up is up.
LEMMA EmitKeeps ==
    ASSUME InputInv, HeldInv,
           \/ EmitPress \/ EmitButtonUp \/ EmitMouseMove
           \/ EmitBegin \/ EmitMove \/ EmitTouchUp
           \/ EmitKeyPress \/ EmitKeyRelease,
           \A d \in Known' : d \in Known \/ Downed(d),
           \A d \in Known' : d \in Known => ~ Brings(Head(work), d)
    PROVE  HeldInv'
<1>1. work # <<>> /\ UNCHANGED held
      /\ UNCHANGED <<mEmulateTouchesFromMouse, mEmulateMouseFromTouches>>
  BY EmitLeaves DEF emulation
<1>2. PICK tasks \in Seq(Jobs) :
          /\ work' = tasks \o Tail(work)
          /\ \A t \in Elements(tasks) : t.op \in Notifications
          /\ tasks # <<>> => Elements(Tail(tasks)) = {}
  BY EmitLeaves
<1>3. PICK done : done = Head(work)
  OBVIOUS
<1>4. Head(work).op \notin {"emulateMouse", "emulateTouch"}
  BY DEF EmitPress, EmitButtonUp, EmitMouseMove, EmitBegin, EmitMove, EmitTouchUp,
     EmitKeyPress, EmitKeyRelease, Doing
<1>5. \A t \in Elements(tasks) : Downward(t)'
  BY <1>2, PassDown
<1>6. BeginsAtOnce' /\ \A t \in Elements(work') : Downward(t)'
  BY <1>1, <1>2, <1>5, BehindKept
<1>7. Elements(Tail(work)) \subseteq Elements(work')
  <2>1. PICK rest \in Seq(Jobs) : rest = Tail(work)
    BY <1>1, Splits DEF InputInv, Calm
  <2>2. Elements(tasks \o rest) = Elements(tasks) \cup Elements(rest)
    BY Joined
  <2> QED
    BY <1>2, <2>1, <2>2
<1>8. \A d \in Known' : d \in Known \/ Downed(d)'
  BY <1>1 DEF Downed
<1>9. Reasons'
  BY <1>1, <1>3, <1>4, <1>7, <1>8, ReasonsKept
<1> QED
  BY <1>6, <1>9 DEF HeldInv

LEMMA EmitsHeld ==
    ASSUME InputInv, HeldInv,
           \/ EmitPress \/ EmitButtonUp \/ EmitMouseMove
           \/ EmitBegin \/ EmitMove \/ EmitTouchUp
           \/ EmitKeyPress \/ EmitKeyRelease
    PROVE  HeldInv'
<1>1. work # <<>>
  BY EmitLeaves
<1>2. PICK t \in Jobs : t = Head(work)
  BY <1>1, OnTop
<1>3. Downward(t)
  BY <1>1, <1>2, Splits DEF HeldInv, InputInv, Calm
<1>4. PICK x : x = t.arg
  OBVIOUS
<1>5. \A d \in Known : Brings(t, d) =>
          \/ t.op \in {"emitRelease", "emitButtonCancel"} /\ d = <<"button", x>>
          \/ t.op \in {"emitEnd", "emitCancel"} /\ d = <<"finger", x>>
          \/ t.op = "emitKeyRelease" /\ d = <<"key", x>>
          \/ t.op \in Loops
  <2> TAKE d \in Known
  <2> HAVE Brings(t, d)
  <2>1. d = <<d[1], d[2]>>
    BY DEF Known
  <2> QED
    BY <1>4, <2>1, BringsWhat DEF Loops
<1>6. CASE EmitPress
  <2>1. t.op = "emitPress" /\ Known' = Known \cup {<<"button", x>>}
    BY <1>2, <1>4, <1>6, ButtonsChange DEF EmitPress, Doing, Arg
  <2>2. Downed(<<"button", x>>)
    BY <1>3, <1>4, <2>1 DEF Downward, Downed
  <2>3. \A d \in Known : ~ Brings(t, d)
    BY <1>5, <2>1 DEF Loops
  <2> QED
    BY <1>2, <1>6, <2>1, <2>2, <2>3, EmitKeeps
<1>7. CASE EmitBegin
  <2>1. t.op = "emitBegin" /\ Known' = Known \cup {<<"finger", x>>}
    BY <1>2, <1>4, <1>7, FingersChange DEF EmitBegin, Doing, Arg
  <2>2. Downed(<<"finger", x>>)
    BY <1>3, <1>4, <2>1 DEF Downward, Downed
  <2>3. \A d \in Known : ~ Brings(t, d)
    BY <1>5, <2>1 DEF Loops
  <2> QED
    BY <1>2, <1>7, <2>1, <2>2, <2>3, EmitKeeps
<1>8. CASE EmitKeyPress
  <2>1. t.op = "emitKeyPress" /\ Known' = Known \cup {<<"key", x>>}
    BY <1>2, <1>4, <1>8, KeysChange DEF EmitKeyPress, Doing, Arg
  <2>2. Downed(<<"key", x>>)
    BY <1>3, <1>4, <2>1 DEF Downward, Downed
  <2>3. \A d \in Known : ~ Brings(t, d)
    BY <1>5, <2>1 DEF Loops
  <2> QED
    BY <1>2, <1>8, <2>1, <2>2, <2>3, EmitKeeps
<1>9. CASE EmitMouseMove \/ EmitMove
  <2>1. t.op \in {"emitMouseMove", "emitMove"} /\ Known' = Known
    BY <1>2, <1>9 DEF EmitMouseMove, EmitMove, Doing, Known, pressed
  <2>2. \A d \in Known : ~ Brings(t, d)
    BY <1>5, <2>1 DEF Loops
  <2> QED
    BY <1>2, <1>9, <2>1, <2>2, EmitKeeps
<1>10. CASE EmitButtonUp
  <2>1. t.op \in {"emitRelease", "emitButtonCancel"} /\ Known' = Known \ {<<"button", x>>}
    BY <1>2, <1>4, <1>10, ButtonsChange DEF EmitButtonUp, Doing, Arg
  <2>2. \A d \in Known' : ~ Brings(t, d)
    BY <1>5, <2>1 DEF Loops
  <2> QED
    BY <1>2, <1>10, <2>1, <2>2, EmitKeeps
<1>11. CASE EmitTouchUp
  <2>1. t.op \in {"emitEnd", "emitCancel"} /\ Known' = Known \ {<<"finger", x>>}
    BY <1>2, <1>4, <1>11, FingersChange DEF EmitTouchUp, Doing, Arg
  <2>2. \A d \in Known' : ~ Brings(t, d)
    BY <1>5, <2>1 DEF Loops
  <2> QED
    BY <1>2, <1>11, <2>1, <2>2, EmitKeeps
<1>12. CASE EmitKeyRelease
  <2>1. t.op = "emitKeyRelease" /\ Known' = Known \ {<<"key", x>>}
    BY <1>2, <1>4, <1>12, KeysChange DEF EmitKeyRelease, Doing, Arg
  <2>2. \A d \in Known' : ~ Brings(t, d)
    BY <1>5, <2>1 DEF Loops
  <2> QED
    BY <1>2, <1>12, <2>1, <2>2, EmitKeeps
<1> QED
  BY <1>6, <1>7, <1>8, <1>9, <1>10, <1>11, <1>12

\* The steps that carry out a task by others: what they need.
LEMMA OthersHeld ==
    ASSUME InputInv, HeldInv, work # <<>>, NEW done, done = Head(work), UNCHANGED <<held, pressed>>,
           mEmulateMouseFromTouches => mEmulateMouseFromTouches',
           \/ mEmulateTouchesFromMouse => mEmulateTouchesFromMouse'
           \/ \E t \in Elements(work') : t.op = "resetTouches",
           NEW tasks \in Seq(Jobs), work' = tasks \o Tail(work),
           tasks # <<>> => \A t \in Elements(Tail(tasks)) : t.op # "emitBegin",
           \A t \in Elements(tasks) : Downward(t)',
           \A d \in Known : Brings(done, d) => \E t \in Elements(tasks) : Brings(t, d),
           done.op = "emulateMouse" /\ done.arg \in {"end", "cancel"} /\ mEmulateMouseFromTouches =>
               \E t \in Elements(tasks) : Brings(t, <<"button", Left>>),
           done.op = "emulateTouch" /\ done.arg \in {"end", "cancel"} /\ mEmulateTouchesFromMouse =>
               \E t \in Elements(tasks) : Brings(t, <<"finger", 0>>)
    PROVE  HeldInv'
<1>1. BeginsAtOnce' /\ \A t \in Elements(work') : Downward(t)'
  BY BehindKept
<1>2. Elements(Tail(work)) \subseteq Elements(work') /\ Elements(tasks) \subseteq Elements(work')
  <2>1. PICK rest \in Seq(Jobs) : rest = Tail(work)
    BY Splits DEF InputInv, Calm
  <2>2. Elements(tasks \o rest) = Elements(tasks) \cup Elements(rest)
    BY Joined
  <2> QED
    BY <2>1, <2>2
<1>3. Known' = Known /\ UNCHANGED held
  BY DEF Known, pressed
<1>4. /\ \A d \in Known' : d \in Known \/ Downed(d)'
      /\ \A d \in Known' : d \in Known /\ Brings(done, d) => \E t \in Elements(work') : Brings(t, d)
  BY <1>2, <1>3
<1>5. /\ done.op = "emulateMouse" /\ done.arg \in {"end", "cancel"} /\ mEmulateMouseFromTouches =>
             \E t \in Elements(work') : Brings(t, <<"button", Left>>)
      /\ done.op = "emulateTouch" /\ done.arg \in {"end", "cancel"} /\ mEmulateTouchesFromMouse =>
             \E t \in Elements(work') : Brings(t, <<"finger", 0>>)
  BY <1>2
<1>6. Reasons'
  BY <1>2, <1>3, <1>4, <1>5, ReasonsKept
<1> QED
  BY <1>1, <1>6 DEF HeldInv

LEMMA LoopsHeld ==
    ASSUME InputInv, HeldInv, ResetKeyPresses \/ ResetMouseButtons \/ ResetTouches
    PROVE  HeldInv'
<1>1. /\ work # <<>> /\ Head(work).op \in Loops
      /\ UNCHANGED <<held, pressed>>
      /\ UNCHANGED <<mEmulateTouchesFromMouse, mEmulateMouseFromTouches>>
  BY DEF ResetKeyPresses, ResetMouseButtons, ResetTouches, ResetLoop, Doing, Loops, emulation
<1>2. PICK done \in Jobs : done = Head(work)
  BY <1>1, OnTop
<1>3. done.op \notin {"emulateMouse", "emulateTouch"}
  BY <1>1, <1>2 DEF Loops
<1>4. \/ work' = <<>> \o Tail(work) /\ \A d \in Known : ~ Brings(done, d)
      \/ \E t \in Tasks : /\ t.op \in {"emitKeyRelease", "emitButtonCancel", "emitCancel"}
                          /\ work' = <<t>> \o work
  <2>1. CASE ResetKeyPresses
    <3>1. done.op = "resetKeys"
      BY <1>2, <2>1 DEF ResetKeyPresses, ResetLoop, Doing
    <3>2. CASE mPressedKeys = {}
      <4>1. \A d \in Known : d[1] # "key"
        BY <3>2 DEF Known
      <4>2. \A d \in Known : ~ Brings(done, d)
        BY <3>1, <4>1, BringsWhat
      <4> QED
        BY <2>1, <3>2, <4>2 DEF ResetKeyPresses, ResetLoop, Continue
    <3>3. CASE mPressedKeys # {}
      <4>1. PICK x \in mPressedKeys : work' = <<Task("emitKeyRelease", x)>> \o work
        BY <2>1, <3>3 DEF ResetKeyPresses, ResetLoop
      <4>2. Task("emitKeyRelease", x) \in Tasks /\ Task("emitKeyRelease", x).op = "emitKeyRelease"
        BY TaskTypes DEF InputInv, TypeOK, KeyEmits, Task
      <4> QED
        BY <4>1, <4>2
    <3> QED
      BY <3>2, <3>3
  <2>2. CASE ResetMouseButtons
    <3>1. done.op = "resetButtons"
      BY <1>2, <2>2 DEF ResetMouseButtons, ResetLoop, Doing
    <3>2. CASE mPressedMouseButtons = {}
      <4>1. \A d \in Known : d[1] # "button"
        BY <3>2 DEF Known
      <4>2. \A d \in Known : ~ Brings(done, d)
        BY <3>1, <4>1, BringsWhat
      <4> QED
        BY <2>2, <3>2, <4>2 DEF ResetMouseButtons, ResetLoop, Continue
    <3>3. CASE mPressedMouseButtons # {}
      <4>1. PICK x \in mPressedMouseButtons : work' = <<Task("emitButtonCancel", x)>> \o work
        BY <2>2, <3>3 DEF ResetMouseButtons, ResetLoop
      <4>2. /\ Task("emitButtonCancel", x) \in Tasks
            /\ Task("emitButtonCancel", x).op = "emitButtonCancel"
        BY TaskTypes DEF InputInv, TypeOK, ButtonEmits, Task
      <4> QED
        BY <4>1, <4>2
    <3> QED
      BY <3>2, <3>3
  <2>3. CASE ResetTouches
    <3>1. done.op = "resetTouches"
      BY <1>2, <2>3 DEF ResetTouches, ResetLoop, Doing
    <3>2. CASE mPressedFingers = {}
      <4>1. \A d \in Known : d[1] # "finger"
        BY <3>2 DEF Known
      <4>2. \A d \in Known : ~ Brings(done, d)
        BY <3>1, <4>1, BringsWhat
      <4> QED
        BY <2>3, <3>2, <4>2 DEF ResetTouches, ResetLoop, Continue
    <3>3. CASE mPressedFingers # {}
      <4>1. PICK x \in mPressedFingers : work' = <<Task("emitCancel", x)>> \o work
        BY <2>3, <3>3 DEF ResetTouches, ResetLoop
      <4>2. Task("emitCancel", x) \in Tasks /\ Task("emitCancel", x).op = "emitCancel"
        BY TaskTypes DEF InputInv, TypeOK, FingerEmits, Task
      <4> QED
        BY <4>1, <4>2
    <3> QED
      BY <3>2, <3>3
  <2> QED
    BY <2>1, <2>2, <2>3
<1>5. CASE work' = <<>> \o Tail(work) /\ \A d \in Known : ~ Brings(done, d)
  <2>1. PICK tasks \in Seq(Jobs) : tasks = <<>> /\ Elements(tasks) = {}
    BY None
  <2>2. work' = tasks \o Tail(work)
    BY <1>5, <2>1
  <2> QED
    BY <1>1, <1>2, <1>3, <1>5, <2>1, <2>2, OthersHeld
<1>6. ASSUME NEW t \in Tasks, t.op \in {"emitKeyRelease", "emitButtonCancel", "emitCancel"},
             work' = <<t>> \o work
      PROVE  HeldInv'
  <2>1. PICK tasks : tasks = <<t, done>>
    OBVIOUS
  <2>2. t \in Jobs
    BY DEF Jobs
  <2>3. /\ tasks \in Seq(Jobs) /\ tasks # <<>>
        /\ Elements(tasks) = {t, done} /\ Elements(Tail(tasks)) = {done}
    BY <1>2, <2>1, <2>2, Two
  <2>4. work' = tasks \o Tail(work)
    <3>1. work \in Seq(Jobs)
      BY DEF InputInv, Calm
    <3>2. <<t>> \o work = <<t, Head(work)>> \o Tail(work)
      BY <1>1, <2>2, <3>1
    <3> QED
      BY <1>2, <1>6, <2>1, <3>2
  <2>5. done.op # "emitBegin" /\ Downward(done)'
    BY <1>1, <1>2, PassDown DEF Loops
  <2>6. Downward(t)'
    BY <1>6 DEF Downward
  <2> QED
    BY <1>1, <1>2, <1>3, <2>3, <2>4, <2>5, <2>6, OthersHeld
<1> QED
  BY <1>4, <1>5, <1>6

LEMMA NoBringer ==
    ASSUME NEW t, t.op \in Notifications \cup {"emulateTouch", "emulateMouse"}
    PROVE  \A d \in Known : ~ Brings(t, d)
BY BringsWhat DEF Notifications, Downs, Ups, Moves

LEMMA EmulateTouchHeld ==
    ASSUME InputInv, HeldInv, EmulateTouch
    PROVE  HeldInv'
<1>1. /\ work # <<>> /\ UNCHANGED <<held, pressed>>
      /\ UNCHANGED <<mEmulateTouchesFromMouse, mEmulateMouseFromTouches>>
  BY DEF EmulateTouch, Doing, emulation
<1>2. PICK done \in Jobs : done = Head(work) /\ done.op = "emulateTouch" /\ Downward(done)
  <2>1. Head(work) \in Jobs /\ Downward(Head(work))
    BY <1>1, OnTop, Splits DEF HeldInv, InputInv, Calm
  <2> QED
    BY <2>1 DEF EmulateTouch, Doing
<1>3. PICK kind \in Kinds : kind = done.arg
  BY <1>2, JobFacts
<1>4. \A d \in Known : ~ Brings(done, d)
  BY <1>2, NoBringer
<1>5. CASE ~ mEmulateTouchesFromMouse
  <2>1. PICK tasks \in Seq(Jobs) : tasks = <<>> /\ Elements(tasks) = {}
    BY None
  <2>2. work' = tasks \o Tail(work)
    BY <1>5, <2>1 DEF EmulateTouch, Continue
  <2> QED
    BY <1>1, <1>2, <1>4, <1>5, <2>1, <2>2, OthersHeld
<1>6. CASE mEmulateTouchesFromMouse
  <2>1. PICK tasks : tasks = TouchTasks(kind)
    OBVIOUS
  <2>2. /\ tasks \in Seq(Tasks)
        /\ Elements(Tail(tasks)) \subseteq {Task("emitEnd", 0), Task("emitCancel", 0)}
    BY <2>1, TouchTasksAre
  <2>3. /\ kind = "begin" => Elements(tasks) = {Task("emitBegin", 0)}
        /\ kind = "move" => Elements(tasks) = {Task("emitMove", 0)}
        /\ kind = "end" => Elements(tasks) = {Task("emitMove", 0), Task("emitEnd", 0)}
        /\ kind = "cancel" => Elements(tasks) = {Task("emitMove", 0), Task("emitCancel", 0)}
    BY <2>1, TouchTasksAre
  <2>4. tasks \in Seq(Jobs)
    BY <2>2 DEF Jobs
  <2>5. work' = tasks \o Tail(work)
    BY <1>2, <1>3, <1>6, <2>1 DEF EmulateTouch, Continue, Arg
  <2>6. \A t \in Elements(Tail(tasks)) : t.op # "emitBegin"
    BY <2>2 DEF Task
  <2>7. /\ Downward(Task("emitMove", 0))' /\ Downward(Task("emitEnd", 0))'
        /\ Downward(Task("emitCancel", 0))'
    BY DEF Downward, Task
  <2>8. kind = "begin" => Downward(Task("emitBegin", 0))'
    BY <1>1, <1>2, <1>3, <1>6 DEF Downward, Task
  <2>9. \A t \in Elements(tasks) : Downward(t)'
    BY <2>3, <2>7, <2>8 DEF Kinds
  <2>10. /\ Brings(Task("emitEnd", 0), <<"finger", 0>>)
         /\ Brings(Task("emitCancel", 0), <<"finger", 0>>)
    BY DEF Brings, UpTasks, Task
  <2>11. kind \in {"end", "cancel"} => \E t \in Elements(tasks) : Brings(t, <<"finger", 0>>)
    BY <2>3, <2>10
  <2> QED
    BY <1>1, <1>2, <1>3, <1>4, <2>4, <2>5, <2>6, <2>9, <2>11, OthersHeld
<1> QED
  BY <1>5, <1>6

LEMMA EmulateMouseHeld ==
    ASSUME InputInv, HeldInv, EmulateMouse
    PROVE  HeldInv'
<1>1. /\ work # <<>> /\ UNCHANGED <<held, pressed>>
      /\ UNCHANGED <<mEmulateTouchesFromMouse, mEmulateMouseFromTouches>>
  BY DEF EmulateMouse, Doing, emulation
<1>2. PICK done \in Jobs : done = Head(work) /\ done.op = "emulateMouse" /\ Downward(done)
  <2>1. Head(work) \in Jobs /\ Downward(Head(work))
    BY <1>1, OnTop, Splits DEF HeldInv, InputInv, Calm
  <2> QED
    BY <2>1 DEF EmulateMouse, Doing
<1>3. PICK kind \in Kinds : kind = done.arg
  BY <1>2, JobFacts
<1>4. \A d \in Known : ~ Brings(done, d)
  BY <1>2, NoBringer
<1>5. CASE ~ mEmulateMouseFromTouches
  <2>1. PICK tasks \in Seq(Jobs) : tasks = <<>> /\ Elements(tasks) = {}
    BY None
  <2>2. work' = tasks \o Tail(work)
    BY <1>5, <2>1 DEF EmulateMouse, Continue
  <2> QED
    BY <1>1, <1>2, <1>4, <1>5, <2>1, <2>2, OthersHeld
<1>6. CASE mEmulateMouseFromTouches
  <2>1. PICK tasks : tasks = MouseTasks(kind)
    OBVIOUS
  <2>2. tasks \in Seq(Tasks) /\ tasks # <<>>
    BY <2>1, MouseTasksAre
  <2>3. /\ kind = "begin" =>
               Elements(tasks) = {Task("emitMouseMove", Left), Task("emitPress", Left)}
        /\ kind = "move" => Elements(tasks) = {Task("emitMouseMove", Left)}
        /\ kind = "end" =>
               Elements(tasks) = {Task("emitMouseMove", Left), Task("emitRelease", Left)}
        /\ kind = "cancel" =>
               Elements(tasks) = {Task("emitMouseMove", Left), Task("emitButtonCancel", Left)}
    BY <2>1, MouseTasksAre
  <2>4. tasks \in Seq(Jobs)
    BY <2>2 DEF Jobs
  <2>5. work' = tasks \o Tail(work)
    BY <1>2, <1>3, <1>6, <2>1 DEF EmulateMouse, Continue, Arg
  <2>6. \A t \in Elements(tasks) : t.op # "emitBegin"
    BY <2>3 DEF Task, Kinds
  <2>7. \A t \in Elements(Tail(tasks)) : t.op # "emitBegin"
    BY <2>2, <2>6, Splits
  <2>8. /\ Downward(Task("emitMouseMove", Left))' /\ Downward(Task("emitRelease", Left))'
        /\ Downward(Task("emitButtonCancel", Left))'
    BY DEF Downward, Task
  <2>9. kind = "begin" => Downward(Task("emitPress", Left))'
    BY <1>1, <1>2, <1>3, <1>6 DEF Downward, Task
  <2>10. \A t \in Elements(tasks) : Downward(t)'
    BY <2>3, <2>8, <2>9 DEF Kinds
  <2>11. /\ Brings(Task("emitRelease", Left), <<"button", Left>>)
         /\ Brings(Task("emitButtonCancel", Left), <<"button", Left>>)
    BY DEF Brings, UpTasks, Task
  <2>12. kind \in {"end", "cancel"} => \E t \in Elements(tasks) : Brings(t, <<"button", Left>>)
    BY <2>3, <2>11
  <2> QED
    BY <1>1, <1>2, <1>3, <1>4, <2>4, <2>5, <2>7, <2>10, <2>12, OthersHeld
<1> QED
  BY <1>5, <1>6

LEMMA NotifyHeld ==
    ASSUME InputInv, HeldInv, Notify, "mouseOff" \notin Reactions
    PROVE  HeldInv'
<1>1. work # <<>> /\ UNCHANGED <<held, pressed>>
  BY DEF Notify
<1>2. PICK done \in Jobs : done = Head(work) /\ done.op \in Notifications
  BY <1>1, OnTop DEF Notify
<1>3. \A d \in Known : ~ Brings(done, d)
  BY <1>2, NoBringer
<1>4. done.op \notin {"emulateMouse", "emulateTouch"}
  BY <1>2 DEF Notifications, Downs, Ups, Moves
<1>5. CASE done.left = <<>>
  <2>1. PICK tasks \in Seq(Jobs) : tasks = <<>> /\ Elements(tasks) = {}
    BY None
  <2>2. /\ work' = tasks \o Tail(work)
        /\ UNCHANGED <<mEmulateTouchesFromMouse, mEmulateMouseFromTouches>>
    BY <1>2, <1>5, <2>1 DEF Notify, Continue, emulation
  <2> QED
    BY <1>1, <1>2, <1>3, <1>4, <2>1, <2>2, OthersHeld
<1>6. CASE done.left # <<>>
  <2>1. Rest(done) \in Jobs /\ Rest(done).op = done.op
    BY <1>2, <1>6, RestIs
  <2>2. Downward(Rest(done))' /\ Rest(done).op \notin Loops /\ Rest(done).op # "emitBegin"
    BY <1>2, <2>1, PassDown DEF Notifications, Downs, Ups, Moves, Loops
  <2>3. \/ work' = <<Rest(done)>> \o Tail(work) /\ UNCHANGED emulation
        \/ \E call \in Reactions :
               SetFlags(call) /\ work' = (Started(call) \o <<Rest(done)>>) \o Tail(work)
    BY <1>2, <1>6 DEF Notify, Continue, Rest
  <2>4. CASE work' = <<Rest(done)>> \o Tail(work) /\ UNCHANGED emulation
    <3>1. PICK tasks : tasks = <<Rest(done)>>
      OBVIOUS
    <3>2. tasks \in Seq(Jobs) /\ Elements(tasks) = {Rest(done)} /\ Elements(Tail(tasks)) = {}
      BY <2>1, <3>1, One
    <3>3. UNCHANGED <<mEmulateTouchesFromMouse, mEmulateMouseFromTouches>>
      BY <2>4 DEF emulation
    <3>4. work' = tasks \o Tail(work)
      BY <2>4, <3>1
    <3> QED
      BY <1>1, <1>2, <1>3, <1>4, <2>2, <3>2, <3>3, <3>4, OthersHeld
  <2>5. ASSUME NEW call \in Reactions, SetFlags(call),
               work' = (Started(call) \o <<Rest(done)>>) \o Tail(work)
        PROVE  HeldInv'
    <3>1. PICK first \in Seq(Tasks) :
              /\ first = Started(call)
              /\ \A t \in Elements(first) : t.op \in Loops
              /\ call = "touchesOff" => Elements(first) = {Task("resetTouches", Left)}
      BY StartedIs
    <3>2. PICK last \in Seq(Jobs) : last = <<Rest(done)>> /\ Elements(last) = {Rest(done)}
      BY <2>1, One
    <3>3. first \in Seq(Jobs)
      BY DEF Jobs
    <3>4. PICK tasks : tasks = first \o last
      OBVIOUS
    <3>5. tasks \in Seq(Jobs) /\ Elements(tasks) = Elements(first) \cup Elements(last)
      BY <3>3, <3>4, Joined
    <3>6. work' = tasks \o Tail(work)
      BY <2>5, <3>1, <3>2, <3>4
    <3>7. \A t \in Elements(tasks) : t.op # "emitBegin" /\ Downward(t)'
      BY <2>2, <3>1, <3>2, <3>5, PassDown DEF Loops
    <3>8. tasks # <<>> => \A t \in Elements(Tail(tasks)) : t.op # "emitBegin"
      BY <3>5, <3>7, Splits
    <3>9. mEmulateMouseFromTouches => mEmulateMouseFromTouches'
      BY <2>5 DEF SetFlags
    <3>10. \/ mEmulateTouchesFromMouse => mEmulateTouchesFromMouse'
           \/ \E t \in Elements(work') : t.op = "resetTouches"
      <4>1. CASE call # "touchesOff"
        BY <2>5, <4>1 DEF SetFlags
      <4>2. CASE call = "touchesOff"
        <5>1. /\ Task("resetTouches", Left) \in Elements(tasks)
              /\ Task("resetTouches", Left).op = "resetTouches"
          BY <3>1, <3>5, <4>2 DEF Task
        <5>2. Elements(tasks) \subseteq Elements(work')
          <6>1. PICK rest \in Seq(Jobs) : rest = Tail(work)
            BY <1>1, Splits DEF InputInv, Calm
          <6>2. Elements(tasks \o rest) = Elements(tasks) \cup Elements(rest)
            BY <3>5, Joined
          <6> QED
            BY <3>6, <6>1, <6>2
        <5> QED
          BY <5>1, <5>2
      <4> QED
        BY <4>1, <4>2
    <3> QED
      BY <1>1, <1>2, <1>3, <1>4, <3>5, <3>6, <3>7, <3>8, <3>9, <3>10, OthersHeld
  <2> QED
    BY <2>3, <2>4, <2>5
<1> QED
  BY <1>5, <1>6

\* Between calls, what is down is held or imitates what is held.
LEMMA Idle ==
    ASSUME HeldInv, work = <<>>
    PROVE  \A d \in Known : Downed(d)
<1>1. Elements(work) = {}
  BY DEF Elements
<1> QED
  BY <1>1 DEF HeldInv, Reasons, Reason, ImitatesFinger, ImitatesMouse, Releasing, Downed

LEMMA InjectedHeld ==
    ASSUME HeldInv, work = <<>>, UNCHANGED <<pressed, emulation>>,
           \A d \in held : d \notin held' =>
               /\ \E t \in Elements(work') : Brings(t, d)
               /\ d = <<"finger", 0>> => Releasing("emulateMouse")'
               /\ d = <<"button", Left>> => Releasing("emulateTouch")',
           \A t \in Elements(Tail(work')) : t.op # "emitBegin",
           \A t \in Elements(work') : Downward(t)'
    PROVE  HeldInv'
<1>1. /\ Known' = Known
      /\ UNCHANGED <<mEmulateTouchesFromMouse, mEmulateMouseFromTouches>>
  BY DEF Known, pressed, emulation
<1>2. ASSUME NEW d \in Known PROVE Reason(d)'
  <2>1. Downed(d)
    BY Idle
  <2>2. CASE d \in held
    BY <2>2 DEF Reason, Brings
  <2>3. CASE d = <<"button", Left>> /\ <<"finger", 0>> \in held /\ mEmulateMouseFromTouches
    <3>1. <<"finger", 0>> \in held' \/ Releasing("emulateMouse")'
      BY <2>3
    <3> QED
      BY <1>1, <2>3, <3>1 DEF Reason, ImitatesFinger
  <2>4. CASE d = <<"finger", 0>> /\ <<"button", Left>> \in held /\ mEmulateTouchesFromMouse
    <3>1. <<"button", Left>> \in held' \/ Releasing("emulateTouch")'
      BY <2>4
    <3> QED
      BY <1>1, <2>4, <3>1 DEF Reason, ImitatesMouse
  <2> QED
    BY <2>1, <2>2, <2>3, <2>4 DEF Downed
<1> QED
  BY <1>1, <1>2 DEF HeldInv, Reasons, BeginsAtOnce

LEMMA InjectStepHeld ==
    ASSUME InputInv, HeldInv, Platform, \A call : ~ TopLevelCall(call)
    PROVE  HeldInv'
<1>1. ASSUME NEW b \in Buttons, InjectMouseButtonPress(b)
      PROVE  HeldInv'
  <2>1. /\ work = <<>> /\ UNCHANGED <<pressed, emulation>>
        /\ held' = held \cup {<<"button", b>>}
    BY <1>1 DEF InjectMouseButtonPress, Inject
  <2>2. /\ Elements(work') = {Task("emitPress", b)}
               \cup (IF b = Left THEN {Task("emulateTouch", "begin")} ELSE {})
        /\ Elements(Tail(work')) \subseteq {Task("emulateTouch", "begin")}
    BY <1>1, InjectPressDoes
  <2>3. Downward(Task("emitPress", b))' /\ (b = Left => Downward(Task("emulateTouch", "begin"))')
    BY <2>1 DEF Downward, Task
  <2>4. Task("emulateTouch", "begin").op # "emitBegin"
    BY DEF Task
  <2>5. \A t \in Elements(work') : Downward(t)'
    BY <2>2, <2>3
  <2>6. \A t \in Elements(Tail(work')) : t.op # "emitBegin"
    BY <2>2, <2>4
  <2>7. \A d \in held : d \in held'
    BY <2>1
  <2> QED
    BY <2>1, <2>5, <2>6, <2>7, InjectedHeld
<1>2. ASSUME NEW b \in Buttons, NEW kind \in {"end", "cancel"}, InjectMouseButtonUp(b, kind)
      PROVE  HeldInv'
  <2>1. /\ work = <<>> /\ UNCHANGED <<pressed, emulation>>
        /\ held' = held \ {<<"button", b>>}
    BY <1>2 DEF InjectMouseButtonUp, Inject
  <2>2. PICK op \in {"emitRelease", "emitButtonCancel"} :
            Elements(work') = {Task(op, b)}
                \cup (IF b = Left THEN {Task("emulateTouch", kind)} ELSE {})
    BY <1>2, InjectButtonUpDoes
  <2>3. Elements(Tail(work')) \subseteq {Task("emulateTouch", kind)}
    BY <1>2, InjectButtonUpDoes
  <2>4. /\ Task("emulateTouch", kind).op = "emulateTouch"
        /\ Task("emulateTouch", kind).arg = kind
    BY DEF Task
  <2>5. \A t \in Elements(work') : Downward(t)'
    <3>1. Downward(Task(op, b))' /\ Downward(Task("emulateTouch", kind))'
      BY <1>2, <2>2 DEF Downward, Task
    <3> QED
      BY <2>2, <3>1
  <2>6. \A t \in Elements(Tail(work')) : t.op # "emitBegin"
    BY <2>3, <2>4
  <2>7. Brings(Task(op, b), <<"button", b>>)
    BY <2>2 DEF Brings, UpTasks, Task
  <2>8. b = Left => Releasing("emulateTouch")'
    BY <1>2, <2>2, <2>4 DEF Releasing
  <2>9. \A d \in held : d \notin held' => d = <<"button", b>>
    BY <2>1
  <2>10. \A d \in held : d \notin held' =>
             /\ \E t \in Elements(work') : Brings(t, d)
             /\ d = <<"finger", 0>> => Releasing("emulateMouse")'
             /\ d = <<"button", Left>> => Releasing("emulateTouch")'
    BY <2>2, <2>7, <2>8, <2>9
  <2> QED
    BY <2>1, <2>5, <2>6, <2>10, InjectedHeld
<1>3. CASE InjectMouseMove
  <2>1. work = <<>> /\ UNCHANGED <<pressed, emulation>> /\ held' = held
    BY <1>3 DEF InjectMouseMove, Inject
  <2>2. /\ Elements(work') = {Task("emitMouseMove", Left), Task("emulateTouch", "move")}
        /\ Elements(Tail(work')) = {Task("emulateTouch", "move")}
    BY <1>3, InjectMouseMoveDoes
  <2>3. /\ Downward(Task("emitMouseMove", Left))' /\ Downward(Task("emulateTouch", "move"))'
        /\ Task("emulateTouch", "move").op # "emitBegin"
    BY DEF Downward, Task
  <2>4. \A t \in Elements(work') : Downward(t)'
    BY <2>2, <2>3
  <2>5. \A t \in Elements(Tail(work')) : t.op # "emitBegin"
    BY <2>2, <2>3
  <2>6. \A d \in held : d \in held'
    BY <2>1
  <2> QED
    BY <2>1, <2>4, <2>5, <2>6, InjectedHeld
<1>4. ASSUME NEW f \in Fingers, InjectTouchBegin(f)
      PROVE  HeldInv'
  <2>1. /\ work = <<>> /\ UNCHANGED <<pressed, emulation>>
        /\ held' = held \cup {<<"finger", f>>}
    BY <1>4 DEF InjectTouchBegin, Inject
  <2>2. /\ Elements(work') = {Task("emitBegin", f)}
               \cup (IF f = 0 THEN {Task("emulateMouse", "begin")} ELSE {})
        /\ Elements(Tail(work')) \subseteq {Task("emulateMouse", "begin")}
    BY <1>4, InjectTouchBeginDoes
  <2>3. Downward(Task("emitBegin", f))' /\ (f = 0 => Downward(Task("emulateMouse", "begin"))')
    BY <2>1 DEF Downward, Task
  <2>4. Task("emulateMouse", "begin").op # "emitBegin"
    BY DEF Task
  <2>5. \A t \in Elements(work') : Downward(t)'
    BY <2>2, <2>3
  <2>6. \A t \in Elements(Tail(work')) : t.op # "emitBegin"
    BY <2>2, <2>4
  <2>7. \A d \in held : d \in held'
    BY <2>1
  <2> QED
    BY <2>1, <2>5, <2>6, <2>7, InjectedHeld
<1>5. ASSUME NEW f \in Fingers, InjectTouchMove(f)
      PROVE  HeldInv'
  <2>1. work = <<>> /\ UNCHANGED <<pressed, emulation>> /\ held' = held
    BY <1>5 DEF InjectTouchMove, Inject
  <2>2. /\ Elements(work') = {Task("emitMove", f)}
               \cup (IF f = 0 THEN {Task("emulateMouse", "move")} ELSE {})
        /\ Elements(Tail(work')) \subseteq {Task("emulateMouse", "move")}
    BY <1>5, InjectTouchMoveDoes
  <2>3. /\ Downward(Task("emitMove", f))' /\ Downward(Task("emulateMouse", "move"))'
        /\ Task("emulateMouse", "move").op # "emitBegin"
    BY DEF Downward, Task
  <2>4. \A t \in Elements(work') : Downward(t)'
    BY <2>2, <2>3
  <2>5. \A t \in Elements(Tail(work')) : t.op # "emitBegin"
    BY <2>2, <2>3
  <2>6. \A d \in held : d \in held'
    BY <2>1
  <2> QED
    BY <2>1, <2>4, <2>5, <2>6, InjectedHeld
<1>6. ASSUME NEW f \in Fingers, InjectTouchEnd(f) \/ InjectTouchCancel(f)
      PROVE  HeldInv'
  <2>1. /\ work = <<>> /\ UNCHANGED <<pressed, emulation>>
        /\ held' = held \ {<<"finger", f>>}
    BY <1>6 DEF InjectTouchEnd, InjectTouchCancel, Inject
  <2>2. PICK op \in {"emitEnd", "emitCancel"}, kind \in {"end", "cancel"} :
            /\ Task(op, f) \in Elements(work')
            /\ Elements(work') \subseteq
                   {Task("emitMove", f), Task(op, f), Task("emulateMouse", kind)}
            /\ f = 0 => Task("emulateMouse", kind) \in Elements(work')
            /\ Elements(Tail(work')) \subseteq {Task(op, f), Task("emulateMouse", kind)}
    <3>1. CASE InjectTouchEnd(f)
      <4>1. /\ Elements(work') = {Task("emitMove", f), Task("emitEnd", f)}
                   \cup (IF f = 0 THEN {Task("emulateMouse", "end")} ELSE {})
            /\ Elements(Tail(work')) \subseteq {Task("emitEnd", f), Task("emulateMouse", "end")}
        BY <3>1, InjectTouchEndDoes
      <4> QED
        BY <4>1
    <3>2. CASE InjectTouchCancel(f)
      <4>1. /\ Elements(work') = {Task("emitCancel", f)}
                   \cup (IF f = 0 THEN {Task("emulateMouse", "cancel")} ELSE {})
            /\ Elements(Tail(work')) \subseteq {Task("emulateMouse", "cancel")}
        BY <3>2, InjectTouchCancelDoes
      <4> QED
        BY <4>1
    <3> QED
      BY <1>6, <3>1, <3>2
  <2>3. /\ Task("emulateMouse", kind).op = "emulateMouse"
        /\ Task("emulateMouse", kind).arg = kind
        /\ Task(op, f).op # "emitBegin"
    BY <2>2 DEF Task
  <2>4. \A t \in Elements(work') : Downward(t)'
    <3>1. /\ Downward(Task("emitMove", f))' /\ Downward(Task(op, f))'
          /\ Downward(Task("emulateMouse", kind))'
      BY <2>2 DEF Downward, Task
    <3> QED
      BY <2>2, <3>1
  <2>5. \A t \in Elements(Tail(work')) : t.op # "emitBegin"
    BY <2>2, <2>3
  <2>6. Brings(Task(op, f), <<"finger", f>>)
    BY <2>2 DEF Brings, UpTasks, Task
  <2>7. f = 0 => Releasing("emulateMouse")'
    BY <2>2, <2>3 DEF Releasing
  <2>8. \A d \in held : d \notin held' => d = <<"finger", f>>
    BY <2>1
  <2>9. \A d \in held : d \notin held' =>
            /\ \E t \in Elements(work') : Brings(t, d)
            /\ d = <<"finger", 0>> => Releasing("emulateMouse")'
            /\ d = <<"button", Left>> => Releasing("emulateTouch")'
    BY <2>2, <2>6, <2>7, <2>8
  <2> QED
    BY <2>1, <2>4, <2>5, <2>9, InjectedHeld
<1>7. ASSUME NEW k \in Keys, InjectKeyPress(k)
      PROVE  HeldInv'
  <2>1. /\ work = <<>> /\ UNCHANGED <<pressed, emulation>>
        /\ held' = held \cup {<<"key", k>>}
    BY <1>7 DEF InjectKeyPress, Inject
  <2>2. Elements(work') = {Task("emitKeyPress", k)} /\ Elements(Tail(work')) = {}
    BY <1>7, InjectKeyDoes
  <2>3. Downward(Task("emitKeyPress", k))'
    BY <2>1 DEF Downward, Task
  <2>4. \A d \in held : d \in held'
    BY <2>1
  <2> QED
    BY <2>1, <2>2, <2>3, <2>4, InjectedHeld
<1>8. ASSUME NEW k \in Keys, InjectKeyRelease(k)
      PROVE  HeldInv'
  <2>1. /\ work = <<>> /\ UNCHANGED <<pressed, emulation>>
        /\ held' = held \ {<<"key", k>>}
    BY <1>8 DEF InjectKeyRelease, Inject
  <2>2. Elements(work') = {Task("emitKeyRelease", k)} /\ Elements(Tail(work')) = {}
    BY <1>8, InjectKeyDoes
  <2>3. Downward(Task("emitKeyRelease", k))'
    BY DEF Downward, Task
  <2>4. Brings(Task("emitKeyRelease", k), <<"key", k>>)
    BY DEF Brings, UpTasks, Task
  <2>5. \A d \in held : d \notin held' => d = <<"key", k>>
    BY <2>1
  <2>6. \A d \in held : d \notin held' =>
            /\ \E t \in Elements(work') : Brings(t, d)
            /\ d = <<"finger", 0>> => Releasing("emulateMouse")'
            /\ d = <<"button", Left>> => Releasing("emulateTouch")'
    BY <2>2, <2>4, <2>5
  <2> QED
    BY <2>1, <2>2, <2>3, <2>6, InjectedHeld
<1> QED
  BY <1>1, <1>2, <1>3, <1>4, <1>5, <1>6, <1>7, <1>8 DEF Platform

LEMMA CallHeld ==
    ASSUME InputInv, HeldInv, NEW call, TopLevelCall(call)
    PROVE  HeldInv'
<1>1. /\ work = <<>> /\ UNCHANGED <<held, pressed>> /\ SetFlags(call)
      /\ work' = Started(call)
  BY DEF TopLevelCall
<1>2. Known' = Known
  BY <1>1 DEF Known, pressed
<1>3. PICK tasks \in Seq(Tasks) : /\ tasks = work'
                                  /\ \A t \in Elements(tasks) : t.op \in Loops
  BY <1>1, StartedIs
<1>4. \A t \in Elements(work') : Downward(t)'
  BY <1>3, PassDown
<1>5. BeginsAtOnce'
  <2>1. tasks # <<>> => Elements(Tail(tasks)) \subseteq Elements(tasks)
    BY Splits
  <2> QED
    BY <1>3, <2>1 DEF BeginsAtOnce, Loops
<1>6. ASSUME NEW d \in Known PROVE Reason(d)'
  <2>1. Downed(d)
    BY <1>1, Idle
  <2>2. CASE d \in held
    BY <1>1, <2>2 DEF Reason
  <2>3. CASE d = <<"button", Left>> /\ <<"finger", 0>> \in held /\ mEmulateMouseFromTouches
    <3>1. CASE mEmulateMouseFromTouches'
      BY <1>1, <2>3, <3>1 DEF Reason, ImitatesFinger
    <3>2. CASE ~ mEmulateMouseFromTouches'
      <4>1. call = "mouseOff"
        BY <1>1, <2>3, <3>2 DEF SetFlags
      <4>2. Task("resetButtons", Left) \in Elements(work')
        BY <1>1, <4>1, StartedIs
      <4>3. Brings(Task("resetButtons", Left), <<"button", Left>>)
        BY DEF Brings, ResetTask, Task
      <4> QED
        BY <2>3, <4>2, <4>3 DEF Reason, Brings
    <3> QED
      BY <3>1, <3>2
  <2>4. CASE d = <<"finger", 0>> /\ <<"button", Left>> \in held /\ mEmulateTouchesFromMouse
    <3>1. CASE mEmulateTouchesFromMouse'
      BY <1>1, <2>4, <3>1 DEF Reason, ImitatesMouse
    <3>2. CASE ~ mEmulateTouchesFromMouse'
      <4>1. call = "touchesOff"
        BY <1>1, <2>4, <3>2 DEF SetFlags
      <4>2. Task("resetTouches", Left) \in Elements(work')
        BY <1>1, <4>1, StartedIs
      <4>3. Brings(Task("resetTouches", Left), <<"finger", 0>>)
        BY DEF Brings, ResetTask, Task
      <4> QED
        BY <2>4, <4>2, <4>3 DEF Reason, Brings
    <3> QED
      BY <3>1, <3>2
  <2> QED
    BY <2>1, <2>2, <2>3, <2>4 DEF Downed
<1> QED
  BY <1>2, <1>4, <1>5, <1>6 DEF HeldInv, Reasons

LEMMA HeldInitially == Init => HeldInv
<1> SUFFICES ASSUME Init
             PROVE  HeldInv
  OBVIOUS
<1>1. Known = {} /\ Elements(work) = {} /\ work = <<>>
  BY DEF Init, Known, Elements
<1> QED
  BY <1>1 DEF HeldInv, Reasons, BeginsAtOnce

LEMMA HeldStep ==
    ASSUME "mouseOff" \notin Reactions, InputInv, HeldInv, [Next]_vars
    PROVE  HeldInv'
<1>1. CASE UNCHANGED vars
  <2>1. /\ UNCHANGED <<work, held>>
        /\ UNCHANGED <<mPressedMouseButtons, mPressedFingers, mPressedKeys>>
        /\ UNCHANGED <<mEmulateTouchesFromMouse, mEmulateMouseFromTouches>>
    BY <1>1 DEF vars, pressed, emulation
  <2>2. Known' = Known
    BY <2>1 DEF Known
  <2>3. \A d \in Known : Reason(d) => Reason(d)'
    BY <2>1 DEF Reason, ImitatesFinger, ImitatesMouse, Releasing
  <2>4. \A t : Downward(t) => Downward(t)'
    BY <2>1 DEF Downward
  <2> QED
    BY <2>1, <2>2, <2>3, <2>4 DEF HeldInv, Reasons, BeginsAtOnce
<1>2. CASE Step
  BY <1>2, EmulateTouchHeld, EmulateMouseHeld, EmitsHeld, LoopsHeld, NotifyHeld DEF Step
<1>3. CASE Platform
  BY <1>3, InjectStepHeld, CallHeld
<1> QED
  BY <1>1, <1>2, <1>3 DEF Next

\* If no callback switches the emulation of the mouse off, nothing is down between
\* calls that nobody holds - the left button or finger 0 may stand for each other
\* (the emulation branches of inject*() and the resets of the flags' setters).
THEOREM NothingLeftDown ==
    ASSUME "mouseOff" \notin Reactions
    PROVE  Spec => []NothingStuck
<1>1. InputInv /\ HeldInv => NothingStuck
  <2> SUFFICES ASSUME HeldInv, work = <<>>, NEW d \in Known
               PROVE  Source(d) \cap held # {}
    BY DEF NothingStuck
  <2>1. Downed(d)
    BY Idle
  <2>2. d \in Source(d)
    BY DEF Source
  <2>3. /\ <<"finger", 0>> \in Source(<<"button", Left>>)
        /\ <<"button", Left>> \in Source(<<"finger", 0>>)
    BY DEF Source
  <2> QED
    BY <2>1, <2>2, <2>3 DEF Downed
<1>2. InputInv /\ HeldInv /\ [Next]_vars => (InputInv /\ HeldInv)'
  BY InputStep, HeldStep
<1> QED
  BY <1>1, <1>2, InputInitially, HeldInitially, PTL DEF Spec

=============================================================================
