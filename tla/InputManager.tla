---------------------------- MODULE InputManager ----------------------------
(***************************************************************************)
(* InputManager: the sets of pressed buttons, fingers and keys, the        *)
(* emulation of touches by the mouse and of the mouse by finger 0, and the *)
(* resets that callbacks make in the middle of a notification (a scene     *)
(* switch resets everything). The calls under way are a stack of tasks: an *)
(* emit*() function, a reset loop, the emulation branch of an inject*()    *)
(* function, or a pass over the observers. Positions are left out.         *)
(***************************************************************************)
EXTENDS Integers, Sequences

CONSTANTS
    Left,           \* the mouse button that is emulated
    Buttons, Fingers, Keys,
    Observers,      \* the registered observers, in the order they are called
    Reactive,       \* those whose callbacks may call back
    Reactions       \* what they may call: resetAll, or a change of a flag

Elements(s) == {s[k] : k \in DOMAIN s}

\* Only the observer that is called last reacts, as does the one observer that the
\* engine registers: one behind it would hear of a cancellation before the begin.
ASSUME InputAssumption ==
    /\ Left \in Buttons
    /\ 0 \in Fingers
    /\ Observers \in Seq(Elements(Observers))
    /\ \A j, k \in DOMAIN Observers : Observers[j] = Observers[k] => j = k
    /\ \A o \in Reactive : Observers # <<>> /\ o = Observers[Len(Observers)]
    /\ Reactions \subseteq {"resetAll", "touchesOn", "touchesOff", "mouseOn", "mouseOff"}

VARIABLES
    mPressedMouseButtons, mPressedFingers, mPressedKeys,
    mEmulateTouchesFromMouse, mEmulateMouseFromTouches,
    work,           \* the stack of tasks, innermost first
    held,           \* what the user holds down: <<device, which>>
    view            \* history: what each observer has been told is down

pressed == <<mPressedMouseButtons, mPressedFingers, mPressedKeys>>
emulation == <<mEmulateTouchesFromMouse, mEmulateMouseFromTouches>>
vars == <<pressed, emulation, work, held, view>>

Task(op, arg) == [op |-> op, arg |-> arg, left |-> <<>>]
Pass(event, arg) == [op |-> event, arg |-> arg, left |-> Observers]

Devices ==
    ({"button"} \X Buttons) \cup ({"finger"} \X Fingers) \cup ({"key"} \X Keys)

Init ==
    /\ mPressedMouseButtons = {} /\ mPressedFingers = {} /\ mPressedKeys = {}
    /\ mEmulateTouchesFromMouse = TRUE
    /\ mEmulateMouseFromTouches = TRUE
    /\ work = <<>>
    /\ held = {}
    /\ view = [o \in Elements(Observers) |-> {}]

-----------------------------------------------------------------------------
(* inject*(), called by the platform between frames: an emit*(), then the  *)
(* emulation branch, whose flag is read when the first part has returned.  *)

Inject(tasks) ==
    /\ work = <<>>
    /\ work' = tasks
    /\ UNCHANGED <<pressed, emulation, view>>

Branch(op, kind, which, chosen) ==
    IF which = chosen THEN <<Task(op, kind)>> ELSE <<>>

InjectMouseButtonPress(b) ==
    /\ <<"button", b>> \notin held
    /\ held' = held \cup {<<"button", b>>}
    /\ Inject(<<Task("emitPress", b)>> \o Branch("emulateTouch", "begin", b, Left))

\* Release and cancel of a button: kind is "end" or "cancel".
InjectMouseButtonUp(b, kind) ==
    /\ <<"button", b>> \in held
    /\ held' = held \ {<<"button", b>>}
    /\ LET emit == IF kind = "end" THEN "emitRelease" ELSE "emitButtonCancel"
       IN  Inject(<<Task(emit, b)>> \o Branch("emulateTouch", kind, b, Left))

InjectMouseMove ==
    /\ UNCHANGED held
    /\ Inject(<<Task("emitMouseMove", Left), Task("emulateTouch", "move")>>)

InjectTouchBegin(f) ==
    /\ <<"finger", f>> \notin held
    /\ held' = held \cup {<<"finger", f>>}
    /\ Inject(<<Task("emitBegin", f)>> \o Branch("emulateMouse", "begin", f, 0))

InjectTouchMove(f) ==
    /\ <<"finger", f>> \in held
    /\ UNCHANGED held
    /\ Inject(<<Task("emitMove", f)>> \o Branch("emulateMouse", "move", f, 0))

InjectTouchEnd(f) ==
    /\ <<"finger", f>> \in held
    /\ held' = held \ {<<"finger", f>>}
    /\ Inject(<<Task("emitMove", f), Task("emitEnd", f)>>
              \o Branch("emulateMouse", "end", f, 0))

\* Mutant: the emulated mouse is forgotten.
InjectTouchCancelOnly(f) ==
    /\ <<"finger", f>> \in held
    /\ held' = held \ {<<"finger", f>>}
    /\ Inject(<<Task("emitCancel", f)>>)

InjectTouchCancel(f) ==
    /\ <<"finger", f>> \in held
    /\ held' = held \ {<<"finger", f>>}
    /\ Inject(<<Task("emitCancel", f)>> \o Branch("emulateMouse", "cancel", f, 0))

InjectKeyPress(k) ==
    /\ held' = held \cup {<<"key", k>>}
    /\ Inject(<<Task("emitKeyPress", k)>>)

InjectKeyRelease(k) ==
    /\ <<"key", k>> \in held
    /\ held' = held \ {<<"key", k>>}
    /\ Inject(<<Task("emitKeyRelease", k)>>)

-----------------------------------------------------------------------------
(* The emulation branches *)

TouchTasks(kind) ==
    CASE kind = "begin"  -> <<Task("emitBegin", 0)>>
      [] kind = "move"   -> <<Task("emitMove", 0)>>
      [] kind = "end"    -> <<Task("emitMove", 0), Task("emitEnd", 0)>>
      [] kind = "cancel" -> <<Task("emitMove", 0), Task("emitCancel", 0)>>

MouseTasks(kind) ==
    CASE kind = "begin"  -> <<Task("emitMouseMove", Left), Task("emitPress", Left)>>
      [] kind = "move"   -> <<Task("emitMouseMove", Left)>>
      [] kind = "end"    -> <<Task("emitMouseMove", Left), Task("emitRelease", Left)>>
      [] kind = "cancel" -> <<Task("emitMouseMove", Left), Task("emitButtonCancel", Left)>>

Doing(op) == work # <<>> /\ Head(work).op = op
Arg == Head(work).arg

\* The task on top is replaced by others.
Continue(tasks) == work' = tasks \o Tail(work)

EmulateTouch ==
    /\ Doing("emulateTouch")
    /\ Continue(IF mEmulateTouchesFromMouse THEN TouchTasks(Arg) ELSE <<>>)
    /\ UNCHANGED <<pressed, emulation, held, view>>

EmulateMouse ==
    /\ Doing("emulateMouse")
    /\ Continue(IF mEmulateMouseFromTouches THEN MouseTasks(Arg) ELSE <<>>)
    /\ UNCHANGED <<pressed, emulation, held, view>>

-----------------------------------------------------------------------------
(* emit*(): the set changes first, then the observers are notified - but   *)
(* only of what is a change.                                               *)

EmitPress ==
    /\ Doing("emitPress")
    /\ Continue(IF Arg \in mPressedMouseButtons THEN <<>> ELSE <<Pass("pressed", Arg)>>)
    /\ mPressedMouseButtons' = mPressedMouseButtons \cup {Arg}
    /\ UNCHANGED <<mPressedFingers, mPressedKeys, emulation, held, view>>

EmitButtonUp ==
    /\ Doing("emitRelease") \/ Doing("emitButtonCancel")
    /\ LET event == IF Doing("emitRelease") THEN "released" ELSE "buttonCancelled"
       IN  Continue(IF Arg \in mPressedMouseButtons THEN <<Pass(event, Arg)>> ELSE <<>>)
    /\ mPressedMouseButtons' = mPressedMouseButtons \ {Arg}
    /\ UNCHANGED <<mPressedFingers, mPressedKeys, emulation, held, view>>

EmitMouseMove ==
    /\ Doing("emitMouseMove")
    /\ Continue(<<Pass("mouseMoved", Arg)>>)
    /\ UNCHANGED <<pressed, emulation, held, view>>

\* Mutant: the result of emplace() is ignored.
EmitBeginAlways ==
    /\ Doing("emitBegin")
    /\ Continue(<<Pass("began", Arg)>>)
    /\ mPressedFingers' = mPressedFingers \cup {Arg}
    /\ UNCHANGED <<mPressedMouseButtons, mPressedKeys, emulation, held, view>>

EmitBegin ==
    /\ Doing("emitBegin")
    /\ Continue(IF Arg \in mPressedFingers THEN <<>> ELSE <<Pass("began", Arg)>>)
    /\ mPressedFingers' = mPressedFingers \cup {Arg}
    /\ UNCHANGED <<mPressedMouseButtons, mPressedKeys, emulation, held, view>>

EmitMove ==
    /\ Doing("emitMove")
    /\ Continue(IF Arg \in mPressedFingers THEN <<Pass("moved", Arg)>> ELSE <<>>)
    /\ UNCHANGED <<pressed, emulation, held, view>>

EmitTouchUp ==
    /\ Doing("emitEnd") \/ Doing("emitCancel")
    /\ LET event == IF Doing("emitEnd") THEN "ended" ELSE "cancelled"
       IN  Continue(IF Arg \in mPressedFingers THEN <<Pass(event, Arg)>> ELSE <<>>)
    /\ mPressedFingers' = mPressedFingers \ {Arg}
    /\ UNCHANGED <<mPressedMouseButtons, mPressedKeys, emulation, held, view>>

EmitKeyPress ==
    /\ Doing("emitKeyPress")
    /\ Continue(<<Pass("keyPress", Arg)>>)
    /\ mPressedKeys' = mPressedKeys \cup {Arg}
    /\ UNCHANGED <<mPressedMouseButtons, mPressedFingers, emulation, held, view>>

EmitKeyRelease ==
    /\ Doing("emitKeyRelease")
    /\ Continue(IF Arg \in mPressedKeys THEN <<Pass("keyRelease", Arg)>> ELSE <<>>)
    /\ mPressedKeys' = mPressedKeys \ {Arg}
    /\ UNCHANGED <<mPressedMouseButtons, mPressedFingers, emulation, held, view>>

-----------------------------------------------------------------------------
(* The reset loops, the calls that start them, and the observers           *)

\* Mutant: the loop does not end.
ResetForever(op, S, emit) ==
    /\ Doing(op)
    /\ IF S = {}
       THEN UNCHANGED work
       ELSE \E x \in S : work' = <<Task(emit, x)>> \o work
    /\ UNCHANGED <<pressed, emulation, held, view>>

\* while (!S.empty()) emit(*S.begin()): any element may come first.
ResetLoop(op, S, emit) ==
    /\ Doing(op)
    /\ IF S = {}
       THEN Continue(<<>>)
       ELSE \E x \in S : work' = <<Task(emit, x)>> \o work
    /\ UNCHANGED <<pressed, emulation, held, view>>

ResetKeyPresses == ResetLoop("resetKeys", mPressedKeys, "emitKeyRelease")
ResetMouseButtons == ResetLoop("resetButtons", mPressedMouseButtons, "emitButtonCancel")

\* Mutant: the set is cleared without telling anybody.
ClearTouches ==
    /\ Doing("resetTouches")
    /\ Continue(<<>>)
    /\ mPressedFingers' = {}
    /\ UNCHANGED <<mPressedMouseButtons, mPressedKeys, emulation, held, view>>

ResetTouches == ResetLoop("resetTouches", mPressedFingers, "emitCancel")

ResetAllTasks ==
    <<Task("resetKeys", Left), Task("resetButtons", Left), Task("resetTouches", Left)>>

\* resetAll(), setEmulateTouchesFromMouse(flag), setEmulateMouseFromTouches(flag):
\* the tasks a call starts; only switching an emulation off resets anything.
Started(call) ==
    CASE call = "resetAll"   -> ResetAllTasks
      [] call = "touchesOff" -> <<Task("resetTouches", Left)>>
      [] call = "mouseOff"   -> <<Task("resetButtons", Left)>>
      [] OTHER -> <<>>

SetFlags(call) ==
    /\ mEmulateTouchesFromMouse' =
           IF call = "touchesOn" THEN TRUE
           ELSE IF call = "touchesOff" THEN FALSE ELSE mEmulateTouchesFromMouse
    /\ mEmulateMouseFromTouches' =
           IF call = "mouseOn" THEN TRUE
           ELSE IF call = "mouseOff" THEN FALSE ELSE mEmulateMouseFromTouches

\* A call made between frames.
TopLevelCall(call) ==
    /\ work = <<>>
    /\ work' = Started(call)
    /\ SetFlags(call)
    /\ UNCHANGED <<pressed, held, view>>

Downs == [pressed |-> "button", began |-> "finger", keyPress |-> "key"]
Ups == [released |-> "button", buttonCancelled |-> "button",
        ended |-> "finger", cancelled |-> "finger", keyRelease |-> "key"]
Moves == {"mouseMoved", "moved"}
Notifications == DOMAIN Downs \cup DOMAIN Ups \cup Moves

\* An observer that has been told of event e about x, after it had seen s.
Told(s, e, x) ==
    IF e \in DOMAIN Downs THEN s \cup {<<Downs[e], x>>}
    ELSE IF e \in DOMAIN Ups THEN s \ {<<Ups[e], x>>}
    ELSE s

\* The next observer is called; its callback may call back.
Notify ==
    /\ work # <<>>
    /\ Head(work).op \in Notifications
    /\ LET pass == Head(work)
           o == Head(pass.left)
           rest == [pass EXCEPT !.left = Tail(@)]
       IN  IF pass.left = <<>>
           THEN /\ Continue(<<>>)
                /\ UNCHANGED <<emulation, view>>
           ELSE /\ view' = [view EXCEPT ![o] = Told(@, pass.op, pass.arg)]
                /\ \/ /\ Continue(<<rest>>)
                      /\ UNCHANGED emulation
                   \/ /\ o \in Reactive
                      /\ \E call \in Reactions :
                             /\ SetFlags(call)
                             /\ Continue(Started(call) \o <<rest>>)
    /\ UNCHANGED <<pressed, held>>

-----------------------------------------------------------------------------
Step ==
    \/ EmulateTouch \/ EmulateMouse
    \/ EmitPress \/ EmitButtonUp \/ EmitMouseMove
    \/ EmitBegin \/ EmitMove \/ EmitTouchUp
    \/ EmitKeyPress \/ EmitKeyRelease
    \/ ResetKeyPresses \/ ResetMouseButtons \/ ResetTouches
    \/ Notify

Platform ==
    \/ \E b \in Buttons :
           InjectMouseButtonPress(b) \/ \E kind \in {"end", "cancel"} : InjectMouseButtonUp(b, kind)
    \/ InjectMouseMove
    \/ \E f \in Fingers :
           InjectTouchBegin(f) \/ InjectTouchMove(f) \/ InjectTouchEnd(f) \/ InjectTouchCancel(f)
    \/ \E k \in Keys : InjectKeyPress(k) \/ InjectKeyRelease(k)
    \/ \E call \in {"resetAll", "touchesOn", "touchesOff", "mouseOn", "mouseOff"} :
           TopLevelCall(call)

Next == Step \/ Platform

\* A call under way is executed by its thread; the platform may stay silent.
Spec == Init /\ [][Next]_vars /\ WF_vars(Step)

-----------------------------------------------------------------------------
(* Properties *)

\* Every variable keeps its type.
TypeOK ==
    /\ mPressedMouseButtons \subseteq Buttons
    /\ mPressedFingers \subseteq Fingers
    /\ mPressedKeys \subseteq Keys
    /\ mEmulateTouchesFromMouse \in BOOLEAN
    /\ mEmulateMouseFromTouches \in BOOLEAN
    /\ \A k \in DOMAIN work :
           Elements(work[k].left) \subseteq Elements(Observers)
    /\ held \subseteq Devices
    /\ view \in [Elements(Observers) -> SUBSET Devices]

\* The protocol every observer relies on: a press is news, and only what has
\* been pressed is moved, released or cancelled - also for the observers that
\* are notified after, or in the middle of, a reset by another's callback.
NotificationsWellFormed ==
    work # <<>> /\ Head(work).op \in Notifications /\ Head(work).left # <<>> =>
        LET e == Head(work).op
            x == Head(work).arg
            seen == view[Head(Head(work).left)]
        IN  /\ e \in {"pressed", "began"} => <<Downs[e], x>> \notin seen
            /\ e \in DOMAIN Ups => <<Ups[e], x>> \in seen
            /\ e = "moved" => <<"finger", x>> \in seen

\* Between calls every observer knows exactly what the sets say.
Known ==
    ({"button"} \X mPressedMouseButtons) \cup ({"finger"} \X mPressedFingers)
    \cup ({"key"} \X mPressedKeys)

ViewsAgree ==
    /\ TypeOK
    /\ work = <<>> => \A o \in DOMAIN view : view[o] = Known

\* Nothing stays pressed that nobody holds, however the mouse, finger 0, the
\* emulation flags and the resets are mixed.
Source(d) ==
    CASE d = <<"button", Left>> -> {d, <<"finger", 0>>}
      [] d = <<"finger", 0>> -> {d, <<"button", Left>>}
      [] OTHER -> {d}

NothingStuck == work = <<>> => \A d \in Known : Source(d) \cap held # {}

\* Every call returns: the reset loops end although callbacks reset again.
CallsReturn == (work # <<>>) ~> (work = <<>>)

=============================================================================
