----------------------------- MODULE XrdpEvent -----------------------------
(***************************************************************************)
(* What becomes of the user's input: libModEvent() makes an XrdpEvent of   *)
(* what xrdp reports, ProjectorClient::handleEvent() makes at most one     *)
(* message of that (src/XrdpEvent.{hpp,cpp}, src/KeycodeMap.cpp), and the  *)
(* projector presses and releases what the messages say                    *)
(* (src/messages/projector.h).                                             *)
(*                                                                         *)
(* Messages are applied when they are written: that they reach the         *)
(* projector in order and complete is what IPCConnection's WireInOrder and *)
(* NothingLost say.  The user and xrdp are the environment.                *)
(*                                                                         *)
(* An operator whose comment begins with "Variant:" is not part of the     *)
(* specification: it is the plausible mistake that a property is there to  *)
(* catch (PROJECT.json, "mutants").                                        *)
(***************************************************************************)
EXTENDS Integers, Sequences

\* The values of a uint16_t.
UINT16 == 0..65535

CONSTANTS Keys,      \* the keys of the user's keyboard: scan code, and which
                     \* of the keys that share it (the flag for the second
                     \* one is in param4)
          Positions  \* where the pointer may be

ASSUME InputAssumption ==
    /\ Keys \subseteq [code : UINT16, extended : BOOLEAN]
    /\ Positions \subseteq [x : UINT16, y : UINT16]
    /\ Positions # {}

VARIABLES
    \* the user
    pressed,      \* the keys held down
    clicked,      \* the mouse buttons held down
    pointer,      \* where the pointer is
    before,       \* history: the keys held since before the session began
    \* the client
    isGood,       \* IPCConnection::_isGood
    isTerminated, \* _isTerminated
    \* the projector
    keys,         \* the key codes it holds down
    buttons,      \* the buttons it holds down
    moved         \* where it moved its pointer to, as a sequence of at most one

userVars == <<pressed, clicked, pointer, before>>
clientVars == <<isGood, isTerminated>>
projectorVars == <<keys, buttons, moved>>
vars == <<userVars, clientVars, projectorVars>>

\* enum XrdpEvent::Type
Type == [KEY_DOWN |-> 15, KEY_UP |-> 16, KEY_SYNCHRONIZE_LOCK |-> 17,
         MOUSE_MOVE |-> 100,
         MOUSE_BUTTON_LEFT_UP |-> 101, MOUSE_BUTTON_LEFT_DOWN |-> 102,
         MOUSE_BUTTON_RIGHT_UP |-> 103, MOUSE_BUTTON_RIGHT_DOWN |-> 104,
         MOUSE_BUTTON_MIDDLE_UP |-> 105, MOUSE_BUTTON_MIDDLE_DOWN |-> 106,
         MOUSE_WHEEL_UP |-> 107, MOUSE_UNKNOWN_1 |-> 108,
         MOUSE_WHEEL_DOWN |-> 109, MOUSE_UNKNOWN_2 |-> 110,
         INVALIDATE_REQUEST |-> 200, CHANNEL_EVENT |-> 21845]

\* xrdp reports a button by its type.
Down == [left   |-> Type.MOUSE_BUTTON_LEFT_DOWN,
         right  |-> Type.MOUSE_BUTTON_RIGHT_DOWN,
         middle |-> Type.MOUSE_BUTTON_MIDDLE_DOWN]
Up   == [left   |-> Type.MOUSE_BUTTON_LEFT_UP,
         right  |-> Type.MOUSE_BUTTON_RIGHT_UP,
         middle |-> Type.MOUSE_BUTTON_MIDDLE_UP]

Buttons == DOMAIN Down

Event(type, param1, param2, param3) ==
    [type |-> type, param1 |-> param1, param2 |-> param2, param3 |-> param3]
----------------------------------------------------------------------------
(* Key codes.  "-" stands for -1, no key. *)

RDP_CGKEYCODE_MAP ==
    <<"-", "Escape", "1", "2", "3", "4", "5", "6", "7", "8", "9", "0", "Minus",
      "Equal", "Delete", "Tab", "Q", "W", "E", "R", "T", "Y", "U", "I", "O",
      "P", "LeftBracket", "RightBracket", "Return", "Control", "A", "S", "D",
      "F", "G", "H", "J", "K", "L", "Semicolon", "Quote", "Grave", "Shift",
      "Backslash", "Z", "X", "C", "V", "B", "N", "M", "Comma", "Period",
      "Slash", "RightShift", "-", "Option", "Space", "-", "F1", "F2", "F3",
      "F4", "F5", "F6", "F7", "F8", "F9", "F10", "F11", "F12", "Home",
      "UpArrow", "PageUp", "-", "LeftArrow", "-", "RightArrow", "-", "End",
      "DownArrow", "PageDown", "-", "ForwardDelete", "-", "-", "-", "-", "-",
      "-", "-", "Command">>

\* What a long becomes in a uint16_t.
Uint16(n) == n % 65536

\* Variant: the table's last entry is taken for its length.
KeycodeBelow91(keycode) ==
    IF Uint16(keycode) < 91 THEN RDP_CGKEYCODE_MAP[Uint16(keycode) + 1] ELSE "-"

\* rdpKeycodeToCGKeycode()
RdpKeycodeToCGKeycode(keycode) ==
    IF Uint16(keycode) <= 91 THEN RDP_CGKEYCODE_MAP[Uint16(keycode) + 1] ELSE "-"
----------------------------------------------------------------------------
(* handleEvent(): the messages an event becomes, as a set of at most one. *)

Message(type, kind, of) == [type |-> type, kind |-> kind, of |-> of]

\* Variant: key up is forgotten.
IsKeyDownEvent(e) == e.type = Type.KEY_DOWN

IsKeyEvent(e) == e.type \in {Type.KEY_DOWN, Type.KEY_UP}

IsMouseEvent(e) == e.type \in Type.MOUSE_MOVE..Type.MOUSE_UNKNOWN_2

KeyMessages(e) ==
    {Message("KEYBOARD", IF e.type = Type.KEY_DOWN THEN "DOWN" ELSE "UP", key) :
        key \in {RdpKeycodeToCGKeycode(e.param3)} \ {"-"}}

\* The left and the right button; the middle one ends in the default case.
ButtonMessages(e) ==
    {Message("MOUSE_BUTTON", IF e.type = Down[b] THEN "DOWN" ELSE "UP", b) :
        b \in {b \in {"left", "right"} : e.type \in {Down[b], Up[b]}}}

MoveMessages(e) ==
    {Message("MOUSE_MOVE", "MOVE", [x |-> Uint16(e.param1), y |-> Uint16(e.param2)]) :
        type \in {e.type} \cap {Type.MOUSE_MOVE}}

WheelMessages(e) ==
    {Message("MOUSE_WHEEL", "WHEEL", IF type = Type.MOUSE_WHEEL_UP THEN -56 ELSE 56) :
        type \in {e.type} \cap {Type.MOUSE_WHEEL_UP, Type.MOUSE_WHEEL_DOWN}}

\* KEY_SYNCHRONIZE_LOCK, INVALIDATE_REQUEST and CHANNEL_EVENT become nothing.
Messages(e) ==
    IF IsKeyEvent(e) THEN KeyMessages(e)
    ELSE IF IsMouseEvent(e) THEN ButtonMessages(e) \cup MoveMessages(e)
                                     \cup WheelMessages(e)
    ELSE {}

\* What the messages of a type and a kind are about.
Of(messages, type, kind) ==
    {m.of : m \in {m \in messages : m.type = type /\ m.kind = kind}}

\* The projector does what it is told.
Apply(messages) ==
    /\ keys' = (keys \cup Of(messages, "KEYBOARD", "DOWN"))
                   \ Of(messages, "KEYBOARD", "UP")
    /\ buttons' = (buttons \cup Of(messages, "MOUSE_BUTTON", "DOWN"))
                      \ Of(messages, "MOUSE_BUTTON", "UP")
    /\ moved' = IF Of(messages, "MOUSE_MOVE", "MOVE") = {} THEN moved
                ELSE <<CHOOSE at \in Of(messages, "MOUSE_MOVE", "MOVE") : TRUE>>

\* handleEvent(): nothing after stop(); on a connection that is lost it stops
\* the client and drops the event.
HandleEvent(e) ==
    \/ /\ isTerminated
       /\ UNCHANGED <<clientVars, projectorVars>>
    \/ /\ ~isTerminated /\ ~isGood
       /\ isTerminated' = TRUE
       /\ UNCHANGED <<isGood, projectorVars>>
    \/ /\ ~isTerminated /\ isGood
       /\ Apply(Messages(e))
       /\ UNCHANGED clientVars
----------------------------------------------------------------------------
(* The user, whose every move xrdp reports to libModEvent(). *)

\* A key goes down, or is held and repeats.
PressKey(k) ==
    /\ pressed' = pressed \cup {k}
    /\ before' = before \ {k}
    /\ HandleEvent(Event(Type.KEY_DOWN, 0, 0, k.code))
    /\ UNCHANGED <<clicked, pointer>>

ReleaseKey(k) ==
    /\ k \in pressed
    /\ pressed' = pressed \ {k}
    /\ before' = before \ {k}
    /\ HandleEvent(Event(Type.KEY_UP, 0, 0, k.code))
    /\ UNCHANGED <<clicked, pointer>>

MovePointer(p) ==
    /\ pointer' = p
    /\ HandleEvent(Event(Type.MOUSE_MOVE, p.x, p.y, 0))
    /\ UNCHANGED <<pressed, clicked, before>>

PressButton(b) ==
    /\ b \notin clicked
    /\ clicked' = clicked \cup {b}
    /\ HandleEvent(Event(Down[b], pointer.x, pointer.y, 0))
    /\ UNCHANGED <<pressed, pointer, before>>

ReleaseButton(b) ==
    /\ b \in clicked
    /\ clicked' = clicked \ {b}
    /\ HandleEvent(Event(Up[b], pointer.x, pointer.y, 0))
    /\ UNCHANGED <<pressed, pointer, before>>

\* The wheel, lock keys, a request to redraw, a channel's data.
OtherEvent(type) ==
    /\ HandleEvent(Event(type, 0, 0, 0))
    /\ UNCHANGED userVars

OtherTypes == {Type.MOUSE_WHEEL_UP, Type.MOUSE_UNKNOWN_1, Type.MOUSE_WHEEL_DOWN,
               Type.MOUSE_UNKNOWN_2, Type.KEY_SYNCHRONIZE_LOCK,
               Type.INVALIDATE_REQUEST, Type.CHANNEL_EVENT}

\* The connection is lost, or mod_end stops the client.
Lose == /\ isGood' = FALSE
        /\ UNCHANGED <<userVars, isTerminated, projectorVars>>
Stop == /\ isTerminated' = TRUE
        /\ UNCHANGED <<userVars, isGood, projectorVars>>

\* The session begins with keys held down (the one that sent the password off,
\* say) of which the projector has not been told.
Init ==
    /\ pressed \in SUBSET Keys /\ before = pressed
    /\ clicked = {} /\ pointer \in Positions
    /\ isGood = TRUE /\ isTerminated = FALSE
    /\ keys = {} /\ buttons = {} /\ moved = <<>>

User ==
    \/ \E k \in Keys : PressKey(k) \/ ReleaseKey(k)
    \/ \E p \in Positions : MovePointer(p)
    \/ \E b \in Buttons : PressButton(b) \/ ReleaseButton(b)
    \/ \E type \in OtherTypes : OtherEvent(type)

Next == User \/ Lose \/ Stop

Spec == Init /\ [][Next]_vars
----------------------------------------------------------------------------
(* Properties.  The reference: the table's entry for a scan code, if it has *)
(* one, whatever the function makes of it.                                  *)

Entry(code) == IF code < Len(RDP_CGKEYCODE_MAP) THEN RDP_CGKEYCODE_MAP[code + 1]
               ELSE "-"

\* No key or button is stuck: as long as the client is at work, the projector
\* holds nothing down that the user does not.  In particular, whatever was
\* pressed, released and repeated, when the user lets go of all the projector
\* holds nothing.  (When the connection is lost, or the session ends, with a
\* key held, it stays pressed: KEY_EVENT_TYPE_RESET is never sent.)
NothingStuck ==
    ~isTerminated =>
        /\ keys \subseteq {Entry(k.code) : k \in pressed}
        /\ buttons \subseteq clicked

\* No other key of the keyboard stands for the same key code.  (handleEvent()
\* does not look at param4, so the second key of a scan code is taken for the
\* first, and releasing one of them releases both.)
Alone(k) == \A l \in Keys : Entry(l.code) = Entry(k.code) => l = k

\* Input arrives: what the user holds down and the table has an entry for is
\* held down by the projector, the left and right buttons too, and the pointer
\* is where the user has moved it.
InputArrives ==
    ~isTerminated /\ isGood =>
        /\ \A k \in pressed \ before :
              Alone(k) /\ Entry(k.code) # "-" => Entry(k.code) \in keys
        /\ clicked \cap {"left", "right"} \subseteq buttons
        /\ moved \in {<<>>, <<pointer>>}
============================================================================
