--------------------------- MODULE XrdpEventProofs ---------------------------
(***************************************************************************)
(* For every keyboard and every screen: the projector never holds a key or *)
(* a button down that the user does not, and what the user holds down and  *)
(* the table knows reaches it.                                             *)
(***************************************************************************)
EXTENDS XrdpEvent, TLAPS

LEMMA ModSmall == ASSUME NEW n \in Int, 0 <= n, n < 65536 PROVE n % 65536 = n
OBVIOUS

LEMMA Uint16Fits == ASSUME NEW n \in UINT16 PROVE Uint16(n) = n
<1>1. n \in Int /\ 0 <= n /\ n < 65536
  BY SMTT(30) DEF UINT16
<1>2. n % 65536 = n
  BY <1>1, ModSmall
<1> QED BY <1>2 DEF Uint16

\* The table has 92 entries, which is what rdpKeycodeToCGKeycode() takes it to
\* have, so that for the codes of a keyboard it returns the table's entry.
LEMMA TableLength == Len(RDP_CGKEYCODE_MAP) = 92
BY DEF RDP_CGKEYCODE_MAP

LEMMA KeycodeIsEntry ==
    ASSUME NEW code \in UINT16
    PROVE  RdpKeycodeToCGKeycode(code) = Entry(code)
<1>1. Uint16(code) = code
  BY Uint16Fits
<1>2. code <= 91 <=> code < Len(RDP_CGKEYCODE_MAP)
  BY TableLength DEF UINT16
<1> QED BY <1>1, <1>2 DEF RdpKeycodeToCGKeycode, Entry
----------------------------------------------------------------------------
(* What applying the messages of an event does. *)

LEMMA OfAlike ==
    ASSUME NEW S, NEW t, NEW k, NEW type, NEW kind
    PROVE  Of({Message(t, k, x) : x \in S}, type, kind)
               = IF t = type /\ k = kind THEN S ELSE {}
<1> DEFINE M == {Message(t, k, x) : x \in S}
<1>1. \A x : Message(t, k, x).type = t /\ Message(t, k, x).kind = k
             /\ Message(t, k, x).of = x
  BY DEF Message
<1>2. \A m \in M : m.type = t /\ m.kind = k /\ m.of \in S
  BY <1>1
<1>3. \A x \in S : Message(t, k, x) \in M
  OBVIOUS
<1> HIDE DEF M
<1>4. CASE t = type /\ k = kind
  <2>1. \A y \in Of(M, type, kind) : y \in S
    BY <1>2 DEF Of
  <2>2. \A y \in S : y \in Of(M, type, kind)
    BY <1>1, <1>3, <1>4 DEF Of
  <2> QED BY <1>4, <2>1, <2>2 DEF M
<1>5. CASE ~(t = type /\ k = kind)
  <2>1. Of(M, type, kind) = {}
    BY <1>2, <1>5 DEF Of
  <2> QED BY <1>5, <2>1 DEF M
<1> QED BY <1>4, <1>5

LEMMA AppliedKeys ==
    ASSUME NEW S, NEW k \in {"DOWN", "UP"},
           Apply({Message("KEYBOARD", k, x) : x \in S})
    PROVE  /\ keys' = IF k = "DOWN" THEN keys \cup S ELSE keys \ S
           /\ UNCHANGED <<buttons, moved>>
BY OfAlike DEF Apply

LEMMA AppliedButtons ==
    ASSUME NEW S, NEW k \in {"DOWN", "UP"},
           Apply({Message("MOUSE_BUTTON", k, x) : x \in S})
    PROVE  /\ buttons' = IF k = "DOWN" THEN buttons \cup S ELSE buttons \ S
           /\ UNCHANGED <<keys, moved>>
BY OfAlike DEF Apply

LEMMA AppliedMove ==
    ASSUME NEW p, Apply({Message("MOUSE_MOVE", "MOVE", x) : x \in {p}})
    PROVE  moved' = <<p>> /\ UNCHANGED <<keys, buttons>>
<1> DEFINE M == {Message("MOUSE_MOVE", "MOVE", x) : x \in {p}}
<1>1. \A type, kind : Of(M, type, kind)
          = IF "MOUSE_MOVE" = type /\ "MOVE" = kind THEN {p} ELSE {}
  BY OfAlike
<1>2. (CHOOSE at \in {p} : TRUE) = p
  OBVIOUS
<1> HIDE DEF M
<1>3. Apply(M)
  BY DEF M
<1> QED BY <1>1, <1>2, <1>3 DEF Apply

LEMMA AppliedWheel ==
    ASSUME NEW S, Apply({Message("MOUSE_WHEEL", "WHEEL", x) : x \in S})
    PROVE  UNCHANGED projectorVars
BY OfAlike DEF Apply, projectorVars
----------------------------------------------------------------------------
(* The messages of each event the user makes. *)

LEMMA KeyEvent ==
    ASSUME NEW k \in Keys, NEW type \in {Type.KEY_DOWN, Type.KEY_UP}
    PROVE  Messages(Event(type, 0, 0, k.code))
               = {Message("KEYBOARD", IF type = Type.KEY_DOWN THEN "DOWN" ELSE "UP", x) :
                      x \in {Entry(k.code)} \ {"-"}}
<1>1. RdpKeycodeToCGKeycode(k.code) = Entry(k.code)
  BY InputAssumption, KeycodeIsEntry
<1> QED BY <1>1 DEF Messages, Event, IsKeyEvent, KeyMessages

LEMMA ButtonEvent ==
    ASSUME NEW b \in Buttons, NEW type \in {Down[b], Up[b]}, NEW x, NEW y
    PROVE  Messages(Event(type, x, y, 0))
               = {Message("MOUSE_BUTTON", IF type = Down[b] THEN "DOWN" ELSE "UP", of) :
                      of \in {b} \cap {"left", "right"}}
<1>1. b \in {"left", "right", "middle"}
  BY DEF Buttons, Down
<1>2. /\ type \in 101..106 /\ Down[b] # Up[b]
      /\ \A c \in {"left", "right"} : type \in {Down[c], Up[c]} <=> c = b
  BY <1>1 DEF Down, Up, Type
<1> DEFINE e == Event(type, x, y, 0)
<1>3. e.type = type
  BY DEF Event
<1>4. ~IsKeyEvent(e) /\ IsMouseEvent(e)
  BY <1>2, <1>3 DEF IsKeyEvent, IsMouseEvent, Type
<1>5. /\ {e.type} \cap {Type.MOUSE_MOVE} = {}
      /\ {e.type} \cap {Type.MOUSE_WHEEL_UP, Type.MOUSE_WHEEL_DOWN} = {}
  BY <1>2, <1>3 DEF Type
<1> HIDE DEF e
<1>6. ButtonMessages(e)
          = {Message("MOUSE_BUTTON", IF type = Down[b] THEN "DOWN" ELSE "UP", of) :
                 of \in {b} \cap {"left", "right"}}
  BY <1>2, <1>3 DEF ButtonMessages
<1> QED BY <1>4, <1>5, <1>6 DEF Messages, MoveMessages, WheelMessages, e

LEMMA MoveEvent ==
    ASSUME NEW p \in Positions
    PROVE  Messages(Event(Type.MOUSE_MOVE, p.x, p.y, 0))
               = {Message("MOUSE_MOVE", "MOVE", x) : x \in {p}}
<1> DEFINE e == Event(Type.MOUSE_MOVE, p.x, p.y, 0)
<1>1. /\ e.type = 100 /\ e.param1 = p.x /\ e.param2 = p.y
      /\ Type.MOUSE_MOVE = 100
  BY DEF Event, Type
<1>2. ~IsKeyEvent(e) /\ IsMouseEvent(e)
  BY <1>1 DEF IsKeyEvent, IsMouseEvent, Type
<1>3. ButtonMessages(e) = {} /\ WheelMessages(e) = {}
  BY <1>1 DEF ButtonMessages, WheelMessages, Type, Down, Up
<1>4. [x |-> Uint16(p.x), y |-> Uint16(p.y)] = p
  BY InputAssumption, Uint16Fits
<1> HIDE DEF e
<1>5. {e.type} \cap {Type.MOUSE_MOVE} = {100}
  BY <1>1
<1>6. MoveMessages(e) = {Message("MOUSE_MOVE", "MOVE", x) : x \in {p}}
  BY <1>1, <1>4, <1>5 DEF MoveMessages
<1> QED BY <1>2, <1>3, <1>6 DEF Messages, e

LEMMA OtherEvents ==
    ASSUME NEW type \in OtherTypes
    PROVE  \E S : Messages(Event(type, 0, 0, 0))
                      = {Message("MOUSE_WHEEL", "WHEEL", x) : x \in S}
<1> DEFINE e == Event(type, 0, 0, 0)
<1>1. e.type = type /\ type \in {107, 108, 109, 110, 17, 200, 21845}
  BY DEF Event, OtherTypes, Type
<1>2. /\ ButtonMessages(e) = {} /\ ~IsKeyEvent(e)
      /\ {e.type} \cap {Type.MOUSE_MOVE} = {}
  BY <1>1 DEF ButtonMessages, IsKeyEvent, Type, Down, Up
<1> HIDE DEF e
<1>3. \E S : WheelMessages(e) = {Message("MOUSE_WHEEL", "WHEEL", x) : x \in S}
  <2> DEFINE S == {IF t = Type.MOUSE_WHEEL_UP THEN -56 ELSE 56 :
                       t \in {e.type} \cap {Type.MOUSE_WHEEL_UP, Type.MOUSE_WHEEL_DOWN}}
  <2>1. WheelMessages(e) = {Message("MOUSE_WHEEL", "WHEEL", x) : x \in S}
    BY DEF WheelMessages
  <2> QED BY <2>1
<1>4. Messages(e) = WheelMessages(e) \/ Messages(e) = {}
  BY <1>2 DEF Messages, MoveMessages
<1>5. {} = {Message("MOUSE_WHEEL", "WHEEL", x) : x \in {}}
  OBVIOUS
<1> QED BY <1>3, <1>4, <1>5 DEF e
----------------------------------------------------------------------------
(* What a step does to the projector. *)

\* While the client is at work on a good connection, an event's messages are
\* applied; otherwise it changes nothing but the client's flag.
LEMMA Handled ==
    ASSUME NEW e, HandleEvent(e), ~isTerminated'
    PROVE  ~isTerminated /\ isGood /\ isGood' /\ Apply(Messages(e))
BY DEF HandleEvent, clientVars

LEMMA Pressed ==
    ASSUME NEW k \in Keys, PressKey(k), ~isTerminated'
    PROVE  /\ ~isTerminated /\ isGood
           /\ keys' = keys \cup ({Entry(k.code)} \ {"-"})
           /\ UNCHANGED <<buttons, moved>>
<1> DEFINE S == {Entry(k.code)} \ {"-"}
           e == Event(Type.KEY_DOWN, 0, 0, k.code)
<1>1. ~isTerminated /\ isGood /\ Apply(Messages(e))
  BY Handled DEF PressKey
<1>2. Messages(e) = {Message("KEYBOARD", "DOWN", x) : x \in S}
  BY KeyEvent
<1> HIDE DEF S, e
<1>3. keys' = keys \cup S /\ UNCHANGED <<buttons, moved>>
  BY <1>1, <1>2, AppliedKeys
<1> QED BY <1>1, <1>3 DEF S

LEMMA Released ==
    ASSUME NEW k \in Keys, ReleaseKey(k), ~isTerminated'
    PROVE  /\ ~isTerminated /\ isGood
           /\ keys' = keys \ ({Entry(k.code)} \ {"-"})
           /\ UNCHANGED <<buttons, moved>>
<1> DEFINE S == {Entry(k.code)} \ {"-"}
           e == Event(Type.KEY_UP, 0, 0, k.code)
<1>1. ~isTerminated /\ isGood /\ Apply(Messages(e))
  BY Handled DEF ReleaseKey
<1>2. Type.KEY_UP # Type.KEY_DOWN
  BY DEF Type
<1>3. Messages(e) = {Message("KEYBOARD", "UP", x) : x \in S}
  BY <1>2, KeyEvent
<1> HIDE DEF S, e
<1>4. keys' = keys \ S /\ UNCHANGED <<buttons, moved>>
  BY <1>1, <1>3, AppliedKeys
<1> QED BY <1>1, <1>4 DEF S

LEMMA ButtonPressed ==
    ASSUME NEW b \in Buttons, PressButton(b), ~isTerminated'
    PROVE  /\ ~isTerminated /\ isGood
           /\ buttons' = buttons \cup ({b} \cap {"left", "right"})
           /\ UNCHANGED <<keys, moved>>
<1> DEFINE S == {b} \cap {"left", "right"}
           e == Event(Down[b], pointer.x, pointer.y, 0)
<1>1. ~isTerminated /\ isGood /\ Apply(Messages(e))
  BY Handled DEF PressButton
<1>2. Messages(e) = {Message("MOUSE_BUTTON", "DOWN", x) : x \in S}
  BY ButtonEvent
<1> HIDE DEF S, e
<1>3. buttons' = buttons \cup S /\ UNCHANGED <<keys, moved>>
  BY <1>1, <1>2, AppliedButtons
<1> QED BY <1>1, <1>3 DEF S

LEMMA ButtonReleased ==
    ASSUME NEW b \in Buttons, ReleaseButton(b), ~isTerminated'
    PROVE  /\ ~isTerminated /\ isGood
           /\ buttons' = buttons \ ({b} \cap {"left", "right"})
           /\ UNCHANGED <<keys, moved>>
<1> DEFINE S == {b} \cap {"left", "right"}
           e == Event(Up[b], pointer.x, pointer.y, 0)
<1>1. ~isTerminated /\ isGood /\ Apply(Messages(e))
  BY Handled DEF ReleaseButton
<1>2. Up[b] # Down[b]
  BY DEF Buttons, Down, Up, Type
<1>3. Messages(e) = {Message("MOUSE_BUTTON", "UP", x) : x \in S}
  BY <1>2, ButtonEvent
<1> HIDE DEF S, e
<1>4. buttons' = buttons \ S /\ UNCHANGED <<keys, moved>>
  BY <1>1, <1>3, AppliedButtons
<1> QED BY <1>1, <1>4 DEF S

LEMMA PointerMoved ==
    ASSUME NEW p \in Positions, MovePointer(p), ~isTerminated'
    PROVE  /\ ~isTerminated /\ isGood
           /\ moved' = <<p>> /\ UNCHANGED <<keys, buttons>>
<1> DEFINE e == Event(Type.MOUSE_MOVE, p.x, p.y, 0)
<1>1. ~isTerminated /\ isGood /\ Apply(Messages(e))
  BY Handled DEF MovePointer
<1>2. Messages(e) = {Message("MOUSE_MOVE", "MOVE", x) : x \in {p}}
  BY MoveEvent
<1> QED BY <1>1, <1>2, AppliedMove

LEMMA OtherHandled ==
    ASSUME NEW type \in OtherTypes, OtherEvent(type), ~isTerminated'
    PROVE  ~isTerminated /\ isGood /\ UNCHANGED projectorVars
<1>1. ~isTerminated /\ isGood /\ Apply(Messages(Event(type, 0, 0, 0)))
  BY Handled DEF OtherEvent
<1>2. PICK S : Messages(Event(type, 0, 0, 0))
                  = {Message("MOUSE_WHEEL", "WHEEL", x) : x \in S}
  BY OtherEvents
<1> QED BY <1>1, <1>2, AppliedWheel
----------------------------------------------------------------------------
\* The inductive invariant.  What is never sent is never held: without it,
\* releasing a key that has no entry might leave its "entry" behind.
StuckInv ==
    ~isTerminated =>
        /\ keys \subseteq {Entry(k.code) : k \in pressed} \ {"-"}
        /\ buttons \subseteq clicked \cap {"left", "right"}

LEMMA Stuck == Spec => []StuckInv
<1>1. Init => StuckInv
  BY DEF Init, StuckInv
<1>2. StuckInv /\ [Next]_vars => StuckInv'
  <2> SUFFICES ASSUME StuckInv, [Next]_vars, ~isTerminated' PROVE StuckInv'
    BY DEF StuckInv
  <2>1. CASE UNCHANGED <<pressed, clicked, isTerminated, projectorVars>>
    BY <2>1 DEF StuckInv, projectorVars
  <2>2. ASSUME NEW k \in Keys, PressKey(k) PROVE StuckInv'
    BY <2>2, Pressed DEF StuckInv, PressKey
  <2>3. ASSUME NEW k \in Keys, ReleaseKey(k) PROVE StuckInv'
    <3>1. ASSUME NEW x \in keys'
          PROVE  x # "-" /\ \E l \in pressed' : x = Entry(l.code)
      <4>1. x \in keys /\ (x = Entry(k.code) => x = "-") /\ ~isTerminated
        BY <2>3, Released
      <4>2. PICK l \in pressed : x = Entry(l.code)
        BY <4>1 DEF StuckInv
      <4>3. x # "-"
        BY <4>1 DEF StuckInv
      <4> QED BY <2>3, <4>1, <4>2, <4>3 DEF ReleaseKey
    <3> QED BY <2>3, <3>1, Released DEF StuckInv, ReleaseKey
  <2>4. ASSUME NEW p \in Positions, MovePointer(p) PROVE StuckInv'
    BY <2>4, PointerMoved DEF StuckInv, MovePointer
  <2>5. ASSUME NEW b \in Buttons, PressButton(b) PROVE StuckInv'
    BY <2>5, ButtonPressed DEF StuckInv, PressButton
  <2>6. ASSUME NEW b \in Buttons, ReleaseButton(b) PROVE StuckInv'
    BY <2>6, ButtonReleased DEF StuckInv, ReleaseButton
  <2>7. ASSUME NEW type \in OtherTypes, OtherEvent(type) PROVE StuckInv'
    BY <2>7, OtherHandled DEF StuckInv, OtherEvent, userVars, projectorVars
  <2> QED BY <2>1, <2>2, <2>3, <2>4, <2>5, <2>6, <2>7
          DEF Next, User, Lose, Stop, vars, userVars, clientVars, StuckInv
<1> QED BY <1>1, <1>2, PTL DEF Spec

\* No key or button is stuck, whatever the user presses, repeats and releases
\* on whatever keyboard, for as long as the client is at work.
THEOREM NobodyStuck == Spec => []NothingStuck
<1>1. StuckInv => NothingStuck
  BY DEF StuckInv, NothingStuck
<1> QED BY Stuck, <1>1, PTL

\* What the user holds down arrives, as long as the connection is good.
THEOREM EverythingArrives == Spec => []InputArrives
<1>1. Init => InputArrives
  BY DEF Init, InputArrives
<1>2. InputArrives /\ [Next]_vars => InputArrives'
  <2> SUFFICES ASSUME InputArrives, [Next]_vars, ~isTerminated', isGood'
               PROVE  InputArrives'
    BY DEF InputArrives
  <2>1. CASE UNCHANGED <<userVars, isTerminated, isGood, projectorVars>>
    BY <2>1 DEF InputArrives, Alone, projectorVars, userVars
  <2>2. ASSUME NEW k \in Keys, PressKey(k) PROVE InputArrives'
    BY <2>2, Pressed DEF InputArrives, PressKey
  <2>3. ASSUME NEW k \in Keys, ReleaseKey(k) PROVE InputArrives'
    BY <2>3, Released DEF InputArrives, ReleaseKey, Alone
  <2>4. ASSUME NEW p \in Positions, MovePointer(p) PROVE InputArrives'
    BY <2>4, PointerMoved DEF InputArrives, MovePointer
  <2>5. ASSUME NEW b \in Buttons, PressButton(b) PROVE InputArrives'
    BY <2>5, ButtonPressed DEF InputArrives, PressButton
  <2>6. ASSUME NEW b \in Buttons, ReleaseButton(b) PROVE InputArrives'
    BY <2>6, ButtonReleased DEF InputArrives, ReleaseButton
  <2>7. ASSUME NEW type \in OtherTypes, OtherEvent(type) PROVE InputArrives'
    BY <2>7, OtherHandled DEF InputArrives, OtherEvent, userVars, projectorVars
  <2> QED BY <2>1, <2>2, <2>3, <2>4, <2>5, <2>6, <2>7
          DEF Next, User, Lose, Stop, vars, userVars, clientVars
<1> QED BY <1>1, <1>2, PTL DEF Spec
=============================================================================
