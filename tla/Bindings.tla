------------------------------ MODULE Bindings ------------------------------
(***************************************************************************)
(* How the emulator's configuration file keeps what is bound to the N64    *)
(* buttons: get_bind() and set_bind() of Mupen64PlusControllerSettings,    *)
(* src/net64/emulator/m64plus.cpp. Two opposite directions of the analog   *)
(* stick share one key of the file ("X Axis", "Y Axis"), as the two        *)
(* arguments of one text; every other button has a key of its own.         *)
(***************************************************************************)
EXTENDS Naturals, Sequences

Blank == ""   \* an argument of a text that is left out

\* sdl_input_t: hat is joy.index of a hat, val what else tells inputs of one
\* type apart (key_code, mouse_button, joy.index, an axis and its sign, or
\* the direction of a hat).
Input(type, val) == [type |-> type, hat |-> 0, val |-> val]
HatInput(hat, dir) == [type |-> "hat", hat |-> hat, val |-> dir]
None == Input("none", Blank)

\* sdl_hat_direction() throws for the others: two directions at once.
Directions == {"Up", "Down", "Left", "Right"}

\* A value of the file: "key(97,100)" has the type key and two arguments.
Text(type, hat, args) == [type |-> type, hat |-> hat, args |-> args]
NoText == Text("none", 0, << >>)

\* A stick's direction, and the other one of its key.
Opposite == [UP |-> "DOWN", DOWN |-> "UP", LEFT |-> "RIGHT", RIGHT |-> "LEFT"]
OnStick(btn) == btn \in DOMAIN Opposite
IsSecond(btn) == btn \in {"DOWN", "RIGHT"}

\* The key of the file that btn is kept under.
KeyOf(btn) == CASE btn \in {"UP", "DOWN"}    -> "Y Axis"
                [] btn \in {"LEFT", "RIGHT"} -> "X Axis"
                [] OTHER                     -> btn

-----------------------------------------------------------------------------

\* The first of the arguments at the places S.
FirstArg(text, S) ==
    IF S = {} THEN None
    ELSE [type |-> text.type, hat |-> text.hat,
          val |-> text.args[CHOOSE i \in S : \A j \in S : i <= j]]

\* parse_sdl_input(): blank arguments are skipped, so that the n-th one read
\* need not be the n-th one written. A mouse button has no second.
Parse(text) ==
    LET written == {i \in DOMAIN text.args : text.args[i] # Blank}
        later == {i \in written : \E j \in written : j < i}
    IN  [first |-> FirstArg(text, written),
         second |-> IF text.type = "mouse" THEN None ELSE FirstArg(text, later)]

\* get_button(), get_bind().
GetBind(file, btn) ==
    IF IsSecond(btn) THEN Parse(file[KeyOf(btn)]).second ELSE Parse(file[KeyOf(btn)]).first

\* What set_button() keeps of the opposite direction: one key cannot hold
\* inputs of two types or of two hats.
Kept(file, btn, input) ==
    LET other == GetBind(file, Opposite[btn])
    IN  IF other.type # input.type \/ other.hat # input.hat THEN None ELSE other

\* [fault] What is bound is always written first.
StickTextUnswapped(file, btn, input) ==
    IF input = None THEN NoText
    ELSE Text(input.type, input.hat, << input.val, Kept(file, btn, input).val >>)

\* set_button() of a stick's direction. None is written as a blank; a hat's
\* text has no blank, and its first direction stands in for a missing one.
StickText(file, btn, input) ==
    LET kept == Kept(file, btn, input)
        first == IF IsSecond(btn) THEN kept ELSE input
        second == IF IsSecond(btn) THEN input ELSE kept
        args == IF input.type # "hat" THEN << first.val, second.val >>
                ELSE IF first = None THEN << second.val, second.val >>
                ELSE IF second = None THEN << first.val >>
                ELSE << first.val, second.val >>
    IN  IF input = None THEN NoText ELSE Text(input.type, input.hat, args)

\* set_button() of any other button: an axis counts from 30 % on.
ButtonText(input) ==
    IF input = None THEN NoText
    ELSE Text(input.type, input.hat,
              IF input.type = "axis" THEN << input.val, "9830" >> ELSE << input.val >>)

\* set_bind() answers false and stores nothing.
Refused(input) == input.type = "hat" /\ input.val \notin Directions

\* set_bind(): the file afterwards.
SetBind(file, btn, input) ==
    IF Refused(input) THEN file
    ELSE [file EXCEPT ![KeyOf(btn)] =
             IF OnStick(btn) THEN StickText(file, btn, input) ELSE ButtonText(input)]
=============================================================================
