-------------------------- MODULE ControllerProofs --------------------------
(***************************************************************************)
(* What the controller page promises, for any gamepads, names and inputs:  *)
(*  - how a text of the file reads, and what binding one button does to    *)
(*    the binds of all (SetBindFileOK, OtherKey, StickBound, WriteBack);   *)
(*  - what the entries of the box are (EntriesType, EntriesAll);           *)
(*  - the invariant: the box shows the gamepads plugged in and what is     *)
(*    heard is configured (DevicesInv); the buttons show what the file has *)
(*    and the file only what can be bound (BindsInv);                      *)
(*  - the theorems.                                                        *)
(***************************************************************************)
EXTENDS Controller, FiniteSetTheorems, SequenceTheorems, TLAPS

-----------------------------------------------------------------------------
(* What is read back from a text of the configuration file.                *)

\* An input of this type and hat.
InputOf(type, hat, val) == [type |-> type, hat |-> hat, val |-> val]

\* The first argument of some has the least place.
LEMMA FirstArgAt ==
    ASSUME NEW text, NEW S, NEW i \in S, i \in Int, \A j \in S : j \in Int /\ i <= j
    PROVE  FirstArg(text, S) = InputOf(text.type, text.hat, text.args[i])
<1> DEFINE P(k) == \A j \in S : k <= j
           k == CHOOSE l \in S : P(l)
<1>1. k \in S /\ P(k)
  <2>1. \E l \in S : P(l)
    OBVIOUS
  <2> HIDE DEF P
  <2> QED BY <2>1
<1> HIDE DEF k
<1>2. k = i
  BY <1>1
<1> QED BY <1>2 DEF k, FirstArg, InputOf

\* Two arguments that are not blank.
LEMMA ReadBoth ==
    ASSUME NEW t, NEW h, NEW a, NEW b, a # Blank, b # Blank
    PROVE  LET text == Text(t, h, << a, b >>)
           IN  /\ Parse(text).first = InputOf(t, h, a)
               /\ t = "mouse" => Parse(text).second = None
               /\ t # "mouse" => Parse(text).second = InputOf(t, h, b)
<1> DEFINE text == Text(t, h, << a, b >>)
           written == {i \in DOMAIN text.args : text.args[i] # Blank}
           later == {i \in written : \E j \in written : j < i}
<1>1. /\ text.type = t /\ text.hat = h /\ text.args[1] = a /\ text.args[2] = b
      /\ DOMAIN text.args = {1, 2}
  BY DEF Text
<1>2. Parse(text) = [first |-> FirstArg(text, written),
                     second |-> IF t = "mouse" THEN None ELSE FirstArg(text, later)]
  BY <1>1 DEF Parse
<1> HIDE DEF text
<1>3. written = {1, 2}
  BY <1>1
<1>4. later = {2}
  BY <1>3
<1> HIDE DEF written, later
<1>5. FirstArg(text, written) = InputOf(t, h, a)
  BY <1>1, <1>3, FirstArgAt
<1>6. FirstArg(text, later) = InputOf(t, h, b)
  BY <1>1, <1>4, FirstArgAt
<1> QED BY <1>2, <1>5, <1>6 DEF text

\* One argument that is not blank.
LEMMA ReadOne ==
    ASSUME NEW t, NEW h, NEW a, a # Blank
    PROVE  \A text \in {Text(t, h, << a >>), Text(t, h, << a, Blank >>), Text(t, h, << Blank, a >>)} :
               Parse(text).first = InputOf(t, h, a) /\ Parse(text).second = None
<1> TAKE text \in {Text(t, h, << a >>), Text(t, h, << a, Blank >>), Text(t, h, << Blank, a >>)}
<1> DEFINE args == text.args
           written == {i \in DOMAIN text.args : text.args[i] # Blank}
           later == {i \in written : \E j \in written : j < i}
<1>1. /\ text.type = t /\ text.hat = h
      /\ args = << a >> \/ args = << a, Blank >> \/ args = << Blank, a >>
  BY DEF Text
<1>2. Parse(text) = [first |-> FirstArg(text, written),
                     second |-> IF t = "mouse" THEN None ELSE FirstArg(text, later)]
  BY <1>1 DEF Parse
<1>3. PICK i \in {1, 2} : args[i] = a /\ written = {i}
  <2>1. CASE args = << a >>
    <3>1. DOMAIN args = {1} /\ args[1] = a
      BY <2>1
    <3> QED BY <1>1, <3>1
  <2>2. CASE args = << a, Blank >>
    <3>1. DOMAIN args = {1, 2} /\ args[1] = a /\ args[2] = Blank
      BY <2>2
    <3> QED BY <1>1, <3>1
  <2>3. CASE args = << Blank, a >>
    <3>1. DOMAIN args = {1, 2} /\ args[1] = Blank /\ args[2] = a
      BY <2>3
    <3> QED BY <1>1, <3>1
  <2> QED BY <1>1, <2>1, <2>2, <2>3
<1>4. later = {}
  BY <1>3
<1> HIDE DEF written, later
<1>5. FirstArg(text, written) = InputOf(t, h, a)
  BY <1>1, <1>3, FirstArgAt
<1>6. FirstArg(text, later) = None
  BY <1>4 DEF FirstArg
<1> QED BY <1>2, <1>5, <1>6

\* No argument.
LEMMA ReadNone == Parse(NoText).first = None /\ Parse(NoText).second = None
<1>1. DOMAIN NoText.args = {}
  BY DEF NoText, Text
<1>2. /\ Parse(NoText).first = FirstArg(NoText, {})
      /\ Parse(NoText).second \in {None, FirstArg(NoText, {})}
  <2>1. {i \in {} : NoText.args[i] # Blank} = {} /\ \A S : {i \in {} : \E j \in {} : j < i} = {}
    OBVIOUS
  <2> QED BY <1>1, <2>1 DEF Parse
<1> QED BY <1>2 DEF FirstArg

\* Any text: both inputs have its type and hat, and a mouse button is only the
\* first.
LEMMA ReadAny ==
    ASSUME NEW text, NEW V, text.args \in Seq(V), Len(text.args) <= 2,
           NEW input \in {Parse(text).first, Parse(text).second}, input # None
    PROVE  /\ \E val \in V : val # Blank /\ input = InputOf(text.type, text.hat, val)
           /\ input = Parse(text).second => text.type # "mouse"
<1> DEFINE written == {i \in DOMAIN text.args : text.args[i] # Blank}
           later == {i \in written : \E j \in written : j < i}
<1>1. /\ Parse(text).first = FirstArg(text, written)
      /\ Parse(text).second = IF text.type = "mouse" THEN None ELSE FirstArg(text, later)
  BY DEF Parse
<1>2. written \subseteq {1, 2} /\ \A i \in written : text.args[i] \in V /\ text.args[i] # Blank
  OBVIOUS
<1>3. later \subseteq written
  OBVIOUS
<1> HIDE DEF written, later
<1>4. ASSUME NEW S, S \subseteq written, FirstArg(text, S) # None
      PROVE  \E val \in V : val # Blank /\ FirstArg(text, S) = InputOf(text.type, text.hat, val)
  <2>1. S # {}
    BY <1>4 DEF FirstArg
  <2>2. PICK i \in S : \A j \in S : j \in Int /\ i <= j
    <3>1. S \subseteq {1, 2}
      BY <1>2, <1>4
    <3>2. CASE 1 \in S
      BY <3>1, <3>2
    <3>3. CASE 1 \notin S
      <4>1. S = {2}
        BY <2>1, <3>1, <3>3
      <4> QED BY <4>1
    <3> QED BY <3>2, <3>3
  <2>3. FirstArg(text, S) = InputOf(text.type, text.hat, text.args[i])
    BY <2>2, FirstArgAt
  <2> QED BY <1>2, <1>4, <2>3
<1>5. input \in {FirstArg(text, written), FirstArg(text, later)}
  BY <1>1
<1>6. text.type = "mouse" => input # Parse(text).second
  BY <1>1
<1> QED BY <1>3, <1>4, <1>5, <1>6

-----------------------------------------------------------------------------
(* What is read back once a direction of the stick is bound.               *)

\* The other direction is kept if one key can hold both.
LEMMA StickRead ==
    ASSUME NEW f, NEW btn, NEW input, input # None, input.val # Blank,
           input = InputOf(input.type, input.hat, input.val),
           NEW kept, kept = Kept(f, btn, input),
           kept # None => /\ kept = InputOf(input.type, input.hat, kept.val)
                          /\ kept.val # Blank
    PROVE  LET text == StickText(f, btn, input)
           IN  /\ ~IsSecond(btn) =>
                    /\ Parse(text).first = input
                    /\ input.type = "mouse" => Parse(text).second = None
                    /\ input.type # "mouse" => Parse(text).second = kept
               /\ IsSecond(btn) =>
                    /\ kept # None => Parse(text).first = kept
                    /\ kept = None => Parse(text).first = input
                    /\ kept # None /\ input.type # "mouse" => Parse(text).second = input
                    /\ Parse(text).second \in {input, None}
<1> DEFINE t == input.type
           h == input.hat
           v == input.val
           w == kept.val
           text == StickText(f, btn, input)
<1>1. /\ kept = None => w = Blank
      /\ v # Blank /\ input = InputOf(t, h, v)
      /\ kept # None => w # Blank /\ kept = InputOf(t, h, w)
  BY DEF None, Input
<1>2. CASE ~IsSecond(btn)
  <2>1. text = Text(t, h, IF t # "hat" THEN << v, w >>
                          ELSE IF kept = None THEN << v >> ELSE << v, w >>)
    BY <1>2 DEF StickText
  <2> HIDE DEF t, h, v, w, text
  <2>2. CASE kept = None
    <3>1. text \in {Text(t, h, << v >>), Text(t, h, << v, Blank >>), Text(t, h, << Blank, v >>)}
      BY <1>1, <2>1, <2>2
    <3>2. Parse(text).first = InputOf(t, h, v) /\ Parse(text).second = None
      BY <1>1, <3>1, ReadOne
    <3> QED BY <1>1, <1>2, <2>2, <3>2 DEF t, text
  <2>3. CASE kept # None
    <3>1. text = Text(t, h, << v, w >>)
      BY <2>1, <2>3
    <3>2. /\ Parse(text).first = InputOf(t, h, v)
          /\ t = "mouse" => Parse(text).second = None
          /\ t # "mouse" => Parse(text).second = InputOf(t, h, w)
      BY <1>1, <2>3, <3>1, ReadBoth
    <3> QED BY <1>1, <1>2, <2>3, <3>2 DEF t, text
  <2> QED BY <2>2, <2>3
<1>3. CASE IsSecond(btn)
  <2>1. text = Text(t, h, IF t # "hat" THEN << w, v >>
                          ELSE IF kept = None THEN << v, v >> ELSE << w, v >>)
    BY <1>3 DEF StickText
  <2> HIDE DEF t, h, v, w, text
  <2>2. CASE kept = None
    <3>1. text = Text(t, h, << Blank, v >>) \/ text = Text(t, h, << v, v >>)
      BY <1>1, <2>1, <2>2
    <3>2. Parse(text).first = InputOf(t, h, v) /\ Parse(text).second \in {None, InputOf(t, h, v)}
      <4>1. CASE text = Text(t, h, << Blank, v >>)
        <5>1. text \in {Text(t, h, << v >>), Text(t, h, << v, Blank >>), Text(t, h, << Blank, v >>)}
          BY <4>1
        <5> QED BY <1>1, <5>1, ReadOne
      <4>2. CASE text = Text(t, h, << v, v >>)
        BY <1>1, <4>2, ReadBoth
      <4> QED BY <3>1, <4>1, <4>2
    <3> QED BY <1>1, <1>3, <2>2, <3>2 DEF t, text
  <2>3. CASE kept # None
    <3>1. text = Text(t, h, << w, v >>)
      BY <2>1, <2>3
    <3>2. /\ Parse(text).first = InputOf(t, h, w)
          /\ t = "mouse" => Parse(text).second = None
          /\ t # "mouse" => Parse(text).second = InputOf(t, h, v)
      BY <1>1, <2>3, <3>1, ReadBoth
    <3> QED BY <1>1, <1>3, <2>3, <3>2 DEF t, text
  <2> QED BY <2>2, <2>3
<1> QED BY <1>2, <1>3

-----------------------------------------------------------------------------
(* The whole file.                                                         *)

Values == {i.val : i \in AnyInput} \cup {"9830"}

\* Every key of the file has a text the program writes, and every button an
\* input that can be bound.
FileOK(f) ==
    /\ f = [key \in Keys |-> f[key]]
    /\ \A key \in Keys : /\ f[key].type \in {i.type : i \in AnyInput}
                         /\ f[key].args \in Seq(Values) /\ Len(f[key].args) <= 2
    /\ \A btn \in Buttons : GetBind(f, btn) \in AnyInput

\* What can be bound is not a None of another kind.
LEMMA InputsAre ==
    ASSUME NEW input \in AnyInput
    PROVE  /\ input = InputOf(input.type, input.hat, input.val)
           /\ input # None => input.type # "none" /\ input.val # Blank
           /\ input.type \in {i.type : i \in AnyInput} /\ input.val \in Values
  BY ControllerAssumption DEF AnyInput, None, Input, InputOf, Values

\* The buttons there are.
LEMMA TheStick ==
    /\ Buttons \subseteq {"START", "UP", "DOWN", "LEFT", "RIGHT"}
    /\ \A btn : OnStick(btn) <=> btn \in {"UP", "DOWN", "LEFT", "RIGHT"}
    /\ Opposite["UP"] = "DOWN" /\ Opposite["DOWN"] = "UP"
    /\ Opposite["LEFT"] = "RIGHT" /\ Opposite["RIGHT"] = "LEFT"
    /\ \A btn \in Buttons : OnStick(btn) => Opposite[btn] \in Buttons
<1>1. DOMAIN Opposite = {"UP", "DOWN", "LEFT", "RIGHT"}
  BY DEF Opposite
<1>2. /\ Opposite["UP"] = "DOWN" /\ Opposite["DOWN"] = "UP"
      /\ Opposite["LEFT"] = "RIGHT" /\ Opposite["RIGHT"] = "LEFT"
  BY DEF Opposite
<1> QED BY <1>1, <1>2, ControllerAssumption DEF OnStick

\* The two directions that share a key.
LEMMA Opposites ==
    ASSUME NEW btn \in Buttons
    PROVE  /\ OnStick(btn) => /\ Opposite[btn] \in Buttons /\ OnStick(Opposite[btn])
                              /\ Opposite[Opposite[btn]] = btn /\ Opposite[btn] # btn
                              /\ KeyOf(Opposite[btn]) = KeyOf(btn)
                              /\ IsSecond(Opposite[btn]) <=> ~IsSecond(btn)
           /\ ~OnStick(btn) => ~IsSecond(btn)
           /\ KeyOf(btn) \in Keys
<1>1. CASE btn = "START"
  BY <1>1, TheStick DEF KeyOf, IsSecond, Keys
<1>2. CASE btn = "UP"
  BY <1>2, TheStick DEF KeyOf, IsSecond, Keys
<1>3. CASE btn = "DOWN"
  BY <1>3, TheStick DEF KeyOf, IsSecond, Keys
<1>4. CASE btn = "LEFT"
  BY <1>4, TheStick DEF KeyOf, IsSecond, Keys
<1>5. CASE btn = "RIGHT"
  BY <1>5, TheStick DEF KeyOf, IsSecond, Keys
<1> QED BY <1>1, <1>2, <1>3, <1>4, <1>5, TheStick

\* Nobody else has that key.
LEMMA SameKey ==
    ASSUME NEW btn \in Buttons, NEW c \in Buttons, KeyOf(c) = KeyOf(btn), c # btn
    PROVE  OnStick(btn) /\ c = Opposite[btn]
<1>1. {btn, c} \subseteq {"UP", "DOWN"} \/ {btn, c} \subseteq {"LEFT", "RIGHT"}
  BY TheStick DEF KeyOf
<1> QED BY <1>1, TheStick

\* What binding does to the keys.
LEMMA SetBindKeys ==
    ASSUME NEW f, FileOK(f), NEW btn \in Buttons, NEW input
    PROVE  LET new == SetBind(f, btn, input)
           IN  /\ new = [key \in Keys |-> new[key]]
               /\ \A key \in Keys \ {KeyOf(btn)} : new[key] = f[key]
               /\ Refused(input) => new = f
               /\ ~Refused(input) =>
                    /\ OnStick(btn) => new[KeyOf(btn)] = StickText(f, btn, input)
                    /\ ~OnStick(btn) => new[KeyOf(btn)] = ButtonText(input)
<1> DEFINE new == SetBind(f, btn, input)
           k == KeyOf(btn)
           text == IF OnStick(btn) THEN StickText(f, btn, input) ELSE ButtonText(input)
<1>1. f = [key \in Keys |-> f[key]] /\ k \in Keys
  BY Opposites DEF FileOK
<1>2. new = IF Refused(input) THEN f ELSE [f EXCEPT ![k] = text]
  BY DEF SetBind
<1> HIDE DEF text, k, new
<1>3. CASE Refused(input)
  BY <1>1, <1>2, <1>3 DEF k, new
<1>4. CASE ~Refused(input)
  <2>1. /\ new = [key \in Keys |-> new[key]] /\ new[k] = text
        /\ \A key \in Keys \ {k} : new[key] = f[key]
    BY <1>1, <1>2, <1>4
  <2> QED BY <1>4, <2>1 DEF k, new, text
<1> QED BY <1>3, <1>4

\* What is bound to a button with another key stays.
LEMMA OtherKey ==
    ASSUME NEW f, FileOK(f), NEW btn \in Buttons, NEW input,
           NEW c \in Buttons, c # btn, OnStick(btn) => c # Opposite[btn]
    PROVE  GetBind(SetBind(f, btn, input), c) = GetBind(f, c)
<1>1. KeyOf(c) # KeyOf(btn) /\ KeyOf(c) \in Keys
  BY SameKey, Opposites
<1>2. SetBind(f, btn, input)[KeyOf(c)] = f[KeyOf(c)]
  BY <1>1, SetBindKeys
<1> QED BY <1>2 DEF GetBind

\* What is bound to a button with a key of its own is what is read.
LEMMA PlainRead ==
    ASSUME NEW f, FileOK(f), NEW btn \in Buttons, ~OnStick(btn), NEW input \in AnyInput
    PROVE  /\ Refused(input) => SetBind(f, btn, input) = f
           /\ ~Refused(input) => GetBind(SetBind(f, btn, input), btn) = input
<1>1. ASSUME ~Refused(input)
      PROVE  GetBind(SetBind(f, btn, input), btn) = input
  <2>1. GetBind(SetBind(f, btn, input), btn) = Parse(ButtonText(input)).first
    BY <1>1, SetBindKeys, Opposites DEF GetBind
  <2>2. CASE input = None
    BY <2>1, <2>2, ReadNone DEF ButtonText
  <2>3. CASE input # None
    <3> DEFINE t == input.type
               h == input.hat
               v == input.val
               text == ButtonText(input)
    <3>1. input = InputOf(t, h, v) /\ v # Blank /\ "9830" # Blank
      BY <2>3, InputsAre DEF Blank
    <3>2. text = Text(t, h, << v >>) \/ text = Text(t, h, << v, "9830" >>)
      BY <2>3 DEF ButtonText
    <3> HIDE DEF t, h, v, text
    <3>3. CASE text = Text(t, h, << v, "9830" >>)
      BY <3>1, <3>3, <2>1, ReadBoth DEF text
    <3>4. CASE text = Text(t, h, << v >>)
      <4>1. text \in {Text(t, h, << v >>), Text(t, h, << v, Blank >>), Text(t, h, << Blank, v >>)}
        BY <3>4
      <4>2. Parse(text).first = InputOf(t, h, v)
        BY <3>1, <4>1, ReadOne
      <4> QED BY <2>1, <3>1, <4>2 DEF text
    <3> QED BY <3>2, <3>3, <3>4
  <2> QED BY <2>2, <2>3
<1> QED BY <1>1, SetBindKeys

\* The two directions of one key have one type and one hat, and the second of
\* them is not a mouse button.
LEMMA StickBinds ==
    ASSUME NEW f, FileOK(f), NEW btn \in Buttons, OnStick(btn), GetBind(f, btn) # None
    PROVE  /\ GetBind(f, Opposite[btn]) # None =>
                 /\ GetBind(f, Opposite[btn]).type = GetBind(f, btn).type
                 /\ GetBind(f, Opposite[btn]).hat = GetBind(f, btn).hat
           /\ IsSecond(btn) => GetBind(f, btn).type # "mouse"
<1> DEFINE text == f[KeyOf(btn)]
           op == Opposite[btn]
<1>1. text.args \in Seq(Values) /\ Len(text.args) <= 2
  BY Opposites DEF FileOK
<1>2. /\ GetBind(f, btn) = IF IsSecond(btn) THEN Parse(text).second ELSE Parse(text).first
      /\ GetBind(f, op) = IF IsSecond(btn) THEN Parse(text).first ELSE Parse(text).second
  BY Opposites DEF GetBind
<1> HIDE DEF text, op
<1>3. ASSUME NEW input \in {Parse(text).first, Parse(text).second}, input # None
      PROVE  /\ input.type = text.type /\ input.hat = text.hat
             /\ input = Parse(text).second => text.type # "mouse"
  <2>1. \E val \in Values : input = InputOf(text.type, text.hat, val)
    BY <1>1, <1>3, ReadAny
  <2>2. input = Parse(text).second => text.type # "mouse"
    BY <1>1, <1>3, ReadAny
  <2> QED BY <2>1, <2>2 DEF InputOf
<1> QED BY <1>2, <1>3 DEF op

\* What is read of both directions once one is bound.
LEMMA StickBound ==
    ASSUME NEW f, FileOK(f), NEW btn \in Buttons, OnStick(btn),
           NEW input \in AnyInput, ~Refused(input)
    PROVE  LET new == SetBind(f, btn, input)
               op == Opposite[btn]
               other == GetBind(f, op)
           IN  /\ GetBind(new, btn) \in {input, None}
               /\ GetBind(new, op) \in {input, other, None}
               /\ other # None /\ input # None
                    /\ other.type = input.type /\ other.hat = input.hat =>
                        /\ GetBind(new, op) = other
                        /\ IsSecond(btn) /\ input.type # "mouse" => GetBind(new, btn) = input
               /\ ~IsSecond(btn) => GetBind(new, btn) = input
<1> DEFINE new == SetBind(f, btn, input)
           op == Opposite[btn]
           other == GetBind(f, op)
           kept == Kept(f, btn, input)
           text == StickText(f, btn, input)
<1>1. /\ op \in Buttons /\ OnStick(op) /\ KeyOf(op) = KeyOf(btn)
      /\ IsSecond(op) <=> ~IsSecond(btn)
  BY Opposites
<1>2. new[KeyOf(btn)] = text
  BY SetBindKeys
<1>3. /\ GetBind(new, btn) = IF IsSecond(btn) THEN Parse(text).second ELSE Parse(text).first
      /\ GetBind(new, op) = IF IsSecond(btn) THEN Parse(text).first ELSE Parse(text).second
  BY <1>1, <1>2 DEF GetBind
<1>4. kept = IF other.type # input.type \/ other.hat # input.hat THEN None ELSE other
  BY DEF Kept
<1>5. other \in AnyInput
  BY <1>1 DEF FileOK
<1> HIDE DEF new, other, op
<1>6. CASE input = None
  <2>1. text = NoText
    BY <1>6 DEF StickText
  <2> QED BY <1>3, <1>6, <2>1, ReadNone DEF new, other, op
<1>7. CASE input # None
  <2>1. input = InputOf(input.type, input.hat, input.val) /\ input.val # Blank
    BY <1>7, InputsAre
  <2>2. kept # None => kept = other /\ kept = InputOf(input.type, input.hat, kept.val) /\ kept.val # Blank
    BY <1>4, <1>5, InputsAre
  <2> HIDE DEF kept
  <2>3. /\ ~IsSecond(btn) =>
                    /\ Parse(text).first = input
                    /\ input.type = "mouse" => Parse(text).second = None
                    /\ input.type # "mouse" => Parse(text).second = kept
        /\ IsSecond(btn) =>
                    /\ kept # None => Parse(text).first = kept
                    /\ kept = None => Parse(text).first = input
                    /\ kept # None /\ input.type # "mouse" => Parse(text).second = input
                    /\ Parse(text).second \in {input, None}
    BY <1>7, <2>1, <2>2, StickRead DEF kept
  <2>4. other # None /\ other.type = "mouse" => IsSecond(btn)
    BY <1>1, StickBinds DEF other, op
  <2> HIDE DEF text
  <2>5. GetBind(new, btn) \in {input, None} /\ GetBind(new, op) \in {input, other, None}
    BY <1>3, <2>2, <2>3
  <2>6. ASSUME other # None, other.type = input.type, other.hat = input.hat
        PROVE  /\ GetBind(new, op) = other
               /\ IsSecond(btn) /\ input.type # "mouse" => GetBind(new, btn) = input
    <3>1. kept = other
      BY <1>4, <2>6 DEF kept
    <3> QED BY <1>3, <2>3, <2>4, <2>6, <3>1
  <2>7. ~IsSecond(btn) => GetBind(new, btn) = input
    BY <1>3, <2>3
  <2> QED BY <2>5, <2>6, <2>7 DEF new, other, op
<1> QED BY <1>6, <1>7

\* "Binds a button to the virtual n64 button" (emulator.hpp:407) is not so of the
\* second direction of an axis while the first has no bind: what was bound is read
\* as the first one's and the second reads as not bound (m64plus.cpp:825), for every
\* such file and every input but a hat, whose text has no blank.
THEOREM SecondAloneReadsAsFirst ==
    ASSUME NEW f, FileOK(f), NEW btn \in Buttons, OnStick(btn), IsSecond(btn),
           GetBind(f, Opposite[btn]) = None,
           NEW input \in AnyInput, input # None, input.type # "hat"
    PROVE  /\ GetBind(SetBind(f, btn, input), Opposite[btn]) = input
           /\ GetBind(SetBind(f, btn, input), btn) = None
<1> DEFINE text == Text(input.type, input.hat, << Blank, input.val >>)
<1>1. /\ input = InputOf(input.type, input.hat, input.val) /\ input.val # Blank
      /\ input.type # "none"
  BY InputsAre
<1>2. Kept(f, btn, input) = None
  BY DEF Kept
<1>3. SetBind(f, btn, input)[KeyOf(btn)] = text
  <2>1. ~Refused(input)
    BY DEF Refused
  <2>2. SetBind(f, btn, input)[KeyOf(btn)] = StickText(f, btn, input)
    BY <2>1, SetBindKeys
  <2>3. StickText(f, btn, input) = text
    BY <1>2 DEF StickText, None, Input
  <2> QED BY <2>2, <2>3
<1>4. Parse(text).first = input /\ Parse(text).second = None
  <2> DEFINE t == input.type
             h == input.hat
             v == input.val
  <2>1. text \in {Text(t, h, << v >>), Text(t, h, << v, Blank >>), Text(t, h, << Blank, v >>)}
    OBVIOUS
  <2>2. v # Blank /\ input = InputOf(t, h, v)
    BY <1>1
  <2> HIDE DEF text, t, h, v
  <2> QED BY <2>1, <2>2, ReadOne
<1> HIDE DEF text
<1> QED BY <1>3, <1>4, Opposites DEF GetBind

\* The texts the program writes are short.
LEMMA TextsWritten ==
    ASSUME NEW f, FileOK(f), NEW btn \in Buttons, NEW input \in AnyInput,
           NEW text \in {StickText(f, btn, input), ButtonText(input)},
           OnStick(btn) \/ text = ButtonText(input)
    PROVE  /\ text.type \in {i.type : i \in AnyInput}
           /\ text.args \in Seq(Values) /\ Len(text.args) <= 2
<1>1. CASE input = None
  <2>1. text = NoText
    BY <1>1 DEF StickText, ButtonText
  <2>2. NoText.type = None.type /\ NoText.args = << >> /\ None \in AnyInput
    BY DEF NoText, Text, None, Input, AnyInput
  <2> QED BY <2>1, <2>2
<1>2. CASE input # None
  <2> DEFINE v == input.val
             w == Kept(f, btn, input).val
  <2>1. v \in Values /\ "9830" \in Values /\ input.type \in {i.type : i \in AnyInput}
    BY InputsAre DEF Values
  <2>2. OnStick(btn) => w \in Values
    <3>1. OnStick(btn) => Kept(f, btn, input) \in AnyInput
      BY Opposites DEF Kept, FileOK, AnyInput
    <3> QED BY <3>1 DEF Values
  <2>3. text.type = input.type
    BY <1>2 DEF StickText, ButtonText, Text
  <2>4. \/ text.args \in {<< v >>, << v, "9830" >>}
        \/ OnStick(btn) /\ text.args \in {<< v, w >>, << w, v >>, << v, v >>, << v >>, << w >>}
    <3>1. CASE text = ButtonText(input)
      BY <1>2, <3>1 DEF ButtonText, Text
    <3>2. CASE text = StickText(f, btn, input) /\ OnStick(btn)
      BY <1>2, <3>2 DEF StickText, Text
    <3> QED BY <3>1, <3>2
  <2> HIDE DEF v, w
  <2>5. ASSUME NEW x \in Values, NEW y \in Values
        PROVE  \A args \in {<< x >>, << x, y >>} : args \in Seq(Values) /\ Len(args) <= 2
    <3>1. << x >> \in Seq(Values) /\ Len(<< x >>) = 1
      OBVIOUS
    <3>2. << x, y >> \in Seq(Values) /\ Len(<< x, y >>) = 2
      OBVIOUS
    <3>3. ASSUME NEW args \in {<< x >>, << x, y >>} PROVE args \in Seq(Values) /\ Len(args) <= 2
      <4>1. CASE args = << x >>
        BY <3>1, <4>1
      <4>2. CASE args = << x, y >>
        BY <3>2, <4>2
      <4> QED BY <4>1, <4>2
    <3> QED BY <3>3
  <2>6. text.args \in Seq(Values) /\ Len(text.args) <= 2
    <3>1. CASE text.args \in {<< v >>, << v, "9830" >>}
      BY <2>1, <2>5, <3>1
    <3>2. CASE OnStick(btn) /\ text.args \in {<< v, w >>, << w, v >>, << v, v >>, << v >>, << w >>}
      BY <2>1, <2>2, <2>5, <3>2
    <3> QED BY <2>4, <3>1, <3>2
  <2> QED BY <2>1, <2>3, <2>6
<1> QED BY <1>1, <1>2

\* Binding keeps the file one the program writes.
LEMMA SetBindFileOK ==
    ASSUME NEW f, FileOK(f), NEW btn \in Buttons, NEW input \in AnyInput
    PROVE  FileOK(SetBind(f, btn, input))
<1> DEFINE new == SetBind(f, btn, input)
<1>1. CASE Refused(input)
  BY <1>1, SetBindKeys
<1>2. CASE ~Refused(input)
  <2>1. new = [key \in Keys |-> new[key]]
    BY SetBindKeys
  <2>2. ASSUME NEW key \in Keys
        PROVE  /\ new[key].type \in {i.type : i \in AnyInput}
               /\ new[key].args \in Seq(Values) /\ Len(new[key].args) <= 2
    <3>1. CASE key # KeyOf(btn)
      <4>1. new[key] = f[key]
        BY <3>1, SetBindKeys
      <4> QED BY <4>1 DEF FileOK
    <3>2. CASE key = KeyOf(btn)
      <4>1. \/ OnStick(btn) /\ new[key] = StickText(f, btn, input)
            \/ ~OnStick(btn) /\ new[key] = ButtonText(input)
        BY <1>2, <3>2, SetBindKeys
      <4> HIDE DEF new
      <4> QED BY <4>1, TextsWritten
    <3> QED BY <3>1, <3>2
  <2>3. ASSUME NEW c \in Buttons PROVE GetBind(new, c) \in AnyInput
    <3>0. GetBind(f, c) \in AnyInput /\ None \in AnyInput
      BY DEF FileOK, AnyInput
    <3>1. CASE c = btn /\ ~OnStick(btn)
      BY <1>2, <3>1, PlainRead
    <3>2. CASE c = btn /\ OnStick(btn)
      <4>1. GetBind(new, btn) \in {input, None}
        BY <1>2, <3>2, StickBound
      <4> QED BY <3>0, <3>2, <4>1
    <3>3. CASE c # btn /\ OnStick(btn) /\ c = Opposite[btn]
      <4>1. GetBind(new, Opposite[btn]) \in {input, GetBind(f, Opposite[btn]), None}
        BY <1>2, <3>3, StickBound
      <4> QED BY <3>0, <3>3, <4>1
    <3>4. CASE c # btn /\ (OnStick(btn) => c # Opposite[btn])
      BY <3>0, <3>4, OtherKey
    <3> QED BY <3>1, <3>2, <3>3, <3>4
  <2> HIDE DEF new
  <2>4. FileOK(new)
    BY <2>1, <2>2, <2>3 DEF FileOK
  <2> QED BY <2>4 DEF new
<1> QED BY <1>1, <1>2

\* A bind is whole in this file.
WholeIn(f, btn) ==
    GetBind(f, btn) # None /\ (OnStick(btn) => GetBind(f, Opposite[btn]) # None)

\* Writing back what was read keeps every whole bind.
LEMMA WriteBack ==
    ASSUME NEW f, FileOK(f), NEW b \in Buttons, NEW btn \in Buttons, WholeIn(f, btn)
    PROVE  GetBind(SetBind(f, b, GetBind(f, b)), btn) = GetBind(f, btn)
<1> DEFINE input == GetBind(f, b)
<1>0. input \in AnyInput /\ GetBind(f, btn) # None
  BY DEF FileOK, WholeIn
<1>1. CASE Refused(input)
  <2>1. SetBind(f, b, input) = f
    BY <1>1, SetBindKeys
  <2> QED BY <2>1
<1>2. CASE ~Refused(input) /\ btn = b /\ ~OnStick(b)
  BY <1>0, <1>2, PlainRead
<1>3. CASE ~Refused(input) /\ btn = b /\ OnStick(b)
  <2>1. /\ GetBind(f, Opposite[b]) # None
        /\ GetBind(f, Opposite[b]).type = input.type /\ GetBind(f, Opposite[b]).hat = input.hat
        /\ IsSecond(b) => input.type # "mouse"
    BY <1>0, <1>3, StickBinds DEF WholeIn
  <2> HIDE DEF input
  <2> QED BY <1>0, <1>3, <2>1, StickBound DEF input
<1>4. CASE ~Refused(input) /\ btn # b /\ OnStick(b) /\ btn = Opposite[b]
  <2>1. OnStick(btn) /\ Opposite[btn] = b
    BY <1>4, Opposites
  <2>2. /\ input # None
        /\ GetBind(f, btn).type = input.type /\ GetBind(f, btn).hat = input.hat
    BY <1>0, <2>1, StickBinds DEF WholeIn
  <2> HIDE DEF input
  <2> QED BY <1>0, <1>4, <2>2, StickBound DEF input
<1>5. CASE btn # b /\ (OnStick(b) => btn # Opposite[b])
  BY <1>5, OtherKey
<1> QED BY <1>1, <1>2, <1>3, <1>4, <1>5

-----------------------------------------------------------------------------
(* The entries of the device box.                                          *)

\* There are n places up to n.
LEMMA CountTo ==
    ASSUME NEW n \in Nat
    PROVE  IsFiniteSet(1 .. n) /\ Cardinality(1 .. n) = n
<1>1. IsFiniteSet(1 .. n) /\ Cardinality(1 .. n) = IF 1 > n THEN 0 ELSE n - 1 + 1
  BY FS_Interval
<1> QED BY <1>1

\* Those up to place i.
LEMMA UpTo ==
    ASSUME NEW n \in Nat, NEW i \in 1 .. n
    PROVE  {j \in 1 .. n : j <= i} = 1 .. i /\ i \in Nat
  OBVIOUS

\* Places that are the same end at the same place.
LEMMA SameEnd ==
    ASSUME NEW m \in Nat, NEW n \in Nat, 1 .. m = 1 .. n
    PROVE  m = n
<1>1. \A a, b \in Nat : a > b => a \in 1 .. a /\ a \notin 1 .. b
  OBVIOUS
<1>2. ~(m > n) /\ ~(n > m)
  BY <1>1
<1> QED BY <1>2

\* How many of these places come up to place i.
Rank(S, i) == Cardinality({j \in S : j <= i})

\* Every rank is some place's: ranks grow with the places.
LEMMA RanksCover ==
    ASSUME NEW n \in Nat, NEW S, S \subseteq 1 .. n, NEW k \in 1 .. Cardinality(S)
    PROVE  \E i \in S : Rank(S, i) = k
<1> DEFINE upTo(i) == {j \in S : j <= i}
           rank == [i \in S |-> Rank(S, i)]
<1>1. IsFiniteSet(S) /\ Cardinality(S) \in Nat
  <2>1. IsFiniteSet(1 .. n)
    BY CountTo
  <2> QED BY <2>1, FS_Subset, FS_CardinalityType
<1>2. ASSUME NEW i \in S
      PROVE  /\ IsFiniteSet(upTo(i)) /\ Rank(S, i) \in 1 .. Cardinality(S)
  <2>1. upTo(i) \subseteq S /\ i \in upTo(i)
    OBVIOUS
  <2> HIDE DEF upTo
  <2>2. IsFiniteSet(upTo(i)) /\ Cardinality(upTo(i)) <= Cardinality(S)
    BY <1>1, <2>1, FS_Subset
  <2>3. Cardinality(upTo(i)) \in Nat /\ Cardinality(upTo(i)) # 0
    BY <2>1, <2>2, FS_CardinalityType, FS_EmptySet
  <2> QED BY <1>1, <2>2, <2>3 DEF Rank, upTo
<1>3. ASSUME NEW i \in S, NEW j \in S, i < j
      PROVE  Rank(S, i) < Rank(S, j)
  <2>1. upTo(i) \subseteq upTo(j) /\ j \in upTo(j) /\ j \notin upTo(i)
    <3>1. i \in Int /\ j \in Int /\ \A l \in S : l \in Int
      OBVIOUS
    <3>2. ASSUME NEW l \in S, l <= i PROVE l <= j
      BY <1>3, <3>1, <3>2
    <3>3. j <= j /\ ~(j <= i)
      BY <1>3, <3>1
    <3> QED BY <3>2, <3>3
  <2>2. /\ IsFiniteSet(upTo(j)) /\ Rank(S, i) = Cardinality(upTo(i))
        /\ Rank(S, j) = Cardinality(upTo(j))
    BY <1>2 DEF Rank
  <2> HIDE DEF upTo
  <2>3. Cardinality(upTo(i)) <= Cardinality(upTo(j)) /\ Cardinality(upTo(i)) # Cardinality(upTo(j))
    BY <2>1, <2>2, FS_Subset
  <2>4. Rank(S, i) \in Nat /\ Rank(S, j) \in Nat
    BY <1>1, <1>2
  <2> QED BY <2>2, <2>3, <2>4
<1>4. rank \in Injection(S, 1 .. Cardinality(S))
  <2>1. rank \in [S -> 1 .. Cardinality(S)]
    BY <1>2
  <2>2. ASSUME NEW i \in S, NEW j \in S, rank[i] = rank[j]
        PROVE  i = j
    <3>1. Rank(S, i) = Rank(S, j)
      BY <2>2
    <3>2. Rank(S, i) \in Int /\ i \in Int /\ j \in Int
      <4>1. Rank(S, i) \in 1 .. Cardinality(S)
        BY <1>2
      <4> QED BY <1>1, <4>1
    <3>3. ~(i < j) /\ ~(j < i)
      BY <1>3, <3>1, <3>2
    <3> QED BY <3>2, <3>3
  <2> HIDE DEF rank
  <2> QED BY <2>1, <2>2 DEF Injection, IsInjective
<1>5. IsFiniteSet(1 .. Cardinality(S)) /\ Cardinality(1 .. Cardinality(S)) = Cardinality(S)
  BY <1>1, CountTo
<1>6. rank \in Surjection(S, 1 .. Cardinality(S))
  BY <1>4, <1>5, FS_Injection
<1>7. \E i \in S : rank[i] = k
  BY <1>6 DEF Surjection
<1> QED BY <1>7

\* The places of the gamepads that have a name.
Named(ps) == {i \in DOMAIN ps : NameOf[ps[i]] # ""}

\* The entries are names of gamepads, and no more than those.
LEMMA EntriesType ==
    ASSUME NEW ps \in Seq(Pads)
    PROVE  Entries(ps) \in Seq(PadNames) /\ Len(Entries(ps)) <= Len(ps)
<1> DEFINE named == Named(ps)
           Nth(k) == CHOOSE i \in named : Rank(named, i) = k
           n == Cardinality(named)
<1>1. Entries(ps) = [k \in 1 .. n |-> NameOf[ps[Nth(k)]]]
  BY DEF Entries, Named, Rank
<1>2. named \subseteq 1 .. Len(ps) /\ Len(ps) \in Nat /\ \A i \in 1 .. Len(ps) : ps[i] \in Pads
  <2>1. /\ DOMAIN ps = 1 .. Len(ps) /\ Len(ps) \in Nat
        /\ \A i \in 1 .. Len(ps) : ps[i] \in Pads
    BY LenProperties, ElementOfSeq
  <2>2. Named(ps) \subseteq DOMAIN ps
    BY DEF Named
  <2> QED BY <2>1, <2>2
<1>3. n \in Nat /\ n <= Len(ps)
  <2>1. IsFiniteSet(1 .. Len(ps)) /\ Cardinality(1 .. Len(ps)) = Len(ps)
    BY <1>2, CountTo, Zenon
  <2> HIDE DEF named
  <2> QED BY <1>2, <2>1, FS_Subset, FS_CardinalityType
<1>4. ASSUME NEW k \in 1 .. n PROVE NameOf[ps[Nth(k)]] \in PadNames
  <2>1. \E i \in named : Rank(named, i) = k
    BY <1>2, RanksCover
  <2>2. Nth(k) \in named
    BY <2>1
  <2> HIDE DEF Nth
  <2>3. ps[Nth(k)] \in Pads
    BY <1>2, <2>2
  <2> QED BY <2>3 DEF PadNames
<1> HIDE DEF Nth, n
<1> QED BY <1>1, <1>3, <1>4

\* If every gamepad has a name, the entries are the gamepads.
LEMMA EntriesAll ==
    ASSUME NEW ps \in Seq(Pads), \A i \in DOMAIN ps : NameOf[ps[i]] # ""
    PROVE  /\ Len(Entries(ps)) = Len(ps)
           /\ \A i \in 1 .. Len(ps) : Entries(ps)[i] = NameOf[ps[i]]
<1> DEFINE named == Named(ps)
           Nth(k) == CHOOSE i \in named : Rank(named, i) = k
           n == Len(ps)
<1>1. named = 1 .. n /\ n \in Nat
  <2>1. DOMAIN ps = 1 .. n /\ n \in Nat
    BY LenProperties
  <2>2. Named(ps) = DOMAIN ps
    BY DEF Named
  <2> QED BY <2>1, <2>2
<1>2. Cardinality(named) = n
  BY <1>1, CountTo, Zenon
<1>3. Entries(ps) = [k \in 1 .. n |-> NameOf[ps[Nth(k)]]]
  BY <1>2 DEF Entries, Named, Rank
<1>4. ASSUME NEW k \in 1 .. n PROVE Nth(k) = k
  <2>1. ASSUME NEW i \in 1 .. n PROVE Rank(named, i) = i
    <3>1. {j \in 1 .. n : j <= i} = 1 .. i /\ i \in Nat
      BY <1>1, UpTo, Zenon
    <3>2. Rank(named, i) = Cardinality(1 .. i)
      BY <1>1, <3>1 DEF Rank
    <3> QED BY <3>1, <3>2, CountTo, Zenon
  <2> HIDE DEF named
  <2>2. /\ Rank(named, k) = k /\ k \in named
        /\ \A i \in named : Rank(named, i) = k => i = k
    BY <1>1, <2>1
  <2> QED BY <2>2
<1> HIDE DEF Nth, n
<1>5. Len(Entries(ps)) = n
  <2>1. Entries(ps) \in Seq(PadNames)
    BY EntriesType
  <2>2. DOMAIN Entries(ps) = 1 .. n /\ n \in Nat
    BY <1>1, <1>3
  <2>3. Len(Entries(ps)) \in Nat /\ 1 .. n = 1 .. Len(Entries(ps))
    BY <2>1, <2>2, LenProperties
  <2> QED BY <2>2, <2>3, SameEnd
<1> QED BY <1>3, <1>4, <1>5 DEF n

-----------------------------------------------------------------------------
(* The invariant of the page: its device box and its buttons.              *)

Devices == {KeyboardDevice, UnsetDevice} \cup [name : PadNames, index : 0 .. (MaxPads - 1)]
Boxes == [pads : Seq(PadNames), gone : BOOLEAN, at : Nat]

\* The box has an entry at its index.
AtEntry(b) == b.at <= Len(b.pads) \/ (b.gone /\ b.at = Len(b.pads) + 1)

\* With these gamepads plugged in, h is heard and configured as device d, and
\* the box shows all that have a name.
DevicesAre(d, h, j, b, ps) ==
    /\ d \in Devices /\ h \in Pads \cup {NoPad} /\ j \in Pads \cup {NoPad}
    /\ b \in Boxes /\ b.pads = Entries(ps) /\ AtEntry(b)
    /\ h # NoPad =>
        /\ j = h
        /\ d.index + 1 \in DOMAIN ps /\ ps[d.index + 1] = h
        /\ d.name = NameOf[h] \/ \E i \in DOMAIN ps : NameOf[ps[i]] = ""

\* Before the page is open, its box is empty and nothing is heard.
DevicesInv ==
    /\ pads \in Seq(Pads) /\ Len(pads) <= MaxPads
    /\ loaded => DevicesAre(device, heard, joystick, box, pads)
    /\ ~loaded => DevicesAre(device, heard, joystick, box, << >>) /\ heard = NoPad

\* A button shows what the file has, whether it listens or not.
Shows(f, sh, btn) ==
    ~OnStick(btn) /\ sh[btn] # GetBind(f, btn)
        => Refused(sh[btn]) \/ sh[btn] = Input("key", "stale")

BindsAre(f, sh) ==
    /\ FileOK(f)
    /\ sh \in [Buttons -> AnyInput \cup {Input("key", "stale")}]

BindsInv ==
    /\ BindsAre(file, shown) /\ listening \subseteq Buttons
    /\ loaded => \A btn \in Buttons : Shows(file, shown, btn)

IInv == BindsInv /\ DevicesInv /\ loaded \in BOOLEAN

-----------------------------------------------------------------------------
(* Steps of the buttons.                                                   *)

\* Binding a button.
LEMMA BindKeeps ==
    ASSUME NEW f, NEW sh, BindsAre(f, sh), NEW btn \in Buttons, NEW input \in AnyInput
    PROVE  LET new == SetBind(f, btn, input)
               show == [sh EXCEPT ![btn] = input]
           IN  /\ BindsAre(new, show)
               /\ Shows(new, show, btn)
               /\ \A c \in Buttons : Shows(f, sh, c) => Shows(new, show, c)
<1> DEFINE new == SetBind(f, btn, input)
           show == [sh EXCEPT ![btn] = input]
<1>1. FileOK(f) /\ FileOK(new)
  BY SetBindFileOK DEF BindsAre
<1>2. /\ show \in [Buttons -> AnyInput \cup {Input("key", "stale")}] /\ show[btn] = input
      /\ \A c \in Buttons \ {btn} : show[c] = sh[c]
  BY DEF BindsAre
<1>3. Shows(new, show, btn)
  BY <1>1, <1>2, PlainRead DEF Shows
<1>4. ASSUME NEW c \in Buttons, Shows(f, sh, c), c # btn
      PROVE  Shows(new, show, c)
  <2>1. CASE OnStick(c)
    BY <2>1 DEF Shows
  <2>2. CASE ~OnStick(c)
    <3>1. OnStick(btn) => c # Opposite[btn]
      BY <2>2, Opposites
    <3>2. GetBind(new, c) = GetBind(f, c)
      BY <1>1, <1>4, <3>1, OtherKey
    <3> QED BY <1>2, <1>4, <3>2 DEF Shows
  <2> QED BY <2>1, <2>2
<1> HIDE DEF new, show
<1>5. BindsAre(new, show)
  BY <1>1, <1>2 DEF BindsAre
<1> QED BY <1>3, <1>4, <1>5 DEF new, show

\* Loading a button binds what it shows.
LEMMA LoadKeeps ==
    ASSUME NEW r, r = [file |-> r.file, shown |-> r.shown], BindsAre(r.file, r.shown), NEW b
    PROVE  LET l == Load(r, b)
           IN  /\ l = [file |-> l.file, shown |-> l.shown] /\ BindsAre(l.file, l.shown)
               /\ b \in Buttons => Shows(l.file, l.shown, b)
               /\ \A c \in Buttons :
                    /\ Shows(r.file, r.shown, c) => Shows(l.file, l.shown, c)
                    /\ WholeIn(r.file, c) => GetBind(l.file, c) = GetBind(r.file, c)
<1>1. CASE b \notin Buttons
  BY <1>1 DEF Load
<1>2. CASE b \in Buttons
  <2> DEFINE input == GetBind(r.file, b)
             l == Load(r, b)
             new == SetBind(r.file, b, input)
             show == [r.shown EXCEPT ![b] = input]
  <2>1. FileOK(r.file) /\ input \in AnyInput
    BY <1>2 DEF BindsAre, FileOK
  <2>2. l = [file |-> new, shown |-> show]
    BY <1>2 DEF Load
  <2>3. /\ BindsAre(new, show) /\ Shows(new, show, b)
        /\ \A c \in Buttons : Shows(r.file, r.shown, c) => Shows(new, show, c)
    BY <1>2, <2>1, BindKeeps
  <2>4. \A c \in Buttons : WholeIn(r.file, c) => GetBind(new, c) = GetBind(r.file, c)
    BY <1>2, <2>1, WriteBack
  <2> HIDE DEF new, show, l, input
  <2>5. l = [file |-> l.file, shown |-> l.shown] /\ l.file = new /\ l.shown = show
    BY <2>2
  <2> QED BY <2>3, <2>4, <2>5 DEF l
<1> QED BY <1>1, <1>2

\* What all loads together do to the binds that are whole.
KeepsWhole(f, new) == \A c \in Buttons : WholeIn(f, c) => GetBind(new, c) = GetBind(f, c)

LEMMA KeepsWholeTwice ==
    ASSUME NEW f, NEW g, NEW h, KeepsWhole(f, g), KeepsWhole(g, h)
    PROVE  KeepsWhole(f, h)
<1> SUFFICES ASSUME NEW c \in Buttons, WholeIn(f, c)
             PROVE  GetBind(h, c) = GetBind(f, c)
  BY DEF KeepsWhole
<1>1. GetBind(g, c) = GetBind(f, c)
  BY DEF KeepsWhole
<1>2. OnStick(c) => GetBind(g, Opposite[c]) = GetBind(f, Opposite[c])
  <2> SUFFICES ASSUME OnStick(c) PROVE GetBind(g, Opposite[c]) = GetBind(f, Opposite[c])
    OBVIOUS
  <2>1. Opposite[c] \in Buttons /\ WholeIn(f, Opposite[c])
    BY Opposites DEF WholeIn
  <2> QED BY <2>1 DEF KeepsWhole
<1>3. WholeIn(g, c)
  BY <1>1, <1>2 DEF WholeIn
<1> QED BY <1>1, <1>3 DEF KeepsWhole

\* The page opens.
LEMMA OpenBinds ==
    ASSUME BindsAre(file, shown), Open
    PROVE  /\ BindsAre(file', shown') /\ \A c \in Buttons : Shows(file', shown', c)
           /\ KeepsWhole(file, file')
<1> DEFINE r0 == [file |-> file, shown |-> shown]
           r1 == Load(r0, "START")
           r2 == Load(r1, "UP")
           r3 == Load(r2, "DOWN")
           r4 == Load(r3, "LEFT")
           r5 == Load(r4, "RIGHT")
           OK(r) == r = [file |-> r.file, shown |-> r.shown] /\ BindsAre(r.file, r.shown)
           Same(r, l) == /\ KeepsWhole(r.file, l.file)
                         /\ \A c \in Buttons : Shows(r.file, r.shown, c) => Shows(l.file, l.shown, c)
<1>1. file' = r5.file /\ shown' = r5.shown
  BY DEF Open
<1>2. ASSUME NEW r, NEW b, OK(r) PROVE OK(Load(r, b)) /\ Same(r, Load(r, b))
  BY <1>2, LoadKeeps DEF KeepsWhole
<1>3. OK(r0) /\ r0.file = file
  OBVIOUS
<1>4. "START" \in Buttons => Shows(r1.file, r1.shown, "START")
  BY <1>3, LoadKeeps
<1> HIDE DEF r0, r1, r2, r3, r4, r5, OK, Same
<1>5. OK(r1) /\ Same(r0, r1)
  BY <1>2, <1>3 DEF r1
<1>6. OK(r2) /\ Same(r1, r2)
  BY <1>2, <1>5 DEF r2
<1>7. OK(r3) /\ Same(r2, r3)
  BY <1>2, <1>6 DEF r3
<1>8. OK(r4) /\ Same(r3, r4)
  BY <1>2, <1>7 DEF r4
<1>9. OK(r5) /\ Same(r4, r5)
  BY <1>2, <1>8 DEF r5
<1>10. KeepsWhole(file, r5.file)
  <2>1. KeepsWhole(file, r2.file)
    BY <1>3, <1>5, <1>6, KeepsWholeTwice DEF Same
  <2>2. KeepsWhole(file, r3.file)
    BY <1>7, <2>1, KeepsWholeTwice DEF Same
  <2>3. KeepsWhole(file, r4.file)
    BY <1>8, <2>2, KeepsWholeTwice DEF Same
  <2> QED BY <1>9, <2>3, KeepsWholeTwice DEF Same
<1>11. ASSUME NEW c \in Buttons PROVE Shows(r5.file, r5.shown, c)
  <2>1. CASE OnStick(c)
    BY <2>1 DEF Shows
  <2>2. CASE ~OnStick(c)
    <3>1. Shows(r1.file, r1.shown, c)
      BY <1>4, <2>2, TheStick
    <3> QED BY <1>6, <1>7, <1>8, <1>9, <3>1 DEF Same
  <2> QED BY <2>1, <2>2
<1> QED BY <1>1, <1>9, <1>10, <1>11 DEF OK

\* The event does not touch button c: c does not listen, nor does its opposite,
\* unless one key holds both.
Untouched(f, c, input) ==
    /\ c \notin listening
    /\ OnStick(c) /\ Opposite[c] \in listening =>
           /\ input # None /\ GetBind(f, c) # None
           /\ GetBind(f, c).type = input.type /\ GetBind(f, c).hat = input.hat

\* What a handler does.
LEMMA HandledKeeps ==
    ASSUME NEW f, FileOK(f), listening \subseteq Buttons, NEW b, NEW input \in AnyInput
    PROVE  LET new == Handled(f, b, input)
           IN  /\ FileOK(new)
               /\ \A c \in Buttons : Untouched(f, c, input) => GetBind(new, c) = GetBind(f, c)
               /\ \A c \in Buttons : c # b /\ ~OnStick(c) => GetBind(new, c) = GetBind(f, c)
<1>1. CASE b \notin listening
  BY <1>1 DEF Handled
<1>2. CASE b \in listening
  <2> DEFINE new == SetBind(f, b, input)
  <2>1. Handled(f, b, input) = new /\ b \in Buttons
    BY <1>2 DEF Handled
  <2>2. FileOK(new)
    BY <2>1, SetBindFileOK
  <2>3. ASSUME NEW c \in Buttons, Untouched(f, c, input)
        PROVE  GetBind(new, c) = GetBind(f, c)
    <3>1. c # b
      BY <1>2, <2>3 DEF Untouched
    <3>2. CASE OnStick(b) => c # Opposite[b]
      BY <2>1, <3>1, <3>2, OtherKey
    <3>3. CASE OnStick(b) /\ c = Opposite[b] /\ ~Refused(input)
      <4>1. OnStick(c) /\ Opposite[c] = b
        BY <2>1, <3>3, Opposites
      <4>2. /\ input # None /\ GetBind(f, c) # None
            /\ GetBind(f, c).type = input.type /\ GetBind(f, c).hat = input.hat
        BY <1>2, <2>3, <4>1 DEF Untouched
      <4> QED BY <2>1, <3>3, <4>2, StickBound
    <3>4. CASE Refused(input)
      <4>1. new = f
        BY <2>1, <3>4, SetBindKeys
      <4> QED BY <4>1
    <3> QED BY <3>2, <3>3, <3>4
  <2>4. ASSUME NEW c \in Buttons, c # b, ~OnStick(c)
        PROVE  GetBind(new, c) = GetBind(f, c)
    <3>1. OnStick(b) => c # Opposite[b]
      BY <2>1, <2>4, Opposites
    <3> QED BY <2>1, <2>4, <3>1, OtherKey
  <2> HIDE DEF new
  <2> QED BY <2>1, <2>2, <2>3, <2>4
<1> QED BY <1>1, <1>2

\* An event of a gamepad binds the plain buttons that listen, and leaves those
\* alone that neither listen nor share their key.
LEMMA PadEventBinds ==
    ASSUME BindsAre(file, shown), listening \subseteq Buttons,
           NEW p, NEW input \in AnyInput, PadEvent(p, input)
    PROVE  /\ BindsAre(file', shown')
           /\ \A c \in Buttons : Untouched(file, c, input) => GetBind(file', c) = GetBind(file, c)
           /\ \A c \in Buttons : Shows(file, shown, c) => Shows(file', shown', c)
<1> DEFINE f1 == Handled(file, "START", input)
           f2 == Handled(f1, "RIGHT", input)
           f3 == Handled(f2, "LEFT", input)
           f4 == Handled(f3, "DOWN", input)
           f5 == Handled(f4, "UP", input)
           Plain(f, g) == \A c \in Buttons : ~OnStick(c) => GetBind(g, c) = GetBind(f, c)
           Keeps(f, g) == \A c \in Buttons : Untouched(f, c, input) =>
                              GetBind(g, c) = GetBind(f, c) /\ Untouched(g, c, input)
<1>1. file' = f5 /\ shown' = [btn \in Buttons |-> IF btn \in listening THEN input ELSE shown[btn]]
  BY DEF PadEvent
<1>2. ASSUME NEW f, FileOK(f), NEW b
      PROVE  /\ FileOK(Handled(f, b, input)) /\ Keeps(f, Handled(f, b, input))
             /\ b # "START" => Plain(f, Handled(f, b, input))
  <2>1. \A c \in Buttons : ~OnStick(c) => c = "START"
    BY TheStick
  <2>2. /\ FileOK(Handled(f, b, input))
        /\ \A c \in Buttons : Untouched(f, c, input) =>
               GetBind(Handled(f, b, input), c) = GetBind(f, c)
        /\ \A c \in Buttons : c # b /\ ~OnStick(c) =>
               GetBind(Handled(f, b, input), c) = GetBind(f, c)
    BY <1>2, HandledKeeps
  <2> QED BY <2>1, <2>2 DEF Untouched
<1>3. FileOK(file)
  BY DEF BindsAre
<1> HIDE DEF f2, f3, f4, f5, Plain, Keeps
<1>4. FileOK(f1) /\ Keeps(file, f1)
  BY <1>2, <1>3
<1>5. ASSUME ~OnStick("START"), "START" \in Buttons
      PROVE  /\ "START" \notin listening \/ Refused(input) =>
                    GetBind(f1, "START") = GetBind(file, "START")
             /\ "START" \in listening /\ ~Refused(input) => GetBind(f1, "START") = input
  BY <1>3, <1>5, PlainRead DEF Handled
<1> HIDE DEF f1
<1>6. FileOK(f2) /\ Keeps(f1, f2) /\ Plain(f1, f2)
  BY <1>2, <1>4 DEF f2
<1>7. FileOK(f3) /\ Keeps(f2, f3) /\ Plain(f2, f3)
  BY <1>2, <1>6 DEF f3
<1>8. FileOK(f4) /\ Keeps(f3, f4) /\ Plain(f3, f4)
  BY <1>2, <1>7 DEF f4
<1>9. FileOK(f5) /\ Keeps(f4, f5) /\ Plain(f4, f5)
  BY <1>2, <1>8 DEF f5
<1>10. Keeps(file, f5)
  BY <1>4, <1>6, <1>7, <1>8, <1>9 DEF Keeps
<1>11. Plain(f1, f5)
  BY <1>6, <1>7, <1>8, <1>9 DEF Plain
<1>12. BindsAre(f5, shown')
  BY <1>1, <1>9 DEF BindsAre
<1>13. ASSUME NEW c \in Buttons, Shows(file, shown, c) PROVE Shows(f5, shown', c)
  <2>1. CASE OnStick(c)
    BY <2>1 DEF Shows
  <2>2. CASE ~OnStick(c)
    <3>1. c = "START" /\ GetBind(f5, c) = GetBind(f1, c)
      BY <1>11, <2>2, TheStick DEF Plain
    <3>2. shown'[c] = IF c \in listening THEN input ELSE shown[c]
      BY <1>1
    <3> QED BY <1>5, <1>13, <2>2, <3>1, <3>2 DEF Shows
  <2> QED BY <2>1, <2>2
<1> QED BY <1>1, <1>10, <1>12, <1>13 DEF Keeps

\* Every step keeps what the buttons show and the file has.
LEMMA BindsStep == BindsInv /\ loaded \in BOOLEAN /\ [Next]_vars => BindsInv' /\ loaded' \in BOOLEAN
<1> SUFFICES ASSUME BindsInv, loaded \in BOOLEAN, [Next]_vars
             PROVE  BindsInv' /\ loaded' \in BOOLEAN
  OBVIOUS
<1> DEFINE OK(f, sh, l) == /\ BindsAre(f, sh) /\ l \subseteq Buttons
                           /\ loaded => \A btn \in Buttons : Shows(f, sh, btn)
<1>0. OK(file, shown, listening) /\ None \in AnyInput
  BY DEF BindsInv, AnyInput
<1>1. ASSUME OK(file', shown', listening'), loaded' = loaded
      PROVE  BindsInv' /\ loaded' \in BOOLEAN
  BY <1>1 DEF BindsInv, BindsAre, Shows
<1>2. CASE Open
  <2>1. BindsAre(file', shown') /\ \A c \in Buttons : Shows(file', shown', c)
    BY <1>0, <1>2, OpenBinds
  <2>2. listening' = {} /\ loaded' = TRUE
    BY <1>2 DEF Open
  <2> QED BY <2>1, <2>2 DEF BindsInv, BindsAre, Shows
<1>3. ASSUME NEW btn \in Buttons, NEW input \in AnyInput, Bind(btn, input), UNCHANGED loaded
      PROVE  BindsInv' /\ loaded' \in BOOLEAN
  <2>1. /\ file' = SetBind(file, btn, input) /\ shown' = [shown EXCEPT ![btn] = input]
        /\ listening' = listening \ {btn}
    BY <1>3 DEF Bind
  <2>2. OK(file', shown', listening')
    BY <1>0, <2>1, BindKeeps
  <2> QED BY <1>1, <1>3, <2>2
<1>4. ASSUME NEW btn \in Buttons, StartListening(btn) \/ Clear(btn) \/ StopListening(btn)
      PROVE  BindsInv' /\ loaded' \in BOOLEAN
  <2>1. CASE Clear(btn)
    BY <1>0, <1>3, <2>1 DEF Clear
  <2>2. CASE StartListening(btn) \/ StopListening(btn)
    <3>1. /\ listening' \subseteq Buttons /\ file' = file /\ shown' = shown /\ loaded' = loaded
      BY <1>0, <2>2 DEF StartListening, StopListening
    <3> QED BY <1>0, <1>1, <3>1
  <2> QED BY <1>4, <2>1, <2>2
<1>5. ASSUME NEW btn \in Buttons, NEW input \in KeyInputs \cup MouseInputs, BindKeyOrMouse(btn, input)
      PROVE  BindsInv' /\ loaded' \in BOOLEAN
  BY <1>3, <1>5 DEF BindKeyOrMouse, AnyInput
<1>6. ASSUME NEW btn \in Buttons, PressUnknownKey(btn)
      PROVE  BindsInv' /\ loaded' \in BOOLEAN
  <2> DEFINE stale == Input("key", "stale")
  <2>1. /\ shown' = [shown EXCEPT ![btn] = IF shown[btn].type = "key" THEN shown[btn] ELSE stale]
        /\ file' = file /\ listening' = listening /\ loaded' = loaded
    BY <1>6 DEF PressUnknownKey
  <2>2. shown \in [Buttons -> AnyInput \cup {stale}]
    BY <1>0 DEF BindsAre
  <2> HIDE DEF stale
  <2>3. /\ shown' \in [Buttons -> AnyInput \cup {stale}]
        /\ \A c \in Buttons : shown'[c] \in {shown[c], stale}
    BY <2>1, <2>2
  <2>4. OK(file', shown', listening')
    BY <1>0, <2>1, <2>3 DEF BindsAre, Shows, stale
  <2> QED BY <1>1, <2>1, <2>4
<1>7. ASSUME NEW p \in Pads, NEW input \in PadInputs, PadEvent(p, input)
      PROVE  BindsInv' /\ loaded' \in BOOLEAN
  <2>1. input \in AnyInput /\ listening' = {} /\ loaded' = loaded
    BY <1>7 DEF AnyInput, PadEvent
  <2>2. OK(file', shown', listening')
    BY <1>0, <1>7, <2>1, PadEventBinds
  <2> QED BY <1>1, <2>1, <2>2
<1>8. ASSUME UNCHANGED << binds, loaded >> PROVE BindsInv' /\ loaded' \in BOOLEAN
  BY <1>0, <1>1, <1>8 DEF binds
<1>9. ASSUME NEW i \in 0 .. (MaxPads + 1), Select(i) PROVE BindsInv' /\ loaded' \in BOOLEAN
  BY <1>8, <1>9 DEF Select
<1>10. ASSUME NEW p \in Pads, PadAdded(p) PROVE BindsInv' /\ loaded' \in BOOLEAN
  BY <1>8, <1>10 DEF PadAdded, PadsChange
<1>11. ASSUME NEW i \in 1 .. MaxPads, PadRemoved(i) PROVE BindsInv' /\ loaded' \in BOOLEAN
  BY <1>8, <1>11 DEF PadRemoved, PadsChange
<1>12. CASE UNCHANGED vars
  BY <1>8, <1>12 DEF vars
<1> HIDE DEF OK
<1> QED BY <1>2, <1>4, <1>5, <1>6, <1>7, <1>9, <1>10, <1>11, <1>12 DEF Next

-----------------------------------------------------------------------------
(* Steps of the device box.                                                *)

\* Whatever entry is selected, either no gamepad is heard, or the one that is
\* open and configured.
LEMMA IndexChangesKeeps ==
    ASSUME NEW ps \in Seq(Pads), Len(ps) <= MaxPads,
           NEW b \in Boxes, b.pads = Entries(ps), AtEntry(b),
           device \in Devices, joystick \in Pads \cup {NoPad}, IndexChanges(b, ps)
    PROVE  /\ DevicesAre(device', heard', joystick', box', ps)
           /\ heard' = NoPad \/ (b.at \in 1 .. Len(b.pads) /\ heard' = ps[b.at])
<1> DEFINE names == b.pads
           free == [b EXCEPT !.gone = FALSE]
<1>1. /\ names \in Seq(PadNames) /\ Len(names) \in Nat /\ Len(names) <= Len(ps)
      /\ Len(ps) \in Nat /\ DOMAIN ps = 1 .. Len(ps) /\ b.at \in Nat
      /\ \A i \in 1 .. Len(ps) : ps[i] \in Pads
  <2>1. names \in Seq(PadNames) /\ Len(names) <= Len(ps)
    BY EntriesType
  <2> QED BY <2>1, LenProperties, ElementOfSeq DEF Boxes
<1>2. free \in Boxes /\ free.pads = names /\ free.at = b.at /\ free.gone = FALSE
  BY DEF Boxes
<1>3. b.at <= Len(names) => AtEntry(free)
  BY <1>1, <1>2 DEF AtEntry
<1> HIDE DEF names, free
<1>4. CASE b.at > Len(names) /\ heard' = NoPad /\ box' = b /\ UNCHANGED << device, joystick >>
  BY <1>4 DEF DevicesAre
<1>5. CASE /\ b.at = 0 /\ heard' = NoPad /\ joystick' = NoPad
           /\ device' = KeyboardDevice /\ box' = free
  <2>1. b.at <= Len(names)
    BY <1>1, <1>5
  <2> QED BY <1>2, <1>3, <1>5, <2>1 DEF DevicesAre, Devices, names
<1>6. CASE /\ b.at \in 1 .. Len(names) /\ heard' = NoPad /\ joystick' = NoPad
           /\ box' = b /\ UNCHANGED device
  BY <1>6 DEF DevicesAre
<1>7. CASE /\ b.at \in 1 .. Len(names) /\ heard' = ps[b.at] /\ joystick' = ps[b.at]
           /\ device' = [name |-> names[b.at], index |-> b.at - 1] /\ box' = free
  <2>1. b.at \in 1 .. Len(ps) /\ ps[b.at] \in Pads /\ b.at \in Int /\ b.at <= Len(names)
    BY <1>1, <1>7
  <2>2. names[b.at] \in PadNames
    BY <1>1, <1>7, ElementOfSeq
  <2>3. device' \in Devices
    <3>1. b.at - 1 \in 0 .. (MaxPads - 1)
      BY <1>1, <2>1, ControllerAssumption
    <3> QED BY <1>7, <2>2, <3>1 DEF Devices
  <2>4. device'.name = names[b.at] /\ device'.index + 1 = b.at
    BY <1>7, <2>1
  <2>5. names[b.at] = NameOf[ps[b.at]] \/ \E i \in DOMAIN ps : NameOf[ps[i]] = ""
    <3>1. CASE \A i \in DOMAIN ps : NameOf[ps[i]] # ""
      BY <2>1, <3>1, EntriesAll DEF names
    <3> QED BY <3>1
  <2> QED BY <1>1, <1>2, <1>3, <1>7, <2>1, <2>3, <2>4, <2>5 DEF DevicesAre, names
<1> QED BY <1>4, <1>5, <1>6, <1>7 DEF IndexChanges, names, free

\* A scan: the gamepad that is heard afterwards has the name configured.
LEMMA ScanKeeps ==
    ASSUME NEW old \in Seq(Pads), NEW ps \in Seq(Pads), Len(ps) <= MaxPads,
           DevicesAre(device, heard, joystick, box, old), ScanDevices(device, ps)
    PROVE  /\ DevicesAre(device', heard', joystick', box', ps)
           /\ heard' = NoPad \/ \E i \in 1 .. Len(Entries(ps)) :
                                    Entries(ps)[i] = device.name /\ heard' = ps[i]
<1> DEFINE b == BoxOf(ps, FALSE, 0)
           named == {i \in DOMAIN b.pads : b.pads[i] = device.name}
           gone == BoxOf(ps, TRUE, Len(b.pads) + 1)
<1>1. /\ Entries(ps) \in Seq(PadNames) /\ Len(Entries(ps)) \in Nat
      /\ DOMAIN Entries(ps) = 1 .. Len(Entries(ps))
  BY EntriesType, LenProperties
<1>2. /\ b \in Boxes /\ b.pads = Entries(ps) /\ b.gone = FALSE /\ b.at = 0
      /\ gone \in Boxes /\ gone.pads = Entries(ps) /\ gone.gone = TRUE
      /\ gone.at = Len(Entries(ps)) + 1
  BY <1>1 DEF BoxOf, Boxes
<1>3. device \in Devices /\ joystick \in Pads \cup {NoPad}
  BY DEF DevicesAre
<1> HIDE DEF b, gone
<1>4. CASE /\ device.name = "Keyboard" /\ box' = b
           /\ device' = device /\ UNCHANGED << heard, joystick >>
  <2>1. heard = NoPad
    <3> SUFFICES ASSUME heard # NoPad PROVE FALSE
      OBVIOUS
    <3>1. device.index + 1 \in DOMAIN old
      BY DEF DevicesAre
    <3>2. device.index + 1 \in 1 .. Len(old) /\ Len(old) \in Nat
      BY <3>1, LenProperties
    <3>3. KeyboardDevice.index + 1 = 0 /\ UnsetDevice.index + 1 = -1
      BY DEF KeyboardDevice, UnsetDevice
    <3>4. device \in [name : PadNames, index : 0 .. (MaxPads - 1)]
      BY <1>3, <3>2, <3>3 DEF Devices
    <3>5. device.name \in PadNames
      BY <3>4
    <3> QED BY <1>4, <3>5, ControllerAssumption DEF PadNames
  <2>2. AtEntry(b)
    BY <1>1, <1>2 DEF AtEntry
  <2> QED BY <1>1, <1>2, <1>3, <1>4, <2>1, <2>2 DEF DevicesAre
<1>5. ASSUME NEW i \in named, IndexChanges([b EXCEPT !.at = i], ps)
      PROVE  /\ DevicesAre(device', heard', joystick', box', ps)
             /\ heard' = NoPad \/ (Entries(ps)[i] = device.name /\ heard' = ps[i])
  <2> DEFINE c == [b EXCEPT !.at = i]
  <2>1. i \in 1 .. Len(Entries(ps)) /\ Entries(ps)[i] = device.name /\ i \in Nat
    BY <1>1, <1>2
  <2>2. c \in Boxes /\ c.pads = Entries(ps) /\ c.at = i /\ c.gone = FALSE
    BY <1>2, <2>1 DEF Boxes
  <2> HIDE DEF c
  <2>3. AtEntry(c)
    BY <1>1, <2>1, <2>2 DEF AtEntry
  <2>4. IndexChanges(c, ps)
    BY <1>5 DEF c
  <2>5. /\ DevicesAre(device', heard', joystick', box', ps)
        /\ heard' = NoPad \/ heard' = ps[c.at]
    BY <1>3, <2>2, <2>3, <2>4, IndexChangesKeeps
  <2> QED BY <2>1, <2>2, <2>5
<1>6. ASSUME IndexChanges(gone, ps)
      PROVE  DevicesAre(device', heard', joystick', box', ps) /\ heard' = NoPad
  <2>1. AtEntry(gone)
    BY <1>1, <1>2 DEF AtEntry
  <2>2. gone.at \notin 1 .. Len(gone.pads)
    BY <1>1, <1>2
  <2> QED BY <1>2, <1>3, <1>6, <2>1, <2>2, IndexChangesKeeps
<1>7. \A i \in named : i \in 1 .. Len(Entries(ps))
  BY <1>1, <1>2
<1>8. \/ /\ device.name = "Keyboard" /\ box' = b
         /\ device' = device /\ UNCHANGED << heard, joystick >>
      \/ \E i \in named : IndexChanges([b EXCEPT !.at = i], ps)
      \/ IndexChanges(gone, ps)
  BY DEF ScanDevices, b, gone
<1>9. CASE \E i \in named : IndexChanges([b EXCEPT !.at = i], ps)
  BY <1>5, <1>7, <1>9
<1> HIDE DEF named
<1> QED BY <1>4, <1>6, <1>8, <1>9

\* What is left when a gamepad is pulled out.
LEMMA RemovedPad ==
    ASSUME NEW ps \in Seq(Pads), NEW i \in DOMAIN ps
    PROVE  /\ RemoveAt(ps, i) \in Seq(Pads) /\ Len(RemoveAt(ps, i)) = Len(ps) - 1
           /\ \A j \in 1 .. Len(ps) - 1 :
                 \E k \in 1 .. Len(ps) : RemoveAt(ps, i)[j] = ps[k]
<1>1. i \in 1 .. Len(ps) /\ Len(ps) \in Nat
  BY LenProperties
<1> DEFINE n == Len(ps)
           s == SubSeq(ps, 1, i - 1)
           t == SubSeq(ps, i + 1, n)
<1>2. RemoveAt(ps, i) = s \o t
  BY DEF RemoveAt
<1>3. s \in Seq(Pads) /\ Len(s) = i - 1 /\ \A j \in 1 .. i - 1 : s[j] = ps[j]
  BY <1>1
<1>4. t \in Seq(Pads) /\ Len(t) = n - i /\ \A j \in 1 .. n - i : t[j] = ps[i + j]
  BY <1>1
<1> HIDE DEF s, t, n
<1>5. s \o t \in Seq(Pads) /\ Len(s \o t) = Len(s) + Len(t)
  <2>1. s \in Seq(Pads) /\ t \in Seq(Pads)
    BY <1>3, <1>4
  <2> QED BY <2>1, ConcatProperties
<1>6. \A j \in 1 .. Len(s) + Len(t) : (s \o t)[j] = IF j <= Len(s) THEN s[j] ELSE t[j - Len(s)]
  BY <1>3, <1>4
<1>7. Len(s) + Len(t) = n - 1
  BY <1>1, <1>3, <1>4 DEF n
<1>8. ASSUME NEW j \in 1 .. n - 1
      PROVE  \E k \in 1 .. n : (s \o t)[j] = ps[k]
  <2>1. CASE j <= i - 1
    <3>1. (s \o t)[j] = ps[j] /\ j \in 1 .. n
      BY <1>1, <1>3, <1>6, <1>7, <2>1 DEF n
    <3> QED BY <3>1
  <2>2. CASE j > i - 1
    <3>1. j - (i - 1) \in 1 .. n - i /\ i + (j - (i - 1)) = j + 1 /\ j + 1 \in 1 .. n
      BY <1>1, <2>2 DEF n
    <3>2. (s \o t)[j] = t[j - (i - 1)]
      BY <1>1, <1>3, <1>6, <1>7, <2>2 DEF n
    <3>3. (s \o t)[j] = ps[j + 1]
      BY <1>4, <3>1, <3>2
    <3> QED BY <3>1, <3>3
  <2>3. j \in Int /\ i - 1 \in Int
    BY <1>1 DEF n
  <2>4. j <= i - 1 \/ j > i - 1
    BY <2>3
  <2> QED BY <2>1, <2>2, <2>4
<1> QED BY <1>2, <1>5, <1>7, <1>8 DEF n

\* Every step keeps the box and the gamepads in line.
LEMMA DevicesStep == DevicesInv /\ loaded \in BOOLEAN /\ [Next]_vars => DevicesInv'
<1> SUFFICES ASSUME DevicesInv, loaded \in BOOLEAN, [Next]_vars PROVE DevicesInv'
  OBVIOUS
<1>0. /\ pads \in Seq(Pads) /\ Len(pads) <= MaxPads
      /\ \E old \in Seq(Pads) : DevicesAre(device, heard, joystick, box, old)
      /\ loaded => DevicesAre(device, heard, joystick, box, pads)
  BY EmptySeq DEF DevicesInv
<1>1. CASE UNCHANGED << devices, loaded >>
  BY <1>1 DEF DevicesInv, DevicesAre, devices
<1>2. CASE Open
  <2>1. ScanDevices(device, pads) /\ pads' = pads /\ loaded' = TRUE
    BY <1>2 DEF Open
  <2>2. DevicesAre(device', heard', joystick', box', pads)
    BY <1>0, <2>1, ScanKeeps
  <2> QED BY <1>0, <2>1, <2>2 DEF DevicesInv
<1>3. ASSUME NEW i \in 0 .. (MaxPads + 1), Select(i) PROVE DevicesInv'
  <2> DEFINE b == [box EXCEPT !.at = i]
  <2>1. /\ loaded /\ IndexChanges(b, pads) /\ pads' = pads /\ loaded' = loaded
        /\ i \in 0 .. (Len(box.pads) + IF box.gone THEN 1 ELSE 0)
    BY <1>3 DEF Select
  <2>2. /\ box \in Boxes /\ box.pads = Entries(pads)
        /\ device \in Devices /\ joystick \in Pads \cup {NoPad}
    BY <1>0, <2>1 DEF DevicesAre
  <2>3. /\ b \in Boxes /\ b.pads = Entries(pads) /\ b.at = i /\ b.gone = box.gone
    BY <2>2 DEF Boxes
  <2>4. AtEntry(b)
    <3>1. Len(box.pads) \in Nat /\ box.gone \in BOOLEAN /\ i \in Int
      BY <2>2, LenProperties DEF Boxes
    <3> HIDE DEF b
    <3>2. CASE box.gone
      BY <2>1, <2>2, <2>3, <3>1, <3>2 DEF AtEntry
    <3>3. CASE ~box.gone
      BY <2>1, <2>2, <2>3, <3>1, <3>3 DEF AtEntry
    <3> QED BY <3>2, <3>3
  <2> HIDE DEF b
  <2>5. DevicesAre(device', heard', joystick', box', pads)
    BY <1>0, <2>1, <2>2, <2>3, <2>4, IndexChangesKeeps
  <2> QED BY <1>0, <2>1, <2>5 DEF DevicesInv
<1>4. ASSUME NEW ps \in Seq(Pads), Len(ps) <= MaxPads, PadsChange(ps) PROVE DevicesInv'
  <2>1. pads' = ps /\ loaded' = loaded
    BY <1>4 DEF PadsChange
  <2>2. CASE loaded
    <3>1. ScanDevices(device, ps)
      BY <1>4, <2>2 DEF PadsChange
    <3>2. DevicesAre(device', heard', joystick', box', ps)
      BY <1>0, <1>4, <3>1, ScanKeeps
    <3> QED BY <1>4, <2>1, <2>2, <3>2 DEF DevicesInv
  <2>3. CASE ~loaded
    <3>1. UNCHANGED << device, heard, joystick, box >>
      BY <1>4, <2>3 DEF PadsChange
    <3>2. DevicesAre(device', heard', joystick', box', << >>) /\ heard' = NoPad
      BY <2>3, <3>1 DEF DevicesInv
    <3> QED BY <1>4, <2>1, <2>3, <3>2 DEF DevicesInv
  <2> QED BY <2>2, <2>3
<1>5. ASSUME NEW p \in Pads, PadAdded(p) PROVE DevicesInv'
  <2>1. Append(pads, p) \in Seq(Pads) /\ Len(Append(pads, p)) = Len(pads) + 1 /\ Len(pads) \in Nat
    BY <1>0
  <2>2. Len(Append(pads, p)) <= MaxPads
    BY <1>5, <2>1, ControllerAssumption DEF PadAdded
  <2> QED BY <1>4, <1>5, <2>1, <2>2 DEF PadAdded
<1>6. ASSUME NEW i \in 1 .. MaxPads, PadRemoved(i) PROVE DevicesInv'
  <2>1. i \in DOMAIN pads /\ PadsChange(RemoveAt(pads, i))
    BY <1>6 DEF PadRemoved
  <2>2. RemoveAt(pads, i) \in Seq(Pads) /\ Len(RemoveAt(pads, i)) <= Len(pads)
    BY <1>0, <2>1, RemovedPad
  <2>3. Len(RemoveAt(pads, i)) <= MaxPads
    BY <1>0, <2>2, ControllerAssumption
  <2> QED BY <1>4, <2>1, <2>2, <2>3
<1>7. ASSUME NEW btn \in Buttons, StartListening(btn) \/ Clear(btn) \/ StopListening(btn) PROVE DevicesInv'
  BY <1>1, <1>7 DEF StartListening, Clear, StopListening
<1>8. ASSUME NEW btn \in Buttons, NEW input, BindKeyOrMouse(btn, input) PROVE DevicesInv'
  BY <1>1, <1>8 DEF BindKeyOrMouse
<1>9. ASSUME NEW btn \in Buttons, PressUnknownKey(btn) PROVE DevicesInv'
  BY <1>1, <1>9 DEF PressUnknownKey
<1>10. ASSUME NEW p \in Pads, NEW input, PadEvent(p, input) PROVE DevicesInv'
  BY <1>1, <1>10 DEF PadEvent
<1>11. CASE UNCHANGED vars
  BY <1>1, <1>11 DEF vars
<1> QED BY <1>2, <1>3, <1>5, <1>6, <1>7, <1>8, <1>9, <1>10, <1>11 DEF Next

-----------------------------------------------------------------------------
(* What the page promises.                                                 *)

LEMMA IInvInit == Init => IInv
<1> SUFFICES ASSUME Init PROVE IInv
  OBVIOUS
<1>1. BindsInv
  <2>1. ASSUME NEW btn \in Buttons PROVE GetBind(file, btn) = None
    <3>1. file[KeyOf(btn)] = NoText
      BY Opposites DEF Init
    <3> QED BY <3>1, ReadNone DEF GetBind
  <2>2. NoText.type = "none" /\ NoText.args = << >> /\ None.type = "none" /\ None \in AnyInput
    BY DEF NoText, Text, None, Input, AnyInput
  <2>3. ASSUME NEW key \in Keys
        PROVE  /\ file[key].type \in {i.type : i \in AnyInput}
               /\ file[key].args \in Seq(Values) /\ Len(file[key].args) <= 2
    <3>1. file[key] = NoText
      BY DEF Init
    <3>2. NoText.args \in Seq(Values) /\ Len(NoText.args) <= 2
      BY <2>2
    <3>3. NoText.type \in {i.type : i \in AnyInput}
      BY <2>2
    <3> QED BY <3>1, <3>2, <3>3
  <2>4. file = [key \in Keys |-> file[key]]
    BY DEF Init
  <2>5. FileOK(file)
    BY <2>1, <2>2, <2>3, <2>4 DEF FileOK
  <2> QED BY <2>2, <2>5 DEF BindsInv, BindsAre, Init
<1>2. DevicesInv
  <2>1. device \in Devices
    <3>1. ASSUME NEW p \in Pads PROVE [name |-> NameOf[p], index |-> 0] \in Devices
      BY ControllerAssumption DEF Devices, PadNames
    <3> QED BY <3>1 DEF Init, Devices
  <2>2. << >> \in Seq(Pads) /\ Len(<< >>) = 0 /\ << >> \in Seq(PadNames)
    BY EmptySeq
  <2>3. Entries(<< >>) = << >>
    <3>1. Entries(<< >>) \in Seq(PadNames) /\ Len(Entries(<< >>)) <= 0
      BY <2>2, EntriesType
    <3>2. Len(Entries(<< >>)) \in Nat
      BY <3>1, LenProperties
    <3>3. Len(Entries(<< >>)) = 0
      BY <3>1, <3>2
    <3> QED BY <3>1, <3>3, EmptySeq
  <2>4. box \in Boxes /\ box.pads = << >> /\ AtEntry(box)
    BY <2>2 DEF Init, Boxes, AtEntry
  <2> QED BY <2>1, <2>2, <2>3, <2>4, ControllerAssumption DEF DevicesInv, DevicesAre, Init
<1> QED BY <1>1, <1>2 DEF IInv, Init

LEMMA IInvStep == IInv /\ [Next]_vars => IInv'
  BY BindsStep, DevicesStep DEF IInv

LEMMA PageAlways == Spec => []IInv
  BY IInvInit, IInvStep, PTL DEF Spec

\* Either list of gamepads says what the box is like.
LEMMA DevicesAreType ==
    ASSUME IInv
    PROVE  \E ps \in Seq(Pads) : DevicesAre(device, heard, joystick, box, ps)
  BY EmptySeq DEF IInv, DevicesInv

\* The page has its types in every state: the file has only texts the program
\* writes, the box an entry at its index, the device an index in bounds.
THEOREM PageTypeOK == Spec => []TypeOK
<1>1. ASSUME IInv PROVE TypeOK
  <2>1. /\ device \in Devices /\ heard \in Pads \cup {NoPad} /\ joystick \in Pads \cup {NoPad}
        /\ box \in Boxes /\ AtEntry(box)
    BY <1>1, DevicesAreType DEF DevicesAre
  <2>2. box.pads \in Seq(PadNames) /\ box.gone \in BOOLEAN /\ box.at \in Nat
    BY <2>1 DEF Boxes
  <2>3. box.at \in 0 .. (Len(box.pads) + IF box.gone THEN 1 ELSE 0)
    <3>1. Len(box.pads) \in Nat
      BY <2>2, LenProperties
    <3>2. CASE box.gone
      BY <2>1, <2>2, <3>1, <3>2 DEF AtEntry
    <3>3. CASE ~box.gone
      BY <2>1, <2>2, <3>1, <3>3 DEF AtEntry
    <3> QED BY <3>2, <3>3
  <2>4. \A key \in Keys : /\ file[key].type \in {i.type : i \in AnyInput}
                         /\ file[key].args \in Seq({i.val : i \in AnyInput} \cup {"9830"})
    BY <1>1 DEF IInv, BindsInv, BindsAre, FileOK, Values
  <2>5. /\ shown \in [Buttons -> AnyInput \cup {Input("key", "stale")}]
        /\ listening \subseteq Buttons /\ pads \in Seq(Pads) /\ loaded \in BOOLEAN
    BY <1>1 DEF IInv, BindsInv, BindsAre, DevicesInv
  <2> QED BY <2>1, <2>2, <2>3, <2>4, <2>5 DEF TypeOK, Devices
<1> QED BY <1>1, PageAlways, PTL

\* The gamepad the buttons listen to is plugged in, open and the configured
\* one, whatever was plugged in, pulled out or selected.
THEOREM HeardPadConfigured == Spec => []HeardPadIsConfigured
<1>1. ASSUME IInv PROVE HeardPadIsConfigured
  BY <1>1 DEF IInv, DevicesInv, DevicesAre, HeardPadIsConfigured
<1> QED BY <1>1, PageAlways, PTL

\* Outside the stick, a button that does not listen shows what the file has.
THEOREM ButtonsShow == Spec => []ButtonsShowTheFile
<1>1. ASSUME IInv PROVE ButtonsShowTheFile
  BY <1>1 DEF IInv, BindsInv, Shows, ButtonsShowTheFile
<1> QED BY <1>1, PageAlways, PTL

\* A scan never makes the buttons listen to another gamepad, when each has a
\* name of its own: the names in the box are then those of the gamepads, and
\* the one configured is the name of the one heard.
THEOREM PadKept == Spec => NoPadStealsTheBox
<1>1. ASSUME IInv, [Next]_vars, pads' # pads, NamesTellApart(pads), NamesTellApart(pads'),
             heard # NoPad
      PROVE  heard' \in {heard, NoPad}
  <2> DEFINE at == device.index + 1
  <2>1. /\ loaded /\ pads \in Seq(Pads) /\ Len(pads) <= MaxPads
        /\ DevicesAre(device, heard, joystick, box, pads)
    BY <1>1 DEF IInv, DevicesInv
  <2>2. at \in DOMAIN pads /\ pads[at] = heard /\ device.name = NameOf[heard]
    BY <1>1, <2>1 DEF DevicesAre, NamesTellApart
  <2> HIDE DEF at
  <2>3. DOMAIN pads = 1 .. Len(pads) /\ Len(pads) \in Nat
    BY <2>1, LenProperties
  <2>4. ASSUME NEW ps \in Seq(Pads), Len(ps) <= MaxPads, PadsChange(ps),
               heard' # NoPad
        PROVE  /\ pads' = ps
               /\ \E i \in 1 .. Len(ps) : NameOf[ps[i]] = NameOf[heard] /\ heard' = ps[i]
    <3>1. pads' = ps /\ ScanDevices(device, ps)
      BY <2>1, <2>4 DEF PadsChange
    <3>2. PICK i \in 1 .. Len(Entries(ps)) : Entries(ps)[i] = device.name /\ heard' = ps[i]
      BY <2>1, <2>4, <3>1, ScanKeeps
    <3>3. \A k \in DOMAIN ps : NameOf[ps[k]] # ""
      BY <1>1, <3>1 DEF NamesTellApart
    <3>4. /\ Len(Entries(ps)) = Len(ps)
          /\ \A k \in 1 .. Len(ps) : Entries(ps)[k] = NameOf[ps[k]]
      BY <3>3, EntriesAll
    <3> QED BY <2>2, <3>1, <3>2, <3>4
  <2>5. ASSUME NEW p \in Pads, PadAdded(p), heard' # NoPad PROVE heard' = heard
    <3> DEFINE ps == Append(pads, p)
    <3>1. /\ ps \in Seq(Pads) /\ Len(ps) = Len(pads) + 1
          /\ \A k \in 1 .. Len(pads) : ps[k] = pads[k]
      BY <2>1
    <3>2. PadsChange(ps) /\ Len(pads) < MaxPads
      BY <2>5 DEF PadAdded
    <3> HIDE DEF ps
    <3>3. Len(ps) <= MaxPads /\ DOMAIN ps = 1 .. Len(ps)
      BY <2>3, <3>1, <3>2, LenProperties, ControllerAssumption
    <3>4. pads' = ps /\ \E i \in 1 .. Len(ps) : NameOf[ps[i]] = NameOf[heard] /\ heard' = ps[i]
      BY <2>4, <2>5, <3>1, <3>2, <3>3
    <3>5. ps[at] = heard /\ at \in DOMAIN ps
      BY <2>2, <2>3, <3>1, <3>3
    <3> QED BY <1>1, <3>3, <3>4, <3>5 DEF NamesTellApart
  <2>6. ASSUME NEW i \in 1 .. MaxPads, PadRemoved(i), heard' # NoPad PROVE heard' = heard
    <3> DEFINE ps == RemoveAt(pads, i)
    <3>1. i \in DOMAIN pads /\ PadsChange(ps)
      BY <2>6 DEF PadRemoved
    <3>2. /\ ps \in Seq(Pads) /\ Len(ps) = Len(pads) - 1
          /\ \A j \in 1 .. Len(pads) - 1 : \E k \in 1 .. Len(pads) : ps[j] = pads[k]
      BY <2>1, <3>1, RemovedPad
    <3> HIDE DEF ps
    <3>3. Len(ps) <= MaxPads
      BY <2>1, <2>3, <3>2, ControllerAssumption
    <3>4. PICK j \in 1 .. Len(ps) : NameOf[ps[j]] = NameOf[heard] /\ heard' = ps[j]
      BY <2>4, <2>6, <3>1, <3>2, <3>3
    <3>5. PICK k \in 1 .. Len(pads) : ps[j] = pads[k]
      BY <3>2, <3>4
    <3> QED BY <1>1, <2>2, <2>3, <3>4, <3>5 DEF NamesTellApart
  <2>7. CASE UNCHANGED pads
    BY <1>1, <2>7
  <2>8. Open \/ (\E i \in 0 .. (MaxPads + 1) : Select(i)) => UNCHANGED pads
    BY DEF Open, Select
  <2>9. \A btn \in Buttons : StartListening(btn) \/ Clear(btn) \/ StopListening(btn) => UNCHANGED pads
    BY DEF StartListening, Clear, StopListening, devices
  <2>10. \A btn \in Buttons, input \in KeyInputs \cup MouseInputs :
            BindKeyOrMouse(btn, input) => UNCHANGED pads
    BY DEF BindKeyOrMouse, devices
  <2>11. \A btn \in Buttons : PressUnknownKey(btn) => UNCHANGED pads
    BY DEF PressUnknownKey, devices
  <2>12. \A p \in Pads, input \in PadInputs : PadEvent(p, input) => UNCHANGED pads
    BY DEF PadEvent, devices
  <2>13. CASE UNCHANGED vars
    BY <1>1, <2>13 DEF vars, devices
  <2> QED BY <1>1, <2>5, <2>6, <2>7, <2>8, <2>9, <2>10, <2>11, <2>12, <2>13 DEF Next
<1>2. IInv /\ [Next]_vars =>
        [(pads' # pads /\ NamesTellApart(pads) /\ NamesTellApart(pads') /\ heard # NoPad)
             => heard' \in {heard, NoPad}]_vars
  BY <1>1
<1> QED BY <1>2, PageAlways, PTL DEF Spec, NoPadStealsTheBox

\* Binding a button costs another one its whole bind only if one key of the
\* file cannot hold both.
LEMMA BindCosts ==
    ASSUME BindsAre(file, shown), NEW b \in Buttons, NEW input \in AnyInput, Bind(b, input),
           NEW btn \in Buttons, btn # b, Whole(btn), GetBind(file', btn) # GetBind(file, btn)
    PROVE  /\ OnStick(btn) /\ Opposite[btn] = b
           /\ \/ shown'[b].type # GetBind(file, btn).type
              \/ shown'[b].hat # GetBind(file, btn).hat
<1>1. file' = SetBind(file, b, input) /\ shown'[b] = input /\ FileOK(file)
  BY DEF Bind, BindsAre
<1>2. OnStick(b) /\ btn = Opposite[b]
  BY <1>1, OtherKey
<1>3. OnStick(btn) /\ Opposite[btn] = b
  BY <1>2, Opposites
<1>4. GetBind(file, btn) # None /\ GetBind(file, btn) \in AnyInput
  BY <1>1 DEF Whole, FileOK
<1>5. ~Refused(input)
  BY <1>1, SetBindKeys
<1>6. ASSUME input.type = GetBind(file, btn).type, input.hat = GetBind(file, btn).hat
      PROVE  FALSE
  <2>1. input # None
    BY <1>4, <1>6, InputsAre DEF None, Input
  <2> QED BY <1>1, <1>2, <1>4, <1>5, <1>6, <2>1, StickBound
<1> QED BY <1>1, <1>3, <1>6

\* A whole bind is lost only to a step that binds or clears its own button, or
\* gives the opposite direction what one key cannot hold beside it: never to a
\* settings window that opens and writes all binds back one by one, and never
\* to the order in which an event of a gamepad binds several buttons.
THEOREM WholeBindsKept == Spec => WholeBindsAreKept
<1>1. ASSUME IInv, [Next]_vars, NEW btn \in Buttons, Whole(btn),
             GetBind(file', btn) # GetBind(file, btn)
      PROVE  \/ Binds(btn)
             \/ /\ OnStick(btn) /\ Binds(Opposite[btn])
                /\ \/ shown'[Opposite[btn]].type # GetBind(file, btn).type
                   \/ shown'[Opposite[btn]].hat # GetBind(file, btn).hat
  <2>1. BindsAre(file, shown) /\ listening \subseteq Buttons /\ None \in AnyInput
    BY <1>1 DEF IInv, BindsInv, AnyInput
  <2>2. ~Open
    <3> SUFFICES ASSUME Open PROVE FALSE
      OBVIOUS
    <3>1. KeepsWhole(file, file')
      BY <2>1, OpenBinds
    <3> QED BY <1>1, <3>1 DEF KeepsWhole, WholeIn, Whole
  <2>3. file' # file
    BY <1>1
  <2>4. CASE \E b \in Buttons : Clear(b)
    <3>1. PICK b \in Buttons : Clear(b)
      BY <2>4
    <3>2. Bind(b, None) /\ Binds(b)
      BY <3>1 DEF Clear, Binds
    <3>3. CASE btn = b
      BY <3>2, <3>3
    <3>4. CASE btn # b
      BY <1>1, <2>1, <3>2, <3>4, BindCosts
    <3> QED BY <3>3, <3>4
  <2>5. CASE \E b \in Buttons, input \in KeyInputs \cup MouseInputs : BindKeyOrMouse(b, input)
    <3>1. PICK b \in Buttons, input \in KeyInputs \cup MouseInputs : BindKeyOrMouse(b, input)
      BY <2>5
    <3>2. Bind(b, input) /\ input \in AnyInput /\ b \in listening
      BY <3>1 DEF BindKeyOrMouse, AnyInput
    <3>3. Binds(b)
      BY <2>2, <3>2 DEF Bind, Binds
    <3>4. CASE btn = b
      BY <3>3, <3>4
    <3>5. CASE btn # b
      BY <1>1, <2>1, <3>2, <3>3, <3>5, BindCosts
    <3> QED BY <3>4, <3>5
  <2>6. CASE \E p \in Pads, input \in PadInputs : PadEvent(p, input)
    <3>1. PICK p \in Pads, input \in PadInputs : PadEvent(p, input)
      BY <2>6
    <3>2. /\ input \in AnyInput /\ input.type # "none" /\ listening' = {}
          /\ shown' = [c \in Buttons |-> IF c \in listening THEN input ELSE shown[c]]
      BY <3>1, ControllerAssumption DEF PadEvent, AnyInput
    <3>3. \A c \in listening : Binds(c)
      BY <2>2, <3>2 DEF Binds
    <3>4. CASE btn \in listening
      BY <3>3, <3>4
    <3>5. CASE btn \notin listening
      <4>1. ~Untouched(file, btn, input)
        BY <1>1, <2>1, <3>1, <3>2, PadEventBinds
      <4>2. input # None /\ GetBind(file, btn) # None
        BY <1>1, <3>2 DEF Whole, None, Input
      <4>3. /\ OnStick(btn) /\ Opposite[btn] \in listening
            /\ \/ GetBind(file, btn).type # input.type
               \/ GetBind(file, btn).hat # input.hat
        BY <3>5, <4>1, <4>2 DEF Untouched
      <4>4. shown'[Opposite[btn]] = input
        BY <2>1, <3>2, <4>3
      <4> QED BY <3>3, <4>3, <4>4
    <3> QED BY <3>4, <3>5
  <2>7. \A b \in Buttons : StartListening(b) \/ StopListening(b) \/ PressUnknownKey(b) => file' = file
    BY DEF StartListening, StopListening, PressUnknownKey
  <2>8. \A i \in 0 .. (MaxPads + 1) : Select(i) => file' = file
    BY DEF Select, binds
  <2>9. \A p \in Pads : PadAdded(p) => file' = file
    BY DEF PadAdded, PadsChange, binds
  <2>10. \A i \in 1 .. MaxPads : PadRemoved(i) => file' = file
    BY DEF PadRemoved, PadsChange, binds
  <2>11. UNCHANGED vars => file' = file
    BY DEF vars, binds
  <2> QED BY <1>1, <2>2, <2>3, <2>4, <2>5, <2>6, <2>7, <2>8, <2>9, <2>10, <2>11 DEF Next
<1> DEFINE Change == \A btn \in Buttons :
               Whole(btn) /\ GetBind(file', btn) # GetBind(file, btn)
                => \/ Binds(btn)
                   \/ /\ OnStick(btn) /\ Binds(Opposite[btn])
                      /\ \/ shown'[Opposite[btn]].type # GetBind(file, btn).type
                         \/ shown'[Opposite[btn]].hat # GetBind(file, btn).hat
<1>2. IInv /\ [Next]_vars => Change
  BY <1>1
<1>3. WholeBindsAreKept <=> [][Change]_vars
  BY DEF WholeBindsAreKept
<1> HIDE DEF Change
<1> QED BY <1>2, <1>3, PageAlways, PTL DEF Spec
=============================================================================
