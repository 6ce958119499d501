--------------------------- MODULE FrontendProofs ---------------------------
(***************************************************************************)
(* What Frontend.tla promises, for every number of waiting lambdas: the    *)
(* theorems are about SafeSpec, no fairness is used.                       *)
(*                                                                         *)
(* Emulator, client and window each hold their part of a session and       *)
(* forget it at another time. What ties them together is what can still    *)
(* call connect_net64(): the user, but not under a dialog; an event left   *)
(* over from RUNNING, but not once the run is joined; a client that is     *)
(* hooking. The invariant says of each moment which of them are left.      *)
(***************************************************************************)
EXTENDS Frontend, SequenceTheorems, TLAPS

Names == {"construct failed", "start failed", "server failed", "connect failed",
          "incompatible", "aborted", "aborted joining", "halted"}

\* What a run has told and what the GUI thread has not read yet.
SignalInv ==
    /\ told = 0 => signals = << >>
    /\ told < 2 => \A i \in 1 .. Len(signals) : signals[i] # "joinable"
    /\ signals # << >> => Up

\* A connection is that of a hooked client to a running game, or it is being
\* taken down after the game.
ConnectionInv ==
    peer # "none" =>
        \/ hook = "hooked" /\ Up
        \/ hook = "no" /\ ~Up /\ peer = "disconnecting"

\* Nothing that is left calls connect_net64() to any effect.
NobodyConnects ==
    /\ hook # "hooking" /\ (Up => told # 0)
    /\ \A i \in 1 .. Len(signals) : signals[i] # "connect"

\* The run is over and everything it told has been read.
RunIsRead == hook = "no" /\ signals = << >> /\ (Up => told = 2)

\* What cannot happen under the dialogs that change something when closed.
PopupInv ==
    /\ Contains(popups, "start failed") => ~Up
    /\ Contains(popups, "aborted") => peer = "none" /\ NobodyConnects
    /\ Contains(popups, "aborted joining") => peer = "none" /\ RunIsRead
    /\ Contains(popups, "incompatible") => hook = "hooked" \/ RunIsRead

\* Who will enable the button.
ButtonInv ==
    ~button /\ ~Up /\ peer = "none" =>
        retries > 0 \/ (popups # << >> /\ popups[1] = "server failed")

IInv == TypeOK /\ SignalInv /\ ConnectionInv /\ PageFollowsConnection /\ PopupInv /\ ButtonInv

-----------------------------------------------------------------------------
\* A sequence with one more element at its end.
LEMMA SeqLonger ==
    ASSUME NEW S, NEW s \in Seq(S), NEW x \in S
    PROVE  /\ Append(s, x) \in Seq(S) /\ Append(s, x) # << >>
           /\ Len(Append(s, x)) = Len(s) + 1 /\ Len(s) \in Nat
           /\ Append(s, x)[Len(s) + 1] = x
           /\ \A i \in 1 .. Len(s) : Append(s, x)[i] = s[i]
           /\ s = << >> <=> Len(s) = 0
  OBVIOUS

\* A sequence without its last element.
LEMMA SeqShorter ==
    ASSUME NEW S, NEW s \in Seq(S), s # << >>
    PROVE  /\ Len(s) \in Nat /\ Len(s) > 0
           /\ Front(s) \in Seq(S) /\ Len(Front(s)) = Len(s) - 1
           /\ \A i \in 1 .. Len(s) - 1 : Front(s)[i] = s[i]
           /\ Front(s) = << >> <=> Len(s) = 1
<1>1. Len(s) \in Nat /\ Len(s) > 0
  OBVIOUS
<1>2. /\ Front(s) \in Seq(S) /\ Len(Front(s)) = Len(s) - 1
      /\ \A i \in 1 .. Len(s) - 1 : Front(s)[i] = s[i]
  <2>1. \A i \in 1 .. Len(s) - 1 : s[i] \in S
    BY <1>1, ElementOfSeq
  <2>2. 1 \in Int /\ Len(s) - 1 \in Int
    BY <1>1
  <2>3. /\ SubSeq(s, 1, Len(s) - 1) \in Seq(S)
        /\ Len(SubSeq(s, 1, Len(s) - 1)) =
              IF 1 <= Len(s) - 1 THEN (Len(s) - 1) - 1 + 1 ELSE 0
        /\ \A i \in 1 .. (Len(s) - 1) - 1 + 1 : SubSeq(s, 1, Len(s) - 1)[i] = s[1 + i - 1]
    BY <2>1, <2>2, SubSeqProperties
  <2>4. Front(s) = SubSeq(s, 1, Len(s) - 1)
    BY DEF Front
  <2>5. Len(Front(s)) = Len(s) - 1
    <3>1. CASE 1 <= Len(s) - 1
      <4>1. Len(SubSeq(s, 1, Len(s) - 1)) = (Len(s) - 1) - 1 + 1
        BY <2>3, <3>1, Zenon
      <4>2. (Len(s) - 1) - 1 + 1 = Len(s) - 1
        BY <1>1
      <4>3. QED
        BY <2>4, <4>1, <4>2, Zenon
    <3>2. CASE ~(1 <= Len(s) - 1)
      <4>1. Len(SubSeq(s, 1, Len(s) - 1)) = 0
        BY <2>3, <3>2, Zenon
      <4>2. \A n \in Nat : n > 0 /\ ~(1 <= n - 1) => n - 1 = 0
        OBVIOUS
      <4>3. QED
        BY <1>1, <2>4, <3>2, <4>1, <4>2, Zenon
    <3>3. QED
      BY <3>1, <3>2
  <2>6. \A i \in 1 .. Len(s) - 1 : Front(s)[i] = s[i]
    <3>1. ASSUME NEW i \in 1 .. Len(s) - 1 PROVE Front(s)[i] = s[i]
      <4>1. i \in 1 .. (Len(s) - 1) - 1 + 1 /\ 1 + i - 1 = i
        BY <1>1
      <4>2. QED
        BY <2>3, <2>4, <4>1
    <3>2. QED
      BY <3>1
  <2>7. QED
    BY <2>3, <2>4, <2>5, <2>6
<1>3. Front(s) = << >> <=> Len(s) = 1
  <2>1. Front(s) = << >> <=> Len(Front(s)) = 0
    BY <1>2, EmptySeq
  <2>2. QED
    BY <1>1, <1>2, <2>1
<1>4. QED
  BY <1>1, <1>2, <1>3

\* A dialog that opens is the innermost one, those below stay.
LEMMA OpenedDialog ==
    ASSUME NEW s \in Seq(Names), NEW x \in Names
    PROVE  /\ Append(s, x) \in Seq(Names)
           /\ Append(s, x) # << >>
           /\ \A y : Contains(Append(s, x), y) <=> Contains(s, y) \/ y = x
           /\ s # << >> => Append(s, x)[1] = s[1]
           /\ s = << >> => Append(s, x)[1] = x
<1> DEFINE t == Append(s, x)
<1>1. /\ t \in Seq(Names) /\ t # << >> /\ Len(t) = Len(s) + 1 /\ Len(s) \in Nat
      /\ t[Len(s) + 1] = x
      /\ \A i \in 1 .. Len(s) : t[i] = s[i]
      /\ s = << >> <=> Len(s) = 0
  BY SeqLonger
<1>2. ASSUME NEW y PROVE Contains(t, y) <=> Contains(s, y) \/ y = x
  <2>1. ASSUME NEW i \in 1 .. Len(t), t[i] = y PROVE Contains(s, y) \/ y = x
    <3>1. CASE i = Len(s) + 1
      BY <1>1, <2>1, <3>1
    <3>2. CASE i # Len(s) + 1
      <4>1. i \in 1 .. Len(s) /\ s[i] = y
        BY <1>1, <2>1, <3>2
      <4>2. QED
        BY <4>1 DEF Contains
    <3>3. QED
      BY <3>1, <3>2
  <2>2. ASSUME NEW i \in 1 .. Len(s), s[i] = y PROVE Contains(t, y)
    <3>1. i \in 1 .. Len(t) /\ t[i] = y
      BY <1>1, <2>2
    <3>2. QED
      BY <3>1 DEF Contains
  <2>3. ASSUME y = x PROVE Contains(t, y)
    <3>1. Len(s) + 1 \in 1 .. Len(t)
      BY <1>1
    <3>2. QED
      BY <1>1, <2>3, <3>1 DEF Contains
  <2>4. QED
    BY <2>1, <2>2, <2>3 DEF Contains
<1>3. QED
  BY <1>1, <1>2

\* Closing the innermost dialog opens none, and leaves those below it.
LEMMA ClosedDialog ==
    ASSUME NEW s \in Seq(Names), s # << >>
    PROVE  /\ Front(s) \in Seq(Names)
           /\ \A y : Contains(Front(s), y) => Contains(s, y)
           /\ Contains(s, Last(s))
           /\ Front(s) # << >> => Front(s)[1] = s[1]
           /\ Front(s) = << >> => Last(s) = s[1]
<1>1. /\ Len(s) \in Nat /\ Len(s) > 0
      /\ Front(s) \in Seq(Names) /\ Len(Front(s)) = Len(s) - 1
      /\ \A i \in 1 .. Len(s) - 1 : Front(s)[i] = s[i]
      /\ Front(s) = << >> <=> Len(s) = 1
  BY SeqShorter
<1>2. ASSUME NEW y, NEW i \in 1 .. Len(Front(s)), Front(s)[i] = y PROVE Contains(s, y)
  <2>1. i \in 1 .. Len(s) /\ s[i] = y
    BY <1>1, <1>2
  <2>2. QED
    BY <2>1 DEF Contains
<1>3. Contains(s, Last(s))
  BY <1>1 DEF Contains, Last
<1>4. Front(s) # << >> => Front(s)[1] = s[1]
  BY <1>1
<1>5. Front(s) = << >> => Last(s) = s[1]
  BY <1>1 DEF Last
<1>6. QED
  BY <1>1, <1>2, <1>3, <1>4, <1>5 DEF Contains

\* Reading an event leaves the later ones, in their order.
LEMMA ReadSignal ==
    ASSUME NEW S, NEW s \in Seq(S), s # << >>
    PROVE  /\ Tail(s) \in Seq(S)
           /\ Len(Tail(s)) = Len(s) - 1 /\ Len(s) \in Nat /\ Len(s) > 0
           /\ Head(s) = s[1]
           /\ \A i \in 1 .. Len(Tail(s)) : i + 1 \in 1 .. Len(s) /\ Tail(s)[i] = s[i + 1]
  OBVIOUS

\* Once the program is up the invariant holds.
THEOREM InitEstablishes == Init => IInv
<1> SUFFICES ASSUME Init PROVE IInv
  OBVIOUS
<1>1. TypeOK
  <2>1. signals \in Seq({"connect", "joinable"}) /\ popups \in Seq(Names)
    BY DEF Init
  <2>2. retries \in 0 .. MaxRetries
    BY RetriesAssumption DEF Init
  <2>3. \A i \in 1 .. Len(signals) : signals[i] = "joinable" => i = Len(signals)
    BY DEF Init
  <2>4. told \in 0 .. 2
    BY DEF Init
  <2>5. hosting \in BOOLEAN /\ button \in BOOLEAN /\ reload \in BOOLEAN
    BY Zenon DEF Init
  <2>6. QED
    BY <2>1, <2>2, <2>3, <2>4, <2>5 DEF Init, TypeOK, Names
<1>2. ~Contains(popups, "start failed") /\ ~Contains(popups, "aborted")
      /\ ~Contains(popups, "aborted joining") /\ ~Contains(popups, "incompatible")
  BY DEF Init, Contains
<1>3. SignalInv
  BY DEF Init, SignalInv
<1>4. PopupInv
  BY <1>2 DEF PopupInv
<1>5. QED
  BY <1>1, <1>3, <1>4 DEF Init, IInv, ConnectionInv, PageFollowsConnection,
                                ButtonInv
-----------------------------------------------------------------------------
\* What a step does to the dialogs: which step opens those that matter.
Dialogs ==
    /\ popups' \in Seq(Names)
    /\ Contains(popups', "start failed") => Contains(popups, "start failed") \/ emulator' = "Stopped"
    /\ Contains(popups', "aborted") => Contains(popups, "aborted") \/ ConnectTimesOut
    /\ Contains(popups', "aborted joining") =>
          Contains(popups, "aborted joining") \/ (OnJoinable /\ UnhookAborts)
    /\ Contains(popups', "incompatible") => Contains(popups, "incompatible") \/ TryHookFails
    /\ popups # << >> /\ popups[1] = "server failed" =>
          button' = TRUE \/ (popups' # << >> /\ popups'[1] = "server failed")

\* One more dialog, over all or instead of the innermost.
LEMMA DialogOpens ==
    ASSUME TypeOK, NEW s \in {popups, Front(popups)}, s # popups => popups # << >>,
           NEW x \in Names, popups' = Append(s, x),
           x = "start failed" => emulator' = "Stopped",
           x = "aborted" => ConnectTimesOut,
           x = "aborted joining" => OnJoinable /\ UnhookAborts,
           x = "incompatible" => TryHookFails,
           s # popups => button' = TRUE \/ Last(popups) # "server failed"
    PROVE  Dialogs
<1>1. popups \in Seq(Names)
  BY DEF TypeOK, Names
<1>2. /\ s \in Seq(Names)
      /\ \A y : Contains(s, y) => Contains(popups, y)
      /\ s # << >> => s[1] = popups[1]
      /\ s = << >> /\ popups # << >> => Last(popups) = popups[1]
  <2>1. CASE s = popups
    BY <1>1, <2>1
  <2>2. CASE s # popups
    <3>1. s = Front(popups) /\ popups # << >>
      BY <2>2
    <3>2. QED
      BY <1>1, <3>1, ClosedDialog
  <2>3. QED
    BY <2>1, <2>2
<1>3. /\ popups' \in Seq(Names) /\ popups' # << >>
      /\ \A y : Contains(popups', y) <=> Contains(s, y) \/ y = x
      /\ s # << >> => popups'[1] = s[1]
  BY <1>2, OpenedDialog
<1>4. \A y : Contains(popups', y) => Contains(popups, y) \/ y = x
  BY <1>2, <1>3
<1>5. popups # << >> /\ popups[1] = "server failed" =>
        button' = TRUE \/ (popups' # << >> /\ popups'[1] = "server failed")
  BY <1>2, <1>3
<1>6. QED
  BY <1>3, <1>4, <1>5 DEF Dialogs

\* The innermost dialog less; "server failed" leaves an enabled button.
LEMMA DialogCloses ==
    ASSUME TypeOK, popups # << >>, popups' = Front(popups),
           button' = TRUE \/ Last(popups) # "server failed"
    PROVE  Dialogs
<1>1. popups \in Seq(Names)
  BY DEF TypeOK, Names
<1>2. /\ popups' \in Seq(Names)
      /\ \A y : Contains(popups', y) => Contains(popups, y)
      /\ popups' # << >> => popups'[1] = popups[1]
      /\ popups' = << >> => Last(popups) = popups[1]
  BY <1>1, ClosedDialog
<1>3. popups # << >> /\ popups[1] = "server failed" =>
        button' = TRUE \/ (popups' # << >> /\ popups'[1] = "server failed")
  BY <1>2
<1>4. QED
  BY <1>2, <1>3 DEF Dialogs

\* No dialog opens or closes.
LEMMA DialogsStay ==
    ASSUME TypeOK, UNCHANGED popups
    PROVE  Dialogs
  BY DEF TypeOK, Names, Dialogs

\* Every step opens and closes dialogs in one of these three ways.
LEMMA StepOpens ==
    ASSUME TypeOK, Next
    PROVE  Dialogs
<1>1. ASSUME NEW h, NEW b, ConnectNet64(h, b) PROVE Dialogs
  <2>1. CASE StartEmulation(h, b)
    <3>1. CASE UNCHANGED popups
      BY <3>1, DialogsStay
    <3>2. CASE ErrorPopup("construct failed")
      BY <3>2, DialogOpens DEF ErrorPopup, Names
    <3>3. CASE emulator' = "Stopped" /\ ErrorPopup("start failed")
      BY <3>3, DialogOpens DEF ErrorPopup, Names
    <3>4. QED
      BY <2>1, <3>1, <3>2, <3>3 DEF StartEmulation
  <2>2. CASE ConnectToServer(h, b)
    <3>1. CASE UNCHANGED popups
      BY <3>1, DialogsStay
    <3>2. CASE ErrorPopup("connect failed")
      BY <3>2, DialogOpens DEF ErrorPopup, Names
    <3>3. QED
      BY <2>2, <3>1, <3>2 DEF ConnectToServer
  <2>3. CASE Hook(h, b) \/ AlreadyConnected(h, b)
    BY <2>3, DialogsStay DEF Hook, AlreadyConnected
  <2>4. QED
    BY <1>1, <2>1, <2>2, <2>3 DEF ConnectNet64
<1>2. ASSUME NEW s \in {popups, Front(popups)}, s # popups => popups # << >>, Recreated(s),
             s # popups => button' = TRUE \/ Last(popups) # "server failed"
      PROVE  Dialogs
  <2>1. CASE popups' = s
    BY <1>2, <2>1, DialogsStay, DialogCloses
  <2>2. CASE popups' = Append(s, "construct failed")
    BY <1>2, <2>2, DialogOpens DEF Names
  <2>3. QED
    BY <1>2, <2>1, <2>2 DEF Recreated
<1>3. ASSUME NEW s \in {popups, Front(popups)}, s # popups => popups # << >>, FinishJoin(s)
      PROVE  Dialogs
  <2>1. button' = TRUE
    BY <1>3 DEF FinishJoin, SessionOver
  <2>2. CASE popups' = s
    BY <1>3, <2>1, <2>2, DialogsStay, DialogCloses
  <2>3. CASE popups' = Append(s, "halted")
    BY <1>3, <2>1, <2>3, DialogOpens DEF Names
  <2>4. CASE Recreated(s)
    BY <1>2, <1>3, <2>1, <2>4
  <2>5. QED
    BY <1>3, <2>2, <2>3, <2>4 DEF FinishJoin
<1>4. CASE User
  <2>1. CASE CheckHost \/ PressStop
    BY <2>1, DialogsStay DEF CheckHost, PressStop
  <2>2. CASE PressJoin \/ PressHost
    BY <1>1, <2>2 DEF PressJoin, PressHost
  <2>3. CASE PressHostFails
    BY <2>3, DialogOpens DEF PressHostFails, ErrorPopup, Names
  <2>4. CASE ReloadEmulator
    BY <1>2, <2>4, DialogsStay DEF ReloadEmulator
  <2>5. QED
    BY <1>4, <2>1, <2>2, <2>3, <2>4 DEF User
<1>5. CASE EmulationEnds \/ Announces
  BY <1>5, DialogsStay DEF EmulationEnds, Announces, TellRunning, TellJoinable, window
<1>6. CASE OnStarted
  BY <1>1, <1>6 DEF OnStarted
<1>7. CASE OnJoinable
  <2>1. CASE UnhookAborts /\ AbortConnect("aborted joining")
    BY <1>7, <2>1, DialogOpens DEF AbortConnect, ErrorPopup, Names
  <2>2. CASE FinishJoin(popups)
    BY <1>3, <2>2
  <2>3. QED
    BY <1>7, <2>1, <2>2 DEF OnJoinable
<1>8. CASE Tick
  <2>1. CASE TryHook
    BY <1>1, <2>1 DEF TryHook
  <2>2. CASE TryHookFails
    BY <2>2, DialogOpens DEF TryHookFails, ErrorPopup, Names
  <2>3. CASE ConnectTimesOut
    BY <2>3, DialogOpens DEF ConnectTimesOut, AbortConnect, ErrorPopup, Names
  <2>4. CASE ConnectEvent \/ DisconnectEvent \/ DisconnectEnds
    BY <2>4, DialogsStay DEF ConnectEvent, DisconnectEvent, DisconnectEnds
  <2>5. QED
    BY <1>8, <2>1, <2>2, <2>3, <2>4 DEF Tick
<1>9. CASE ClosePopup
  <2>1. CASE PopupEnds
    BY <2>1, DialogCloses DEF PopupEnds
  <2>2. CASE ServerFailed
    BY <2>2, DialogCloses DEF ServerFailed, Closes
  <2>3. CASE StartFailed
    BY <2>3, DialogCloses DEF StartFailed, Closes
  <2>4. CASE Aborted
    BY <2>4, DialogCloses DEF Aborted, Closes
  <2>5. CASE AbortedJoining
    BY <1>3, <2>5 DEF AbortedJoining, Closes
  <2>6. CASE Halted
    BY <1>2, <2>6, DialogCloses DEF Halted, Closes
  <2>7. QED
    BY <1>9, <2>1, <2>2, <2>3, <2>4, <2>5, <2>6 DEF ClosePopup
<1>10. QED
  BY <1>4, <1>5, <1>6, <1>7, <1>8, <1>9 DEF Next, Delivers
-----------------------------------------------------------------------------
\* A dialog is open while its name waits in popups, the innermost one too.
LEMMA OpenDialogs ==
    ASSUME TypeOK
    PROVE  /\ \A y : Contains(popups, y) => popups # << >>
           /\ popups # << >> => Contains(popups, Last(popups))
<1>1. popups \in Seq(Names)
  BY DEF TypeOK, Names
<1>2. \A y : Contains(popups, y) => popups # << >>
  <2>1. ASSUME NEW y, popups = << >> PROVE ~Contains(popups, y)
    BY <2>1 DEF Contains
  <2>2. QED
    BY <2>1
<1>3. QED
  BY <1>1, <1>2, ClosedDialog

\* JOINABLE is the last a run tells: with it everything has been read.
LEMMA JoinableIsRead ==
    ASSUME TypeOK, SignalInv, OnJoinable
    PROVE  /\ told = 2 /\ UNCHANGED told /\ signals' = << >>
           /\ hook' = IF hook = "hooked" THEN "no" ELSE hook
<1>1. /\ signals # << >> /\ Head(signals) = "joinable" /\ signals' = Tail(signals)
      /\ UNCHANGED told /\ hook' = IF hook = "hooked" THEN "no" ELSE hook
  BY DEF OnJoinable
<1>2. /\ signals \in Seq({"connect", "joinable"}) /\ told \in 0 .. 2
      /\ \A i \in 1 .. Len(signals) : signals[i] = "joinable" => i = Len(signals)
  BY DEF TypeOK
<1>3. /\ Len(Tail(signals)) = Len(signals) - 1 /\ Len(signals) \in Nat /\ Len(signals) > 0
      /\ Tail(signals) \in Seq({"connect", "joinable"})
      /\ signals[1] = "joinable"
  BY <1>1, <1>2, ReadSignal
<1>4. 1 \in 1 .. Len(signals)
  BY <1>3
<1>5. Len(signals) = 1
  BY <1>2, <1>3, <1>4, Zenon
<1>6. signals' = << >>
  BY <1>1, <1>3, <1>5, EmptySeq
<1>7. ~(told < 2)
  BY <1>3, <1>4, Zenon DEF SignalInv
<1>8. told = 2
  BY <1>2, <1>7
<1>9. QED
  BY <1>1, <1>6, <1>8

\* What the emulation thread tells stays in order, and is read in order.
LEMMA StepKeepsSignals ==
    ASSUME IInv, Next
    PROVE  /\ signals' \in Seq({"connect", "joinable"})
           /\ \A i \in 1 .. Len(signals') : signals'[i] = "joinable" => i = Len(signals')
           /\ SignalInv'
<1> DEFINE Kept == /\ signals' \in Seq({"connect", "joinable"})
                   /\ \A i \in 1 .. Len(signals') : signals'[i] = "joinable" => i = Len(signals')
                   /\ SignalInv'
<1>1. /\ signals \in Seq({"connect", "joinable"}) /\ told \in 0 .. 2
      /\ \A i \in 1 .. Len(signals) : signals[i] = "joinable" => i = Len(signals)
      /\ SignalInv
      /\ popups # << >> => Contains(popups, Last(popups))
      /\ PopupInv
  BY OpenDialogs DEF IInv, TypeOK
<1>2. ASSUME UNCHANGED signals, UNCHANGED told, (Up <=> Up') \/ signals = << >> PROVE Kept
  BY <1>1, <1>2 DEF SignalInv
<1>3. ASSUME NEW h, NEW b, ConnectNet64(h, b), UNCHANGED signals PROVE Kept
  <2>1. CASE StartEmulation(h, b)
    <3>1. signals' = << >>
      BY <1>1, <1>3, <2>1 DEF StartEmulation, SignalInv
    <3>2. QED
      BY <3>1 DEF SignalInv
  <2>2. CASE Hook(h, b) \/ ConnectToServer(h, b) \/ AlreadyConnected(h, b)
    BY <1>2, <1>3, <2>2 DEF Hook, ConnectToServer, AlreadyConnected, Up
  <2>3. QED
    BY <1>3, <2>1, <2>2 DEF ConnectNet64
<1>4. CASE User
  <2>1. CASE CheckHost \/ PressStop \/ PressHostFails
    BY <1>2, <2>1 DEF CheckHost, PressStop, PressHostFails, emulation, Up
  <2>2. CASE PressJoin \/ PressHost
    BY <1>3, <2>2 DEF PressJoin, PressHost
  <2>3. CASE ReloadEmulator
    <3>1. UNCHANGED << signals, told >> /\ (UNCHANGED emulator \/ ~Up)
      BY <2>3 DEF ReloadEmulator
    <3>2. QED
      BY <1>1, <1>2, <3>1 DEF SignalInv, Up
  <2>4. QED
    BY <1>4, <2>1, <2>2, <2>3 DEF User
<1>5. CASE EmulationEnds
  BY <1>2, <1>5 DEF EmulationEnds, Up
<1>6. CASE TellRunning
  <2>1. signals = << >> /\ told' = 1 /\ UNCHANGED emulator /\ Up
    BY <1>1, <1>6 DEF TellRunning, SignalInv
  <2>2. /\ Lambdas \in Seq({"connect", "joinable"}) /\ Len(Lambdas) = retries
        /\ \A i \in 1 .. Len(Lambdas) : Lambdas[i] = "connect"
    <3>1. retries \in Nat
      <4>1. retries \in 0 .. MaxRetries
        BY DEF IInv, TypeOK
      <4>2. QED
        BY <4>1, RetriesAssumption
    <3>2. Lambdas \in Seq({"connect", "joinable"})
      BY <3>1, IsASeq DEF Lambdas
    <3>3. Len(Lambdas) = retries
      BY <3>1, <3>2 DEF Lambdas
    <3>4. \A i \in 1 .. Len(Lambdas) : Lambdas[i] = "connect"
      BY <3>1, <3>3 DEF Lambdas
    <3>5. QED
      BY <3>2, <3>3, <3>4
  <2>3. signals' = Lambdas
    BY <1>6, <2>1, <2>2 DEF TellRunning
  <2>4. QED
    BY <2>1, <2>2, <2>3 DEF SignalInv, Up
<1>7. CASE TellJoinable
  <2>1. /\ signals' = Append(signals, "joinable") /\ told = 1 /\ told' = 2
        /\ UNCHANGED emulator /\ Up
    BY <1>7 DEF TellJoinable, Up
  <2>2. /\ signals' \in Seq({"connect", "joinable"})
        /\ Len(signals') = Len(signals) + 1
        /\ \A i \in 1 .. Len(signals) : signals'[i] = signals[i]
        /\ Len(signals) \in Nat
    BY <1>1, <2>1, SeqLonger
  <2>3. \A i \in 1 .. Len(signals) : signals'[i] # "joinable"
    BY <1>1, <2>1, <2>2 DEF SignalInv
  <2>4. \A i \in 1 .. Len(signals') : signals'[i] = "joinable" => i = Len(signals')
    BY <2>2, <2>3
  <2>5. QED
    BY <2>1, <2>2, <2>4 DEF SignalInv, Up
<1>8. CASE OnStarted
  <2>1. Up /\ told # 0 /\ signals # << >> /\ signals' = Tail(signals)
    BY <1>1, <1>8 DEF OnStarted, SignalInv
  <2>2. UNCHANGED << emulator, told >>
    BY <1>8, <2>1 DEF OnStarted, ConnectNet64, StartEmulation, Hook, ConnectToServer,
                      AlreadyConnected
  <2>3. /\ Tail(signals) \in Seq({"connect", "joinable"})
        /\ Len(Tail(signals)) = Len(signals) - 1 /\ Len(signals) \in Nat /\ Len(signals) > 0
        /\ \A i \in 1 .. Len(Tail(signals)) :
              i + 1 \in 1 .. Len(signals) /\ Tail(signals)[i] = signals[i + 1]
    BY <1>1, <2>1, ReadSignal
  <2>4. \A i \in 1 .. Len(signals') : signals'[i] = "joinable" => i = Len(signals')
    <3>1. ASSUME NEW i \in 1 .. Len(Tail(signals)), Tail(signals)[i] = "joinable"
          PROVE  i = Len(Tail(signals))
      <4>1. i + 1 \in 1 .. Len(signals) /\ signals[i + 1] = "joinable"
        BY <2>3, <3>1
      <4>2. i + 1 = Len(signals)
        BY <1>1, <4>1
      <4>3. /\ i \in Int /\ Len(signals) \in Int
            /\ Len(Tail(signals)) = Len(signals) - 1
        BY <2>3
      <4>4. QED
        BY <4>2, <4>3
    <3>2. QED
      BY <2>1, <3>1
  <2>5. told < 2 => \A i \in 1 .. Len(signals') : signals'[i] # "joinable"
    BY <1>1, <2>1, <2>3 DEF SignalInv
  <2>6. QED
    BY <2>1, <2>2, <2>3, <2>4, <2>5 DEF SignalInv, Up
<1>9. CASE OnJoinable
  <2>1. signals' = << >> /\ told' = 2
    BY <1>9, JoinableIsRead DEF IInv
  <2>2. QED
    BY <2>1 DEF SignalInv
<1>10. CASE Tick
  <2>1. CASE TryHook
    BY <1>3, <2>1 DEF TryHook
  <2>2. CASE TryHookFails \/ ConnectTimesOut \/ ConnectEvent \/ DisconnectEvent \/ DisconnectEnds
    BY <1>2, <2>2 DEF TryHookFails, ConnectTimesOut, ConnectEvent, DisconnectEvent,
                      DisconnectEnds, emulation, Up
  <2>3. QED
    BY <1>10, <2>1, <2>2 DEF Tick
<1>11. CASE ClosePopup
  <2>1. CASE PopupEnds \/ ServerFailed \/ Aborted
    BY <1>2, <2>1 DEF PopupEnds, ServerFailed, Aborted, emulation, Up
  <2>2. CASE StartFailed
    <3>1. ~Up /\ UNCHANGED << signals, told >>
      BY <1>1, <2>2 DEF StartFailed, Closes, PopupInv
    <3>2. QED
      BY <1>1, <1>2, <3>1 DEF SignalInv
  <2>3. CASE AbortedJoining
    <3>1. signals = << >> /\ UNCHANGED << signals, told >>
      BY <1>1, <2>3 DEF AbortedJoining, Closes, PopupInv, RunIsRead
    <3>2. QED
      BY <1>2, <3>1
  <2>4. CASE Halted
    <3>1. UNCHANGED << signals, told >> /\ (UNCHANGED emulator \/ ~Up)
      BY <2>4 DEF Halted
    <3>2. QED
      BY <1>1, <1>2, <3>1 DEF SignalInv, Up
  <2>5. QED
    BY <1>11, <2>1, <2>2, <2>3, <2>4 DEF ClosePopup
<1>12. QED
  BY <1>4, <1>5, <1>6, <1>7, <1>8, <1>9, <1>10, <1>11 DEF Next, Announces, Delivers
\* Every step of the user, of the emulation thread or of Qt keeps the types.
LEMMA StepKeepsTypes ==
    ASSUME IInv, Next
    PROVE  TypeOK'
<1> DEFINE Kept ==
      /\ emulator' \in {"none", "Stopped", "Running", "Joinable"} /\ told' \in 0 .. 2
      /\ retries' \in 0 .. MaxRetries
      /\ hook' \in {"no", "hooking", "hooked"}
      /\ peer' \in {"none", "connecting", "connected", "disconnecting"}
      /\ target' \in {"own", "other"} /\ server' \in {"none", "open", "closing"}
      /\ hosting' \in BOOLEAN /\ button' \in BOOLEAN /\ reload' \in BOOLEAN
      /\ page' \in {"SETUP", "IN_GAME"}
<1>1. /\ emulator \in {"none", "Stopped", "Running", "Joinable"} /\ told \in 0 .. 2
      /\ retries \in 0 .. MaxRetries
      /\ hook \in {"no", "hooking", "hooked"}
      /\ peer \in {"none", "connecting", "connected", "disconnecting"}
      /\ target \in {"own", "other"} /\ server \in {"none", "open", "closing"}
      /\ hosting \in BOOLEAN /\ button \in BOOLEAN /\ reload \in BOOLEAN
      /\ page \in {"SETUP", "IN_GAME"}
  BY DEF IInv, TypeOK
<1>s. SUFFICES Kept
  <2>1. popups' \in Seq(Names)
    BY StepOpens DEF IInv, Dialogs
  <2>2. QED
    BY <2>1, StepKeepsSignals DEF Names, TypeOK
<1>2. ASSUME NEW h \in {"no", "hooking", "hooked"}, NEW b \in BOOLEAN, ConnectNet64(h, b)
      PROVE  /\ emulator' \in {"none", "Stopped", "Running", "Joinable"} /\ told' \in 0 .. 2
             /\ retries' \in 0 .. MaxRetries
             /\ hook' \in {"no", "hooking", "hooked"}
             /\ peer' \in {"none", "connecting", "connected", "disconnecting"}
             /\ target' \in {"own", "other"} /\ button' \in BOOLEAN
  <2>1. CASE StartEmulation(h, b)
    <3>1. retries' \in 0 .. MaxRetries
      <4>1. retries \in 0 .. MaxRetries
        BY <1>1
      <4>2. retries < MaxRetries /\ retries' = retries + 1
        BY <2>1 DEF StartEmulation
      <4>3. QED
        BY <4>1, <4>2, RetriesAssumption
    <3>2. told' \in 0 .. 2 /\ emulator' \in {"none", "Stopped", "Running", "Joinable"}
      <4>1. told' = 0 \/ told' = told
        BY <2>1 DEF StartEmulation
      <4>2. emulator' \in {"Running", "Stopped", emulator}
        BY <2>1 DEF StartEmulation
      <4>3. QED
        BY <1>1, <4>1, <4>2
    <3>3. UNCHANGED << peer, target >> /\ hook' = h /\ button' = b
      BY <2>1 DEF StartEmulation
    <3>4. QED
      BY <1>1, <1>2, <3>1, <3>2, <3>3
  <2>2. CASE Hook(h, b) \/ AlreadyConnected(h, b)
    BY <1>1, <1>2, <2>2 DEF Hook, AlreadyConnected
  <2>3. CASE ConnectToServer(h, b)
    BY <1>1, <1>2, <2>3 DEF ConnectToServer
  <2>4. QED
    BY <1>2, <2>1, <2>2, <2>3 DEF ConnectNet64
<1>3. ASSUME NEW s, Recreated(s) PROVE emulator' \in {"none", "Stopped"}
  BY <1>3 DEF Recreated
<1>4. ASSUME NEW s, FinishJoin(s)
      PROVE  emulator' \in {"none", "Stopped"} /\ server' = "none" /\ button' = TRUE
             /\ reload' \in BOOLEAN
  BY <1>1, <1>3, <1>4 DEF FinishJoin, SessionOver
<1>5. CASE User
  <2>1. CASE CheckHost
    BY <1>1, <2>1 DEF CheckHost, emulation, client
  <2>2. CASE PressJoin \/ PressHost
    <3>1. \E h \in {"no", "hooking", "hooked"} : \E b \in BOOLEAN : ConnectNet64(h, b)
      BY <1>1, <2>2 DEF PressJoin, PressHost
    <3>2. QED
      BY <1>1, <1>2, <2>2, <3>1 DEF PressJoin, PressHost
  <2>3. CASE PressHostFails \/ PressStop
    BY <1>1, <2>3 DEF PressHostFails, PressStop, emulation, client
  <2>4. CASE ReloadEmulator
    BY <1>1, <1>3, <2>4 DEF ReloadEmulator
  <2>5. QED
    BY <1>5, <2>1, <2>2, <2>3, <2>4 DEF User
<1>6. CASE EmulationEnds \/ Announces
  <2>1. CASE EmulationEnds \/ TellJoinable
    <3>1. told' = told \/ told' = 2
      BY <2>1 DEF EmulationEnds, TellJoinable
    <3>2. emulator' \in {emulator, "Joinable"} /\ UNCHANGED << retries, client, window >>
      BY <2>1 DEF EmulationEnds, TellJoinable
    <3>3. QED
      BY <1>1, <3>1, <3>2 DEF client, window
  <2>2. CASE TellRunning
    <3>1. retries' \in 0 .. MaxRetries
      BY <2>2, RetriesAssumption DEF TellRunning
    <3>2. told' \in 0 .. 2
      BY <2>2 DEF TellRunning
    <3>3. UNCHANGED << emulator, client, window >>
      BY <2>2 DEF TellRunning
    <3>4. QED
      BY <1>1, <3>1, <3>2, <3>3 DEF client, window
  <2>3. QED
    BY <1>6, <2>1, <2>2 DEF Announces
<1>7. CASE OnStarted
  BY <1>1, <1>2, <1>7 DEF OnStarted
<1>8. CASE OnJoinable
  <2>1. CASE AbortConnect("aborted joining") /\ UNCHANGED << emulator, server, reload >>
    BY <1>1, <1>8, <2>1 DEF OnJoinable, AbortConnect
  <2>2. CASE /\ FinishJoin(popups)
             /\ peer' = IF hook = "hooked" /\ peer = "connected" THEN "disconnecting" ELSE peer
    BY <1>1, <1>4, <1>8, <2>2 DEF OnJoinable
  <2>3. QED
    BY <1>8, <2>1, <2>2 DEF OnJoinable
<1>9. CASE Tick
  <2>1. CASE TryHook
    BY <1>1, <1>2, <2>1 DEF TryHook
  <2>2. CASE TryHookFails \/ ConnectTimesOut
    BY <1>1, <2>2 DEF TryHookFails, ConnectTimesOut, AbortConnect, emulation
  <2>3. CASE ConnectEvent \/ DisconnectEvent \/ DisconnectEnds
    BY <1>1, <2>3 DEF ConnectEvent, DisconnectEvent, DisconnectEnds, OnDisconnected, emulation
  <2>4. QED
    BY <1>9, <2>1, <2>2, <2>3 DEF Tick
<1>10. CASE ClosePopup
  <2>1. CASE PopupEnds \/ ServerFailed \/ StartFailed \/ Aborted
    BY <1>1, <2>1 DEF PopupEnds, ServerFailed, StartFailed, Aborted, OnDisconnected, emulation,
                      client
  <2>2. CASE AbortedJoining
    BY <1>1, <1>4, <2>2 DEF AbortedJoining
  <2>3. CASE Halted
    BY <1>1, <1>3, <2>3 DEF Halted
  <2>4. QED
    BY <1>10, <2>1, <2>2, <2>3 DEF ClosePopup
<1>12. QED
  BY <1>5, <1>6, <1>7, <1>8, <1>9, <1>10 DEF Next, Delivers

\* Connections come and go with the hooked client of a running game, and the
\* page with them.
LEMMA StepKeepsConnections ==
    ASSUME IInv, Next
    PROVE  ConnectionInv' /\ PageFollowsConnection'
<1> USE DEF ConnectionInv, PageFollowsConnection
<1>1. /\ ConnectionInv /\ PageFollowsConnection /\ SignalInv /\ PopupInv
      /\ popups # << >> => Contains(popups, Last(popups))
      /\ page \in {"SETUP", "IN_GAME"} /\ hook \in {"no", "hooking", "hooked"}
      /\ peer \in {"none", "connecting", "connected", "disconnecting"}
  BY OpenDialogs DEF IInv, TypeOK
<1>2. ASSUME NEW h, NEW b, ConnectNet64(h, b), UNCHANGED page,
             peer # "none" => hook = "hooked" /\ Up, h = hook \/ h = "hooked"
      PROVE  ConnectionInv' /\ PageFollowsConnection'
  <2>1. CASE peer # "none"
    <3>1. hook' = "hooked" /\ UNCHANGED << emulator, peer >> /\ Up
      BY <1>2, <2>1 DEF ConnectNet64, StartEmulation, Hook, ConnectToServer, AlreadyConnected
    <3>2. QED
      BY <1>1, <1>2, <3>1 DEF Up
  <2>2. CASE peer = "none"
    BY <1>1, <1>2, <2>2 DEF ConnectNet64, StartEmulation, Hook, ConnectToServer,
                            AlreadyConnected, Up
  <2>3. QED
    BY <2>1, <2>2
<1>3. CASE User
  <2>1. CASE CheckHost \/ PressHostFails
    BY <1>1, <2>1 DEF CheckHost, PressHostFails, emulation, client, Up
  <2>2. CASE PressJoin \/ PressHost
    BY <1>1, <1>2, <2>2 DEF PressJoin, PressHost, AtSetup
  <2>3. CASE PressStop
    BY <1>1, <2>3 DEF PressStop, emulation, Up
  <2>4. CASE ReloadEmulator
    <3>1. UNCHANGED << hook, peer, page >>
      BY <2>4 DEF ReloadEmulator
    <3>2. UNCHANGED emulator \/ (~Up /\ ~Up')
      BY <2>4 DEF ReloadEmulator, Recreated, Up
    <3>3. QED
      BY <1>1, <3>1, <3>2 DEF Up
  <2>5. QED
    BY <1>3, <2>1, <2>2, <2>3, <2>4 DEF User
<1>4. CASE EmulationEnds \/ Announces
  BY <1>1, <1>4 DEF EmulationEnds, Announces, TellRunning, TellJoinable, client, window, Up
<1>5. CASE OnStarted
  <2>1. Up /\ UNCHANGED page
    BY <1>1, <1>5 DEF OnStarted, SignalInv
  <2>2. QED
    BY <1>1, <1>2, <1>5, <2>1 DEF OnStarted
<1>6. CASE OnJoinable
  <2>1. CASE UnhookAborts /\ AbortConnect("aborted joining")
    BY <1>1, <1>6, <2>1 DEF OnJoinable, UnhookAborts, AbortConnect
  <2>2. CASE /\ ~UnhookAborts /\ FinishJoin(popups)
             /\ peer' = IF hook = "hooked" /\ peer = "connected" THEN "disconnecting" ELSE peer
    <3>1. ~Up' /\ UNCHANGED page
      BY <1>6, <2>2 DEF OnJoinable, FinishJoin, Recreated, Up
    <3>2. hook' = IF hook = "hooked" THEN "no" ELSE hook
      BY <1>6 DEF OnJoinable
    <3>3. QED
      BY <1>1, <2>2, <3>1, <3>2 DEF UnhookAborts
  <2>3. QED
    BY <1>6, <2>1, <2>2 DEF OnJoinable
<1>7. CASE Tick
  <2>1. CASE TryHook
    BY <1>1, <1>2, <2>1 DEF TryHook
  <2>2. CASE TryHookFails \/ ConnectTimesOut \/ ConnectEvent
    BY <1>1, <2>2 DEF TryHookFails, ConnectTimesOut, AbortConnect, ConnectEvent, TickConnects,
                      emulation, Up
  <2>3. CASE DisconnectEvent \/ DisconnectEnds
    BY <1>1, <2>3 DEF DisconnectEvent, DisconnectEnds, OnDisconnected
  <2>4. QED
    BY <1>7, <2>1, <2>2, <2>3 DEF Tick
<1>8. CASE ClosePopup
  <2>1. CASE PopupEnds \/ ServerFailed
    BY <1>1, <2>1 DEF PopupEnds, ServerFailed, emulation, client, Up
  <2>2. CASE StartFailed
    BY <1>1, <2>2 DEF StartFailed, Closes, PopupInv, Up
  <2>3. CASE Aborted
    BY <1>1, <2>3 DEF Aborted, Closes, PopupInv, OnDisconnected, emulation, client, Up
  <2>4. CASE AbortedJoining
    BY <1>1, <2>4 DEF AbortedJoining, Closes, PopupInv
  <2>5. CASE Halted
    <3>1. UNCHANGED << hook, peer, page >>
      BY <2>5 DEF Halted
    <3>2. UNCHANGED emulator \/ (~Up /\ ~Up')
      BY <2>5 DEF Halted, Recreated, Up
    <3>3. QED
      BY <1>1, <3>1, <3>2 DEF Up
  <2>6. QED
    BY <1>8, <2>1, <2>2, <2>3, <2>4, <2>5 DEF ClosePopup
<1>9. QED
  BY <1>3, <1>4, <1>5, <1>6, <1>7, <1>8 DEF Next, Delivers
\* Under a dialog only what is left over can connect, and nothing is where closing
\* the dialog changes something.
LEMMA StepKeepsPopups ==
    ASSUME IInv, Next
    PROVE  PopupInv'
<1>1. /\ TypeOK /\ Dialogs /\ ConnectionInv /\ SignalInv /\ PopupInv
      /\ popups # << >> => Contains(popups, Last(popups))
      /\ hook \in {"no", "hooking", "hooked"}
      /\ \A y : Contains(popups, y) => popups # << >>
  BY OpenDialogs, StepOpens DEF IInv, TypeOK
\* Nobody clicks on what is behind a dialog.
<1>2. ASSUME popups # << >>, User PROVE FALSE
  BY <1>2 DEF User, CheckHost, PressJoin, PressHost, PressHostFails, PressStop, ReloadEmulator,
              AtSetup
<1>3. ASSUME OnJoinable
      PROVE  /\ told = 2 /\ UNCHANGED told /\ signals' = << >>
             /\ hook' = IF hook = "hooked" THEN "no" ELSE hook
  BY <1>1, <1>3, JoinableIsRead
<1>4. ASSUME NEW s, Recreated(s) PROVE ~Up'
  BY <1>4 DEF Recreated, Up
<1>5. ASSUME NEW s, FinishJoin(s) PROVE ~Up'
  BY <1>4, <1>5 DEF FinishJoin, Up
\* While nothing can call connect_net64() nothing will.
<1>6. ASSUME NobodyConnects, peer = "none", popups # << >>
      PROVE  NobodyConnects' /\ peer' = "none"
  <2>1. CASE EmulationEnds
    BY <1>6, <2>1 DEF EmulationEnds, NobodyConnects, Up, client
  <2>2. CASE TellRunning
    BY <1>6, <2>2 DEF TellRunning, NobodyConnects
  <2>3. CASE TellJoinable
    <3>1. /\ signals' = Append(signals, "joinable") /\ told' = 2
          /\ UNCHANGED << hook, peer, emulator >>
      BY <2>3 DEF TellJoinable, client
    <3>2. /\ Len(signals') = Len(signals) + 1 /\ Len(signals) \in Nat
          /\ signals'[Len(signals) + 1] = "joinable"
          /\ \A i \in 1 .. Len(signals) : signals'[i] = signals[i]
      <4>1. signals \in Seq({"connect", "joinable"})
        BY <1>1 DEF TypeOK
      <4>2. QED
        BY <3>1, <4>1, SeqLonger
    <3>3. \A i \in 1 .. Len(signals') : signals'[i] # "connect"
      BY <1>6, <3>2 DEF NobodyConnects
    <3>4. QED
      BY <1>6, <3>1, <3>3 DEF NobodyConnects
  <2>4. CASE OnStarted
    <3>1. signals # << >> /\ Head(signals) = "connect"
      BY <2>4 DEF OnStarted
    <3>2. Len(signals) \in Nat /\ Len(signals) > 0 /\ signals[1] = "connect"
      BY <1>1, <3>1, ReadSignal DEF TypeOK
    <3>3. QED
      BY <1>6, <3>2 DEF NobodyConnects
  <2>5. CASE OnJoinable
    <3>1. peer' = "none"
      BY <1>6, <2>5 DEF OnJoinable, UnhookAborts
    <3>2. QED
      BY <1>3, <1>6, <2>5, <3>1 DEF NobodyConnects
  <2>6. CASE Tick
    BY <1>6, <2>6 DEF Tick, TryHook, TryHookFails, ConnectTimesOut, ConnectEvent,
                      DisconnectEvent, DisconnectEnds, NobodyConnects
  <2>7. CASE ClosePopup
    <3>1. CASE PopupEnds \/ ServerFailed \/ Aborted
      BY <1>6, <3>1 DEF PopupEnds, ServerFailed, Aborted, emulation, client, NobodyConnects, Up
    <3>2. CASE StartFailed
      BY <1>6, <3>2 DEF StartFailed, NobodyConnects, Up
    <3>3. CASE AbortedJoining
      BY <1>5, <1>6, <3>3 DEF AbortedJoining, NobodyConnects
    <3>4. CASE Halted
      <4>1. UNCHANGED << told, signals, hook, peer >> /\ (UNCHANGED emulator \/ ~Up')
        BY <1>4, <3>4 DEF Halted
      <4>2. QED
        BY <1>6, <4>1 DEF NobodyConnects, Up
    <3>5. QED
      BY <2>7, <3>1, <3>2, <3>3, <3>4 DEF ClosePopup
  <2>8. QED
    BY <1>2, <1>6, <2>1, <2>2, <2>3, <2>4, <2>5, <2>6, <2>7 DEF Next, Announces, Delivers
\* A run that is read stays so, as long as a dialog keeps the user away.
<1>7. ASSUME RunIsRead, popups # << >>
      PROVE  RunIsRead' /\ (peer = "none" => peer' = "none")
  <2>1. CASE EmulationEnds \/ Announces
    BY <1>7, <2>1 DEF EmulationEnds, Announces, TellRunning, TellJoinable, RunIsRead, Up, client
  <2>2. CASE Delivers
    BY <1>7, <2>2 DEF Delivers, OnStarted, OnJoinable, RunIsRead
  <2>3. CASE Tick
    <3>1. UNCHANGED << emulator, told, signals, hook >> /\ (peer = "none" => peer' = "none")
      BY <1>1, <1>7, <2>3 DEF Tick, TryHook, TryHookFails, ConnectTimesOut, AbortConnect,
             ConnectEvent, DisconnectEvent, DisconnectEnds, RunIsRead, emulation
    <3>2. QED
      BY <1>7, <3>1 DEF RunIsRead, Up
  <2>4. CASE ClosePopup
    <3>1. UNCHANGED << told, signals, hook, peer >> /\ (UNCHANGED emulator \/ ~Up')
      <4>1. CASE PopupEnds \/ ServerFailed \/ Aborted
        BY <4>1 DEF PopupEnds, ServerFailed, Aborted, emulation, client
      <4>2. CASE StartFailed
        BY <4>2 DEF StartFailed, Up
      <4>3. CASE AbortedJoining
        BY <1>5, <4>3 DEF AbortedJoining
      <4>4. CASE Halted
        BY <1>4, <4>4 DEF Halted
      <4>5. QED
        BY <2>4, <4>1, <4>2, <4>3, <4>4 DEF ClosePopup
    <3>2. QED
      BY <1>7, <3>1 DEF RunIsRead, Up
  <2>5. QED
    BY <1>2, <1>7, <2>1, <2>2, <2>3, <2>4 DEF Next
<1>8. Contains(popups', "start failed") => ~Up'
  <2>1. ASSUME emulator' = "Stopped" PROVE ~Up'
    BY <2>1 DEF Up
  <2>2. ASSUME Contains(popups, "start failed") PROVE ~Up'
    <3>1. ~Up /\ popups # << >>
      BY <1>1, <2>2 DEF PopupInv
    <3>2. ASSUME NEW h, NEW b, ConnectNet64(h, b) PROVE ~Up'
      BY <2>2, <3>1, <3>2 DEF ConnectNet64, StartEmulation, Hook, ConnectToServer,
                              AlreadyConnected, Up
    <3>3. CASE EmulationEnds \/ Announces
      BY <3>1, <3>3 DEF EmulationEnds, Announces, TellRunning, TellJoinable, Up
    <3>4. CASE Delivers
      BY <1>1, <3>1, <3>4 DEF Delivers, OnStarted, OnJoinable, SignalInv
    <3>5. CASE Tick
      BY <3>1, <3>2, <3>5 DEF Tick, TryHook, TryHookFails, ConnectTimesOut, ConnectEvent,
                              DisconnectEvent, DisconnectEnds, emulation, Up
    <3>6. CASE PopupEnds \/ ServerFailed \/ StartFailed \/ Aborted
      BY <3>1, <3>6 DEF PopupEnds, ServerFailed, StartFailed, Aborted, emulation, Up
    <3>7. CASE AbortedJoining
      BY <1>5, <3>7 DEF AbortedJoining
    <3>8. CASE Halted
      BY <1>4, <3>1, <3>8 DEF Halted, Up
    <3>9. QED
      BY <1>2, <3>1, <3>3, <3>4, <3>5, <3>6, <3>7, <3>8 DEF Next, ClosePopup
  <2>3. QED
    BY <1>1, <2>1, <2>2 DEF Dialogs
<1>9. Contains(popups', "aborted") => peer' = "none" /\ NobodyConnects'
  <2>1. CASE ConnectTimesOut
    <3>1. /\ signals = << >> /\ told # 0 /\ peer' = "none" /\ hook # "hooking"
          /\ UNCHANGED << emulator, told, signals, hook >>
      BY <2>1 DEF ConnectTimesOut, TickConnects, Ticks, AbortConnect, emulation
    <3>2. QED
      BY <3>1 DEF NobodyConnects
  <2>2. CASE Contains(popups, "aborted")
    BY <1>1, <1>6, <2>2 DEF PopupInv
  <2>3. QED
    BY <1>1, <2>1, <2>2 DEF Dialogs
<1>10. Contains(popups', "aborted joining") => peer' = "none" /\ RunIsRead'
  <2>1. CASE OnJoinable /\ UnhookAborts
    <3>1. peer' = "none"
      BY <2>1 DEF OnJoinable, AbortConnect
    <3>2. QED
      BY <1>3, <2>1, <3>1 DEF UnhookAborts, RunIsRead
  <2>2. CASE Contains(popups, "aborted joining")
    BY <1>1, <1>7, <2>2 DEF PopupInv
  <2>3. QED
    BY <1>1, <2>1, <2>2 DEF Dialogs
<1>11. Contains(popups', "incompatible") => hook' = "hooked" \/ RunIsRead'
  <2>1. CASE TryHookFails
    BY <2>1 DEF TryHookFails
  <2>2. ASSUME Contains(popups, "incompatible"), hook = "hooked"
        PROVE  hook' = "hooked" \/ RunIsRead'
    <3>1. CASE OnJoinable
      BY <1>3, <2>2, <3>1 DEF RunIsRead
    <3>2. CASE ~OnJoinable
      <4>1. popups # << >>
        BY <1>1, <2>2
      <4>2. ASSUME NEW b, ConnectNet64("hooked", b) PROVE hook' = "hooked"
        BY <4>2 DEF ConnectNet64, StartEmulation, Hook, ConnectToServer, AlreadyConnected
      <4>3. CASE EmulationEnds \/ Announces \/ OnStarted
        BY <2>2, <4>2, <4>3 DEF EmulationEnds, Announces, TellRunning, TellJoinable, OnStarted,
                                client
      <4>4. CASE Tick
        BY <2>2, <4>2, <4>4 DEF Tick, TryHook, TryHookFails, ConnectTimesOut, ConnectEvent,
                                DisconnectEvent, DisconnectEnds
      <4>5. CASE ClosePopup
        BY <2>2, <4>5 DEF ClosePopup, PopupEnds, ServerFailed, StartFailed, Aborted,
                          AbortedJoining, Halted, client
      <4>6. QED
        BY <1>2, <3>2, <4>1, <4>3, <4>4, <4>5 DEF Next, Delivers
    <3>3. QED
      BY <3>1, <3>2
  <2>3. ASSUME Contains(popups, "incompatible"), RunIsRead PROVE RunIsRead'
    BY <1>1, <1>7, <2>3
  <2>4. QED
    BY <1>1, <2>1, <2>2, <2>3 DEF Dialogs, PopupInv
<1>12. QED
  BY <1>8, <1>9, <1>10, <1>11 DEF PopupInv
\* Whoever disables the button leaves somebody to enable it.
LEMMA StepKeepsButton ==
    ASSUME IInv, Next
    PROVE  ButtonInv'
<1> DEFINE Waits == popups # << >> /\ popups[1] = "server failed"
<1>1. /\ ButtonInv /\ PopupInv
      /\ popups # << >> => Contains(popups, Last(popups))
      /\ Waits => button' = TRUE \/ Waits'
      /\ retries \in 0 .. MaxRetries /\ retries' \in 0 .. MaxRetries
  BY OpenDialogs, StepOpens, StepKeepsTypes DEF IInv, TypeOK, Dialogs
<1>2. ASSUME button' = TRUE PROVE ButtonInv'
  BY <1>2 DEF ButtonInv
<1>3. ASSUME Up' PROVE ButtonInv'
  BY <1>3 DEF ButtonInv
\* Where button, connection and lambdas stay and no run is over.
<1>4. ASSUME UNCHANGED << button, peer, retries >>, ~Up' => ~Up PROVE ButtonInv'
  BY <1>1, <1>4 DEF ButtonInv
<1>5. ASSUME NEW h, NEW b, ConnectNet64(h, b) PROVE ButtonInv'
  <2>1. CASE StartEmulation(h, b)
    <3>1. retries' = retries + 1
      BY <2>1 DEF StartEmulation
    <3>2. retries' > 0
      <4>1. retries \in 0 .. MaxRetries
        BY <1>1
      <4>2. retries \in Nat
        BY <4>1, RetriesAssumption
      <4>3. QED
        BY <3>1, <4>2
    <3>3. QED
      BY <3>2 DEF ButtonInv
  <2>2. CASE Hook(h, b) \/ ConnectToServer(h, b) \/ AlreadyConnected(h, b)
    BY <1>3, <2>2 DEF Hook, ConnectToServer, AlreadyConnected, Up
  <2>3. QED
    BY <1>5, <2>1, <2>2 DEF ConnectNet64
<1>6. CASE User
  <2>1. CASE CheckHost
    BY <1>4, <2>1 DEF CheckHost, emulation, client, Up
  <2>2. CASE PressJoin \/ PressHost
    BY <1>5, <2>2 DEF PressJoin, PressHost
  <2>3. CASE PressHostFails
    <3>1. popups = << >> /\ popups' = Append(popups, "server failed")
      BY <2>3 DEF PressHostFails, AtSetup, ErrorPopup
    <3>2. popups \in Seq(Names) /\ "server failed" \in Names
      BY DEF IInv, TypeOK, Names
    <3>3. Waits'
      BY <3>1, <3>2, OpenedDialog
    <3>4. QED
      BY <3>3 DEF ButtonInv
  <2>4. CASE PressStop
    <3>1. UNCHANGED << button, retries, emulator >> /\ (peer' = "none" => peer = "none")
      BY <2>4 DEF PressStop, emulation
    <3>2. UNCHANGED popups
      BY <2>4 DEF PressStop
    <3>3. QED
      BY <1>1, <3>1, <3>2 DEF ButtonInv, Up
  <2>5. CASE ReloadEmulator
    BY <1>4, <2>5 DEF ReloadEmulator, Up
  <2>6. QED
    BY <1>6, <2>1, <2>2, <2>3, <2>4, <2>5 DEF User
<1>7. CASE EmulationEnds \/ Announces
  BY <1>3, <1>7 DEF EmulationEnds, Announces, TellRunning, TellJoinable, Up
<1>8. CASE Delivers
  <2>1. CASE OnStarted
    BY <1>5, <2>1 DEF OnStarted
  <2>2. CASE OnJoinable
    BY <1>2, <2>2 DEF OnJoinable, AbortConnect, FinishJoin, SessionOver
  <2>3. QED
    BY <1>8, <2>1, <2>2 DEF Delivers
<1>9. CASE Tick
  <2>1. CASE TryHook
    BY <1>5, <2>1 DEF TryHook
  <2>2. CASE TryHookFails
    BY <1>4, <2>2 DEF TryHookFails, emulation, Up
  <2>3. CASE ConnectTimesOut \/ DisconnectEvent \/ DisconnectEnds
    BY <1>2, <2>3 DEF ConnectTimesOut, AbortConnect, DisconnectEvent, DisconnectEnds,
                      OnDisconnected
  <2>4. CASE ConnectEvent
    BY <2>4 DEF ConnectEvent, ButtonInv
  <2>5. QED
    BY <1>9, <2>1, <2>2, <2>3, <2>4 DEF Tick
<1>10. CASE ClosePopup
  <2>1. CASE PopupEnds
    BY <1>4, <2>1 DEF PopupEnds, emulation, client, Up
  <2>2. CASE ServerFailed \/ Aborted \/ AbortedJoining
    BY <1>2, <2>2 DEF ServerFailed, Aborted, OnDisconnected, AbortedJoining, FinishJoin,
                      SessionOver
  <2>3. CASE StartFailed
    BY <1>1, <1>4, <2>3 DEF StartFailed, Closes, PopupInv
  <2>4. CASE Halted
    BY <1>4, <2>4 DEF Halted, Up
  <2>5. QED
    BY <1>10, <2>1, <2>2, <2>3, <2>4 DEF ClosePopup
<1>11. QED
  BY <1>6, <1>7, <1>8, <1>9, <1>10 DEF Next

\* The invariant is inductive.
THEOREM StepKeeps == IInv /\ [Next]_vars => IInv'
<1>1. ASSUME IInv, Next PROVE IInv'
  BY <1>1, StepKeepsTypes, StepKeepsSignals, StepKeepsConnections, StepKeepsPopups,
     StepKeepsButton DEF IInv
<1>2. ASSUME IInv, UNCHANGED vars PROVE IInv'
  <2>1. UNCHANGED << emulator, told, retries, signals, hook, peer, target, server, hosting,
                     page, button, reload, popups >>
    BY <1>2 DEF vars, emulation, client, window
  <2>2. TypeOK'
    BY <1>2, <2>1 DEF IInv, TypeOK
  <2>3. SignalInv' /\ ConnectionInv' /\ PageFollowsConnection' /\ ButtonInv'
    BY <1>2, <2>1 DEF IInv, SignalInv, ConnectionInv, PageFollowsConnection, ButtonInv, Up
  <2>4. PopupInv'
    BY <1>2, <2>1 DEF IInv, PopupInv, NobodyConnects, RunIsRead, Up, Contains
  <2>5. QED
    BY <2>2, <2>3, <2>4 DEF IInv
<1>3. QED
  BY <1>1, <1>2

\* What holds in every reachable state, whatever is clicked and whatever the
\* network and the emulator do in between.
THEOREM Invariant == SafeSpec => []IInv
  BY InitEstablishes, StepKeeps, PTL DEF SafeSpec

-----------------------------------------------------------------------------
\* The GUI thread's variables keep their types, and a run announces its end
\* once, after everything else.
THEOREM TypeCorrect == SafeSpec => []TypeOK
<1>1. IInv => TypeOK
  BY DEF IInv
<1>2. QED
  BY <1>1, Invariant, PTL

\* Client::tick() never leaves a connection without service because it is
\* hooking: when try_hook() comes first there is no peer.
THEOREM NoStarvedConnection == SafeSpec => []HookingStarvesNoConnection
<1>1. IInv => HookingStarvesNoConnection
  BY DEF IInv, ConnectionInv, HookingStarvesNoConnection
<1>2. QED
  BY <1>1, Invariant, PTL

\* The page with the chat is shown exactly while there is a session.
THEOREM PageIsRight == SafeSpec => []PageFollowsConnection
<1>1. IInv => PageFollowsConnection
  BY DEF IInv
<1>2. QED
  BY <1>1, Invariant, PTL

\* hook() does not replace the callback that is still running.
THEOREM CallbackOutlivesCall == SafeSpec => []HookCallbackStays
<1>1. IInv => HookCallbackStays
  <2>1. SUFFICES ASSUME IInv, NEW i \in 1 .. Len(popups), popups[i] = "incompatible"
                 PROVE  hook # "hooking"
    BY DEF HookCallbackStays
  <2>2. Contains(popups, "incompatible")
    BY <2>1 DEF Contains
  <2>3. QED
    BY <2>1, <2>2 DEF IInv, PopupInv, RunIsRead
<1>2. QED
  BY <1>1, Invariant, PTL

\* "Connect" is enabled again after every session and every attempt, unless
\* a lambda of a failed start still waits to try it once more.
THEOREM ButtonComesBack == SafeSpec => []OnlyFailedStartsDisable
<1>1. IInv => OnlyFailedStartsDisable
  BY DEF IInv, ButtonInv, OnlyFailedStartsDisable, AtSetup
<1>2. QED
  BY <1>1, Invariant, PTL
=============================================================================
