------------------------------ MODULE MsgFifo ------------------------------
(***************************************************************************)
(* What src/net64/client/msg_queue.hpp promises of a message queue between *)
(* the client and the game: "messages are sent reliable and in order". A   *)
(* bounded FIFO of whole messages, each operation one step: send() answers *)
(* false only when the queue is full, poll() only when it is empty.        *)
(***************************************************************************)
EXTENDS Naturals, Sequences

CONSTANTS
    Messages,    \* whole messages, type and data together
    NoMessage,   \* nothing received yet
    Size         \* slots of the queue

VARIABLES
    queue,       \* the messages sent and not yet received, oldest first
    received,    \* the message poll() returned last
    accepted,    \* what send() answered last
    found        \* what poll() answered last

vars == << queue, received, accepted, found >>

Init ==
    /\ queue = << >>
    /\ received = NoMessage
    /\ accepted = TRUE
    /\ found = FALSE

Send(m) ==
    /\ Len(queue) < Size
    /\ queue' = Append(queue, m)
    /\ accepted' = TRUE
    /\ UNCHANGED << received, found >>

SendRefused ==
    /\ Len(queue) = Size
    /\ accepted' = FALSE
    /\ UNCHANGED << queue, received, found >>

Receive ==
    /\ queue # << >>
    /\ received' = Head(queue)
    /\ queue' = Tail(queue)
    /\ found' = TRUE
    /\ UNCHANGED accepted

FoundEmpty ==
    /\ queue = << >>
    /\ found' = FALSE
    /\ UNCHANGED << queue, received, accepted >>

Next == (\E m \in Messages : Send(m)) \/ SendRefused \/ Receive \/ FoundEmpty

SafeSpec == Init /\ [][Next]_vars

\* The receiver polls until the queue is empty, in every tick of the client.
Fairness == WF_vars(Receive)

Spec == SafeSpec /\ Fairness
=============================================================================
