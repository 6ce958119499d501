------------------------------ MODULE MsgQueue -----------------------------
(***************************************************************************)
(* The message queue in N64 memory, src/net64/client/msg_queue.cpp, at the *)
(* granularity of its memory accesses. Client and emulated game run on     *)
(* different threads with no lock between them: one of them is the sender  *)
(* of a queue, the other its receiver, and each access of one may fall     *)
(* between any two of the other. The client is the receiver of the receive *)
(* queue and the sender of the send queue; the game's half is the mirror   *)
(* image of the client's (external: it is part of the ROM patch).          *)
(***************************************************************************)
EXTENDS Naturals, Sequences

CONSTANTS
    Messages,    \* message contents; a message is its type and its data
    NoMessage,   \* a field nothing was written to yet
    Size,        \* SharedState::size, a u8
    ReadRaw,     \* how the read_raw() of poll() may end
    WriteRaw     \* how the write of the data in send() may end

ASSUME SizeAssumption == Size \in 1 .. 255
ASSUME NoMessageAssumption == NoMessage \notin Messages

\* A field is one value and its accesses succeed. The data of a message is a
\* block, which emulator.hpp promises to move ("copied") and Mupen64Plus refuses
\* ("throws", EmuMemory). The game's own half moves it as the CPU does: "copied".
ASSUME OutcomeAssumption ==
    ReadRaw \subseteq {"copied", "throws"} /\ WriteRaw \subseteq {"copied", "throws"}

Slots == 0 .. Size - 1
Contents == Messages \cup {NoMessage}

VARIABLES
    descriptor,   \* descriptor_array: the SlotState of every slot
    msg_type,     \* msg_array[i].msg_type, as the message it is the type of
    msg_data,     \* msg_array[i].msg_data, as the message it is the data of
    send_index,   \* the sender's index in SharedState
    poll_index,   \* the receiver's index in SharedState
    spc, rpc,     \* where the sender and the receiver are in their calls
    sending,      \* send(): the message passed in
    msg,          \* poll(): the fields copied out so far
    accepted,     \* send(): true if a slot was free when it looked
    found,        \* poll(): true if a slot was in use when it looked
    received      \* the last message taken out of a slot

sender   == << send_index, spc, sending, accepted >>
receiver == << poll_index, rpc, msg, found, received >>
slots    == << descriptor, msg_type, msg_data >>
vars     == << sender, receiver, slots >>

\* Definitions marked [fault] are wrong versions of the one that follows them;
\* no action uses them, they are there to show which property rules them out.

\* inc_loop(). The index is a u8 and Size at most 255: it cannot wrap first.
IncLoop(index) == IF index + 1 = Size THEN 0 ELSE index + 1

\* The game sets the queue up empty, with both indices on one slot.
Init ==
    /\ descriptor = [i \in Slots |-> "FREE"]
    /\ msg_type = [i \in Slots |-> NoMessage]
    /\ msg_data = [i \in Slots |-> NoMessage]
    /\ \E i \in Slots : send_index = i /\ poll_index = i
    /\ spc = "idle" /\ rpc = "idle"
    /\ sending = NoMessage
    /\ msg = [type |-> NoMessage, data |-> NoMessage]
    /\ accepted = TRUE /\ found = FALSE
    /\ received = [type |-> NoMessage, data |-> NoMessage]

-----------------------------------------------------------------------------
(* Sender::send *)

\* [fault] The sender does not look whether the slot is free.
SendClaimUnchecked(m) ==
    /\ spc = "idle"
    /\ spc' = "type" /\ sending' = m
    /\ UNCHANGED << send_index, accepted, receiver, slots >>

\* The slot at the sender's index is free: the call goes on to fill it.
SendClaim(m) ==
    /\ spc = "idle"
    /\ descriptor[send_index] = "FREE"
    /\ spc' = "type" /\ sending' = m
    /\ UNCHANGED << send_index, accepted, receiver, slots >>

\* [fault] A refused message still takes its turn in the ring.
SendFullSkipsSlot ==
    /\ spc = "idle"
    /\ descriptor[send_index] # "FREE"
    /\ accepted' = FALSE /\ send_index' = IncLoop(send_index)
    /\ UNCHANGED << spc, sending, receiver, slots >>

\* The slot is still in use: "queue full, try again later".
SendFull ==
    /\ spc = "idle"
    /\ descriptor[send_index] # "FREE"
    /\ accepted' = FALSE
    /\ UNCHANGED << send_index, spc, sending, receiver, slots >>

\* [fault] The slot is marked before its message is complete.
SendTypeMarksSlot ==
    /\ spc = "type"
    /\ msg_type' = [msg_type EXCEPT ![send_index] = sending]
    /\ descriptor' = [descriptor EXCEPT ![send_index] = "IN_USE"]
    /\ spc' = "data"
    /\ UNCHANGED << send_index, sending, accepted, receiver, msg_data >>

SendType ==
    /\ spc = "type"
    /\ msg_type' = [msg_type EXCEPT ![send_index] = sending]
    /\ spc' = "data"
    /\ UNCHANGED << send_index, sending, accepted, receiver, descriptor, msg_data >>

SendData ==
    /\ spc = "data" /\ "copied" \in WriteRaw
    /\ msg_data' = [msg_data EXCEPT ![send_index] = sending]
    /\ spc' = "mark"
    /\ UNCHANGED << send_index, sending, accepted, receiver, descriptor, msg_type >>

\* The exception leaves send(); the slot was not marked and stays free.
SendThrows ==
    /\ spc = "data" /\ "throws" \in WriteRaw
    /\ spc' = "idle" /\ sending' = NoMessage
    /\ UNCHANGED << send_index, accepted, receiver, slots >>

\* Only now does the slot become visible to the receiver.
SendMark ==
    /\ spc = "mark"
    /\ descriptor' = [descriptor EXCEPT ![send_index] = "IN_USE"]
    /\ spc' = "advance" /\ accepted' = TRUE
    /\ UNCHANGED << send_index, sending, receiver, msg_type, msg_data >>

SendAdvance ==
    /\ spc = "advance"
    /\ send_index' = IncLoop(send_index)
    /\ spc' = "idle" /\ sending' = NoMessage
    /\ UNCHANGED << accepted, receiver, slots >>

-----------------------------------------------------------------------------
(* Receiver::poll *)

\* A slot is in use: its message is copied out field by field.
PollClaim ==
    /\ rpc = "idle"
    /\ descriptor[poll_index] = "IN_USE"
    /\ rpc' = "type"
    /\ UNCHANGED << poll_index, msg, found, received, sender, slots >>

\* If the current slot is empty then the whole queue is empty.
PollEmpty ==
    /\ rpc = "idle"
    /\ descriptor[poll_index] # "IN_USE"
    /\ found' = FALSE
    /\ UNCHANGED << poll_index, rpc, msg, received, sender, slots >>

\* [fault] The slot is given back before its message is copied out.
PollTypeFreesSlot ==
    /\ rpc = "type"
    /\ descriptor' = [descriptor EXCEPT ![poll_index] = "FREE"]
    /\ msg' = [msg EXCEPT !.type = msg_type[poll_index]]
    /\ rpc' = "data"
    /\ UNCHANGED << poll_index, found, received, sender, msg_type, msg_data >>

PollType ==
    /\ rpc = "type"
    /\ msg' = [msg EXCEPT !.type = msg_type[poll_index]]
    /\ rpc' = "data"
    /\ UNCHANGED << poll_index, found, received, sender, slots >>

PollData ==
    /\ rpc = "data" /\ "copied" \in ReadRaw
    /\ msg' = [msg EXCEPT !.data = msg_data[poll_index]]
    /\ rpc' = "free"
    /\ UNCHANGED << poll_index, found, received, sender, slots >>

\* The exception leaves poll() before the slot is given back. Nothing between
\* Client::tick and main() catches it: the program ends, the game's thread too.
PollThrows ==
    /\ rpc = "data" /\ "throws" \in ReadRaw
    /\ rpc' = "gone" /\ msg' = [type |-> NoMessage, data |-> NoMessage]
    /\ UNCHANGED << poll_index, found, received, sender, slots >>

\* The slot is given back; from here on the sender may overwrite it.
PollFree ==
    /\ rpc = "free"
    /\ descriptor' = [descriptor EXCEPT ![poll_index] = "FREE"]
    /\ received' = msg /\ found' = TRUE
    /\ rpc' = "advance"
    /\ UNCHANGED << poll_index, msg, sender, msg_type, msg_data >>

PollAdvance ==
    /\ rpc = "advance"
    /\ poll_index' = IncLoop(poll_index)
    /\ rpc' = "idle"
    /\ msg' = [type |-> NoMessage, data |-> NoMessage]
    /\ UNCHANGED << found, received, sender, slots >>

-----------------------------------------------------------------------------
Running == rpc # "gone"

Send == /\ Running
        /\ \/ \E m \in Messages : SendClaim(m)
           \/ SendFull \/ SendType \/ SendData \/ SendThrows \/ SendMark
           \/ SendAdvance

Poll == \/ PollClaim \/ PollEmpty \/ PollType \/ PollData \/ PollThrows \/ PollFree
        \/ PollAdvance

Next == Send \/ Poll

\* Client::tick polls until the queue is empty, tick after tick, for as long as
\* the program runs. Nothing obliges the sender to send.
Spec == Init /\ [][Next]_vars /\ WF_vars(Poll)

-----------------------------------------------------------------------------
(* The FIFO this implements. A message enters it when its slot is marked   *)
(* and leaves it when its slot is freed; the indices lag one step behind.  *)

QueueTail == IF spc = "advance" THEN IncLoop(send_index) ELSE send_index
QueueHead == IF rpc = "advance" THEN IncLoop(poll_index) ELSE poll_index

QueueLen ==
    IF QueueHead = QueueTail
    THEN IF descriptor[QueueHead] = "IN_USE" THEN Size ELSE 0
    ELSE IF QueueHead < QueueTail THEN QueueTail - QueueHead
                                  ELSE QueueTail + Size - QueueHead

\* The k-th slot after the head.
SlotAfterHead(k) ==
    IF QueueHead + k < Size THEN QueueHead + k ELSE QueueHead + k - Size

Whole(m) == [type |-> m, data |-> m]

QueueContents ==
    [k \in 1 .. QueueLen |-> [type |-> msg_type[SlotAfterHead(k - 1)],
                              data |-> msg_data[SlotAfterHead(k - 1)]]]

Fifo == INSTANCE MsgFifo WITH
    Messages  <- {Whole(m) : m \in Messages},
    NoMessage <- Whole(NoMessage),
    queue     <- QueueContents

-----------------------------------------------------------------------------
TypeOK ==
    /\ descriptor \in [Slots -> {"FREE", "IN_USE"}]
    /\ msg_type \in [Slots -> Contents] /\ msg_data \in [Slots -> Contents]
    /\ send_index \in Slots /\ poll_index \in Slots
    /\ spc \in {"idle", "type", "data", "mark", "advance"}
    /\ rpc \in {"idle", "type", "data", "free", "advance", "gone"}
    /\ sending \in Contents
    /\ msg \in [type : Contents, data : Contents]
    /\ received \in [type : Contents, data : Contents]
    /\ accepted \in BOOLEAN /\ found \in BOOLEAN

\* A receiver never gets the type of one message with the data of another,
\* and never an unwritten field, wherever the sender is in its call.
MessagesIntact == found => \E m \in Messages : received = Whole(m)

\* Sender and receiver are never inside the same slot: whoever is between
\* its look at the descriptor and its write of it has the slot to itself.
SlotExclusive ==
    ~ ( /\ spc \in {"type", "data", "mark"}
        /\ rpc \in {"type", "data", "free"}
        /\ send_index = poll_index )

\* Slots in use are exactly the QueueLen slots from the head on: the ring
\* has no hole, so one FREE slot does mean the whole queue is empty.
NoHoles ==
    \A k \in Slots : descriptor[SlotAfterHead(k)] = "IN_USE" <=> k < QueueLen

\* Every behaviour is one of a bounded FIFO of whole messages: in order,
\* none lost or duplicated, "full" and "empty" answered only when true.
ImplementsFifo == Fifo!SafeSpec

\* "Messages are sent reliable": a message in the queue is eventually received.
\* It is not on an emulator whose read_raw() throws: the first message ends the
\* program while its slot is still in use.
MessagesDelivered == Fifo!Fairness
=============================================================================
