-------------------------- MODULE MsgQueueProofs ---------------------------
(***************************************************************************)
(* Proofs about the message queue, for every queue size a u8 can hold and  *)
(* every set of messages, whether message data can be moved or not.        *)
(***************************************************************************)
EXTENDS MsgQueue, TLAPS

\* While a side is between its look at the descriptor and its write of it,
\* the descriptor keeps the value it saw: only that side changes it back.
SlotsClaimed ==
    /\ spc \in {"type", "data", "mark"} => descriptor[send_index] = "FREE"
    /\ rpc \in {"type", "data", "free"} => descriptor[poll_index] = "IN_USE"

\* What the sender has written of its message so far.
SlotFilling ==
    /\ spc \in {"type", "data", "mark", "advance"} => sending \in Messages
    /\ spc \in {"data", "mark"} => msg_type[send_index] = sending
    /\ spc = "mark" => msg_data[send_index] = sending

\* A slot in use holds one whole message.
SlotsWhole ==
    \A i \in Slots : descriptor[i] = "IN_USE" =>
        msg_type[i] \in Messages /\ msg_data[i] = msg_type[i]

\* What the receiver has copied of the message so far.
SlotCopying ==
    /\ rpc \in {"data", "free"} => msg.type = msg_type[poll_index]
    /\ rpc = "free" => msg.data = msg_data[poll_index]

IInv == /\ TypeOK /\ SlotsClaimed /\ SlotFilling /\ SlotsWhole /\ SlotCopying
        /\ MessagesIntact

\* An index that is moved on stays in the ring.
LEMMA IncLoopInSlots == \A i \in Slots : IncLoop(i) \in Slots
BY SizeAssumption DEF Slots, IncLoop

\* The new queue has no slot in use and nobody in a call.
LEMMA QueueInit == Init => IInv
<1> SUFFICES ASSUME Init PROVE IInv
  OBVIOUS
<1>1. TypeOK
  BY SizeAssumption DEF Init, TypeOK, Contents
<1>2. SlotsClaimed /\ SlotFilling /\ SlotsWhole /\ SlotCopying /\ MessagesIntact
  BY DEF Init, SlotsClaimed, SlotFilling, SlotsWhole, SlotCopying, MessagesIntact
<1> QED BY <1>1, <1>2 DEF IInv

\* Every access of a sender keeps the invariant.
LEMMA SendKeepsInv == ASSUME IInv, Send PROVE IInv'
<1> USE DEF IInv, receiver, slots
<1>1. ASSUME NEW m \in Messages, SendClaim(m) PROVE IInv'
  <2>1. TypeOK'
    BY <1>1 DEF SendClaim, TypeOK, Contents
  <2>2. (SlotsClaimed /\ SlotFilling)'
    BY <1>1 DEF SendClaim, SlotsClaimed, SlotFilling
  <2>3. (SlotsWhole /\ SlotCopying /\ MessagesIntact)'
    BY <1>1 DEF SendClaim, SlotsWhole, SlotCopying, MessagesIntact
  <2> QED BY <2>1, <2>2, <2>3
<1>2. CASE SendFull
  BY <1>2 DEF SendFull, TypeOK, SlotsClaimed, SlotFilling, SlotsWhole, SlotCopying,
              MessagesIntact
<1>3. CASE SendType
  <2>1. TypeOK'
    BY <1>3 DEF SendType, TypeOK, SlotFilling, Contents
  <2>2. (SlotsClaimed /\ SlotFilling)'
    BY <1>3 DEF SendType, SlotsClaimed, SlotFilling, TypeOK
  <2>3. (SlotsWhole /\ SlotCopying /\ MessagesIntact)'
    BY <1>3 DEF SendType, SlotsClaimed, SlotsWhole, SlotCopying, MessagesIntact, TypeOK
  <2> QED BY <2>1, <2>2, <2>3
<1>4. CASE SendData
  <2>1. TypeOK'
    BY <1>4 DEF SendData, TypeOK, SlotFilling, Contents
  <2>2. (SlotsClaimed /\ SlotFilling)'
    BY <1>4 DEF SendData, SlotsClaimed, SlotFilling, TypeOK
  <2>3. (SlotsWhole /\ SlotCopying /\ MessagesIntact)'
    BY <1>4 DEF SendData, SlotsClaimed, SlotsWhole, SlotCopying, MessagesIntact, TypeOK
  <2> QED BY <2>1, <2>2, <2>3
<1>5. CASE SendMark
  <2>1. TypeOK'
    BY <1>5 DEF SendMark, TypeOK
  <2>2. (SlotsClaimed /\ SlotFilling)'
    BY <1>5 DEF SendMark, SlotsClaimed, SlotFilling, TypeOK
  <2>3. (SlotsWhole /\ SlotCopying /\ MessagesIntact)'
    BY <1>5 DEF SendMark, SlotFilling, SlotsWhole, SlotCopying, MessagesIntact, TypeOK
  <2> QED BY <2>1, <2>2, <2>3
<1>6. CASE SendAdvance
  <2>1. TypeOK'
    BY <1>6, IncLoopInSlots DEF SendAdvance, TypeOK, Contents
  <2>2. (SlotsClaimed /\ SlotFilling /\ SlotsWhole /\ SlotCopying /\ MessagesIntact)'
    BY <1>6 DEF SendAdvance, SlotsClaimed, SlotFilling, SlotsWhole, SlotCopying,
                MessagesIntact
  <2> QED BY <2>1, <2>2
<1>7. CASE SendThrows
  BY <1>7 DEF SendThrows, TypeOK, SlotsClaimed, SlotFilling, SlotsWhole, SlotCopying,
              MessagesIntact, Contents
<1> QED BY <1>1, <1>2, <1>3, <1>4, <1>5, <1>6, <1>7 DEF Send

\* Every access of the receiver keeps the invariant.
LEMMA PollKeepsInv == ASSUME IInv, Poll PROVE IInv'
<1> USE DEF IInv, sender, slots
<1>1. CASE PollClaim
  BY <1>1 DEF PollClaim, TypeOK, SlotsClaimed, SlotFilling, SlotsWhole, SlotCopying,
              MessagesIntact
<1>2. CASE PollEmpty
  BY <1>2 DEF PollEmpty, TypeOK, SlotsClaimed, SlotFilling, SlotsWhole, SlotCopying,
              MessagesIntact
<1>3. CASE PollType
  <2>1. TypeOK'
    BY <1>3 DEF PollType, TypeOK
  <2>2. (SlotsClaimed /\ SlotFilling /\ SlotsWhole /\ SlotCopying /\ MessagesIntact)'
    BY <1>3 DEF PollType, SlotsClaimed, SlotFilling, SlotsWhole, SlotCopying,
                MessagesIntact, TypeOK
  <2> QED BY <2>1, <2>2
<1>4. CASE PollData
  <2>1. TypeOK'
    BY <1>4 DEF PollData, TypeOK
  <2>2. (SlotsClaimed /\ SlotFilling /\ SlotsWhole /\ SlotCopying /\ MessagesIntact)'
    BY <1>4 DEF PollData, SlotsClaimed, SlotFilling, SlotsWhole, SlotCopying,
                MessagesIntact, TypeOK
  <2> QED BY <2>1, <2>2
<1>5. CASE PollFree
  <2>1. TypeOK'
    BY <1>5 DEF PollFree, TypeOK
  <2>2. (SlotsClaimed /\ SlotFilling /\ SlotsWhole /\ SlotCopying)'
    BY <1>5 DEF PollFree, SlotsClaimed, SlotFilling, SlotsWhole, SlotCopying, TypeOK
  <2>3. MessagesIntact'
    <3>1. received' = Whole(msg.type) /\ msg.type \in Messages
      BY <1>5 DEF PollFree, SlotsClaimed, SlotsWhole, SlotCopying, TypeOK, Whole
    <3> QED BY <3>1 DEF MessagesIntact
  <2> QED BY <2>1, <2>2, <2>3
<1>6. CASE PollAdvance
  <2>1. TypeOK'
    BY <1>6, IncLoopInSlots DEF PollAdvance, TypeOK, Contents
  <2>2. (SlotsClaimed /\ SlotFilling /\ SlotsWhole /\ SlotCopying /\ MessagesIntact)'
    BY <1>6 DEF PollAdvance, SlotsClaimed, SlotFilling, SlotsWhole, SlotCopying,
                MessagesIntact
  <2> QED BY <2>1, <2>2
<1>7. CASE PollThrows
  BY <1>7 DEF PollThrows, TypeOK, SlotsClaimed, SlotFilling, SlotsWhole, SlotCopying,
              MessagesIntact, Contents
<1> QED BY <1>1, <1>2, <1>3, <1>4, <1>5, <1>6, <1>7 DEF Poll

\* So does doing nothing.
LEMMA StutterKeepsInv == ASSUME IInv, UNCHANGED vars PROVE IInv'
BY DEF IInv, vars, sender, receiver, slots, TypeOK, SlotsClaimed, SlotFilling,
       SlotsWhole, SlotCopying, MessagesIntact

\* The strengthened invariant holds in every reachable state.
THEOREM QueueInvariant == Spec => []IInv
<1>1. IInv /\ [Next]_vars => IInv'
  BY SendKeepsInv, PollKeepsInv, StutterKeepsInv DEF Next
<1> QED BY QueueInit, <1>1, PTL DEF Spec

\* Indices stay inside the ring and the copies inside their types.
THEOREM QueueTyped == Spec => []TypeOK
BY QueueInvariant, PTL DEF IInv

\* poll() never returns a torn message, whatever the two threads do.
THEOREM ReceivedIntact == Spec => []MessagesIntact
BY QueueInvariant, PTL DEF IInv

\* Sender and receiver never work in the same slot.
THEOREM SlotsExclusive == Spec => []SlotExclusive
<1>1. IInv => SlotExclusive
  BY DEF IInv, TypeOK, SlotsClaimed, SlotExclusive
<1> QED BY QueueInvariant, <1>1, PTL

-----------------------------------------------------------------------------
(* The ring as a queue. Everything below is linear arithmetic on the head, *)
(* the tail and the length; the three are never stored together.           *)

\* The two indices and the number of slots in use, in terms of one another.
LEMMA RingFacts ==
    ASSUME TypeOK
    PROVE  /\ QueueHead \in Slots /\ QueueTail \in Slots /\ QueueLen \in 0 .. Size
           /\ QueueTail = IF QueueHead + QueueLen < Size
                          THEN QueueHead + QueueLen ELSE QueueHead + QueueLen - Size
           /\ \A k \in Slots : SlotAfterHead(k) \in Slots
<1>1. QueueHead \in Slots /\ QueueTail \in Slots
  BY IncLoopInSlots DEF TypeOK, QueueHead, QueueTail
<1> QED BY <1>1, SizeAssumption DEF Slots, QueueLen, SlotAfterHead

\* It meets every slot once.
LEMMA SlotAfterHeadInjective ==
    ASSUME TypeOK, NEW j \in Slots, NEW k \in Slots,
           SlotAfterHead(j) = SlotAfterHead(k)
    PROVE  j = k
<1>1. QueueHead \in Slots
  BY RingFacts
<1> HIDE DEF QueueHead
<1> QED BY <1>1, SizeAssumption DEF Slots, SlotAfterHead

\* The slot at the tail is free exactly when the queue is not full, and then
\* it is the slot after the last one in use.
LEMMA TailSlot ==
    ASSUME TypeOK, NoHoles
    PROVE  /\ descriptor[QueueTail] = "IN_USE" <=> QueueLen = Size
           /\ QueueLen < Size => QueueTail = SlotAfterHead(QueueLen)
<1>1. QueueLen < Size => QueueLen \in Slots /\ QueueTail = SlotAfterHead(QueueLen)
  BY RingFacts, SizeAssumption DEF Slots, SlotAfterHead
<1>2. QueueLen < Size => descriptor[QueueTail] # "IN_USE"
  BY <1>1, RingFacts DEF NoHoles
<1>3. ASSUME QueueLen = Size PROVE descriptor[QueueTail] = "IN_USE"
  <2>1. 0 \in Slots /\ SlotAfterHead(0) = QueueHead /\ QueueTail = QueueHead
    BY <1>3, RingFacts, SizeAssumption DEF Slots, SlotAfterHead
  <2> QED BY <1>3, <2>1, SizeAssumption DEF NoHoles
<1> QED BY <1>1, <1>2, <1>3, RingFacts, SizeAssumption

\* The slot at the head is in use exactly when the queue is not empty.
LEMMA HeadSlot ==
    ASSUME TypeOK, NoHoles
    PROVE  descriptor[QueueHead] = "IN_USE" <=> QueueLen > 0
<1>1. 0 \in Slots /\ SlotAfterHead(0) = QueueHead
  BY RingFacts, SizeAssumption DEF Slots, SlotAfterHead
<1> QED BY <1>1, RingFacts DEF NoHoles

\* A step that leaves head, tail and descriptors alone, and touches no slot in
\* use, leaves the queue alone.
LEMMA SameQueue ==
    ASSUME TypeOK, NoHoles,
           QueueHead' = QueueHead, QueueTail' = QueueTail, descriptor' = descriptor,
           \A i \in Slots : descriptor[i] = "IN_USE" =>
               msg_type'[i] = msg_type[i] /\ msg_data'[i] = msg_data[i]
    PROVE  NoHoles' /\ QueueContents' = QueueContents
<1>1. QueueLen' = QueueLen /\ \A k : SlotAfterHead(k)' = SlotAfterHead(k)
  BY DEF QueueLen, SlotAfterHead
<1>2. NoHoles'
  BY <1>1 DEF NoHoles
<1>3. ASSUME NEW k \in 1 .. QueueLen
      PROVE  /\ msg_type'[SlotAfterHead(k - 1)] = msg_type[SlotAfterHead(k - 1)]
             /\ msg_data'[SlotAfterHead(k - 1)] = msg_data[SlotAfterHead(k - 1)]
  <2>1. k - 1 \in Slots /\ k - 1 < QueueLen
    <3>1. QueueLen \in 0 .. Size
      BY RingFacts
    <3> QED BY <3>1, SizeAssumption DEF Slots
  <2> QED BY <2>1, RingFacts DEF NoHoles
<1>4. QueueContents' = QueueContents
  BY <1>1, <1>3 DEF QueueContents
<1> QED BY <1>2, <1>4

\* Marking the slot at the tail appends its message to the queue.
LEMMA MarkAppends ==
    ASSUME IInv, IInv', NoHoles, SendMark
    PROVE  /\ NoHoles' /\ QueueLen < Size
           /\ QueueContents' = Append(QueueContents, Whole(sending))
<1>1. /\ TypeOK /\ TypeOK' /\ send_index = QueueTail /\ QueueTail \in Slots
      /\ QueueHead \in Slots /\ QueueLen \in 0 .. Size
      /\ descriptor \in [Slots -> {"FREE", "IN_USE"}]
  BY RingFacts DEF IInv, SendMark, QueueTail, TypeOK
<1>2. /\ descriptor[QueueTail] = "FREE"
      /\ msg_type[QueueTail] = sending /\ msg_data[QueueTail] = sending
  BY <1>1 DEF IInv, SendMark, SlotsClaimed, SlotFilling
<1>3. QueueLen < Size /\ QueueTail = SlotAfterHead(QueueLen)
  BY <1>1, <1>2, TailSlot, SizeAssumption
<1>4. /\ QueueHead' = QueueHead
      /\ \A k : SlotAfterHead(k)' = SlotAfterHead(k)
      /\ QueueTail' = IncLoop(QueueTail)
      /\ descriptor' = [descriptor EXCEPT ![QueueTail] = "IN_USE"]
      /\ msg_type' = msg_type /\ msg_data' = msg_data
  BY <1>1 DEF SendMark, receiver, QueueHead, QueueTail, SlotAfterHead
<1>5. QueueLen' = QueueLen + 1
  <2>1. QueueTail = IF QueueHead + QueueLen < Size
                    THEN QueueHead + QueueLen ELSE QueueHead + QueueLen - Size
    BY <1>1, RingFacts
  <2>2. QueueLen' = IF QueueHead = IncLoop(QueueTail)
                    THEN IF descriptor'[QueueHead] = "IN_USE" THEN Size ELSE 0
                    ELSE IF QueueHead < IncLoop(QueueTail)
                         THEN IncLoop(QueueTail) - QueueHead
                         ELSE IncLoop(QueueTail) + Size - QueueHead
    BY <1>4 DEF QueueLen
  <2>3. descriptor'[QueueHead] = "IN_USE" <=> (QueueLen > 0 \/ QueueHead = QueueTail)
    BY <1>1, <1>4, HeadSlot DEF IInv
  <2> DEFINE h == QueueHead
             t == QueueTail
             n == QueueLen
  <2>4. /\ h \in Slots /\ t \in Slots /\ n \in 0 .. Size /\ n < Size
        /\ t = IF h + n < Size THEN h + n ELSE h + n - Size
    BY <1>1, <1>3, <2>1
  <2>5. QueueLen' = IF h = IncLoop(t)
                    THEN IF n > 0 \/ h = t THEN Size ELSE 0
                    ELSE IF h < IncLoop(t) THEN IncLoop(t) - h ELSE IncLoop(t) + Size - h
    BY <2>2, <2>3
  <2> HIDE DEF h, t, n
  <2>6. QueueLen' = n + 1
    BY <2>4, <2>5, SizeAssumption DEF Slots, IncLoop
  <2> QED BY <2>6 DEF n
<1>6. NoHoles'
  <2> SUFFICES ASSUME NEW k \in Slots
               PROVE  descriptor'[SlotAfterHead(k)] = "IN_USE" <=> k < QueueLen + 1
    BY <1>4, <1>5 DEF NoHoles
  <2>1. QueueLen \in Slots /\ SlotAfterHead(k) \in Slots
    BY <1>1, <1>3, RingFacts, SizeAssumption DEF Slots
  <2>2. CASE k = QueueLen
    BY <1>1, <1>3, <1>4, <2>1, <2>2
  <2>3. CASE k # QueueLen
    <3>1. SlotAfterHead(k) # QueueTail
      BY <1>1, <1>3, <2>1, <2>3, SlotAfterHeadInjective
    <3>2. descriptor'[SlotAfterHead(k)] = descriptor[SlotAfterHead(k)]
      BY <1>1, <1>4, <2>1, <3>1
    <3>3. k < QueueLen <=> k < QueueLen + 1
      BY <1>1, <2>3 DEF Slots
    <3> QED BY <3>2, <3>3 DEF NoHoles
  <2> QED BY <2>2, <2>3
<1>7. QueueContents' = Append(QueueContents, Whole(sending))
  <2> DEFINE n == QueueLen
  <2>1. QueueContents = [k \in 1 .. n |-> [type |-> msg_type[SlotAfterHead(k - 1)],
                                           data |-> msg_data[SlotAfterHead(k - 1)]]]
    BY DEF QueueContents
  <2>2. QueueContents' = [k \in 1 .. n + 1 |-> [type |-> msg_type[SlotAfterHead(k - 1)],
                                                data |-> msg_data[SlotAfterHead(k - 1)]]]
    BY <1>4, <1>5 DEF QueueContents
  <2>3. n \in Nat
    BY <1>1, SizeAssumption
  <2>4. SlotAfterHead((n + 1) - 1) = QueueTail
    <3>1. (n + 1) - 1 = n
      BY <1>1
    <3> QED BY <3>1, <1>3
  <2> HIDE DEF n
  <2>5. \A k \in 1 .. n + 1 : QueueContents'[k] = [type |-> msg_type[SlotAfterHead(k - 1)],
                                                   data |-> msg_data[SlotAfterHead(k - 1)]]
    BY <2>2
  <2>6. QueueContents'[n + 1] = [type |-> msg_type[SlotAfterHead((n + 1) - 1)],
                                 data |-> msg_data[SlotAfterHead((n + 1) - 1)]]
    <3>1. n + 1 \in 1 .. n + 1
      BY <2>3
    <3> QED BY <2>5, <3>1, Zenon
  <2>7. QueueContents'[n + 1] = Whole(sending)
    <3>1. QueueContents'[n + 1] = [type |-> msg_type[QueueTail],
                                   data |-> msg_data[QueueTail]]
      BY <2>4, <2>6, Zenon
    <3> QED BY <3>1, <1>2 DEF Whole
  <2>8. \A k \in 1 .. n : QueueContents'[k] = QueueContents[k]
    BY <2>1, <2>2, <2>3
  <2> QED BY <2>1, <2>2, <2>3, <2>7, <2>8
<1> QED BY <1>3, <1>6, <1>7

\* Freeing the slot at the head takes its message off the queue.
LEMMA FreeRemovesHead ==
    ASSUME IInv, IInv', NoHoles, PollFree
    PROVE  /\ NoHoles' /\ QueueContents # << >>
           /\ received' = Head(QueueContents)
           /\ QueueContents' = Tail(QueueContents)
<1>1. /\ TypeOK /\ TypeOK' /\ poll_index = QueueHead /\ QueueTail \in Slots
      /\ QueueHead \in Slots /\ QueueLen \in 0 .. Size
      /\ descriptor \in [Slots -> {"FREE", "IN_USE"}]
      /\ msg \in [type : Contents, data : Contents]
  BY RingFacts DEF IInv, PollFree, QueueHead, TypeOK
<1>2. /\ descriptor[QueueHead] = "IN_USE"
      /\ msg.type = msg_type[QueueHead] /\ msg.data = msg_data[QueueHead]
  BY <1>1 DEF IInv, PollFree, SlotsClaimed, SlotCopying
<1>3. QueueLen > 0
  BY <1>1, <1>2, HeadSlot
<1>4. /\ QueueTail' = QueueTail /\ QueueHead' = IncLoop(QueueHead)
      /\ descriptor' = [descriptor EXCEPT ![QueueHead] = "FREE"]
      /\ msg_type' = msg_type /\ msg_data' = msg_data /\ received' = msg
  BY <1>1 DEF PollFree, sender, QueueHead, QueueTail
<1>5. QueueHead' \in Slots
  BY <1>1, <1>4, IncLoopInSlots
<1>6. QueueLen' = QueueLen - 1
  <2> DEFINE h == QueueHead
             t == QueueTail
             n == QueueLen
  <2>1. t = IF h + n < Size THEN h + n ELSE h + n - Size
    BY <1>1, RingFacts
  <2>2. QueueLen' = IF IncLoop(h) = t
                    THEN IF descriptor'[IncLoop(h)] = "IN_USE" THEN Size ELSE 0
                    ELSE IF IncLoop(h) < t THEN t - IncLoop(h) ELSE t + Size - IncLoop(h)
    BY <1>4 DEF QueueLen
  <2>3. IncLoop(h) = t => descriptor'[IncLoop(h)] # "IN_USE"
    <3>1. CASE t = h
      BY <1>1, <1>4, <3>1
    <3>2. CASE t # h
      <4> SUFFICES ASSUME IncLoop(h) = t PROVE descriptor[t] # "IN_USE"
        BY <1>1, <1>4, <3>2
      <4>1. n # Size
        BY <1>1, <2>1, <3>2 DEF Slots
      <4> QED BY <1>1, <4>1, TailSlot
    <3> QED BY <3>1, <3>2
  <2>4. h \in Slots /\ t \in Slots /\ n \in 0 .. Size /\ n > 0
    BY <1>1, <1>3
  <2>5. QueueLen' = IF IncLoop(h) = t THEN 0
                    ELSE IF IncLoop(h) < t THEN t - IncLoop(h) ELSE t + Size - IncLoop(h)
    BY <2>2, <2>3
  <2> HIDE DEF h, t, n
  <2>6. QueueLen' = n - 1
    BY <2>1, <2>4, <2>5, SizeAssumption DEF Slots, IncLoop
  <2> QED BY <2>6 DEF n
<1>7. \A k \in Slots : SlotAfterHead(k)' =
          IF k + 1 < Size THEN SlotAfterHead(k + 1) ELSE QueueHead
  <2> DEFINE h == QueueHead
  <2>1. \A k : SlotAfterHead(k)' = IF IncLoop(h) + k < Size THEN IncLoop(h) + k
                                                           ELSE IncLoop(h) + k - Size
    BY <1>4 DEF SlotAfterHead
  <2>2. \A k : SlotAfterHead(k + 1) = IF h + (k + 1) < Size THEN h + (k + 1)
                                                           ELSE h + (k + 1) - Size
    BY DEF SlotAfterHead
  <2>3. h \in Slots
    BY <1>1
  <2> HIDE DEF h
  <2>4. ASSUME NEW k \in Slots
        PROVE  SlotAfterHead(k)' = IF k + 1 < Size THEN SlotAfterHead(k + 1) ELSE h
    <3>1. SlotAfterHead(k)' = IF IncLoop(h) + k < Size THEN IncLoop(h) + k
                                                     ELSE IncLoop(h) + k - Size
      BY <2>1
    <3>2. SlotAfterHead(k + 1) = IF h + (k + 1) < Size THEN h + (k + 1)
                                                     ELSE h + (k + 1) - Size
      BY <2>2
    <3> QED BY <2>3, <3>1, <3>2, SizeAssumption DEF Slots, IncLoop
  <2> QED BY <2>4 DEF h
<1>8. 0 \in Slots /\ SlotAfterHead(0) = QueueHead
  BY <1>1, SizeAssumption DEF Slots, SlotAfterHead
<1>9. NoHoles'
  <2> SUFFICES ASSUME NEW k \in Slots
               PROVE  descriptor'[SlotAfterHead(k)'] = "IN_USE" <=> k < QueueLen - 1
    BY <1>6 DEF NoHoles
  <2>1. CASE k + 1 < Size
    <3>1. k + 1 \in Slots /\ k + 1 # 0
      BY <2>1, SizeAssumption DEF Slots
    <3>2. SlotAfterHead(k + 1) # QueueHead /\ SlotAfterHead(k + 1) \in Slots
      BY <1>1, <1>8, <3>1, SlotAfterHeadInjective, RingFacts
    <3>3. descriptor'[SlotAfterHead(k)'] = descriptor[SlotAfterHead(k + 1)]
      BY <1>1, <1>4, <1>7, <2>1, <3>2
    <3>4. k + 1 < QueueLen <=> k < QueueLen - 1
      BY <1>1 DEF Slots
    <3> QED BY <3>1, <3>3, <3>4 DEF NoHoles
  <2>2. CASE ~(k + 1 < Size)
    <3>1. descriptor'[SlotAfterHead(k)'] = "FREE"
      BY <1>1, <1>4, <1>7, <2>2
    <3>2. ~(k < QueueLen - 1)
      BY <1>1, <2>2, SizeAssumption DEF Slots
    <3> QED BY <3>1, <3>2
  <2> QED BY <2>1, <2>2
<1>10. received' = Head(QueueContents) /\ QueueContents # << >>
  <2>1. QueueContents[1] = [type |-> msg_type[QueueHead], data |-> msg_data[QueueHead]]
    <3>1. 1 \in 1 .. QueueLen /\ 1 - 1 = 0
      BY <1>1, <1>3
    <3> QED BY <3>1, <1>8 DEF QueueContents
  <2>2. msg = [type |-> msg_type[QueueHead], data |-> msg_data[QueueHead]]
    BY <1>1, <1>2
  <2>3. QueueContents # << >> /\ Head(QueueContents) = QueueContents[1]
    BY <1>1, <1>3, SizeAssumption DEF QueueContents
  <2> QED BY <1>4, <2>1, <2>2, <2>3
<1>11. QueueContents' = Tail(QueueContents)
  <2> DEFINE F(k) == [type |-> msg_type[SlotAfterHead(k - 1)],
                      data |-> msg_data[SlotAfterHead(k - 1)]]
             G(k) == [type |-> msg_type[SlotAfterHead(k - 1)'],
                      data |-> msg_data[SlotAfterHead(k - 1)']]
             n == QueueLen
  <2>1. QueueContents = [k \in 1 .. n |-> F(k)]
    BY DEF QueueContents
  <2>2. QueueContents' = [k \in 1 .. n - 1 |-> G(k)]
    BY <1>4, <1>6 DEF QueueContents
  <2>3. ASSUME NEW k \in 1 .. n - 1 PROVE G(k) = F(k + 1)
    <3>1. k - 1 \in Slots /\ (k - 1) + 1 < Size /\ (k - 1) + 1 = k /\ (k + 1) - 1 = k
      BY <1>1, <2>3, SizeAssumption DEF Slots
    <3>2. SlotAfterHead(k - 1)' = SlotAfterHead(k)
      BY <1>7, <3>1
    <3>3. SlotAfterHead((k + 1) - 1) = SlotAfterHead(k)
      BY <3>1
    <3> QED BY <3>2, <3>3
  <2>4. n \in Nat /\ n > 0
    BY <1>1, <1>3, SizeAssumption
  <2> HIDE DEF F, G, n
  <2> QED BY <2>1, <2>2, <2>3, <2>4
<1> QED BY <1>9, <1>10, <1>11

\* Every other step leaves the queue as it is.
LEMMA QueueUnchanged ==
    ASSUME IInv, IInv', NoHoles, [Next]_vars, ~SendMark, ~PollFree
    PROVE  NoHoles' /\ QueueContents' = QueueContents
<1>0. TypeOK
  BY DEF IInv
<1>1. QueueHead' = QueueHead /\ QueueTail' = QueueTail
  BY <1>0 DEF TypeOK, Next, Send, Poll, SendClaim, SendFull, SendType, SendData,
      SendThrows, SendAdvance, PollClaim, PollEmpty, PollType, PollData, PollThrows,
      PollAdvance, vars, sender, receiver, slots, QueueHead, QueueTail
<1>2. descriptor' = descriptor
  BY DEF Next, Send, Poll, SendClaim, SendFull, SendType, SendData, SendThrows,
      SendAdvance, PollClaim, PollEmpty, PollType, PollData, PollThrows, PollAdvance,
      vars, slots
<1>3. ASSUME NEW i \in Slots, descriptor[i] = "IN_USE"
      PROVE  msg_type'[i] = msg_type[i] /\ msg_data'[i] = msg_data[i]
  <2>1. CASE SendType \/ SendData
    <3>1. i # send_index
      BY <1>3, <2>1 DEF IInv, SlotsClaimed, SendType, SendData
    <3> QED BY <1>0, <2>1, <3>1 DEF SendType, SendData, TypeOK
  <2>2. CASE ~(SendType \/ SendData)
    BY <2>2 DEF Next, Send, Poll, SendClaim, SendFull, SendThrows, SendAdvance,
        PollClaim, PollEmpty, PollType, PollData, PollThrows, PollAdvance, vars, slots
  <2> QED BY <2>1, <2>2
<1> QED BY <1>0, <1>1, <1>2, <1>3, SameQueue

\* The new queue has no hole and nothing in it.
LEMMA RingInit == Init => NoHoles /\ QueueContents = << >>
<1> SUFFICES ASSUME Init PROVE NoHoles /\ QueueContents = << >>
  OBVIOUS
<1>1. IInv /\ TypeOK
  BY QueueInit DEF IInv
<1>2. QueueHead = QueueTail /\ QueueHead \in Slots /\ QueueLen = 0
  BY <1>1, RingFacts DEF Init, QueueHead, QueueTail, QueueLen
<1>3. \A k \in Slots : descriptor[SlotAfterHead(k)] = "FREE" /\ ~(k < QueueLen)
  BY <1>1, <1>2, RingFacts DEF Init, Slots
<1>4. QueueContents = << >>
  BY <1>2 DEF QueueContents
<1> QED BY <1>3, <1>4 DEF NoHoles

\* The ring has no hole: one free slot at the index of poll() does mean that
\* the whole queue is empty, as its comment says, and one in use at the index
\* of send() that it is full.
THEOREM RingHasNoHoles == Spec => []NoHoles
<1>1. IInv /\ IInv' /\ NoHoles /\ [Next]_vars => NoHoles'
  BY MarkAppends, FreeRemovesHead, QueueUnchanged
<1> QED BY QueueInvariant, RingInit, <1>1, PTL DEF Spec

\* Each step of the ring is a step of the FIFO or leaves the FIFO as it is.
LEMMA StepImplementsFifo ==
    ASSUME IInv, IInv', NoHoles, [Next]_vars
    PROVE  [Fifo!Next]_(Fifo!vars)
<1>0. TypeOK /\ QueueLen \in 0 .. Size /\ Len(QueueContents) = QueueLen
  <2>1. TypeOK /\ QueueLen \in 0 .. Size
    BY RingFacts DEF IInv
  <2> QED BY <2>1, SizeAssumption DEF QueueContents
<1>1. CASE SendMark
  <2>1. sending \in Messages
    BY <1>1 DEF IInv, SlotFilling, SendMark
  <2>2. Fifo!Send(Whole(sending))
    BY <1>0, <1>1, MarkAppends DEF Fifo!Send, SendMark, receiver
  <2> QED BY <2>1, <2>2 DEF Fifo!Next
<1>2. CASE PollFree
  <2>1. Fifo!Receive
    BY <1>2, FreeRemovesHead DEF Fifo!Receive, PollFree, sender
  <2> QED BY <2>1 DEF Fifo!Next
<1>3. CASE SendFull
  <2>1. QueueLen = Size
    BY <1>0, <1>3, TailSlot DEF SendFull, QueueTail, TypeOK
  <2>2. QueueContents' = QueueContents
    BY <1>3, QueueUnchanged DEF SendFull, SendMark, PollFree, receiver
  <2>3. Fifo!SendRefused
    BY <1>0, <1>3, <2>1, <2>2 DEF Fifo!SendRefused, SendFull, receiver
  <2> QED BY <2>3 DEF Fifo!Next
<1>4. CASE PollEmpty
  <2>1. QueueLen = 0
    BY <1>0, <1>4, HeadSlot, SizeAssumption DEF PollEmpty, QueueHead
  <2>2. QueueContents = << >>
    BY <2>1 DEF QueueContents
  <2>3. QueueContents' = QueueContents
    BY <1>4, QueueUnchanged DEF PollEmpty, SendMark, PollFree, sender
  <2>4. Fifo!FoundEmpty
    BY <1>4, <2>2, <2>3 DEF Fifo!FoundEmpty, PollEmpty, sender
  <2> QED BY <2>4 DEF Fifo!Next
<1>5. CASE ~SendMark /\ ~PollFree /\ ~SendFull /\ ~PollEmpty
  <2>1. QueueContents' = QueueContents
    BY <1>5, QueueUnchanged
  <2>2. received' = received /\ accepted' = accepted /\ found' = found
    BY <1>5 DEF Next, Send, Poll, SendClaim, SendType, SendData, SendThrows,
        SendAdvance, PollClaim, PollType, PollData, PollThrows, PollAdvance, vars,
        sender, receiver
  <2> QED BY <2>1, <2>2 DEF Fifo!vars
<1> QED BY <1>1, <1>2, <1>3, <1>4, <1>5

\* "Messages are sent reliable and in order": for every queue size and every
\* interleaving of the two threads, the ring behaves as a bounded FIFO.
THEOREM QueueImplementsFifo == Spec => ImplementsFifo
<1>1. Init => Fifo!Init
  BY RingInit DEF Init, Fifo!Init, Whole
<1>2. IInv /\ IInv' /\ NoHoles /\ [Next]_vars => [Fifo!Next]_(Fifo!vars)
  BY StepImplementsFifo
<1> QED BY QueueInvariant, RingHasNoHoles, <1>1, <1>2, PTL
        DEF Spec, ImplementsFifo, Fifo!SafeSpec
=============================================================================
