----------------------------- MODULE IdHandles -----------------------------
(***************************************************************************)
(* IdHandle objects of one IdManager (src/common/id_manager.hpp): RAII     *)
(* owners that acquire an id when constructed, exchange it when moved and  *)
(* return it when destroyed. A handle is the id it stores; 0 is a handle   *)
(* that was default-constructed or moved from, whose manager_ is null.     *)
(***************************************************************************)
EXTENDS IdManager

CONSTANT Handles   \* the handle objects (a Player::id member each)

VARIABLES
    manager,   \* the IdManager
    handle,    \* the id each handle stores
    thrown     \* the last operation was a construction that threw "No ids left"

vars == << manager, handle, thrown >>

Held == {handle[h] : h \in Handles} \ {0}

\* ~IdHandle(): the id goes back if there is a manager to take it.
AfterDestroy(m, id) == IF id # 0 THEN AfterReturn(m, id) ELSE m

Init ==
    /\ manager = EmptyManager
    /\ handle = [h \in Handles |-> 0]
    /\ thrown = FALSE

(***************************************************************************)
(* h = IdHandle(manager): the temporary acquires, swaps with h, and is     *)
(* destroyed holding what h held before. The new id is therefore drawn     *)
(* before the old one is back.                                             *)
(***************************************************************************)
Acquire(h) ==
    /\ ~NoIdsLeft(manager)
    /\ handle' = [handle EXCEPT ![h] = AcquiredId(manager)]
    /\ manager' = AfterDestroy(AfterAcquire(manager), handle[h])
    /\ thrown' = FALSE

\* acquire_id() throws out of the temporary's constructor: h keeps its id.
AcquireThrows(h) ==
    /\ NoIdsLeft(manager)
    /\ thrown' = TRUE
    /\ UNCHANGED << manager, handle >>

\* [fault] The moved-from handle keeps its id.
MoveCopies(g, h) ==
    /\ g # h
    /\ handle' = [handle EXCEPT ![g] = handle[h]]
    /\ thrown' = FALSE
    /\ UNCHANGED manager

\* g = std::move(h): the two exchange their ids.
Move(g, h) ==
    /\ g # h
    /\ handle' = [handle EXCEPT ![g] = handle[h], ![h] = handle[g]]
    /\ thrown' = FALSE
    /\ UNCHANGED manager

\* The owner of h goes away.
Destroy(h) ==
    /\ handle[h] # 0
    /\ manager' = AfterDestroy(manager, handle[h])
    /\ handle' = [handle EXCEPT ![h] = 0]
    /\ thrown' = FALSE

Next ==
    \/ \E h \in Handles : Acquire(h)
    \/ \E h \in Handles : AcquireThrows(h)
    \/ \E g, h \in Handles : Move(g, h)
    \/ \E h \in Handles : Destroy(h)

Spec == Init /\ [][Next]_vars

-----------------------------------------------------------------------------
\* The members keep their types, and the counter stays within the id width.
TypeOK ==
    /\ manager \in Managers
    /\ handle \in [Handles -> 0 .. MaxId]
    /\ thrown \in BOOLEAN

\* Two live handles never store the same id, whatever order they were
\* acquired, moved and destroyed in: a player id names one player.
HeldIdsUnique ==
    \A g, h \in Handles : handle[g] # 0 /\ handle[g] = handle[h] => g = h

\* No id is lost and none is issued twice: the stack and the live handles
\* partition 1..new_id. Returning the topmost id lowers the counter without
\* looking at the stack, so nothing above the counter may be on the stack.
IdsAccountedFor == Accounts(manager, Held)

\* "No ids left" is thrown only when every id is in use; ids waiting on the
\* stack below the counter are never overlooked.
ThrowsOnlyWhenExhausted == thrown => Held = Ids
=============================================================================
