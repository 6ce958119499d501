----------------------------- MODULE IdManager -----------------------------
(***************************************************************************)
(* The id allocator of src/common/id_manager.hpp as operators on a value.  *)
(* A manager is a record of its two members: new_id, the highest id handed *)
(* out and not yet taken back from the top, and free_ids, the stack of     *)
(* returned ids below it.                                                  *)
(***************************************************************************)
EXTENDS Naturals, Sequences

CONSTANT MaxId   \* std::numeric_limits<Id>::max()

ASSUME MaxIdAssumption == MaxId \in Nat \ {0}

\* The ids a manager hands out. 0 means "no id".
Ids == 1 .. MaxId

Managers == [new_id : 0 .. MaxId, free_ids : Seq(Ids)]

\* A default-constructed IdManager.
EmptyManager == [new_id |-> 0, free_ids |-> << >>]

\* Definitions marked [fault] are wrong versions of the one that follows them;
\* nothing uses them, they are there to show which property rules them out.

\* [fault] The counter alone decides.
NoIdsLeftIgnoresStack(m) == m.new_id = MaxId
\* acquire_id() throws: nothing to recycle and the counter is at its limit.
NoIdsLeft(m) == m.free_ids = << >> /\ m.new_id = MaxId

\* The id acquire_id() returns, and the manager it leaves behind.
AcquiredId(m) ==
    IF m.free_ids # << >> THEN m.free_ids[Len(m.free_ids)] ELSE m.new_id + 1

AfterAcquire(m) ==
    IF m.free_ids # << >>
    THEN [m EXCEPT !.free_ids = SubSeq(@, 1, Len(@) - 1)]
    ELSE [m EXCEPT !.new_id = @ + 1]

\* [fault] Every returned id lowers the counter, not only the topmost.
AfterReturnLowersAlways(m, id) == [m EXCEPT !.new_id = @ - 1]
\* The manager return_id(id) leaves behind. Only the topmost id lowers the
\* counter; ids already on the stack are not merged back into it.
AfterReturn(m, id) ==
    IF id = m.new_id
    THEN [m EXCEPT !.new_id = @ - 1]
    ELSE [m EXCEPT !.free_ids = Append(@, id)]

(***************************************************************************)
(* The books balance: a stack entry is a distinct id up to new_id, and the *)
(* ids in use are exactly the others.                                      *)
(***************************************************************************)
FreeIds(m) == {m.free_ids[i] : i \in 1 .. Len(m.free_ids)}

NoDuplicates(s) == \A i, j \in 1 .. Len(s) : s[i] = s[j] => i = j

Accounts(m, used) ==
    /\ NoDuplicates(m.free_ids)
    /\ FreeIds(m) \cap used = {}
    /\ FreeIds(m) \cup used = 1 .. m.new_id
=============================================================================
