----------------------------- MODULE IdProofs ------------------------------
(***************************************************************************)
(* Proofs about the id allocator's handles, for every id width and every   *)
(* set of handles. The lemmas of IdManagerProofs carry the argument.       *)
(***************************************************************************)
EXTENDS IdHandles, IdManagerProofs

\* The inductive invariant: the account of the stack only stays balanced
\* because live handles differ, and they only stay different because the
\* account is balanced.
IInv == TypeOK /\ HeldIdsUnique /\ IdsAccountedFor /\ ThrowsOnlyWhenExhausted

\* No handle holds an id before the first is acquired.
LEMMA HandlesInit == Init => IInv
<1> SUFFICES ASSUME Init PROVE IInv
  OBVIOUS
<1>1. Held = {} /\ Held \in SUBSET Ids
  BY DEF Init, Held
<1>2. /\ manager \in Managers /\ FreeIds(manager) = {}
      /\ manager.new_id = 0 /\ NoDuplicates(manager.free_ids)
  BY MaxIdAssumption DEF Init, EmptyManager, Managers, FreeIds, NoDuplicates
<1>3. handle \in [Handles -> 0 .. MaxId]
  BY MaxIdAssumption DEF Init
<1>4. TypeOK /\ ThrowsOnlyWhenExhausted
  BY <1>2, <1>3 DEF Init, TypeOK, ThrowsOnlyWhenExhausted
<1>5. HeldIdsUnique
  BY DEF Init, HeldIdsUnique
<1>6. IdsAccountedFor
  BY <1>1, <1>2 DEF IdsAccountedFor, Accounts
<1> QED BY <1>4, <1>5, <1>6 DEF IInv

\* A handle that is assigned a new id gives its old one back after that.
LEMMA AcquireKeepsInv ==
    ASSUME IInv, NEW h \in Handles, Acquire(h) PROVE IInv'
<1> DEFINE new == AcquiredId(manager)
           mid == AfterAcquire(manager)
           old == handle[h]
<1>1. /\ manager \in Managers /\ handle \in [Handles -> 0 .. MaxId]
      /\ Accounts(manager, Held) /\ ~NoIdsLeft(manager)
      /\ Held \in SUBSET Ids
  BY MaxIdAssumption DEF IInv, TypeOK, IdsAccountedFor, Acquire, Held, Ids
<1>2. /\ new \in Ids \ Held /\ mid \in Managers
      /\ Accounts(mid, Held \cup {new})
  BY <1>1, AcquireKeepsAccounts
<1>3. handle' = [handle EXCEPT ![h] = new] /\ manager' = AfterDestroy(mid, old)
  BY DEF Acquire
<1>4. new \in 1 .. MaxId /\ new # 0
  BY <1>2 DEF Ids
<1>5. \A g \in Handles : handle[g] # new
  BY <1>2, <1>4 DEF Held
<1>6. Held' = (Held \cup {new}) \ {old}
  <2>1. \A g \in Handles : g # h => (handle[g] # old \/ handle[g] = 0)
    BY <1>1 DEF IInv, HeldIdsUnique
  <2>2. \A g \in Handles : handle'[g] = IF g = h THEN new ELSE handle[g]
    BY <1>1, <1>3
  <2> HIDE DEF new
  <2> QED BY <1>4, <1>5, <2>1, <2>2 DEF Held
<1>7. manager' \in Managers /\ Accounts(manager', Held')
  <2>1. CASE old = 0
    <3>1. 0 \notin Held \cup {new}
      BY <1>4 DEF Held
    <3>2. Held' = Held \cup {new} /\ manager' = mid
      BY <2>1, <3>1, <1>3, <1>6 DEF AfterDestroy
    <3> HIDE DEF new, mid
    <3> QED BY <1>2, <3>2
  <2>2. CASE old # 0
    <3>1. old \in Held \cup {new} /\ Held \cup {new} \in SUBSET Ids
      BY <1>1, <1>2, <2>2 DEF Held
    <3>2. manager' = AfterReturn(mid, old)
      BY <1>3, <2>2 DEF AfterDestroy
    <3> HIDE DEF new, mid, old
    <3> QED BY <1>2, <1>6, <3>1, <3>2, ReturnKeepsAccounts
  <2> QED BY <2>1, <2>2
<1>8. TypeOK' /\ HeldIdsUnique' /\ thrown' = FALSE
  <2> HIDE DEF new
  <2>1. handle' \in [Handles -> 0 .. MaxId]
    BY <1>1, <1>3, <1>4
  <2>2. HeldIdsUnique'
    BY <1>1, <1>3, <1>5 DEF IInv, HeldIdsUnique
  <2>3. thrown' = FALSE
    BY DEF Acquire
  <2> QED BY <1>7, <2>1, <2>2, <2>3 DEF TypeOK
<1> QED BY <1>7, <1>8 DEF IInv, IdsAccountedFor, ThrowsOnlyWhenExhausted

\* A handle that is destroyed gives its id back.
LEMMA DestroyKeepsInv ==
    ASSUME IInv, NEW h \in Handles, Destroy(h) PROVE IInv'
<1>1. /\ manager \in Managers /\ handle \in [Handles -> 0 .. MaxId]
      /\ Accounts(manager, Held) /\ Held \in SUBSET Ids
      /\ handle[h] \in Held
  BY MaxIdAssumption DEF IInv, TypeOK, IdsAccountedFor, Destroy, Held, Ids
<1>2. /\ manager' = AfterReturn(manager, handle[h])
      /\ handle' = [handle EXCEPT ![h] = 0] /\ thrown' = FALSE
  BY DEF Destroy, AfterDestroy
<1>3. Held' = Held \ {handle[h]}
  <2>1. \A g \in Handles : handle'[g] = IF g = h THEN 0 ELSE handle[g]
    BY <1>1, <1>2
  <2> QED BY <2>1 DEF Held, IInv, HeldIdsUnique
<1>4. manager' \in Managers /\ Accounts(manager', Held')
  BY <1>1, <1>2, <1>3, ReturnKeepsAccounts
<1>5. HeldIdsUnique'
  BY <1>1, <1>2 DEF IInv, HeldIdsUnique
<1>6. TypeOK'
  <2>1. handle' \in [Handles -> 0 .. MaxId]
    BY <1>1, <1>2, MaxIdAssumption
  <2> QED BY <1>2, <1>4, <2>1 DEF TypeOK
<1> QED BY <1>2, <1>4, <1>5, <1>6 DEF IInv, IdsAccountedFor, ThrowsOnlyWhenExhausted

\* Moving swaps two handles: the ids in use are the same.
LEMMA MoveKeepsInv ==
    ASSUME IInv, NEW g \in Handles, NEW h \in Handles, Move(g, h) PROVE IInv'
<1>1. handle \in [Handles -> 0 .. MaxId] /\ g # h
  BY DEF IInv, TypeOK, Move
<1>2. \A k \in Handles : handle'[k] = IF k = g THEN handle[h]
                                      ELSE IF k = h THEN handle[g] ELSE handle[k]
  BY <1>1 DEF Move
<1>3. Held' = Held
  <2>1. \A id \in Held : id \in Held'
    BY <1>1, <1>2 DEF Held
  <2>2. \A id \in Held' : id \in Held
    BY <1>1, <1>2 DEF Held
  <2> QED BY <2>1, <2>2
<1>4. HeldIdsUnique'
  BY <1>1, <1>2 DEF IInv, HeldIdsUnique
<1>5. handle' \in [Handles -> 0 .. MaxId]
  BY <1>1 DEF Move
<1> QED BY <1>3, <1>4, <1>5 DEF Move, IInv, TypeOK, IdsAccountedFor,
        ThrowsOnlyWhenExhausted

\* acquire_id() that throws changes nothing.
LEMMA ThrowKeepsInv ==
    ASSUME IInv, NEW h \in Handles, AcquireThrows(h) PROVE IInv'
<1>1. Held' = Held
  BY DEF AcquireThrows, Held
<1>2. Held = Ids
  <2>1. FreeIds(manager) = {} /\ manager.new_id = MaxId
    BY DEF AcquireThrows, NoIdsLeft, FreeIds
  <2> QED BY <2>1 DEF IInv, IdsAccountedFor, Accounts, Ids
<1> QED BY <1>1, <1>2 DEF AcquireThrows, IInv, TypeOK, HeldIdsUnique,
        IdsAccountedFor, ThrowsOnlyWhenExhausted

\* For every id width, any number of handles and any order of constructing,
\* moving and destroying them, the invariant above holds.
THEOREM HandlesInvariant == Spec => []IInv
<1>1. ASSUME IInv, Next PROVE IInv'
  BY <1>1, AcquireKeepsInv, ThrowKeepsInv, MoveKeepsInv, DestroyKeepsInv DEF Next
<1>2. ASSUME IInv, UNCHANGED vars PROVE IInv'
  <2>1. Held' = Held
    BY <1>2 DEF vars, Held
  <2> QED BY <1>2, <2>1 DEF vars, IInv, TypeOK, HeldIdsUnique, IdsAccountedFor,
             ThrowsOnlyWhenExhausted
<1> QED BY <1>1, <1>2, HandlesInit, PTL DEF Spec

\* The members of the manager and of the handles keep their types.
THEOREM HandlesTyped == Spec => []TypeOK
BY HandlesInvariant, PTL DEF IInv

\* A player id names one player: live handles of a manager store distinct ids.
THEOREM LiveIdsUnique == Spec => []HeldIdsUnique
BY HandlesInvariant, PTL DEF IInv

\* No id leaks and none is issued twice.
THEOREM IdsBalanced == Spec => []IdsAccountedFor
BY HandlesInvariant, PTL DEF IInv

\* acquire_id() throws only when every id is in use.
THEOREM ThrowMeansExhausted == Spec => []ThrowsOnlyWhenExhausted
BY HandlesInvariant, PTL DEF IInv
=============================================================================
