-------------------------- MODULE IdManagerProofs --------------------------
(***************************************************************************)
(* Two lemmas on id managers as values, for every id width: acquiring adds *)
(* a new id to the ids in use, returning removes one, and both keep the    *)
(* account of the stack balanced. Whoever owns the ids, handles or         *)
(* players, cites them.                                                    *)
(***************************************************************************)
EXTENDS IdManager, SequenceTheorems, TLAPS

\* acquire_id(), when it does not throw, issues an id that nobody uses.
LEMMA AcquireKeepsAccounts ==
    ASSUME NEW m \in Managers, NEW used \in SUBSET Ids,
           Accounts(m, used), ~NoIdsLeft(m)
    PROVE  /\ AcquiredId(m) \in Ids \ used
           /\ AfterAcquire(m) \in Managers
           /\ Accounts(AfterAcquire(m), used \cup {AcquiredId(m)})
<1> DEFINE n == Len(m.free_ids)
           s == m.free_ids
<1>0. /\ s \in Seq(Ids) /\ m.new_id \in 0 .. MaxId /\ n \in Nat
      /\ m = [new_id |-> m.new_id, free_ids |-> s]
  BY DEF Managers
<1>1. CASE s # << >>
  <2> DEFINE t == SubSeq(s, 1, n - 1)
  <2>1. n >= 1
    BY <1>0, <1>1, EmptySeq
  <2>2. /\ t \in Seq(Ids) /\ Len(t) = n - 1
        /\ \A i \in 1 .. n - 1 : t[i] = s[i]
    <3>1. \A i \in 1 .. n - 1 : s[i] \in Ids
      BY <1>0, <2>1, ElementOfSeq
    <3>2. n - 1 \in Int /\ 1 \in Int /\ (1 <= n - 1 => (n - 1) - 1 + 1 = n - 1)
      BY <1>0
    <3>3. /\ t \in Seq(Ids)
          /\ Len(t) = IF 1 <= n - 1 THEN (n - 1) - 1 + 1 ELSE 0
          /\ \A i \in 1 .. (n - 1) - 1 + 1 : t[i] = s[1 + i - 1]
      BY <3>1, <3>2, SubSeqProperties
    <3>4. (n - 1) - 1 + 1 = n - 1 /\ \A i \in 1 .. n - 1 : 1 + i - 1 = i
      BY <1>0
    <3> HIDE DEF t, s, n
    <3> QED BY <1>0, <2>1, <3>3, <3>4
  <2>3. AfterAcquire(m) = [new_id |-> m.new_id, free_ids |-> t]
    BY <1>0, <1>1 DEF AfterAcquire
  <2>4. AcquiredId(m) = s[n] /\ s[n] \in Ids /\ s[n] \in FreeIds(m)
    BY <1>0, <1>1, <2>1, ElementOfSeq DEF AcquiredId, FreeIds
  <2>5. FreeIds(AfterAcquire(m)) = FreeIds(m) \ {s[n]}
    <3>1. \A i \in 1 .. n - 1 : s[i] # s[n]
      BY <1>0, <2>1 DEF Accounts, NoDuplicates
    <3>2. 1 .. n = (1 .. n - 1) \cup {n}
      BY <2>1, <1>0
    <3> QED BY <2>2, <2>3, <3>1, <3>2 DEF FreeIds
  <2>6. NoDuplicates(t)
    BY <1>0, <2>1, <2>2 DEF Accounts, NoDuplicates
  <2>7. Accounts(AfterAcquire(m), used \cup {s[n]})
    <3>1. /\ AfterAcquire(m).free_ids = t
          /\ AfterAcquire(m).new_id = m.new_id
      BY <2>3
    <3>2. /\ FreeIds(m) \cap used = {}
          /\ FreeIds(m) \cup used = 1 .. m.new_id
      BY DEF Accounts
    <3> HIDE DEF t, s, n
    <3> QED BY <2>4, <2>5, <2>6, <3>1, <3>2 DEF Accounts
  <2>8. AfterAcquire(m) \in Managers
    BY <1>0, <2>2, <2>3 DEF Managers
  <2>9. s[n] \notin used
    BY <2>4 DEF Accounts
  <2> QED BY <2>4, <2>7, <2>8, <2>9
<1>2. CASE s = << >>
  <2>1. AcquiredId(m) = m.new_id + 1 /\ m.new_id < MaxId
    BY <1>0, <1>2, MaxIdAssumption DEF AcquiredId, NoIdsLeft
  <2>2. AfterAcquire(m) = [new_id |-> m.new_id + 1, free_ids |-> << >>]
    BY <1>0, <1>2 DEF AfterAcquire
  <2>3. FreeIds(m) = {} /\ FreeIds(AfterAcquire(m)) = {}
    BY <1>2, <2>2 DEF FreeIds
  <2>4. used = 1 .. m.new_id
    BY <2>3 DEF Accounts
  <2>5. used \cup {m.new_id + 1} = 1 .. m.new_id + 1
    BY <1>0, <2>4
  <2> QED BY <1>0, <2>1, <2>2, <2>3, <2>4, <2>5, MaxIdAssumption
          DEF Accounts, NoDuplicates, Ids, Managers
<1> QED BY <1>1, <1>2

\* return_id() takes an id out of use, and no entry of the stack comes to lie
\* above the lowered counter.
LEMMA ReturnKeepsAccounts ==
    ASSUME NEW m \in Managers, NEW used \in SUBSET Ids,
           Accounts(m, used), NEW id \in used
    PROVE  /\ AfterReturn(m, id) \in Managers
           /\ Accounts(AfterReturn(m, id), used \ {id})
<1> DEFINE n == Len(m.free_ids)
           s == m.free_ids
<1>0. /\ s \in Seq(Ids) /\ m.new_id \in 0 .. MaxId /\ n \in Nat
      /\ m = [new_id |-> m.new_id, free_ids |-> s]
  BY DEF Managers
<1>1. id \in 1 .. m.new_id /\ id \notin FreeIds(m)
  BY DEF Accounts
<1>2. CASE id = m.new_id
  <2>1. AfterReturn(m, id) = [new_id |-> m.new_id - 1, free_ids |-> s]
    BY <1>0, <1>2 DEF AfterReturn
  <2>2. FreeIds(AfterReturn(m, id)) = FreeIds(m)
    BY <2>1 DEF FreeIds
  <2>3. 1 .. m.new_id - 1 = (1 .. m.new_id) \ {id}
    BY <1>0, <1>2
  <2>4. Accounts(AfterReturn(m, id), used \ {id})
    <3>1. /\ AfterReturn(m, id).free_ids = s
          /\ AfterReturn(m, id).new_id = m.new_id - 1
      BY <2>1
    <3> QED BY <1>1, <2>2, <2>3, <3>1 DEF Accounts
  <2>5. m.new_id - 1 \in 0 .. MaxId
    BY <1>0, <1>1, MaxIdAssumption
  <2>6. AfterReturn(m, id) \in Managers
    BY <1>0, <2>1, <2>5 DEF Managers
  <2> QED BY <2>4, <2>6
<1>3. CASE id # m.new_id
  <2> DEFINE t == Append(s, id)
  <2>1. AfterReturn(m, id) = [new_id |-> m.new_id, free_ids |-> t]
    BY <1>0, <1>3 DEF AfterReturn
  <2>2. /\ t \in Seq(Ids) /\ Len(t) = n + 1 /\ t[n + 1] = id
        /\ \A i \in 1 .. n : t[i] = s[i]
    BY <1>0, AppendProperties
  <2>3. 1 .. n + 1 = (1 .. n) \cup {n + 1}
    BY <1>0
  <2>4. FreeIds(AfterReturn(m, id)) = FreeIds(m) \cup {id}
    BY <2>1, <2>2, <2>3 DEF FreeIds
  <2>5. NoDuplicates(t)
    <3>1. \A i \in 1 .. n : s[i] # id
      BY <1>1 DEF FreeIds
    <3> QED BY <1>0, <2>2, <3>1 DEF Accounts, NoDuplicates
  <2>6. Accounts(AfterReturn(m, id), used \ {id})
    <3>1. /\ AfterReturn(m, id).free_ids = t
          /\ AfterReturn(m, id).new_id = m.new_id
      BY <2>1
    <3>2. /\ FreeIds(m) \cap used = {}
          /\ FreeIds(m) \cup used = 1 .. m.new_id
      BY DEF Accounts
    <3> HIDE DEF t, s, n
    <3> QED BY <2>4, <2>5, <3>1, <3>2 DEF Accounts
  <2>7. AfterReturn(m, id) \in Managers
    BY <1>0, <2>1, <2>2 DEF Managers
  <2> QED BY <2>6, <2>7
<1> QED BY <1>2, <1>3
=============================================================================
